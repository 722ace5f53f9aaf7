---------------------------- MODULE VariantCache ---------------------------
(***************************************************************************)
(* irmik/imagex/pipeline.go: requests for image variants, kept in memory   *)
(* up to a limit and, when CacheDir is set, in a directory.  The mutex     *)
(* guards the memory only; files are read and written outside it.          *)
(*                                                                         *)
(* A key is one source at one width.  A body is the version of the source  *)
(* it was encoded from, or Torn: part of an encoded variant.               *)
(***************************************************************************)
EXTENDS Naturals, Sequences, SequencesExt

CONSTANTS
    Variants,       \* the keys
    Views,          \* requests
    CacheDir,       \* is the directory set?
    MemCacheLimit,  \* memCacheLimit, 64 in the code
    MaxEdits,       \* bound: how often sources change
    Absent,         \* no body
    Torn            \* a file that is not written to its end

Bodies == 0 .. MaxEdits

ASSUME VariantAssumption ==
    /\ CacheDir \in BOOLEAN
    /\ MemCacheLimit \in Nat \ {0} /\ MaxEdits \in Nat
    /\ Absent \notin Bodies \cup {Torn}

Files == Bodies \cup {Absent, Torn}

VARIABLES
    image,      \* the version of each source
    mem,        \* variantCache.mem
    ord,        \* variantCache.ord
    file,       \* the files in CacheDir
    vpc,        \* control state of each request
    vkey, body  \* its key, and the body it holds

view == <<vpc, vkey, body>>
images == <<image, mem, ord, file, view>>

ImageInit ==
    /\ image = [k \in Variants |-> 0]
    /\ mem = [k \in Variants |-> Absent] /\ ord = <<>>
    /\ file = [k \in Variants |-> Absent]
    /\ vpc = [v \in Views |-> "idle"] /\ vkey \in [Views -> Variants]
    /\ body = [v \in Views |-> Absent]

EditImage(k) ==
    /\ image[k] < MaxEdits
    /\ image' = [image EXCEPT ![k] = @ + 1]
    /\ UNCHANGED <<mem, ord, file, view>>

(* The process ends, also in the middle of a write, and starts again.      *)
ServerRestarts ==
    /\ mem' = [k \in Variants |-> Absent] /\ ord' = <<>>
    /\ vpc' = [v \in Views |-> "idle"] /\ body' = [v \in Views |-> Absent]
    /\ UNCHANGED <<image, file, vkey>>

-----------------------------------------------------------------------------
GoOn(v, from, to) == vpc[v] = from /\ vpc' = [vpc EXCEPT ![v] = to]

Answer(v, from) == GoOn(v, from, "idle") /\ body' = [body EXCEPT ![v] = Absent]

(* serve, up to cache.get: the width is allowed and the source is there.   *)
View(v, k) ==
    /\ GoOn(v, "idle", "get")
    /\ vkey' = [vkey EXCEPT ![v] = k]
    /\ UNCHANGED <<image, mem, ord, file, body>>

GetHits(v) ==
    /\ mem[vkey[v]] # Absent
    /\ Answer(v, "get")
    /\ UNCHANGED <<image, mem, ord, file, vkey>>

GetMisses(v) ==
    /\ mem[vkey[v]] = Absent
    /\ GoOn(v, "get", IF CacheDir THEN "read" ELSE "encode")
    /\ UNCHANGED <<image, mem, ord, file, vkey, body>>

ReadFile(v) ==
    /\ GoOn(v, "read", IF file[vkey[v]] = Absent THEN "encode" ELSE "keep")
    /\ body' = [body EXCEPT ![v] = file[vkey[v]]]
    /\ UNCHANGED <<image, mem, ord, file, vkey>>

(* Open and Transform; one that fails is answered with an error.           *)
Encode(v) ==
    /\ GoOn(v, "encode", "set")
    /\ body' = [body EXCEPT ![v] = image[vkey[v]]]
    /\ UNCHANGED <<image, mem, ord, file, vkey>>

EncodeFails(v) ==
    /\ Answer(v, "encode")
    /\ UNCHANGED <<image, mem, ord, file, vkey>>

-----------------------------------------------------------------------------
(* remember, under the mutex: a new key pushes the oldest one out of a     *)
(* full memory.                                                            *)

Known(k) == mem[k] # Absent

(* Variant of the next definition: a key that is there is appended again.  *)
FaultyRemember(k, b) ==
    LET full == ~Known(k) /\ Len(ord) >= MemCacheLimit
        kept == IF full THEN [mem EXCEPT ![Head(ord)] = Absent] ELSE mem
    IN  /\ mem' = [kept EXCEPT ![k] = b]
        /\ ord' = Append(IF full THEN Tail(ord) ELSE ord, k)

Remember(k, b) ==
    LET full == ~Known(k) /\ Len(ord) >= MemCacheLimit
        kept == IF full THEN [mem EXCEPT ![Head(ord)] = Absent] ELSE mem
        left == IF full THEN Tail(ord) ELSE ord
    IN  /\ mem' = [kept EXCEPT ![k] = b]
        /\ ord' = IF Known(k) THEN left ELSE Append(left, k)

Keep(v) ==
    /\ Answer(v, "keep")
    /\ Remember(vkey[v], body[v])
    /\ UNCHANGED <<image, file, vkey>>

Set(v) ==
    /\ IF CacheDir THEN GoOn(v, "set", "open") /\ UNCHANGED body ELSE Answer(v, "set")
    /\ Remember(vkey[v], body[v])
    /\ UNCHANGED <<image, file, vkey>>

-----------------------------------------------------------------------------
(* os.WriteFile opens and truncates the file, then writes to it.           *)

OpenFile(v) ==
    /\ GoOn(v, "open", "write")
    /\ file' = [file EXCEPT ![vkey[v]] = Torn]
    /\ UNCHANGED <<image, mem, ord, vkey, body>>

(* Two writers of one file may leave parts of both: the second, when it is *)
(* shorter, the tail of the first.                                         *)
WriteFile(v) ==
    /\ Answer(v, "write")
    /\ \E b \in {body[v], Torn} : file' = [file EXCEPT ![vkey[v]] = b]
    /\ UNCHANGED <<image, mem, ord, vkey>>

(* The directory cannot be made, or the disk is full: the error is dropped,*)
(* and a file that was opened stays as it is.                              *)
WriteFails(v) ==
    /\ Answer(v, "open") \/ Answer(v, "write")
    /\ UNCHANGED <<image, mem, ord, file, vkey>>

-----------------------------------------------------------------------------
Serve(v) ==
    \/ GetHits(v) \/ GetMisses(v) \/ ReadFile(v) \/ Encode(v) \/ EncodeFails(v)
    \/ Keep(v) \/ Set(v) \/ OpenFile(v) \/ WriteFile(v) \/ WriteFails(v)

ImageNext ==
    \/ ServerRestarts
    \/ \E k \in Variants : EditImage(k)
    \/ \E v \in Views : Serve(v) \/ \E k \in Variants : View(v, k)

ImageSpec == ImageInit /\ [][ImageNext]_images

-----------------------------------------------------------------------------
ImageTypes ==
    /\ image \in [Variants -> Bodies]
    /\ mem \in [Variants -> Files] /\ ord \in Seq(Variants)
    /\ file \in [Variants -> Files]
    /\ vpc \in [Views -> {"idle", "get", "read", "keep", "encode", "set", "open", "write"}]
    /\ vkey \in [Views -> Variants] /\ body \in [Views -> Files]

(* What is in memory is what the order lists, once each, and never more    *)
(* than the limit, whichever requests remember what at once                *)
(* (pipeline.go:409-419): a key listed twice would be pushed out while it  *)
(* is new, one that is not listed would stay for ever.                     *)
MemoryBounded ==
    /\ IsInjective(ord) /\ Len(ord) <= MemCacheLimit
    /\ ToSet(ord) = {k \in Variants : mem[k] # Absent}

=============================================================================
