------------------------------ MODULE BlobStore ----------------------------
(***************************************************************************)
(* irmik/storage over a directory (Local) and over S3 (s3x).  A Local      *)
(* object is two files, the data and its content type, and each system     *)
(* call is a step that may fail, or be the last of its process.  An S3     *)
(* request is a step of its own.  An object's bytes and type are named by  *)
(* the caller that gave them.                                              *)
(***************************************************************************)
CONSTANTS
    Blobs,          \* keys that resolve accepts
    Writers,        \* callers of Put and Delete
    Absent,         \* no file
    Mixed,          \* what several callers wrote, or only a part of one's
    Unknown         \* no claim about a key

ASSUME BlobAssumption ==
    /\ {Absent, Mixed, Unknown} \cap Writers = {} /\ Absent \notin {Mixed, Unknown}
    /\ Absent \notin Blobs

VARIABLES
    medium,         \* "local" or "s3"
    bytes,          \* the data of each key
    ctype,          \* its content type
    writer,         \* what each caller is doing
    fresh,          \* no other call met the caller's on its key so far
    promised        \* what the last call on a key, if alone, did there

blobVars == <<medium, bytes, ctype, writer, fresh, promised>>

AtRest == [at |-> "idle", key |-> Absent]

\* Of the data and of the sidecar: whose they are, if the call can say.
Claim(d, t) == [data |-> d, type |-> t]

Nothing == Claim(Unknown, Unknown)

BlobInit ==
    /\ medium \in {"local", "s3"}
    /\ bytes = [k \in Blobs |-> Absent] /\ ctype = [k \in Blobs |-> Absent]
    /\ writer = [c \in Writers |-> AtRest]
    /\ fresh = [c \in Writers |-> TRUE]
    /\ promised = [k \in Blobs |-> Claim(Absent, Absent)]

-----------------------------------------------------------------------------
Busy(k) == \E c \in Writers : writer[c].key = k

\* A call begins; it and those under way on the key have met.
Enter(c, k, at) ==
    /\ writer[c].at = "idle"
    /\ writer' = [writer EXCEPT ![c] = [at |-> at, key |-> k]]
    /\ fresh' = [d \in Writers |-> IF d = c THEN ~Busy(k) ELSE fresh[d] /\ writer[d].key # k]
    /\ promised' = [promised EXCEPT ![k] = Nothing]

Goes(c, from, to) ==
    /\ writer[c].at = from /\ writer' = [writer EXCEPT ![c].at = to]
    /\ UNCHANGED <<medium, fresh, promised>>

\* The call returns, and has left there what it claims.
Leave(c, from, claim) ==
    /\ writer[c].at = from /\ writer' = [writer EXCEPT ![c] = AtRest]
    /\ promised' = [promised EXCEPT ![writer[c].key] = IF fresh[c] THEN claim ELSE Nothing]
    /\ UNCHANGED <<medium, fresh>>

\* It returns an error, its answer is lost or its process ends.
GivesUp(c) ==
    /\ writer[c].at # "idle" /\ writer' = [writer EXCEPT ![c] = AtRest]
    /\ UNCHANGED <<medium, bytes, ctype, fresh, promised>>

-----------------------------------------------------------------------------
(* Local.Put: the file is opened and truncated, written, closed; then its  *)
(* sidecar.                                                                *)

PutOpens(c, k) ==
    /\ medium = "local" /\ Enter(c, k, "copy")
    /\ bytes' = [bytes EXCEPT ![k] = Mixed]
    /\ UNCHANGED <<medium, ctype>>

\* Another call on the key in between leaves bytes of both, or no file.
PutCopies(c) ==
    LET k == writer[c].key
    IN  /\ Goes(c, "copy", "sidecar")
        /\ bytes' = [bytes EXCEPT ![k] = IF @ = Absent THEN Absent ELSE IF fresh[c] THEN c ELSE Mixed]
        /\ UNCHANGED ctype

\* A sidecar written while another call was at it may be a part of each.
PutSidecar(c) ==
    /\ Leave(c, "sidecar", Claim(c, c))
    /\ \E t \in {c} \cup (IF fresh[c] THEN {} ELSE {Mixed}) :
          ctype' = [ctype EXCEPT ![writer[c].key] = t]
    /\ UNCHANGED bytes

\* The error of WriteFile is dropped: the type of an older object may stay.
SidecarFails(c) ==
    /\ Leave(c, "sidecar", Claim(c, Unknown))
    /\ ctype' \in {ctype, [ctype EXCEPT ![writer[c].key] = Mixed]}
    /\ UNCHANGED bytes

(* Local.Delete: the data, then the sidecar; ErrNotFound without data.     *)

DeleteData(c, k) ==
    /\ medium = "local" /\ bytes[k] # Absent
    /\ Enter(c, k, "unlink")
    /\ bytes' = [bytes EXCEPT ![k] = Absent]
    /\ UNCHANGED <<medium, ctype>>

\* Remove fails: the sidecar is removed all the same.
DeleteFails(c, k) ==
    /\ medium = "local" /\ Enter(c, k, "failed")
    /\ UNCHANGED <<medium, bytes, ctype>>

\* variant: the sidecar is left
FaultyUnlinked(k) == ctype

Unlinked(k) == [ctype EXCEPT ![k] = Absent]

DeleteSidecar(c) ==
    /\ Leave(c, "unlink", Claim(Absent, Absent)) \/ Leave(c, "failed", Nothing)
    /\ ctype' = Unlinked(writer[c].key)
    /\ UNCHANGED bytes

\* The error of its Remove is dropped: Delete returns nil, the type stays.
SidecarStays(c) ==
    /\ Leave(c, "unlink", Claim(Absent, Unknown)) \/ Leave(c, "failed", Nothing)
    /\ UNCHANGED <<bytes, ctype>>

-----------------------------------------------------------------------------
(* s3x: PutObject and DeleteObject replace an object as a whole; Put then  *)
(* asks for its size and takes any answer.                                 *)

S3Put(c, k) ==
    /\ medium = "s3" /\ Enter(c, k, "head")
    /\ bytes' = [bytes EXCEPT ![k] = c] /\ ctype' = [ctype EXCEPT ![k] = c]
    /\ UNCHANGED medium

S3Head(c) == Leave(c, "head", Claim(c, c)) /\ UNCHANGED <<bytes, ctype>>

S3Delete(c, k) ==
    /\ medium = "s3" /\ Enter(c, k, "deleted")
    /\ bytes' = [bytes EXCEPT ![k] = Absent] /\ ctype' = [ctype EXCEPT ![k] = Absent]
    /\ UNCHANGED medium

S3Deleted(c) == Leave(c, "deleted", Claim(Absent, Absent)) /\ UNCHANGED <<bytes, ctype>>

-----------------------------------------------------------------------------
\* What Get and Stat find, Absent data being ErrNotFound: Local takes the
\* sidecar of whatever data there is.
Stat(k) == [data |-> bytes[k], type |-> ctype[k]]

BlobNext ==
    \E c \in Writers :
        \/ GivesUp(c) \/ PutCopies(c) \/ PutSidecar(c) \/ SidecarFails(c)
        \/ DeleteSidecar(c) \/ SidecarStays(c) \/ S3Head(c) \/ S3Deleted(c)
        \/ \E k \in Blobs : \/ PutOpens(c, k) \/ DeleteData(c, k) \/ DeleteFails(c, k)
                           \/ S3Put(c, k) \/ S3Delete(c, k)

BlobSpec == BlobInit /\ [][BlobNext]_blobVars

-----------------------------------------------------------------------------
\* Type invariant.
BlobTypes ==
    /\ medium \in {"local", "s3"}
    /\ bytes \in [Blobs -> Writers \cup {Absent, Mixed}]
    /\ ctype \in [Blobs -> Writers \cup {Absent, Mixed}]
    /\ \A c \in Writers :
          /\ writer[c].at \in {"idle", "copy", "sidecar", "unlink", "failed", "head", "deleted"}
          /\ writer[c].key \in Blobs \cup {Absent}
    /\ fresh \in [Writers -> BOOLEAN]
    /\ promised \in [Blobs -> [data : Writers \cup {Absent, Unknown},
                              type : Writers \cup {Absent, Unknown}]]

(* When the last call on a key met no other and returned nil, Stat and Get *)
(* find its object, or none, whatever earlier calls failed, stopped or     *)
(* raced on the key; and if its own step on the sidecar succeeded, whose   *)
(* error both calls drop, the type is the one it gave, and a delete has    *)
(* left none for the next object (storage.go:62-141, s3x.go:73-131).       *)
LastCallHolds ==
    \A k \in Blobs :
        LET last == promised[k]
            found == Stat(k)
        IN  last.data \in {found.data, Unknown} /\ last.type \in {found.type, Unknown}

=============================================================================
