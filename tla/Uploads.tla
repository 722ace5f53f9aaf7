------------------------------- MODULE Uploads -----------------------------
(***************************************************************************)
(* irmik/upload: Save checks a form's file and writes it under its own     *)
(* name into a directory, where other requests may be saving a file of     *)
(* that name.                                                              *)
(***************************************************************************)
CONSTANTS
    FileNames,      \* names that safeName returns
    Uploaders,      \* requests
    NoFile, Cut     \* no file, and bytes that are not all of an upload

ASSUME UploadAssumption == {NoFile, Cut} \cap Uploaders = {} /\ NoFile # Cut

VARIABLES
    folder,         \* DestDir: whose bytes each name holds
    upload          \* where each request is, the name it saves under

uploadVars == <<folder, upload>>

UploadInit ==
    /\ folder = [n \in FileNames |-> NoFile]
    /\ upload = [u \in Uploaders |-> [at |-> "parse", name |-> NoFile]]

-----------------------------------------------------------------------------
Moves(u, from, to) == upload[u].at = from /\ upload' = [upload EXCEPT ![u].at = to]

(* Parse: too large, not a form, no such field, or a type not allowed;     *)
(* opening the part may fail as well.                                      *)
Refused(u) == Moves(u, "parse", "failed") /\ UNCHANGED folder

\* variant: the file is opened without O_EXCL
FaultyMayCreate(n) == TRUE

MayCreate(n) == folder[n] = NoFile

Creates(u, n) ==
    /\ upload[u].at = "parse" /\ MayCreate(n)
    /\ upload' = [upload EXCEPT ![u] = [at |-> "copy", name |-> n]]
    /\ folder' = [folder EXCEPT ![n] = Cut]

\* The name is taken: nothing is removed.
CreateFails(u, n) ==
    /\ ~MayCreate(n) /\ Moves(u, "parse", "failed")
    /\ UNCHANGED folder

Saved(u) ==
    /\ Moves(u, "copy", "saved")
    /\ folder' = [folder EXCEPT ![upload[u].name] = u]

\* Copy fails, or there are more than MaxBytes.
CopyFails(u) ==
    /\ Moves(u, "copy", "failed")
    /\ folder' = [folder EXCEPT ![upload[u].name] = NoFile]

\* So does the removal, whose error is dropped; or the process ends.
Abandons(u) == Moves(u, "copy", "left") /\ UNCHANGED folder

UploadNext ==
    \E u \in Uploaders :
        \/ Refused(u) \/ Saved(u) \/ CopyFails(u) \/ Abandons(u)
        \/ \E n \in FileNames : Creates(u, n) \/ CreateFails(u, n)

UploadSpec == UploadInit /\ [][UploadNext]_uploadVars

-----------------------------------------------------------------------------
\* Type invariant.
UploadTypes ==
    /\ folder \in [FileNames -> Uploaders \cup {NoFile, Cut}]
    /\ upload \in [Uploaders -> [at : {"parse", "copy", "saved", "failed", "left"},
                                 name : FileNames \cup {NoFile}]]

(* The directory holds the whole file of every request that was told so,   *)
(* and otherwise only files being written, or left by a request that could *)
(* not remove its own: no request overwrites or removes another's, and one *)
(* that fails leaves nothing unless its Remove failed or the process ended *)
(* (upload.go:98-137).                                                     *)
UploadsKept ==
    /\ \A u \in Uploaders : upload[u].at = "saved" => folder[upload[u].name] = u
    /\ \A n \in FileNames : folder[n] = Cut =>
          \E u \in Uploaders : upload[u].at \in {"copy", "left"} /\ upload[u].name = n

=============================================================================
