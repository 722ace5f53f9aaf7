-------------------------------- MODULE Intake -----------------------------
(***************************************************************************)
(* What a request may bring into a server: the rate limiter that admits    *)
(* it, the file it uploads, the objects its handler stores and the rows it *)
(* edits.  They share nothing: a behaviour uses one of them.               *)
(***************************************************************************)
EXTENDS RateLimiter, BlobStore, Uploads, AdminApp

VARIABLE part       \* "limiter", "blobs", "uploads" or "items"

IntakeInit ==
    /\ Init /\ BlobInit /\ UploadInit /\ AdminInit
    /\ part \in {"limiter", "blobs", "uploads", "items"}
    /\ part # "limiter" => seen = CHOOSE w \in Windows : TRUE
    /\ part # "blobs" => medium = "local"
    /\ part # "items" => via = [a \in Agents |-> "ui"]

IntakeNext ==
    /\ UNCHANGED part
    /\ \/ part = "limiter" /\ Next /\ UNCHANGED <<blobVars, uploadVars, adminVars>>
       \/ part = "blobs" /\ BlobNext /\ UNCHANGED <<vars, uploadVars, adminVars>>
       \/ part = "uploads" /\ UploadNext /\ UNCHANGED <<vars, blobVars, adminVars>>
       \/ part = "items" /\ AdminNext /\ UNCHANGED <<vars, blobVars, uploadVars>>

IntakeSpec == IntakeInit /\ [][IntakeNext]_<<part, vars, blobVars, uploadVars, adminVars>>

=============================================================================
