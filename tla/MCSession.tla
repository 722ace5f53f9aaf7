----------------------------- MODULE MCSession -----------------------------
(* Model values and bounds for Session.                                    *)
EXTENDS Session

CONSTANTS c1, r1

OneRequest == [r \in {r1} |-> c1]

=============================================================================
