------------------------------ MODULE MCServer -----------------------------
(* Model values and bounds for Server.                                     *)
EXTENDS Server

CONSTANT utc

OneZone == [j \in CronJobs |-> utc]

=============================================================================
