---------------------------- MODULE MCDevReload ----------------------------
(* Model values and bounds for DevReload.                                  *)
EXTENDS DevReload, TLC

CONSTANT page

OnePage == <<page>>

=============================================================================
