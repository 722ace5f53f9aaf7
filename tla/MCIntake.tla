------------------------------ MODULE MCIntake -----------------------------
(* Model values and bounds for Intake.                                     *)
EXTENDS Intake, TLC

CONSTANTS root, ed

PolicyModel == (root :> {"read", "write", "delete"}) @@ (ed :> {"read", "write"})

Symmetry == Permutations(Agents)
=============================================================================
