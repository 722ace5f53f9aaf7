----------------------------- MODULE MCBrowsers ----------------------------
(* Model values and bounds for Browsers.                                   *)
EXTENDS Browsers, TLC

CONSTANTS c1, c2, r1, r2, r3

(* Two requests of one browser at a time, and one of another.              *)
TwoTabsAndAnother == [r \in {r1, r2, r3} |-> IF r = r3 THEN c2 ELSE c1]

Symmetry == Permutations(Ids) \cup Permutations({r1, r2})

=============================================================================
