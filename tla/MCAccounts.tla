----------------------------- MODULE MCAccounts ----------------------------
(* Model values and bounds for Accounts.                                   *)
EXTENDS Accounts, TLC

CONSTANTS amy, admin, editor, padded, read, write, other

\* "padded" is the editor's name with blanks around it, as a claim has it.
TrimModel ==
    [n \in RoleNames \cup PermNames \cup {Blank} |-> IF n = padded THEN editor ELSE n]

PresetsModel == (admin :> <<read, write>>) @@ (editor :> <<read>>)

TokenRolesModel == amy :> {padded}

Flags == {-1, 0, 1}

\* a migration of another branch, made in the first second
OneLate == {[version |-> 1, name |-> other]}

Symmetry ==
    Permutations(Ids) \cup Permutations(Calls) \cup Permutations(Admins)

=============================================================================
