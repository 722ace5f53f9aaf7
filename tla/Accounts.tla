------------------------------ MODULE Accounts -----------------------------
(***************************************************************************)
(* What decides what a client may do: its refresh tokens, and the policy   *)
(* of roles and permissions; and the schema of the database both are kept  *)
(* in.  They share nothing here: a behaviour uses one.                     *)
(***************************************************************************)
EXTENDS RefreshTokens, Rbac, Migrations

VARIABLE area       \* "tokens", "policy" or "schema"

AccountsInit ==
    /\ Init /\ RbacInit /\ MigrateInit
    /\ area \in {"tokens", "policy", "schema"} /\ (area # "policy" => backend = "memory")

AccountsNext ==
    /\ UNCHANGED area
    /\ \/ area = "tokens" /\ Next /\ UNCHANGED <<rbacVars, migrateVars>>
       \/ area = "policy" /\ RbacNext /\ UNCHANGED <<vars, migrateVars>>
       \/ area = "schema" /\ MigrateNext /\ UNCHANGED <<vars, rbacVars>>

AccountsSpec == AccountsInit /\ [][AccountsNext]_<<area, vars, rbacVars, migrateVars>>

=============================================================================
