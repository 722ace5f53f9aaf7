-------------------------------- MODULE Rbac -------------------------------
(***************************************************************************)
(* Roles and permissions: the tables of irmik/rbac/store (memory.go and    *)
(* sql.go), the seeding of the presets, the Registry that LoadRegistry     *)
(* builds from the tables, and the guards that ask it.  Each statement of  *)
(* the SQL store and each critical section of the memory store is a step;  *)
(* nothing joins the statements of one call in a transaction.              *)
(***************************************************************************)
EXTENDS Naturals, Sequences

CONSTANTS
    People,         \* user ids
    RoleNames, PermNames,   \* names as callers write them
    Trim,           \* strings.TrimSpace on names
    Blank,          \* the empty name
    Presets,        \* PresetPermissions: the permissions of a role, in order
    TokenRoles,     \* auth.User.Roles of each user, as the claims have them
    Admins,         \* goroutines and instances that use the store
    MaxStoreCalls,       \* bound: calls of the store's functions
    MaxOverlays     \* bound: calls of the Registry's own functions

ProperRoles == {n \in RoleNames : Trim[n] = n /\ n # Blank}
ProperPerms == {n \in PermNames : Trim[n] = n /\ n # Blank}

ASSUME RbacAssumption ==
    /\ MaxStoreCalls \in Nat /\ MaxOverlays \in Nat
    /\ \A n \in RoleNames : Trim[n] \in ProperRoles \cup {Blank}
    /\ \A n \in PermNames : Trim[n] \in ProperPerms \cup {Blank}
    /\ DOMAIN Presets \subseteq ProperRoles
    /\ \A r \in DOMAIN Presets : Presets[r] \in Seq(ProperPerms)
    /\ TokenRoles \in [People -> SUBSET RoleNames]

VARIABLES
    backend,        \* "sql" or "memory"
    schema,         \* the tables exist
    roles, permissions, rolePerms, userRoles,   \* the tables
    registry,       \* the Registry the guards ask
    call,           \* the call each caller is in
    storeCalls, overlays \* calls so far

tables == <<roles, permissions, rolePerms, userRoles>>
rbacVars == <<backend, schema, tables, registry, call, storeCalls, overlays>>

(* at: the statement to come.  left and rest: the presets not yet begun    *)
(* and what remains of the current one.  read: what RolePermissions        *)
(* returned; floor: the permissions users had in that state.               *)
Idle == [at |-> "idle", seeding |-> FALSE, role |-> Blank, perm |-> Blank, user |-> {},
         left |-> {}, rest |-> << >>, read |-> {}, floor |-> {}]

EmptyRegistry == [roles |-> {}, rolePerms |-> {}, userRoles |-> {}, userPerms |-> {}]

RbacInit ==
    /\ backend \in {"sql", "memory"} /\ schema = (backend = "memory")
    /\ roles = {} /\ permissions = {} /\ rolePerms = {} /\ userRoles = {}
    /\ registry = EmptyRegistry
    /\ call = [a \in Admins |-> Idle]
    /\ storeCalls = 0 /\ overlays = 0

\* The permissions of users, by their roles: pairs of user and permission.
Held(grants, members) ==
    {h \in People \X PermNames : \E r \in RoleNames : <<h[1], r>> \in members /\ <<r, h[2]>> \in grants}

-----------------------------------------------------------------------------
(* Calls.  Names are trimmed on entry; blank ones are ignored.             *)

Begin(a, c) ==
    /\ call[a].at = "idle" /\ storeCalls < MaxStoreCalls
    /\ storeCalls' = storeCalls + 1
    /\ call' = [call EXCEPT ![a] = c]
    /\ UNCHANGED <<backend, schema, tables, registry, overlays>>

SeedPresets(a) ==
    Begin(a, [Idle EXCEPT !.at = "schema", !.seeding = TRUE, !.left = DOMAIN Presets])

\* In memory one critical section enters the row and what it refers to.
FirstOf(statement) == IF backend = "sql" THEN statement ELSE "row"

Grant(a, r, p) ==
    /\ Trim[r] # Blank /\ Trim[p] # Blank
    /\ Begin(a, [Idle EXCEPT !.at = FirstOf("grantRole"), !.role = Trim[r], !.perm = Trim[p]])

AssignRole(a, u, r) ==
    /\ Trim[r] # Blank
    /\ Begin(a, [Idle EXCEPT !.at = FirstOf("assignRole"), !.role = Trim[r], !.user = {u}])

LoadRegistry(a) == Begin(a, [Idle EXCEPT !.at = "readPerms"])

-----------------------------------------------------------------------------
(* Statements.                                                             *)

Goes(a, from, c) ==
    /\ call[a].at = from /\ call' = [call EXCEPT ![a] = c]
    /\ UNCHANGED <<backend, storeCalls, overlays>>

EnsureSchema(a) ==
    /\ Goes(a, "schema", [call[a] EXCEPT !.at = "seedRole"])
    /\ schema' = TRUE
    /\ UNCHANGED <<tables, registry>>

\* The loop over the presets takes the roles in any order.
SeedRole(a) ==
    \E r \in call[a].left :
        /\ Goes(a, "seedRole", [call[a] EXCEPT !.at = "seedPerm", !.role = r,
                                    !.left = @ \ {r}, !.rest = Presets[r]])
        /\ roles' = roles \cup {r}
        /\ UNCHANGED <<schema, permissions, rolePerms, userRoles, registry>>

SeedPerm(a) ==
    LET p == Head(call[a].rest)
    IN  /\ call[a].rest # << >>
        /\ Goes(a, "seedPerm", [call[a] EXCEPT !.at = FirstOf("grantRole"),
                                    !.perm = p, !.rest = Tail(@)])
        /\ permissions' = permissions \cup {p}
        /\ UNCHANGED <<schema, roles, rolePerms, userRoles, registry>>

SeedReturns(a) ==
    /\ call[a].rest = << >>
    /\ Goes(a, "seedPerm", IF call[a].left = {} THEN Idle
                           ELSE [call[a] EXCEPT !.at = "seedRole"])
    /\ UNCHANGED <<schema, tables, registry>>

\* UpsertRole, at the start of Grant and of AssignRole.
InsertRole(a) ==
    /\ \/ Goes(a, "grantRole", [call[a] EXCEPT !.at = "grantPerm"])
       \/ Goes(a, "assignRole", [call[a] EXCEPT !.at = "row"])
    /\ schema
    /\ roles' = roles \cup {call[a].role}
    /\ UNCHANGED <<schema, permissions, rolePerms, userRoles, registry>>

InsertPermission(a) ==
    /\ Goes(a, "grantPerm", [call[a] EXCEPT !.at = "row"])
    /\ schema
    /\ permissions' = permissions \cup {call[a].perm}
    /\ UNCHANGED <<schema, roles, rolePerms, userRoles, registry>>

\* variant: the memory store enters the row only
FaultyRefers(c) == [roles |-> {}, permissions |-> {}]

\* What the memory store enters along with a row.
Refers(c) ==
    [roles       |-> IF backend = "memory" THEN {c.role} ELSE {},
     permissions |-> IF backend = "memory" /\ c.user = {} THEN {c.perm} ELSE {}]

InsertRow(a) ==
    LET c == call[a]
    IN  /\ Goes(a, "row", IF c.seeding THEN [c EXCEPT !.at = "seedPerm"] ELSE Idle)
        /\ schema
        /\ roles' = roles \cup Refers(c).roles
        /\ permissions' = permissions \cup Refers(c).permissions
        /\ IF c.user = {}
           THEN rolePerms' = rolePerms \cup {<<c.role, c.perm>>} /\ UNCHANGED userRoles
           ELSE userRoles' = userRoles \cup (c.user \X {c.role}) /\ UNCHANGED rolePerms
        /\ UNCHANGED <<schema, registry>>

\* RolePermissions, the first query of LoadRegistry.
ReadPerms(a) ==
    /\ Goes(a, "readPerms", [call[a] EXCEPT !.at = "readUsers", !.read = rolePerms,
                                 !.floor = Held(rolePerms, userRoles)])
    /\ schema
    /\ UNCHANGED <<schema, tables, registry>>

\* variant: a load adds to the Registry in use
FaultyBuilt(grants, members) ==
    [registry EXCEPT !.roles = @ \cup {Trim[g[1]] : g \in grants},
                     !.rolePerms = @ \cup {<<Trim[g[1]], Trim[g[2]]>> : g \in grants},
                     !.userRoles = @ \cup members]

\* GrantRolePermissions and AssignRoles on the way from rows to a Registry.
Built(grants, members) ==
    [EmptyRegistry EXCEPT !.roles = {Trim[g[1]] : g \in grants},
                          !.rolePerms = {<<Trim[g[1]], Trim[g[2]]>> : g \in grants},
                          !.userRoles = members]

\* UserRoles, the second query; the Registry is returned.
ReadUsers(a) ==
    /\ Goes(a, "readUsers", Idle)
    /\ registry' = Built(call[a].read, userRoles)
    /\ UNCHANGED <<schema, tables>>

\* A statement fails, or the caller dies: the rest of the call is dropped.
Fails(a) ==
    /\ backend = "sql" /\ call[a].at # "idle"
    /\ call' = [call EXCEPT ![a] = Idle]
    /\ UNCHANGED <<backend, schema, tables, registry, storeCalls, overlays>>

-----------------------------------------------------------------------------
(* The Registry's own functions: a critical section each.                  *)

Overlay(r) ==
    /\ overlays < MaxOverlays /\ overlays' = overlays + 1
    /\ registry' = r
    /\ UNCHANGED <<backend, schema, tables, call, storeCalls>>

\* variant: names are taken as they are written
FaultyTrimmed(n) == n

Trimmed(n) == Trim[n]

\* The role becomes known even if no permission is given.
GrantRolePermissions(r, perms) ==
    /\ Trimmed(r) # Blank
    /\ Overlay([registry EXCEPT !.roles = @ \cup {Trimmed(r)},
                    !.rolePerms = @ \cup ({Trimmed(r)} \X ({Trimmed(p) : p \in perms} \ {Blank}))])

\* These two do not trim.
AssignRoles(u, r) == Overlay([registry EXCEPT !.userRoles = @ \cup {<<u, r>>}])
GrantUserPermissions(u, p) == Overlay([registry EXCEPT !.userPerms = @ \cup {<<u, p>>}])

PermissionsFor(r) == {p \in PermNames : <<Trim[r], p>> \in registry.rolePerms}

AssignedTo(u) == {r \in RoleNames : <<u, r>> \in registry.userRoles}

RolesFor(u) == {Trim[r] : r \in TokenRoles[u] \cup AssignedTo(u)} \ {Blank}

HasRole(u, r) == r \in RolesFor(u)

\* The roles are looked up as they are written.
HasPermission(u, p) ==
    \/ <<u, p>> \in registry.userPerms
    \/ \E r \in TokenRoles[u] \cup AssignedTo(u) : <<r, p>> \in registry.rolePerms

\* The status a guard answers; users is empty without authentication.
RequireRole(users, allowed) ==
    IF users = {} THEN 401
    ELSE IF \E u \in users, r \in allowed : HasRole(u, r) THEN 200 ELSE 403

RequireAnyPermission(users, allowed) ==
    IF users = {} THEN 401
    ELSE IF \E u \in users, p \in allowed : HasPermission(u, p) THEN 200 ELSE 403

-----------------------------------------------------------------------------
Statement(a) ==
    \/ EnsureSchema(a) \/ SeedRole(a) \/ SeedPerm(a) \/ SeedReturns(a)
    \/ InsertRole(a) \/ InsertPermission(a) \/ InsertRow(a)
    \/ ReadPerms(a) \/ ReadUsers(a) \/ Fails(a)

RbacNext ==
    \/ \E a \in Admins :
          \/ SeedPresets(a) \/ LoadRegistry(a) \/ Statement(a)
          \/ \E r \in RoleNames, p \in PermNames : Grant(a, r, p)
          \/ \E u \in People, r \in RoleNames : AssignRole(a, u, r)
    \/ \E r \in RoleNames, perms \in SUBSET PermNames : GrantRolePermissions(r, perms)
    \/ \E u \in People, r \in RoleNames : AssignRoles(u, r)
    \/ \E u \in People, p \in PermNames : GrantUserPermissions(u, p)

RbacSpec == RbacInit /\ [][RbacNext]_rbacVars

-----------------------------------------------------------------------------
\* Type invariant of the tables and of the Registry.
RbacTypes ==
    /\ backend \in {"sql", "memory"} /\ schema \in BOOLEAN
    /\ roles \subseteq ProperRoles /\ permissions \subseteq ProperPerms
    /\ rolePerms \subseteq ProperRoles \X ProperPerms /\ userRoles \subseteq People \X ProperRoles
    /\ registry \in [roles : SUBSET ProperRoles, rolePerms : SUBSET (ProperRoles \X ProperPerms),
                     userRoles : SUBSET (People \X RoleNames), userPerms : SUBSET (People \X PermNames)]
    /\ call \in [Admins -> [at : {"idle", "schema", "seedRole", "seedPerm", "grantRole",
                                  "grantPerm", "assignRole", "row", "readPerms", "readUsers"},
                            seeding : BOOLEAN, role : ProperRoles \cup {Blank},
                            perm : ProperPerms \cup {Blank}, user : SUBSET People,
                            left : SUBSET DOMAIN Presets, rest : Seq(ProperPerms),
                            read : SUBSET (ProperRoles \X ProperPerms), floor : SUBSET (People \X PermNames)]]
    /\ storeCalls \in Nat /\ overlays \in Nat

(* A row of role_permissions or user_roles refers to rows that are there,  *)
(* whichever statements of which calls failed or came in between: the      *)
(* foreign keys of the schema never refuse a statement (sql.go:112-148,    *)
(* memory.go:88-131).                                                      *)
RowsHaveParents ==
    /\ \A g \in rolePerms : g[1] \in roles /\ g[2] \in permissions
    /\ \A m \in userRoles : m[2] \in roles

(* LoadRegistry's two queries may see different states of the tables, but  *)
(* what the Registry grants lies between what users had at the first and   *)
(* what they have at the second (store.go:32-52).                          *)
LoadIsCurrent ==
    [][\A a \in Admins : ReadUsers(a) =>
          /\ call[a].floor \subseteq Held(registry'.rolePerms, registry'.userRoles)
          /\ Held(registry'.rolePerms, registry'.userRoles) \subseteq Held(rolePerms, userRoles)]_rbacVars

(* Whom RequireAnyPermission admits for a permission, without a grant of   *)
(* their own, RequireRole admits for the roles that have it: the two guards *)
(* of one policy do not contradict each other in that direction (rbac.go:  *)
(* 130-200).                                                               *)
GuardsAgree ==
    \A u \in People, p \in PermNames :
        RequireAnyPermission({u}, {p}) = 200 =>
            \/ <<u, p>> \in registry.userPerms
            \/ RequireRole({u}, {r \in registry.roles : p \in PermissionsFor(r)}) = 200

=============================================================================
