------------------------------ MODULE AdminApp -----------------------------
(***************************************************************************)
(* The application of examples/admin: its item table, the pages of the UI  *)
(* behind a session and the JSON API behind an access token, both guarded  *)
(* by one policy.  Each SQL statement is a step, and steps of requests     *)
(* interleave.  A request that a guard or the validation refuses, or that  *)
(* does not find its item, changes nothing and is left out.  What an item  *)
(* says is abstracted: an item is the number of the INSERT that made it.   *)
(***************************************************************************)
EXTENDS Naturals, FiniteSets

CONSTANTS
    Agents,         \* browsers and clients of the API
    Staff,          \* demoUser
    Policy,         \* the permissions on items that LoadRegistry gives a user
    Nobody,
    OnDisk,         \* the DSN names a file; the default is in memory
    MaxRows,        \* bound: values of items.id
    MaxBoots,       \* bound: restarts of the process
    PageSizes       \* values of per_page

RowIds == 1..MaxRows
Empty == [n \in RowIds |-> 0]

ASSUME AdminAssumption ==
    /\ MaxRows \in Nat /\ MaxRows >= 2 /\ MaxBoots \in Nat
    /\ Policy \in [Staff -> SUBSET {"read", "write", "delete"}] /\ Nobody \notin Staff
    /\ PageSizes \subseteq Nat \ {0} /\ OnDisk \in BOOLEAN

VARIABLES
    rows,           \* the item of each id; 0 is none
    sequence,       \* sqlite_sequence: the largest id there ever was
    inserts,        \* rows inserted so far
    via,            \* "ui" for a browser, "api" for another client
    access,         \* the user in the browser's session, or in the access token
    request,        \* the request each agent waits for
    views,          \* the item each agent saw last under an id
    boots

store == <<rows, sequence, inserts>>
adminVars == <<store, via, access, request, views, boots>>

-----------------------------------------------------------------------------
(* The table.                                                              *)

\* variant: INTEGER PRIMARY KEY alone, the largest id of the table and one
FaultyNextId(r, last) == CHOOSE n \in 1..(MaxRows + 1) :
    /\ n > MaxRows \/ r[n] = 0
    /\ \A m \in RowIds : (m >= n => r[m] = 0) /\ (m = n - 1 => r[m] # 0)

\* INTEGER PRIMARY KEY AUTOINCREMENT
NextId(r, last) == last + 1

Put(r, n, item) == [r EXCEPT ![n] = item]

(* newItemStore: the table is made if it is not there, and an empty one is *)
(* given two items.                                                        *)
Opened(r, last, made) ==
    LET n == NextId(r, last)
    IN  IF r = Empty
        THEN [rows |-> Put(Put(r, n, made + 1), n + 1, made + 2), sequence |-> n + 1, inserts |-> made + 2]
        ELSE [rows |-> r, sequence |-> last, inserts |-> made]

NotAsking == [at |-> "idle", id |-> 0]

AdminInit ==
    /\ LET o == Opened(Empty, 0, 0)
       IN  rows = o.rows /\ sequence = o.sequence /\ inserts = o.inserts
    /\ via \in [Agents -> {"ui", "api"}] /\ access = [a \in Agents |-> Nobody]
    /\ request = [a \in Agents |-> NotAsking]
    /\ views = [a \in Agents |-> Empty]
    /\ boots = 0

(* Sessions are kept in memory; the secret of the tokens is configured.    *)
Reboot ==
    LET o == IF OnDisk THEN Opened(rows, sequence, inserts) ELSE Opened(Empty, 0, inserts)
    IN  /\ boots < MaxBoots /\ boots' = boots + 1
        /\ o.sequence <= MaxRows
        /\ rows' = o.rows /\ sequence' = o.sequence /\ inserts' = o.inserts
        /\ access' = [a \in Agents |-> IF via[a] = "ui" THEN Nobody ELSE access[a]]
        /\ request' = [a \in Agents |-> NotAsking]
        /\ UNCHANGED <<via, views>>

-----------------------------------------------------------------------------
(* Who asks.                                                               *)

Grants(a, user) ==
    /\ access' = [access EXCEPT ![a] = user]
    /\ UNCHANGED <<store, via, request, views, boots>>

\* The session is a new one.
HandleLoginPost(a, u) ==
    via[a] = "ui" /\ request[a].at = "idle" /\ access[a] = Nobody /\ Grants(a, u)

HandleLogout(a) ==
    via[a] = "ui" /\ request[a].at = "idle" /\ access[a] # Nobody /\ Grants(a, Nobody)

\* IssueAccessToken, for handleAPIToken.
IssueAccessToken(a, u) ==
    via[a] = "api" /\ request[a].at = "idle" /\ access[a] = Nobody /\ Grants(a, u)

\* ParseAccessToken refuses it from then on; a request that was let in goes on.
TokenExpires(a) == via[a] = "api" /\ access[a] # Nobody /\ Grants(a, Nobody)

-----------------------------------------------------------------------------
(* The statements of itemStore.                                            *)

Becomes(a, at, n) == request' = [request EXCEPT ![a] = [at |-> at, id |-> n]]

(* create and update read the item back after they have written it.        *)
Insert(a) ==
    LET n == NextId(rows, sequence)
    IN  /\ n <= MaxRows /\ Becomes(a, "get", n)
        /\ rows' = Put(rows, n, inserts + 1) /\ inserts' = inserts + 1
        /\ sequence' = IF n > sequence THEN n ELSE sequence
        /\ UNCHANGED views

Update(a, n) ==
    /\ rows[n] # 0 /\ Becomes(a, "get", n)
    /\ UNCHANGED <<store, views>>

Remove(a, n) ==
    /\ rows[n] # 0 /\ rows' = Put(rows, n, 0)
    /\ UNCHANGED <<sequence, inserts, views>>

Get(a, n) ==
    /\ rows[n] # 0 /\ views' = [views EXCEPT ![a][n] = rows[n]]
    /\ UNCHANGED <<store, request>>

\* paginate.Parse, OFFSET and LIMIT; the newest items come first.
OnPage(page, perPage) ==
    LET newer(n) == Cardinality({m \in RowIds : m > n /\ rows[m] # 0})
    IN  {n \in RowIds : rows[n] # 0 /\ newer(n) \in (page - 1) * perPage .. page * perPage - 1}

\* The total on the page was counted before, perhaps of other items.
List(a) ==
    \E page \in 1..MaxRows, perPage \in PageSizes :
        /\ views' = [views EXCEPT ![a] =
                        [n \in RowIds |-> IF n \in OnPage(page, perPage) THEN rows[n] ELSE @[n]]]
        /\ UNCHANGED store

\* A statement fails, or get finds that the row is gone again.
StatementFails(a) ==
    /\ request[a].at # "idle"
    /\ request' = [request EXCEPT ![a] = NotAsking]
    /\ UNCHANGED <<store, via, access, views, boots>>

-----------------------------------------------------------------------------
(* The handlers.  A valid request has a user who has the permission of the *)
(* route; none of that is changed by other requests.  It is for an item    *)
(* that its agent was shown.                                               *)

Asks(a, perms) ==
    /\ request[a].at = "idle"
    /\ access[a] # Nobody /\ perms \subseteq Policy[access[a]]
    /\ UNCHANGED <<via, access, boots>>

\* InjectSessionUser, the check of the admin group and its permission.
Page(a, perm) == via[a] = "ui" /\ Asks(a, {"read", perm})

\* RequireJWT
Api(a, perm) == via[a] = "api" /\ Asks(a, {perm})

Shown(a, n) == views[a][n] # 0

HandleItemsList(a) == Page(a, "read") /\ List(a) /\ UNCHANGED request
HandleItemCreate(a) == Page(a, "write") /\ Insert(a)
HandleItemEdit(a, n) == Page(a, "write") /\ Shown(a, n) /\ Get(a, n)
HandleItemUpdate(a, n) == Page(a, "write") /\ Shown(a, n) /\ Update(a, n)
HandleItemDeleteConfirm(a, n) == Page(a, "delete") /\ Shown(a, n) /\ Get(a, n)

\* htmx is answered with the list, a page is redirected.
RenderOrRedirect(a) == Becomes(a, "idle", 0) \/ Becomes(a, "list", 0)

HandleItemDelete(a, n) ==
    Page(a, "delete") /\ Shown(a, n) /\ Remove(a, n) /\ RenderOrRedirect(a)

\* After create and update; what was read back is not used.
Redirected(a) ==
    /\ request[a].at = "get" /\ via[a] = "ui"
    /\ rows[request[a].id] # 0 /\ RenderOrRedirect(a)
    /\ UNCHANGED <<store, via, access, views, boots>>

ListRendered(a) ==
    /\ request[a].at = "list" /\ List(a) /\ Becomes(a, "idle", 0)
    /\ UNCHANGED <<via, access, boots>>

ApiListItems(a) == Api(a, "read") /\ List(a) /\ UNCHANGED request
ApiCreateItem(a) == Api(a, "write") /\ Insert(a)
ApiGetItem(a, n) == Api(a, "read") /\ Shown(a, n) /\ Get(a, n)
ApiUpdateItem(a, n) == Api(a, "write") /\ Shown(a, n) /\ Update(a, n)
ApiDeleteItem(a, n) ==
    Api(a, "delete") /\ Shown(a, n) /\ Remove(a, n) /\ UNCHANGED request

ApiAnswers(a) ==
    LET n == request[a].id
    IN  /\ request[a].at = "get" /\ via[a] = "api"
        /\ rows[n] # 0 /\ Becomes(a, "idle", 0)
        /\ views' = [views EXCEPT ![a][n] = rows[n]]
        /\ UNCHANGED <<store, via, access, boots>>

-----------------------------------------------------------------------------
Edits(a, n) == HandleItemUpdate(a, n) \/ ApiUpdateItem(a, n)
Deletes(a, n) == HandleItemDelete(a, n) \/ ApiDeleteItem(a, n)

AdminNext ==
    \/ Reboot
    \/ \E a \in Agents :
          \/ HandleLogout(a) \/ TokenExpires(a) \/ StatementFails(a)
          \/ HandleItemsList(a) \/ HandleItemCreate(a) \/ Redirected(a) \/ ListRendered(a)
          \/ ApiListItems(a) \/ ApiCreateItem(a) \/ ApiAnswers(a)
          \/ \E n \in RowIds :
                \/ Edits(a, n) \/ Deletes(a, n) \/ ApiGetItem(a, n)
                \/ HandleItemEdit(a, n) \/ HandleItemDeleteConfirm(a, n)
          \/ \E u \in Staff : HandleLoginPost(a, u) \/ IssueAccessToken(a, u)

AdminSpec == AdminInit /\ [][AdminNext]_adminVars

-----------------------------------------------------------------------------
\* Type invariant.
AdminTypes ==
    /\ rows \in [RowIds -> Nat] /\ sequence \in 0..MaxRows /\ inserts \in Nat
    /\ via \in [Agents -> {"ui", "api"}] /\ access \in [Agents -> Staff \cup {Nobody}]
    /\ request \in [Agents -> [at : {"idle", "get", "list"}, id : RowIds \cup {0}]]
    /\ views \in [Agents -> [RowIds -> Nat]]
    /\ boots \in Nat

(* With a database on disk, an edit or a deletion changes the item its     *)
(* sender was shown, or nothing: not one that another user made under the  *)
(* same id after the first was deleted, also over restarts (store.go:      *)
(* 35-58, 110-154).                                                        *)
EditsHitTheirItem ==
    [][OnDisk => \A a \in Agents, n \in RowIds :
          Edits(a, n) \/ Deletes(a, n) => rows[n] = views[a][n]]_adminVars

=============================================================================
