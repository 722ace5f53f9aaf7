--------------------------- MODULE AccountsProofs --------------------------
(***************************************************************************)
(* Proofs about what a client may do, for any users, tokens, calls, roles, *)
(* permissions and presets: a refresh token is used once and a revoked one *)
(* never, and the policy keeps its rows, its loads and its guards together. *)
(* And of the schema of the database, for any files and any deploys: it is *)
(* what the version of the database says.                                  *)
(***************************************************************************)
EXTENDS Accounts, TLAPS

(***************************************************************************)
(* Refresh tokens.                                                         *)
(***************************************************************************)
(* Only tokens that were handed out are in the store, with their user, and *)
(* those that are spent are not.                                           *)
StoreInv ==
    /\ \A i \in Ids : tokens[i] # None =>
          i \in given \ used /\ tokens[i].user = jwt[i].user
    /\ used \subseteq given

(* A call that is about to Put has an id of its own.                       *)
NewInv ==
    /\ \A c \in Calls : pc[c] = "put" =>
          new[c] \in Ids \ given /\ jwt[new[c]] # None /\ jwt[new[c]].user = user[c]
    /\ \A c, d \in Calls : pc[c] = "put" /\ pc[d] = "put" /\ new[c] = new[d] => c = d

(* A token nobody will store any more.                                     *)
Lost(i) == tokens[i] = None /\ \A c \in Calls : pc[c] = "put" => new[c] # i

(* No claims outlive a revocation of now, and one that came after them     *)
(* covers them until they end, unless a restart forgot both.               *)
DeadInv ==
    /\ \A i \in Ids : jwt[i] # None => jwt[i].exp <= now + TTL
    /\ \A i \in dead : /\ jwt[i] # None
                       /\ now < jwt[i].exp =>
                            Lost(i) \/ jwt[i].exp <= revokedUntil[jwt[i].user]

TokenInv == TypeOK /\ StoreInv /\ NewInv /\ DeadInv

-----------------------------------------------------------------------------
(* Collecting garbage only removes entries.                                *)
LEMMA Collects ==
    ASSUME TypeOK, NEW gc \in BOOLEAN
    PROVE  /\ Collected(gc) \in [Ids -> Records \cup {None}]
           /\ \A i \in Ids : Collected(gc)[i] \in {None, tokens[i]}
           /\ CollectedUntil(gc) \in [Users -> Nat]
           /\ \A u \in Users : \/ CollectedUntil(gc)[u] = revokedUntil[u]
                                \/ revokedUntil[u] <= now
BY DEF TypeOK, Collected, CollectedUntil

(* The invariant holds before the first token.                             *)
LEMMA TokenInit == ASSUME RefreshAssumption, Init PROVE TokenInv
<1>1. TypeOK
  BY DEF Init, TypeOK, RefreshAssumption
<1>2. StoreInv /\ NewInv /\ DeadInv
  BY DEF Init, StoreInv, NewInv, DeadInv
<1> QED BY <1>1, <1>2 DEF TokenInv

(* A step of a call that touches neither the store nor the tokens.         *)
LEMMA QuietStep ==
    ASSUME TokenInv, NEW c \in Calls, NEW at, NEW next, Goto(c, at, next),
           next \in {"idle", "consume", "sign"}, next = "consume" => old'[c] # None,
           old' \in [Calls -> Ids \cup {None}],
           \A d \in Calls : d # c => old'[d] = old[d],
           user' \in [Calls -> Users],
           \A d \in Calls : d # c => user'[d] = user[d],
           UNCHANGED <<now, tokens, revokedUntil, history, new, restarts>>
    PROVE  TokenInv'
<1>1. TypeOK'
  BY DEF TokenInv, TypeOK, Goto, history
<1>2. StoreInv'
  BY DEF TokenInv, StoreInv, history
<1>3. NewInv'
  BY DEF TokenInv, TypeOK, NewInv, Goto, history
<1>4. DeadInv'
  BY DEF TokenInv, TypeOK, DeadInv, Lost, Goto, history
<1> QED BY <1>1, <1>2, <1>3, <1>4 DEF TokenInv

(* A step that adds no revocation keeps DeadInv when what it removes from  *)
(* revokedUntil has ended and what it stores had not been lost.            *)
LEMMA DeadStep ==
    ASSUME TokenInv, TypeOK', now' = now, dead' = dead, jwt' = jwt,
           \A i \in Ids : tokens'[i] # None => tokens[i] # None \/ ~Lost(i),
           \A c \in Calls : pc'[c] = "put" => pc[c] = "put" /\ new'[c] = new[c],
           \A u \in Users : revokedUntil'[u] = revokedUntil[u] \/ revokedUntil[u] <= now
    PROVE  DeadInv'
<1> SUFFICES ASSUME NEW i \in dead, now < jwt[i].exp
             PROVE  Lost(i)' \/ jwt[i].exp <= revokedUntil'[jwt[i].user]
  BY DEF TokenInv, DeadInv
<1>1. i \in Ids /\ jwt[i] \in Records
  BY DEF TokenInv, DeadInv, TypeOK
<1>2. CASE Lost(i)
  BY <1>1, <1>2 DEF Lost
<1>3. CASE jwt[i].exp <= revokedUntil[jwt[i].user]
  BY <1>1, <1>3 DEF TokenInv, TypeOK, Records
<1> QED BY <1>2, <1>3 DEF TokenInv, DeadInv

-----------------------------------------------------------------------------
(* Every step of a call, a revocation, a restart and the clock keeps it.   *)
LEMMA TokenStep == ASSUME RefreshAssumption, TokenInv, [Next]_vars PROVE TokenInv'
<1> USE DEF TokenInv
<1>1. CASE UNCHANGED vars
  BY <1>1 DEF TypeOK, StoreInv, NewInv, DeadInv, Lost, vars, history, calls
<1>2. CASE Tick
  <2>1. TypeOK' /\ StoreInv' /\ NewInv'
    BY <1>2 DEF Tick, TypeOK, StoreInv, NewInv, history, calls
  <2>2. DeadInv'
    BY <1>2, RefreshAssumption
       DEF Tick, RefreshAssumption, TypeOK, Records, DeadInv, Lost, history, calls
  <2> QED BY <2>1, <2>2
<1>3. CASE Restart
  BY <1>3, RefreshAssumption
     DEF Restart, RefreshAssumption, TypeOK, StoreInv, NewInv, DeadInv, Lost, history
<1>4. ASSUME NEW u \in Users, RevokeUser(u) PROVE TokenInv'
  <2>1. PICK gc \in BOOLEAN : revokedUntil' = [CollectedUntil(gc) EXCEPT ![u] = now + TTL]
    BY <1>4 DEF RevokeUser
  <2>2. \A i \in Ids : /\ i \in Of(u) => tokens'[i] = None
                       /\ i \notin Of(u) => tokens'[i] = tokens[i]
    BY <1>4 DEF RevokeUser, Without
  <2>3. PICK D : D = {i \in Ids : jwt[i] # None /\ UserOf(i) = u}
    OBVIOUS
  <2>4. TypeOK'
    <3>1. revokedUntil' \in [Users -> Nat]
      BY <2>1, Collects DEF RefreshAssumption, TypeOK
    <3>2. tokens' \in [Ids -> Records \cup {None}]
      BY <1>4 DEF RevokeUser, Without, TypeOK
    <3> QED BY <1>4, <3>1, <3>2 DEF RevokeUser, TypeOK, calls
  <2>5. StoreInv'
    BY <1>4, <2>2 DEF RevokeUser, StoreInv
  <2>6. NewInv'
    BY <1>4 DEF RevokeUser, NewInv, calls
  <2>7. DeadInv'
    <3>1. UNCHANGED <<now, jwt, pc, new>> /\ dead' = dead \cup D
      BY <1>4, <2>3 DEF RevokeUser, calls
    <3>2. revokedUntil'[u] = now + TTL
      BY <2>1, Collects
    <3>3. ASSUME NEW i \in dead', now < jwt[i].exp
          PROVE  /\ jwt[i] # None
                 /\ Lost(i)' \/ jwt[i].exp <= revokedUntil'[jwt[i].user]
      <4>1. i \in Ids /\ jwt[i] # None /\ jwt[i] \in Records
        BY <2>3, <3>1, <3>3 DEF TypeOK, DeadInv
      <4>2. CASE jwt[i].user = u
        BY <3>2, <4>1, <4>2 DEF DeadInv
      <4>3. CASE jwt[i].user # u
        <5>1. i \in dead
          BY <2>3, <3>1, <3>3, <4>1, <4>3 DEF UserOf
        <5>2. CASE Lost(i)
          BY <2>2, <3>1, <4>1, <5>2 DEF Lost
        <5>3. CASE jwt[i].exp <= revokedUntil[jwt[i].user]
          <6>1. revokedUntil'[jwt[i].user] = CollectedUntil(gc)[jwt[i].user]
            BY <2>1, <4>1, <4>3, Collects DEF Records
          <6> QED BY <3>3, <4>1, <5>3, <6>1, Collects DEF Records, TypeOK
        <5> QED BY <3>3, <5>1, <5>2, <5>3 DEF DeadInv
      <4> QED BY <4>1, <4>2, <4>3
    <3>4. \A i \in dead' : jwt[i] # None
      BY <2>3, <3>1 DEF DeadInv
    <3> QED BY <3>1, <3>3, <3>4 DEF DeadInv
  <2> QED BY <2>4, <2>5, <2>6, <2>7
<1>5. ASSUME NEW c \in Calls, Call(c) PROVE TokenInv'
  <2>1. CASE Sign(c)
    <3>1. PICK i \in Ids :
            /\ jwt[i] = None
            /\ jwt' = [jwt EXCEPT ![i] = [user |-> user[c], exp |-> now + TTL]]
            /\ new' = [new EXCEPT ![c] = i]
      BY <2>1 DEF Sign
    <3>2. [user |-> user[c], exp |-> now + TTL] \in Records
      BY DEF TypeOK, Records, RefreshAssumption
    <3>3. [user |-> user[c], exp |-> now + TTL] # None
      BY <3>1, RefreshAssumption DEF RefreshAssumption, Records, TypeOK
    <3>4. TypeOK'
      BY <2>1, <3>1, <3>2, <3>3, RefreshAssumption
         DEF Sign, Goto, TypeOK, RefreshAssumption
    <3>5. StoreInv'
      BY <2>1, <3>1 DEF Sign, StoreInv, TypeOK
    <3>6. NewInv'
      BY <2>1, <3>1, <3>3 DEF Sign, Goto, TypeOK, NewInv
    <3>7. DeadInv'
      <4>1. /\ UNCHANGED <<now, tokens, revokedUntil, dead>>
            /\ \A d \in dead : d # i /\ jwt'[d] = jwt[d]
        BY <2>1, <3>1 DEF Sign, DeadInv, TypeOK
      <4>2. \A k \in Ids : jwt'[k] # None => jwt'[k].exp <= now + TTL
        BY <3>1, RefreshAssumption DEF RefreshAssumption, TypeOK, DeadInv
      <4>3. \A d \in dead : Lost(d) => Lost(d)'
        BY <2>1, <3>1, <4>1 DEF Sign, Goto, TypeOK, Lost
      <4> QED BY <4>1, <4>2, <4>3 DEF DeadInv
    <3> QED BY <3>4, <3>5, <3>6, <3>7
  <2>2. CASE Put(c)
    <3>1. PICK gc \in BOOLEAN :
            /\ tokens' = [Collected(gc) EXCEPT ![new[c]] = [user |-> user[c], exp |-> now + TTL]]
            /\ revokedUntil' = CollectedUntil(gc)
      BY <2>2 DEF Put
    <3>2. new[c] \in Ids \ given /\ jwt[new[c]] # None /\ jwt[new[c]].user = user[c]
      BY <2>2 DEF Put, Goto, NewInv
    <3>3. [user |-> user[c], exp |-> now + TTL] \in Records
      BY DEF TypeOK, Records, RefreshAssumption
    <3>4. /\ tokens' \in [Ids -> Records \cup {None}]
          /\ \A i \in Ids : i # new[c] => tokens'[i] \in {None, tokens[i]}
          /\ tokens'[new[c]].user = user[c]
      BY <3>1, <3>2, <3>3, Collects
    <3>5. TypeOK'
      BY <2>2, <3>1, <3>2, <3>4, Collects DEF Put, Goto, TypeOK
    <3>6. StoreInv'
      BY <2>2, <3>2, <3>4 DEF Put, StoreInv
    <3>7. NewInv'
      BY <2>2, <3>2 DEF Put, Goto, TypeOK, NewInv
    <3>8. DeadInv'
      <4>1. ~Lost(new[c])
        BY <2>2 DEF Put, Goto, Lost
      <4>2. \A i \in Ids : tokens'[i] # None => tokens[i] # None \/ ~Lost(i)
        BY <3>4, <4>1
      <4>3. /\ UNCHANGED <<now, dead, jwt, new>>
            /\ \A d \in Calls : pc'[d] = "put" => pc[d] = "put"
        BY <2>2 DEF Put, Goto, TypeOK
      <4> QED BY <3>1, <3>5, <4>2, <4>3, Collects, DeadStep
    <3> QED BY <3>5, <3>6, <3>7, <3>8
  <2>3. CASE IssueFails(c)
    <3>1. CASE Goto(c, "sign", "idle")
      BY <2>3, <3>1, QuietStep DEF IssueFails, TypeOK
    <3>2. CASE Goto(c, "put", "idle")
      BY <2>3, <3>2, QuietStep DEF IssueFails, TypeOK
    <3> QED BY <2>3, <3>1, <3>2 DEF IssueFails
  <2>4. CASE Consume(c) \/ ConsumeFails(c)
    <3>1. PICK gc \in BOOLEAN : /\ tokens' = Taken(Collected(gc), old[c])
                                /\ revokedUntil' = CollectedUntil(gc)
      BY <2>4 DEF Consume, ConsumeFails
    <3>2. old[c] \in Ids
      BY <2>4 DEF Consume, ConsumeFails, Goto, TypeOK
    <3>3. /\ tokens' \in [Ids -> Records \cup {None}]
          /\ \A i \in Ids : tokens'[i] \in {None, tokens[i]}
          /\ tokens'[old[c]] = None
      BY <3>1, <3>2, Collects DEF Taken
    <3>4. /\ \/ used' = used
             \/ used' = used \cup {old[c]} /\ tokens[old[c]] # None
          /\ UNCHANGED <<now, jwt, given, dead, old, user, new, restarts>>
          /\ \E next \in {"check", "idle"} : Goto(c, "consume", next)
      BY <2>4 DEF Consume, ConsumeFails, Exchanges, history
    <3>5. TypeOK'
      BY <3>1, <3>2, <3>3, <3>4, Collects DEF Goto, TypeOK
    <3>6. StoreInv'
      BY <3>2, <3>3, <3>4 DEF StoreInv
    <3>7. NewInv'
      BY <3>4 DEF Goto, TypeOK, NewInv
    <3>8. DeadInv'
      <4>1. \A d \in Calls : pc'[d] = "put" => pc[d] = "put"
        BY <3>4 DEF Goto, TypeOK
      <4> QED BY <3>1, <3>3, <3>4, <3>5, <4>1, Collects, DeadStep
    <3> QED BY <3>5, <3>6, <3>7, <3>8
  <2>5. CASE CheckFails(c)
    BY <2>5, QuietStep DEF CheckFails, TypeOK
  <2>6. CASE CheckPasses(c)
    BY <2>6, QuietStep DEF CheckPasses, TypeOK
  <2> QED BY <1>5, <2>1, <2>2, <2>3, <2>4, <2>5, <2>6 DEF Call
<1>6. ASSUME NEW c \in Calls, NEW u \in Users, Login(c, u) PROVE TokenInv'
  <2>1. /\ old' \in [Calls -> Ids \cup {None}] /\ user' \in [Calls -> Users]
        /\ \A d \in Calls : d # c => old'[d] = old[d] /\ user'[d] = user[d]
    BY <1>6 DEF Login, TypeOK
  <2> QED BY <1>6, <2>1, QuietStep DEF Login
<1>7. ASSUME NEW c \in Calls, NEW i \in Ids, NEW u \in Users, Refresh(c, i, u) PROVE TokenInv'
  <2>1. jwt[i] \in Records /\ i # None
    BY <1>7, RefreshAssumption DEF Refresh, TypeOK, RefreshAssumption
  <2>2. /\ old' \in [Calls -> Ids \cup {None}] /\ user' \in [Calls -> Users]
        /\ \A d \in Calls : d # c => old'[d] = old[d] /\ user'[d] = user[d]
        /\ old'[c] # None
    BY <1>7, <2>1 DEF Refresh, TypeOK, Records
  <2> QED BY <1>7, <2>2, QuietStep DEF Refresh
<1> QED BY <1>1, <1>2, <1>3, <1>4, <1>5, <1>6, <1>7 DEF Next

(* The inductive invariant of the refresh tokens (refresh.go:60-152).      *)
THEOREM TokenInvCorrect == Spec => []TokenInv
<1>1. Init => TokenInv
  BY TokenInit, RefreshAssumption
<1>2. TokenInv /\ [Next]_vars => TokenInv'
  BY TokenStep, RefreshAssumption
<1> QED BY <1>1, <1>2, PTL DEF Spec

(* The variables of the refresh-token model keep their types.              *)
THEOREM TypeCorrect == Spec => []TypeOK
<1>1. TokenInv => TypeOK
  BY DEF TokenInv
<1> QED BY <1>1, TokenInvCorrect, PTL

(* What Consume finds in the store is not spent, nor revoked while its     *)
(* claims are valid.                                                       *)
LEMMA ConsumesLive ==
    ASSUME TokenInv, NEW c \in Calls, Consume(c)
    PROVE  old[c] \notin used /\ (old[c] \notin dead \/ now >= jwt[old[c]].exp)
<1>1. old[c] \in Ids /\ tokens[old[c]] # None /\ ~IsRevoked(tokens[old[c]].user)
  BY DEF TokenInv, TypeOK, Consume, Exchanges, Goto
<1>2. /\ old[c] \notin used
      /\ jwt[old[c]] \in Records /\ tokens[old[c]].user = jwt[old[c]].user
  BY <1>1 DEF TokenInv, TypeOK, StoreInv
<1>3. ASSUME old[c] \in dead PROVE now >= jwt[old[c]].exp
  BY <1>1, <1>2, <1>3 DEF TokenInv, TypeOK, Records, DeadInv, Lost, IsRevoked
<1> QED BY <1>2, <1>3

(* A token is exchanged once, for any number of concurrent calls and       *)
(* restarts (jwt.go:114).                                                  *)
THEOREM ExchangedOnce == Spec => SingleUse
<1>1. TokenInv => [\A c \in Calls : Consume(c) => old[c] \notin used]_vars
  BY ConsumesLive
<1> QED BY <1>1, TokenInvCorrect, PTL DEF SingleUse

(* A token signed before a revocation of its user is never exchanged while *)
(* its claims are valid, also when its Put came after the revocation or a  *)
(* restart forgot both (refresh.go:18).                                    *)
THEOREM RevokedNeverExchanged == Spec => RevokedStayDead
<1>1. TokenInv => [\A c \in Calls : Consume(c) =>
                     old[c] \notin dead \/ now >= jwt[old[c]].exp]_vars
  BY ConsumesLive
<1> QED BY <1>1, TokenInvCorrect, PTL DEF RevokedStayDead

-----------------------------------------------------------------------------
(***************************************************************************)
(* The policy of roles and permissions.                                    *)
(***************************************************************************)
SyncSteps == {"idle", "schema", "seedRole", "seedPerm", "grantRole",
          "grantPerm", "assignRole", "row", "readPerms", "readUsers"}

CallRecords ==
    [at : SyncSteps, seeding : BOOLEAN, role : ProperRoles \cup {Blank},
     perm : ProperPerms \cup {Blank}, user : SUBSET People,
     left : SUBSET DOMAIN Presets, rest : Seq(ProperPerms),
     read : SUBSET (ProperRoles \X ProperPerms), floor : SUBSET (People \X PermNames)]

(* What a call relies on when it comes to its next statement: names that   *)
(* are not blank, rows that it has entered, and a floor that is still held.*)
Prepared(c) ==
    /\ c.at \in {"seedPerm", "grantRole", "grantPerm", "assignRole", "row"} => c.role \in ProperRoles
    /\ c.at \in {"grantRole", "grantPerm", "row"} /\ c.user = {} => c.perm \in ProperPerms
    /\ c.at \in {"schema", "seedRole", "seedPerm", "grantRole", "grantPerm"} \/ c.seeding => c.user = {}
    /\ c.at = "assignRole" => c.user # {}
    /\ c.at = "grantPerm" => c.role \in roles
    /\ c.at = "row" /\ backend = "sql" => c.role \in roles /\ (c.user = {} => c.perm \in permissions)
    /\ c.at = "readUsers" => c.read \subseteq rolePerms /\ c.floor \subseteq Held(c.read, userRoles)

(* The Registry knows the roles it has permissions for.                    *)
RolesKnown == \A g \in registry.rolePerms : g[1] \in registry.roles

TableTypes ==
    /\ backend \in {"sql", "memory"} /\ schema \in BOOLEAN
    /\ roles \subseteq ProperRoles /\ permissions \subseteq ProperPerms
    /\ rolePerms \subseteq ProperRoles \X ProperPerms /\ userRoles \subseteq People \X ProperRoles
    /\ storeCalls \in Nat /\ overlays \in Nat

Registries ==
    [roles : SUBSET ProperRoles, rolePerms : SUBSET (ProperRoles \X ProperPerms),
     userRoles : SUBSET (People \X RoleNames), userPerms : SUBSET (People \X PermNames)]

RbacInv ==
    /\ TableTypes /\ RowsHaveParents
    /\ call \in [Admins -> CallRecords] /\ \A a \in Admins : Prepared(call[a])
    /\ registry \in Registries /\ RolesKnown

-----------------------------------------------------------------------------
(* More rows, more permissions held.                                       *)
LEMMA HeldGrows ==
    ASSUME NEW g, NEW h, NEW m, NEW n, g \subseteq h, m \subseteq n
    PROVE  Held(g, m) \subseteq Held(h, n)
  BY DEF Held

(* What a guard derives from the tables is people and permissions.         *)
LEMMA HeldTyped == ASSUME NEW g, NEW m PROVE Held(g, m) \subseteq People \X PermNames
  BY DEF Held

(* Trimming leaves proper names as they are.                               *)
LEMMA TrimKeeps ==
    /\ \A n \in ProperRoles : Trim[n] = n /\ n \in RoleNames
    /\ \A n \in ProperPerms : Trim[n] = n /\ n \in PermNames
    /\ Blank \notin ProperRoles /\ Blank \notin ProperPerms
  BY DEF ProperRoles, ProperPerms

(* An administrator without a call is a call record.                       *)
LEMMA IdleTyped == Idle \in CallRecords
  BY DEF Idle, CallRecords, SyncSteps

(* Empty tables and guards agree.                                          *)
LEMMA RbacInitInv == RbacInit => RbacInv
  BY IdleTyped DEF RbacInit, RbacInv, TableTypes, RowsHaveParents, Prepared, Registries, RolesKnown, EmptyRegistry, Idle

(* A step of one call that only adds rows leaves the other calls prepared. *)
LEMMA OthersPrepared ==
    ASSUME RbacInv, NEW a \in Admins, NEW c \in CallRecords, call' = [call EXCEPT ![a] = c],
           backend' = backend, roles \subseteq roles', permissions \subseteq permissions',
           rolePerms \subseteq rolePerms', userRoles \subseteq userRoles'
    PROVE  /\ call' \in [Admins -> CallRecords]
           /\ \A d \in Admins \ {a} : Prepared(call[d])'
           /\ call'[a] = c
  <1>1. call' \in [Admins -> CallRecords] /\ call'[a] = c
    BY DEF RbacInv
  <1>2. ASSUME NEW d \in Admins \ {a} PROVE Prepared(call[d])'
    <2>1. call'[d] = call[d] /\ Prepared(call[d])
      BY <1>2 DEF RbacInv
    <2>2. Held(call[d].read, userRoles) \subseteq Held(call[d].read, userRoles')
      BY HeldGrows
    <2>3. QED
      BY <2>1, <2>2 DEF Prepared
  <1>3. QED
    BY <1>1, <1>2

(* Such a step keeps the invariant if its own call is prepared again.      *)
LEMMA CallStep ==
    ASSUME RbacInv, NEW a \in Admins, NEW c \in CallRecords, call' = [call EXCEPT ![a] = c],
           backend' = backend, roles \subseteq roles', permissions \subseteq permissions',
           rolePerms \subseteq rolePerms', userRoles \subseteq userRoles',
           TableTypes', RowsHaveParents', call'[a] = c => Prepared(call[a])',
           registry' \in Registries, RolesKnown'
    PROVE  RbacInv'
  <1>1. /\ call' \in [Admins -> CallRecords]
        /\ \A d \in Admins \ {a} : Prepared(call[d])'
        /\ call'[a] = c
    BY OthersPrepared
  <1>2. QED
    BY <1>1 DEF RbacInv

(* A call that begins.                                                     *)
LEMMA BeginStep ==
    ASSUME RbacInv, NEW a \in Admins, NEW c \in CallRecords, Begin(a, c), Prepared(c)
    PROVE  RbacInv'
  <1>1. TableTypes' /\ RowsHaveParents' /\ registry' \in Registries /\ RolesKnown'
    BY DEF Begin, tables, RbacInv, TableTypes, RowsHaveParents, RolesKnown
  <1>2. /\ call' = [call EXCEPT ![a] = c] /\ backend' = backend
        /\ UNCHANGED <<roles, permissions, rolePerms, userRoles>>
    BY DEF Begin, tables
  <1>3. call'[a] = c => Prepared(call[a])'
    BY <1>2 DEF Prepared
  <1>4. QED
    BY <1>1, <1>2, <1>3, CallStep

(* The four calls of the store.                                            *)
LEMMA Begins ==
    ASSUME RbacInv, NEW a \in Admins,
           \/ SeedPresets(a) \/ LoadRegistry(a)
           \/ \E r \in RoleNames, p \in PermNames : Grant(a, r, p)
           \/ \E u \in People, r \in RoleNames : AssignRole(a, u, r)
    PROVE  RbacInv'
  <1> USE IdleTyped, RbacAssumption DEF FirstOf
  <1>1. CASE SeedPresets(a)
    <2> DEFINE c == [Idle EXCEPT !.at = "schema", !.seeding = TRUE, !.left = DOMAIN Presets]
    <2>1. c \in CallRecords /\ Prepared(c)
      BY DEF Prepared, CallRecords, SyncSteps, Idle
    <2>2. QED
      BY <1>1, <2>1, BeginStep DEF SeedPresets
  <1>2. CASE LoadRegistry(a)
    <2> DEFINE c == [Idle EXCEPT !.at = "readPerms"]
    <2>1. c \in CallRecords /\ Prepared(c)
      BY DEF Prepared, CallRecords, SyncSteps, Idle
    <2>2. QED
      BY <1>2, <2>1, BeginStep DEF LoadRegistry
  <1>3. ASSUME NEW r \in RoleNames, NEW p \in PermNames, Grant(a, r, p) PROVE RbacInv'
    <2> DEFINE c == [Idle EXCEPT !.at = FirstOf("grantRole"), !.role = Trim[r], !.perm = Trim[p]]
    <2>1. Trim[r] \in ProperRoles /\ Trim[p] \in ProperPerms
      BY <1>3 DEF Grant
    <2>2. c.at \in {"grantRole", "row"} /\ (c.at = "row" => backend # "sql")
      BY DEF Idle
    <2>3. c \in CallRecords
      BY <2>1, <2>2 DEF CallRecords, SyncSteps, Idle
    <2>4. Prepared(c)
      BY <2>1, <2>2 DEF Prepared, Idle
    <2>5. QED
      BY <1>3, <2>3, <2>4, BeginStep DEF Grant
  <1>4. ASSUME NEW u \in People, NEW r \in RoleNames, AssignRole(a, u, r) PROVE RbacInv'
    <2> DEFINE c == [Idle EXCEPT !.at = FirstOf("assignRole"), !.role = Trim[r], !.user = {u}]
    <2>1. Trim[r] \in ProperRoles
      BY <1>4 DEF AssignRole
    <2>2. c.at \in {"assignRole", "row"} /\ (c.at = "row" => backend # "sql")
      BY DEF Idle
    <2>3. c \in CallRecords
      BY <2>1, <2>2 DEF CallRecords, SyncSteps, Idle
    <2>4. Prepared(c)
      BY <2>1, <2>2 DEF Prepared, Idle
    <2>5. QED
      BY <1>4, <2>3, <2>4, BeginStep DEF AssignRole
  <1>5. QED
    BY <1>1, <1>2, <1>3, <1>4

-----------------------------------------------------------------------------
(* Steps that leave the tables alone.                                      *)
LEMMA PolicyQuietStep ==
    ASSUME RbacInv, NEW a \in Admins, NEW c \in CallRecords, Goes(a, call[a].at, c),
           UNCHANGED <<tables, registry>>, schema' \in BOOLEAN, Prepared(c)
    PROVE  RbacInv'
  <1>1. TableTypes' /\ RowsHaveParents' /\ registry' \in Registries /\ RolesKnown'
    BY DEF Goes, tables, RbacInv, TableTypes, RowsHaveParents, RolesKnown
  <1>2. /\ call' = [call EXCEPT ![a] = c] /\ backend' = backend
        /\ UNCHANGED <<roles, permissions, rolePerms, userRoles>>
    BY DEF Goes, tables
  <1>3. call'[a] = c => Prepared(call[a])'
    BY <1>2 DEF Prepared
  <1>4. QED
    BY <1>1, <1>2, <1>3, CallStep

(* Each statement of SQL keeps the rows with their parents.                *)
LEMMA Statements ==
    ASSUME RbacInv, NEW a \in Admins, Statement(a)
    PROVE  RbacInv'
  <1> DEFINE d == call[a]
  <1>0. d \in CallRecords /\ Prepared(d) /\ TableTypes /\ RowsHaveParents /\ registry \in Registries /\ RolesKnown
    BY DEF RbacInv
  <1> USE RbacAssumption
  <1>1. CASE EnsureSchema(a)
    <2> DEFINE c == [d EXCEPT !.at = "seedRole"]
    <2>1. c \in CallRecords /\ Prepared(c) /\ Goes(a, d.at, c)
      BY <1>0, <1>1 DEF EnsureSchema, Goes, Prepared, CallRecords, SyncSteps
    <2>2. QED
      BY <1>1, <2>1, PolicyQuietStep DEF EnsureSchema
  <1>2. CASE SeedReturns(a)
    <2> DEFINE c == IF d.left = {} THEN Idle ELSE [d EXCEPT !.at = "seedRole"]
    <2>1. c \in CallRecords /\ Goes(a, d.at, c)
      BY <1>0, <1>2, IdleTyped DEF SeedReturns, Goes, CallRecords, SyncSteps
    <2>2. Prepared(c)
      BY <1>0, <1>2 DEF SeedReturns, Goes, Prepared, Idle, CallRecords
    <2>3. schema' \in BOOLEAN
      BY <1>0, <1>2 DEF SeedReturns, TableTypes
    <2>4. QED
      BY <1>2, <2>1, <2>2, <2>3, PolicyQuietStep DEF SeedReturns
  <1>3. CASE ReadPerms(a)
    <2> DEFINE c == [d EXCEPT !.at = "readUsers", !.read = rolePerms, !.floor = Held(rolePerms, userRoles)]
    <2>1. c \in CallRecords /\ Goes(a, d.at, c)
      BY <1>0, <1>3, HeldTyped DEF ReadPerms, Goes, CallRecords, SyncSteps, TableTypes
    <2>2. Prepared(c)
      BY <1>0, <1>3 DEF ReadPerms, Goes, Prepared, CallRecords
    <2>3. schema' \in BOOLEAN
      BY <1>0, <1>3 DEF ReadPerms, TableTypes
    <2>4. QED
      BY <1>3, <2>1, <2>2, <2>3, PolicyQuietStep DEF ReadPerms
  <1>4. CASE Fails(a)
    <2>1. Prepared(Idle) /\ Goes(a, d.at, Idle)
      BY <1>4 DEF Fails, Goes, Prepared, Idle
    <2>2. schema' \in BOOLEAN /\ UNCHANGED <<tables, registry>>
      BY <1>0, <1>4 DEF Fails, TableTypes
    <2>3. QED
      BY <2>1, <2>2, IdleTyped, PolicyQuietStep
  <1>5. CASE ReadUsers(a)
    <2>1. call' = [call EXCEPT ![a] = Idle] /\ backend' = backend /\ UNCHANGED <<roles, permissions, rolePerms, userRoles>>
      BY <1>5 DEF ReadUsers, Goes, tables
    <2>2. TableTypes' /\ RowsHaveParents'
      BY <1>0, <1>5 DEF ReadUsers, Goes, tables, TableTypes, RowsHaveParents
    <2>3. registry' = Built(d.read, userRoles) /\ d.read \subseteq ProperRoles \X ProperPerms
      BY <1>0, <1>5 DEF ReadUsers, CallRecords
    <2>4. registry' \in Registries
      <3>1. {Trim[g[1]] : g \in d.read} \subseteq ProperRoles
        BY <2>3, TrimKeeps
      <3>2. {<<Trim[g[1]], Trim[g[2]]>> : g \in d.read} \subseteq ProperRoles \X ProperPerms
        BY <2>3, TrimKeeps
      <3>3. userRoles \subseteq People \X RoleNames
        BY <1>0, TrimKeeps DEF TableTypes
      <3>4. QED
        BY <2>3, <3>1, <3>2, <3>3 DEF Built, EmptyRegistry, Registries
    <2>5. RolesKnown'
      BY <2>3 DEF Built, EmptyRegistry, RolesKnown
    <2>6. call'[a] = Idle => Prepared(call[a])'
      BY DEF Prepared, Idle
    <2>7. QED
      BY <2>1, <2>2, <2>4, <2>5, <2>6, IdleTyped, CallStep
  <1>6. ASSUME NEW r \in d.left,
               Goes(a, "seedRole", [d EXCEPT !.at = "seedPerm", !.role = r, !.left = @ \ {r}, !.rest = Presets[r]]),
               roles' = roles \cup {r}, UNCHANGED <<schema, permissions, rolePerms, userRoles, registry>>
        PROVE  RbacInv'
    <2> DEFINE c == [d EXCEPT !.at = "seedPerm", !.role = r, !.left = @ \ {r}, !.rest = Presets[r]]
    <2>1. r \in ProperRoles /\ Presets[r] \in Seq(ProperPerms) /\ d.user = {}
      BY <1>0, <1>6 DEF CallRecords, Prepared, Goes
    <2>2. c \in CallRecords
      BY <1>0, <2>1 DEF CallRecords, SyncSteps
    <2>3. call'[a] = c => Prepared(call[a])'
      BY <1>0, <2>1 DEF Prepared, CallRecords
    <2>4. TableTypes' /\ RowsHaveParents' /\ registry' \in Registries /\ RolesKnown'
      BY <1>0, <1>6, <2>1 DEF Goes, TableTypes, RowsHaveParents, RolesKnown
    <2>5. call' = [call EXCEPT ![a] = c] /\ backend' = backend
      BY <1>6 DEF Goes
    <2>6. QED
      BY <1>6, <2>2, <2>3, <2>4, <2>5, CallStep
  <1>7. CASE SeedPerm(a)
    <2> DEFINE p == Head(d.rest)
               c == [d EXCEPT !.at = FirstOf("grantRole"), !.perm = p, !.rest = Tail(@)]
    <2>1. p \in ProperPerms /\ Tail(d.rest) \in Seq(ProperPerms)
      BY <1>0, <1>7 DEF SeedPerm, CallRecords
    <2>2. d.at = "seedPerm" /\ d.user = {} /\ d.role \in ProperRoles
      BY <1>0, <1>7 DEF SeedPerm, Goes, Prepared
    <2>3. c \in CallRecords
      BY <1>0, <2>1 DEF CallRecords, SyncSteps, FirstOf
    <2>4. call' = [call EXCEPT ![a] = c] /\ backend' = backend /\ permissions' = permissions \cup {p}
          /\ UNCHANGED <<schema, roles, rolePerms, userRoles, registry, storeCalls, overlays>>
      BY <1>7 DEF SeedPerm, Goes
    <2>5. /\ c.at \in {"grantRole", "row"} /\ (c.at = "row" => backend # "sql")
          /\ c.user = {} /\ c.role = d.role /\ c.perm = p
      BY <1>0, <2>2 DEF FirstOf, CallRecords
    <2>6. call'[a] = c => Prepared(call[a])'
      BY <2>1, <2>2, <2>4, <2>5 DEF Prepared
    <2>7. TableTypes' /\ RowsHaveParents' /\ registry' \in Registries /\ RolesKnown'
      BY <1>0, <2>1, <2>4 DEF TableTypes, RowsHaveParents, RolesKnown
    <2> HIDE DEF c
    <2>8. QED
      BY <2>3, <2>4, <2>6, <2>7, CallStep
  <1>8. CASE InsertRole(a)
    <2>1. PICK to \in {"grantPerm", "row"} :
             /\ call' = [call EXCEPT ![a] = [d EXCEPT !.at = to]]
             /\ d.at = IF to = "row" THEN "assignRole" ELSE "grantRole"
             /\ backend' = backend /\ UNCHANGED <<storeCalls, overlays>>
      BY <1>8 DEF InsertRole, Goes
    <2> DEFINE c == [d EXCEPT !.at = to]
    <2>2. roles' = roles \cup {d.role} /\ UNCHANGED <<schema, permissions, rolePerms, userRoles, registry>>
      BY <1>8 DEF InsertRole
    <2>3. c \in CallRecords /\ d.role \in ProperRoles
      BY <1>0, <2>1 DEF CallRecords, SyncSteps, Prepared
    <2>4. TableTypes' /\ RowsHaveParents' /\ registry' \in Registries /\ RolesKnown'
      BY <1>0, <2>1, <2>2, <2>3 DEF TableTypes, RowsHaveParents, RolesKnown
    <2>5. call'[a] = c => Prepared(call[a])'
      BY <1>0, <2>1, <2>2, <2>3 DEF Prepared, CallRecords
    <2>6. QED
      BY <2>1, <2>2, <2>3, <2>4, <2>5, CallStep
  <1>9. CASE InsertPermission(a)
    <2> DEFINE c == [d EXCEPT !.at = "row"]
    <2>1. /\ call' = [call EXCEPT ![a] = c] /\ d.at = "grantPerm" /\ backend' = backend
          /\ permissions' = permissions \cup {d.perm}
          /\ UNCHANGED <<schema, roles, rolePerms, userRoles, registry, storeCalls, overlays>>
      BY <1>9 DEF InsertPermission, Goes
    <2>2. c \in CallRecords /\ d.role \in roles /\ d.perm \in ProperPerms /\ d.user = {}
      BY <1>0, <2>1 DEF CallRecords, SyncSteps, Prepared
    <2>3. TableTypes' /\ RowsHaveParents' /\ registry' \in Registries /\ RolesKnown'
      BY <1>0, <2>1, <2>2 DEF TableTypes, RowsHaveParents, RolesKnown
    <2>4. call'[a] = c => Prepared(call[a])'
      BY <1>0, <2>1, <2>2 DEF Prepared, CallRecords
    <2>5. QED
      BY <2>1, <2>2, <2>3, <2>4, CallStep
  <1>10. CASE InsertRow(a)
    <2> DEFINE c == IF d.seeding THEN [d EXCEPT !.at = "seedPerm"] ELSE Idle
    <2>1. /\ call' = [call EXCEPT ![a] = c] /\ d.at = "row" /\ backend' = backend
          /\ UNCHANGED <<schema, registry, storeCalls, overlays>>
      BY <1>10 DEF InsertRow, Goes
    <2>2. /\ d.role \in ProperRoles /\ (d.user = {} => d.perm \in ProperPerms)
          /\ d.user \subseteq People /\ (d.seeding => d.user = {})
          /\ backend = "sql" => d.role \in roles /\ (d.user = {} => d.perm \in permissions)
      BY <1>0, <2>1 DEF Prepared, CallRecords
    <2>3. /\ roles' = roles \cup (IF backend = "memory" THEN {d.role} ELSE {})
          /\ permissions' = permissions \cup (IF backend = "memory" /\ d.user = {} THEN {d.perm} ELSE {})
          /\ rolePerms' = rolePerms \cup (IF d.user = {} THEN {<<d.role, d.perm>>} ELSE {})
          /\ userRoles' = userRoles \cup (d.user \X {d.role})
      BY <1>10 DEF InsertRow, Refers
    <2>4. d.role \in roles' /\ (d.user = {} => d.perm \in permissions')
      BY <1>0, <2>2, <2>3 DEF TableTypes
    <2>5. TableTypes' /\ registry' \in Registries /\ RolesKnown'
      <3>1. /\ roles' \subseteq ProperRoles /\ permissions' \subseteq ProperPerms
            /\ rolePerms' \subseteq ProperRoles \X ProperPerms /\ userRoles' \subseteq People \X ProperRoles
        BY <1>0, <2>2, <2>3 DEF TableTypes
      <3>2. QED
        BY <1>0, <2>1, <3>1 DEF TableTypes, RolesKnown
    <2>6. RowsHaveParents'
      BY <1>0, <2>3, <2>4 DEF RowsHaveParents
    <2>7. c \in CallRecords
      <3>1. [d EXCEPT !.at = "seedPerm"] \in CallRecords
        BY <1>0 DEF CallRecords, SyncSteps
      <3>2. QED
        BY <3>1, IdleTyped
    <2>8. call'[a] = c => Prepared(call[a])'
      BY <1>0, <2>2 DEF Prepared, CallRecords, Idle
    <2>9. QED
      BY <2>1, <2>3, <2>5, <2>6, <2>7, <2>8, CallStep
  <1>11. QED
    BY <1>1, <1>2, <1>3, <1>4, <1>5, <1>6, <1>7, <1>8, <1>9, <1>10 DEF Statement, SeedRole

(* The Registry's own functions.                                           *)
LEMMA Overlays ==
    ASSUME RbacInv, NEW r \in Registries, Overlay(r), \A g \in r.rolePerms : g[1] \in r.roles
    PROVE  RbacInv'
  BY DEF Overlay, tables, RbacInv, TableTypes, RowsHaveParents, Prepared, RolesKnown

(* Every statement, seed and load keeps the invariant of the policy.       *)
LEMMA RbacStep == RbacInv /\ [RbacNext]_rbacVars => RbacInv'
  <1> SUFFICES ASSUME RbacInv, [RbacNext]_rbacVars PROVE RbacInv'
    OBVIOUS
  <1>0. registry \in Registries /\ RolesKnown
    BY DEF RbacInv
  <1>1. ASSUME NEW a \in Admins,
               \/ SeedPresets(a) \/ LoadRegistry(a) \/ Statement(a)
               \/ \E r \in RoleNames, p \in PermNames : Grant(a, r, p)
               \/ \E u \in People, r \in RoleNames : AssignRole(a, u, r)
        PROVE  RbacInv'
    BY <1>1, Begins, Statements
  <1>2. ASSUME NEW r \in RoleNames, NEW perms \in SUBSET PermNames, GrantRolePermissions(r, perms)
        PROVE  RbacInv'
    <2> DEFINE n == [registry EXCEPT !.roles = @ \cup {Trimmed(r)},
                        !.rolePerms = @ \cup ({Trimmed(r)} \X ({Trimmed(p) : p \in perms} \ {Blank}))]
    <2>1. Trimmed(r) \in ProperRoles /\ ({Trimmed(p) : p \in perms} \ {Blank}) \subseteq ProperPerms
      BY <1>2, RbacAssumption DEF GrantRolePermissions, Trimmed
    <2>2. n \in Registries
      BY <1>0, <2>1 DEF Registries
    <2>3. \A g \in n.rolePerms : g[1] \in n.roles
      BY <1>0 DEF Registries, RolesKnown
    <2>4. QED
      BY <1>2, <2>2, <2>3, Overlays DEF GrantRolePermissions
  <1>3. ASSUME NEW u \in People, NEW r \in RoleNames, AssignRoles(u, r)
        PROVE  RbacInv'
    <2> DEFINE n == [registry EXCEPT !.userRoles = @ \cup {<<u, r>>}]
    <2>1. n \in Registries /\ \A g \in n.rolePerms : g[1] \in n.roles
      BY <1>0 DEF Registries, RolesKnown
    <2>2. QED
      BY <1>3, <2>1, Overlays DEF AssignRoles
  <1>4. ASSUME NEW u \in People, NEW p \in PermNames, GrantUserPermissions(u, p)
        PROVE  RbacInv'
    <2> DEFINE n == [registry EXCEPT !.userPerms = @ \cup {<<u, p>>}]
    <2>1. n \in Registries /\ \A g \in n.rolePerms : g[1] \in n.roles
      BY <1>0 DEF Registries, RolesKnown
    <2>2. QED
      BY <1>4, <2>1, Overlays DEF GrantUserPermissions
  <1>5. CASE UNCHANGED rbacVars
    BY <1>5 DEF rbacVars, tables, RbacInv, TableTypes, RowsHaveParents, Prepared, RolesKnown
  <1>6. QED
    BY <1>1, <1>2, <1>3, <1>4, <1>5 DEF RbacNext

(* The inductive invariant of the policy of roles.                         *)
LEMMA RbacInvariant == RbacSpec => []RbacInv
  BY RbacInitInv, RbacStep, PTL DEF RbacSpec

(* Rows refer to rows that are there, whatever fails or comes in between   *)
(* (sql.go:112-148, memory.go:88-131).                                     *)
THEOREM ParentsStay == RbacSpec => []RowsHaveParents
  <1>1. RbacInv => RowsHaveParents
    BY DEF RbacInv
  <1>2. QED
    BY <1>1, RbacInvariant, PTL

(* Whom a guard of permissions admits, the guard of their roles admits     *)
(* (rbac.go:130-200).                                                      *)
THEOREM GuardsConsistent == RbacSpec => []GuardsAgree
  <1>1. RbacInv => GuardsAgree
    <2> SUFFICES ASSUME RbacInv, NEW u \in People, NEW p \in PermNames,
                        RequireAnyPermission({u}, {p}) = 200, <<u, p>> \notin registry.userPerms
                 PROVE  RequireRole({u}, {r \in registry.roles : p \in PermissionsFor(r)}) = 200
      BY DEF GuardsAgree
    <2>1. HasPermission(u, p)
      BY DEF RequireAnyPermission
    <2>2. PICK r \in TokenRoles[u] \cup AssignedTo(u) : <<r, p>> \in registry.rolePerms
      BY <2>1 DEF HasPermission
    <2>3. r \in ProperRoles /\ r \in registry.roles
      BY <2>2 DEF RbacInv, Registries, RolesKnown
    <2>4. Trim[r] = r /\ r # Blank
      BY <2>3, TrimKeeps
    <2>5. p \in PermissionsFor(r) /\ HasRole(u, r)
      BY <2>2, <2>4 DEF PermissionsFor, HasRole, RolesFor
    <2>6. QED
      BY <2>3, <2>5 DEF RequireRole
  <1>2. QED
    BY <1>1, RbacInvariant, PTL

(* What a loaded Registry grants lies between what users had at its first  *)
(* query and what they have at its second (store.go:32-52).                *)
THEOREM LoadsCurrent == RbacSpec => LoadIsCurrent
  <1>1. ASSUME RbacInv, NEW a \in Admins, ReadUsers(a)
        PROVE  /\ call[a].floor \subseteq Held(registry'.rolePerms, registry'.userRoles)
               /\ Held(registry'.rolePerms, registry'.userRoles) \subseteq Held(rolePerms, userRoles)
    <2>1. /\ call[a].read \subseteq rolePerms /\ call[a].floor \subseteq Held(call[a].read, userRoles)
          /\ call[a].read \subseteq ProperRoles \X ProperPerms
      BY <1>1 DEF ReadUsers, Goes, RbacInv, Prepared, CallRecords
    <2>2. {<<Trim[g[1]], Trim[g[2]]>> : g \in call[a].read} = call[a].read
      BY <2>1, TrimKeeps
    <2>3. registry'.rolePerms = call[a].read /\ registry'.userRoles = userRoles
      BY <1>1, <2>2 DEF ReadUsers, Built, EmptyRegistry
    <2>4. QED
      BY <2>1, <2>3, HeldGrows
  <1>2. RbacInv => [\A a \in Admins : ReadUsers(a) =>
              /\ call[a].floor \subseteq Held(registry'.rolePerms, registry'.userRoles)
              /\ Held(registry'.rolePerms, registry'.userRoles) \subseteq Held(rolePerms, userRoles)]_rbacVars
    BY <1>1
  <1>3. QED
    BY <1>2, RbacInvariant, PTL DEF RbacSpec, LoadIsCurrent

-----------------------------------------------------------------------------
(***************************************************************************)
(* Migrations.                                                             *)
(***************************************************************************)
(* The state of a process; what it saw of the files is a part of them.     *)
Snapshots ==
    [at : {"idle", "open", "next", "run", "mark"}, way : {"up", "down"}, limit : Int,
     files : SUBSET dir, turn : Nat]

(* What the variables hold.                                                *)
MigrateShape ==
    /\ second \in Nat /\ 0 < second /\ version \in Nat /\ version \in {0} \cup Versions(dir) /\ dirty \in BOOLEAN
    /\ \A f \in dir \cup creating : f.version \in Nat /\ 0 < f.version /\ f.version <= second
    /\ Versions(creating) \subseteq Versions(dir)
    /\ deploy \in [Deploys -> Snapshots]

(* A process between Locks and Succeeds holds the lock, and the table is   *)
(* dirty while its file runs.                                              *)
HoldInv ==
    \A d \in Deploys :
        /\ deploy[d].at \in {"next", "run", "mark"} <=> lock = d
        /\ deploy[d].at = "next" => ~dirty
        /\ deploy[d].at \in {"run", "mark"} => dirty

(* What a process has not seen was created after all it has seen.          *)
SeenInv ==
    \A d \in Deploys : \A v \in Versions(dir) \ Merged :
        v \in Versions(deploy[d].files) \/ \A w \in Versions(deploy[d].files) : w < v

(* The schema is as the table says, but for one migration.                 *)
SettledBut(u) == \A v \in Versions(dir) \ (unrun \cup Merged) : v # u => (v \in applied <=> v <= version)

SettledInv ==
    /\ ~dirty => SettledBut(0)
    /\ \A d \in Deploys :
        /\ deploy[d].at = "mark" => SettledBut(0)
        /\ deploy[d].at = "run" =>
              /\ SettledBut(deploy[d].turn)
              /\ IF deploy[d].way = "up" THEN deploy[d].turn = version ELSE version < deploy[d].turn

(* The schema has migrations of the directory.                             *)
SchemaInv == applied \subseteq Versions(dir)

(* The inductive invariant.                                                *)
MigrateInv == MigrateShape /\ HoldInv /\ SeenInv /\ SettledInv /\ SchemaInv

(* What a flag asks for is a way and a number.                             *)
LEMMA AskedTyped ==
    ASSUME NEW cmd \in cmdMigrate
    PROVE  cmd.way \in {"up", "down"} /\ cmd.limit \in Int
BY MigrateAssumption DEF cmdMigrate, CmdMigrateUp, CmdMigrateDown, Steps, Up, Down

(* It holds at first.                                                      *)
LEMMA MigrateInitInv == MigrateInit => MigrateInv
<1> SUFFICES ASSUME MigrateInit PROVE MigrateInv
    OBVIOUS
<1>1. Versions({}) = {}
    BY DEF Versions
<1>2. MigrateShape
    <2>1. Absent \in Snapshots
        BY DEF Absent, Snapshots
    <2> QED
        <3>1. deploy \in [Deploys -> Snapshots]
            BY <2>1 DEF MigrateInit
        <3>2. \A f \in dir \cup creating : FALSE
            BY DEF MigrateInit
        <3>3. Versions(creating) \subseteq Versions(dir)
            BY DEF MigrateInit
        <3>4. second = 1 /\ version = 0 /\ dirty \in BOOLEAN
            BY Zenon DEF MigrateInit
        <3>5. second \in Nat /\ 0 < second /\ version \in Nat
            BY <3>4
        <3> QED
            BY <3>1, <3>2, <3>3, <3>4, <3>5 DEF MigrateShape
<1>3. HoldInv /\ SeenInv /\ SettledInv /\ SchemaInv
    BY <1>1, MigrateAssumption DEF MigrateInit, HoldInv, SeenInv, SettledInv, SettledBut, SchemaInv, Absent
<1> QED
    BY <1>2, <1>3 DEF MigrateInv

(* The developer's steps: what is new is the newest, or merged.            *)
LEMMA DirStep ==
    ASSUME MigrateInv, SecondPasses \/ Created \/ CreateFails \/ Merge \/ (\E n \in Names : Create(n))
    PROVE  MigrateInv'
<1> USE DEF MigrateInv, MigrateShape
<1>1. sqlDatabase' = sqlDatabase /\ deploy' = deploy
    BY DEF SecondPasses, Created, CreateFails, Merge, Create, sqlDatabase
<1>2. second' \in Nat /\ 0 < second' /\ second <= second' /\ dir \subseteq dir'
    BY MigrateAssumption DEF SecondPasses, Created, CreateFails, Merge, Create
<1>3. Versions(dir) \subseteq Versions(dir') /\ Merged \subseteq Merged'
    BY <1>2 DEF Versions, Merged
<1>4. \A f \in dir' \cup creating' : f.version \in Nat /\ 0 < f.version /\ f.version <= second'
    <2>1. CASE SecondPasses
        BY <2>1, <1>2 DEF SecondPasses
    <2>2. CASE Created \/ CreateFails
        BY <2>2 DEF Created, CreateFails
    <2>3. CASE Merge
        BY <2>3, MigrateAssumption DEF Merge, File, Versions
    <2>4. CASE \E n \in Names : Create(n)
        BY <2>4 DEF Create, File
    <2> QED
        BY <2>1, <2>2, <2>3, <2>4
<1>5. Versions(creating') \subseteq Versions(dir')
    <2>1. CASE SecondPasses \/ CreateFails \/ Created \/ Merge
        BY <2>1, <1>3 DEF SecondPasses, CreateFails, Created, Merge, Versions
    <2>2. CASE \E n \in Names : Create(n)
        <3>1. PICK n \in Names : Create(n)
            BY <2>2
        <3>2. File(second, n, "up") \in dir' /\ creating' = {File(second, n, "down")}
            BY <3>1 DEF Create
        <3>3. File(second, n, "up").version = second /\ File(second, n, "down").version = second
            BY DEF File
        <3> QED
            BY <3>2, <3>3 DEF Versions
    <2> QED
        BY <2>1, <2>2
<1>6. \A v \in Versions(dir') \ Merged' : v \notin Versions(dir) => v = second /\ second' = second
    <2>1. CASE SecondPasses \/ CreateFails
        BY <2>1 DEF SecondPasses, CreateFails
    <2>2. CASE Created
        BY <2>2 DEF Created, Versions
    <2>3. CASE Merge
        <3>1. PICK m \in Late : dir' = dir \cup {File(m.version, m.name, "up"), File(m.version, m.name, "down")}
            BY <2>3 DEF Merge
        <3>2. m.version \in Merged'
            BY <3>1 DEF Merged
        <3>3. File(m.version, m.name, "up").version = m.version /\ File(m.version, m.name, "down").version = m.version
            BY DEF File
        <3> QED
            BY <3>1, <3>2, <3>3 DEF Versions
    <2>4. CASE \E n \in Names : Create(n)
        BY <2>4 DEF Create, File, Versions
    <2> QED
        BY <2>1, <2>2, <2>3, <2>4
<1>7. \A w \in Versions(dir) : w \in Nat /\ 0 < w /\ w <= second
    BY DEF Versions
<1>8. MigrateShape'
    <2>1. deploy \in [Deploys -> Snapshots']
        BY <1>1, <1>2 DEF Snapshots
    <2> QED
        BY <2>1, <1>1, <1>2, <1>3, <1>4, <1>5 DEF sqlDatabase
<1>9. HoldInv' /\ SchemaInv'
    BY <1>1, <1>3 DEF HoldInv, SchemaInv, sqlDatabase
<1>10. SeenInv'
    <2> SUFFICES ASSUME NEW d \in Deploys, NEW v \in Versions(dir') \ Merged'
                 PROVE  v \in Versions(deploy[d].files) \/ \A w \in Versions(deploy[d].files) : w < v
        BY <1>1 DEF SeenInv
    <2>1. Versions(deploy[d].files) \subseteq Versions(dir)
        BY DEF Versions, Snapshots
    <2>2. CASE v \in Versions(dir)
        BY <2>2, <1>3 DEF SeenInv
    <2>3. CASE v \notin Versions(dir)
        BY <2>1, <2>3, <1>6, <1>7
    <2> QED
        BY <2>2, <2>3
<1>11. ASSUME NEW u, SettledBut(u) PROVE SettledBut(u)'
    <2> SUFFICES ASSUME NEW v \in Versions(dir') \ (unrun \cup Merged'), v # u
                 PROVE  v \in applied <=> v <= version
        BY <1>1 DEF SettledBut, sqlDatabase
    <2>1. CASE v \in Versions(dir)
        BY <2>1, <1>3, <1>11 DEF SettledBut
    <2>2. CASE v \notin Versions(dir)
        <3>1. v = second
            BY <2>2, <1>6
        <3>2. v \notin applied /\ (version = 0 \/ (version <= second /\ version # second))
            BY <3>1, <2>2, <1>7 DEF SchemaInv
        <3>3. 0 < second
            BY <3>1, <1>4, <1>2, <1>6, <2>2 DEF Versions
        <3> QED
            BY <3>1, <3>2, <3>3
    <2> QED
        BY <2>1, <2>2
<1>12. SettledInv'
    BY <1>1, <1>11 DEF SettledInv, sqlDatabase
<1> QED
    BY <1>8, <1>9, <1>10, <1>12


(* What a deploy does to its own snapshot and to the table.                *)
LEMMA DeployStep ==
    ASSUME MigrateInv, NEW d \in Deploys, Migrates(d)
    PROVE  MigrateInv'
<1> USE DEF MigrateInv, MigrateShape
<1>1. deploy[d].way \in {"up", "down"}
    BY DEF Snapshots
<1>2. UNCHANGED developer
    BY DEF Migrates, OpenMigrator, Locks, Marks, Runs, Cleans, Succeeds, Aborts, Becomes, Ends
<1>3. /\ \A e \in Deploys \ {d} : deploy'[e] = deploy[e]
      /\ deploy' \in [Deploys -> Snapshots]
    <2>1. Absent \in Snapshots
        BY DEF Absent, Snapshots
    <2>2. deploy[d] \in Snapshots
        OBVIOUS
    <2>3. ASSUME NEW cmd \in cmdMigrate, OpenMigrator(d, cmd)
          PROVE  /\ \A e \in Deploys \ {d} : deploy'[e] = deploy[e]
                 /\ deploy' \in [Deploys -> Snapshots]
        <3>1. [Absent EXCEPT !.at = "open", !.way = cmd.way, !.limit = cmd.limit, !.files = dir] \in Snapshots
            BY <2>1, AskedTyped DEF Absent, Snapshots
        <3> QED
            BY <2>3, <3>1 DEF OpenMigrator
    <2>4. CASE Locks(d)
        <3>1. [deploy[d] EXCEPT !.at = "next"] \in Snapshots
            BY <2>2 DEF Snapshots
        <3> QED
            BY <2>4, <3>1 DEF Locks, Becomes
    <2>5. CASE Marks(d)
        <3>1. PICK v \in {0} \cup Versions(deploy[d].files) :
                deploy' = [deploy EXCEPT ![d].at = "run", ![d].turn = IF deploy[d].way = "up" THEN v ELSE version,
                                         ![d].limit = IF @ > 0 THEN @ - 1 ELSE @]
            BY <2>5 DEF Marks
        <3>2. v \in Nat
            BY <2>2 DEF Versions, Snapshots
        <3>3. ASSUME NEW t \in Nat, NEW l \in Int
              PROVE  [deploy[d] EXCEPT !.at = "run", !.turn = t, !.limit = l] \in Snapshots
            BY <2>2 DEF Snapshots
        <3>4. (IF deploy[d].way = "up" THEN v ELSE version) \in Nat
            BY <3>2
        <3>5. (IF deploy[d].limit > 0 THEN deploy[d].limit - 1 ELSE deploy[d].limit) \in Int
            BY <2>2 DEF Snapshots
        <3> QED
            BY <3>1, <3>3, <3>4, <3>5
    <2>6. CASE Runs(d) \/ Cleans(d)
        <3>1. /\ [deploy[d] EXCEPT !.at = "mark"] \in Snapshots
              /\ [deploy[d] EXCEPT !.at = "next", !.turn = 0] \in Snapshots
            BY <2>2 DEF Snapshots
        <3> QED
            BY <2>6, <3>1 DEF Runs, Cleans, Becomes
    <2>7. CASE Succeeds(d) \/ Aborts(d)
        BY <2>1, <2>7 DEF Succeeds, Aborts, Ends
    <2> QED
        BY <2>3, <2>4, <2>5, <2>6, <2>7 DEF Migrates
<1>4. /\ deploy'[d].files = deploy[d].files \/ deploy'[d].files = dir \/ deploy'[d].files = {}
      /\ deploy'[d].at \notin {"idle", "open"} =>
            deploy'[d].way = deploy[d].way /\ deploy'[d].files = deploy[d].files
    <2>1. CASE \E cmd \in cmdMigrate : OpenMigrator(d, cmd)
        BY <2>1 DEF OpenMigrator, Absent
    <2>2. CASE Locks(d) \/ Marks(d)
        <3>1. deploy'[d].way = deploy[d].way /\ deploy'[d].files = deploy[d].files
            <4>1. deploy[d] \in Snapshots /\ deploy \in [Deploys -> Snapshots]
                OBVIOUS
            <4>2. CASE Locks(d)
                BY <4>1, <4>2 DEF Locks, Becomes, Snapshots
            <4>3. CASE Marks(d)
                BY <4>1, <4>3 DEF Marks, Snapshots
            <4> QED
                BY <2>2, <4>2, <4>3
        <3> QED
            BY <3>1
    <2>3. CASE Runs(d) \/ Cleans(d)
        BY <2>3 DEF Runs, Cleans, Becomes, Snapshots
    <2>4. CASE Succeeds(d) \/ Aborts(d)
        BY <2>4 DEF Succeeds, Aborts, Ends, Absent
    <2> QED
        BY <2>1, <2>2, <2>3, <2>4 DEF Migrates
<1>5. /\ version' \in Nat /\ version' \in {0} \cup Versions(dir) /\ dirty' \in BOOLEAN
      /\ unrun \subseteq unrun'
    <2>1. CASE Marks(d)
        <3>1. Versions(deploy[d].files) \subseteq Versions(dir)
            BY DEF Versions, Snapshots
        <3> QED
            BY <2>1, <3>1 DEF Marks, Versions
    <2>2. CASE ~Marks(d)
        BY <2>2 DEF Migrates, OpenMigrator, Locks, Runs, Cleans, Succeeds, Aborts, sqlDatabase
    <2> QED
        BY <2>1, <2>2
<1>6. MigrateShape'
    BY <1>2, <1>3, <1>5 DEF developer, Snapshots, Versions
<1>7. HoldInv'
    <2>1. CASE Locks(d)
        BY <2>1, <1>3, MigrateAssumption DEF HoldInv, Locks, Becomes, Snapshots
    <2>2. CASE Marks(d)
        BY <2>2, <1>3 DEF HoldInv, Marks
    <2>3. CASE Runs(d) \/ Cleans(d)
        BY <2>3, <1>3 DEF HoldInv, Runs, Cleans, Becomes, Snapshots
    <2>4. CASE Succeeds(d)
        BY <2>4, <1>3, MigrateAssumption DEF HoldInv, Succeeds, Ends, Absent
    <2>5. CASE Aborts(d)
        BY <2>5, <1>3, MigrateAssumption DEF HoldInv, Aborts, Ends, Absent
    <2>6. CASE \E cmd \in cmdMigrate : OpenMigrator(d, cmd)
        BY <2>6, <1>3 DEF HoldInv, OpenMigrator, Absent, sqlDatabase
    <2> QED
        BY <2>1, <2>2, <2>3, <2>4, <2>5, <2>6 DEF Migrates
<1>8. SeenInv'
    BY <1>2, <1>3, <1>4 DEF SeenInv, developer, Versions, Merged
<1>9. SchemaInv'
    <2>1. CASE Runs(d) /\ HasFile(d)
        <3>1. deploy[d].turn \in Versions(dir)
            BY <2>1 DEF HasFile, Versions, Snapshots
        <3> QED
            BY <2>1, <3>1, <1>2 DEF Runs, SchemaInv, developer, Versions
    <2>2. CASE ~(Runs(d) /\ HasFile(d))
        <3>1. applied' = applied
            BY <2>2 DEF Migrates, OpenMigrator, Locks, Marks, Runs, Cleans, Succeeds, Aborts, sqlDatabase
        <3> QED
            BY <3>1, <1>2 DEF SchemaInv, developer, Versions
    <2> QED
        BY <2>1, <2>2
<1>10. SettledInv'
    <2> DEFINE V == Versions(dir) \ (unrun' \cup Merged)
    <2>1. Versions(dir)' = Versions(dir) /\ Merged' = Merged /\ V \subseteq Versions(dir) \ (unrun \cup Merged)
        BY <1>2, <1>5 DEF developer, Versions, Merged
    <2>2. \A v \in Versions(dir) : v \in Nat /\ 0 < v
        BY DEF Versions
    <2>3. CASE Marks(d)
        <3> DEFINE known == Versions(deploy[d].files)
        <3>1. PICK v \in {0} \cup known :
                /\ Follows(d, v) /\ version' = v
                /\ deploy'[d].turn = IF deploy[d].way = "up" THEN v ELSE version
            BY <2>3 DEF Marks
        <3>2. deploy'[d].at = "run" /\ dirty' = TRUE /\ applied' = applied /\ unrun' = unrun /\ lock = d
            BY <2>3 DEF Marks, HoldInv
        <3>3. SettledBut(0)
            BY <2>3 DEF Marks, HoldInv, SettledInv
        <3>4. known \subseteq Versions(dir)
            BY DEF Versions, Snapshots
        <3>5. version = 0 \/ version \in known
            BY <2>3 DEF Marks, Known
        <3>6. \A e \in Deploys \ {d} : deploy'[e].at \notin {"run", "mark"}
            BY <1>3, <3>2 DEF HoldInv
        <3>7. \A u \in V : u \in known \/ \A w \in known : w < u
            BY <2>1 DEF SeenInv
        <3>8. CASE deploy[d].way = "up"
            <4>1. v \in known /\ version < v /\ \A w \in known : w > version => v <= w
                BY <3>1, <3>8 DEF Follows, Ahead
            <4>2. \A u \in V : u # v => (u \in applied <=> u <= v)
                BY <4>1, <3>3, <3>4, <3>7, <2>1, <2>2 DEF SettledBut
            <4>3. SettledBut(deploy[d].turn)'
                BY <4>2, <3>1, <3>2, <3>8, <2>1 DEF SettledBut
            <4> QED
                BY <4>3, <3>1, <3>2, <3>6, <3>8, <1>4 DEF SettledInv
        <3>9. CASE deploy[d].way = "down"
            <4>1. version # 0
                BY <2>3, <3>9 DEF Marks, Left
            <4>2. v \in Nat /\ v < version /\ \A w \in known : w < version => w <= v
                BY <4>1, <3>1, <3>9, <3>4, <2>2 DEF Follows, Behind
            <4>3. \A u \in V : u # version => (u \in applied <=> u <= v)
                BY <4>1, <4>2, <3>3, <3>5, <3>7, <2>1, <2>2 DEF SettledBut
            <4>4. SettledBut(deploy[d].turn)'
                BY <4>3, <3>1, <3>2, <3>9, <2>1 DEF SettledBut
            <4> QED
                BY <4>2, <4>4, <3>1, <3>2, <3>6, <3>9, <1>4 DEF SettledInv
        <3> QED
            BY <3>8, <3>9, <1>1
    <2>4. CASE Runs(d)
        <3>1. /\ deploy'[d].at = "mark" /\ dirty' = dirty /\ version' = version
              /\ dirty /\ lock = d /\ deploy[d].at = "run"
            BY <2>4 DEF Runs, Becomes, HoldInv
        <3>2. \A e \in Deploys \ {d} : deploy'[e].at \notin {"run", "mark"}
            BY <1>3, <3>1 DEF HoldInv
        <3> DEFINE t == deploy[d].turn
        <3>3. /\ SettledBut(t)
              /\ IF deploy[d].way = "up" THEN t = version ELSE version < t
            BY <3>1 DEF SettledInv
        <3>4. \/ t \notin V /\ applied' = applied
              \/ deploy[d].way = "up" /\ applied' = applied \cup {t}
              \/ deploy[d].way = "down" /\ applied' = applied \ {t}
            BY <2>4, <1>1 DEF Runs
        <3>5. \A v \in V : v \in applied' <=> v <= version
            <4>1. t \in Nat
                BY DEF Snapshots
            <4> QED
                BY <4>1, <3>3, <3>4, <2>1, <2>2 DEF SettledBut
        <3>6. SettledBut(0)'
            BY <3>1, <3>5, <2>1 DEF SettledBut
        <3> QED
            BY <3>1, <3>2, <3>6 DEF SettledInv
    <2>5. ASSUME NEW u, SettledBut(u), ~Marks(d), ~Runs(d) PROVE SettledBut(u)'
        <3>1. version' = version /\ applied' = applied
            BY <2>5 DEF Migrates, OpenMigrator, Locks, Cleans, Succeeds, Aborts, sqlDatabase
        <3> QED
            BY <2>5, <3>1, <2>1 DEF SettledBut
    <2>6. CASE ~Marks(d) /\ ~Runs(d)
        <3>1. deploy'[d].at \notin {"run", "mark"} /\ version' = version
            <4>1. CASE \E cmd \in cmdMigrate : OpenMigrator(d, cmd)
                BY <4>1 DEF OpenMigrator, Absent, sqlDatabase
            <4>2. CASE Locks(d) \/ Cleans(d)
                BY <4>2 DEF Locks, Becomes, Cleans, Snapshots
            <4>3. CASE Succeeds(d) \/ Aborts(d)
                BY <4>3 DEF Succeeds, Aborts, Ends, Absent
            <4> QED
                BY <2>6, <4>1, <4>2, <4>3 DEF Migrates
        <3>2. ~dirty' => ~dirty \/ deploy[d].at = "mark"
            BY <2>6 DEF Migrates, OpenMigrator, Locks, Cleans, Succeeds, Aborts, sqlDatabase
        <3>3. ~dirty' => SettledBut(0)'
            BY <2>5, <2>6, <3>2 DEF SettledInv
        <3>4. ASSUME NEW e \in Deploys, deploy'[e].at \in {"run", "mark"}
              PROVE  e # d /\ deploy'[e] = deploy[e]
            BY <3>1, <3>4, <1>3
        <3> QED
            BY <2>5, <2>6, <3>1, <3>3, <3>4 DEF SettledInv
    <2> QED
        BY <2>3, <2>4, <2>6
<1> QED
    BY <1>6, <1>7, <1>8, <1>9, <1>10

(* Nothing happens.                                                        *)
LEMMA MigrateStutter == MigrateInv /\ UNCHANGED migrateVars => MigrateInv'
BY DEF migrateVars, developer, sqlDatabase, MigrateInv, MigrateShape, HoldInv, SeenInv, SettledInv,
       SettledBut, SchemaInv, Versions, Merged, Snapshots

(* It always holds.                                                        *)
LEMMA MigrateInvInductive == MigrateSpec => []MigrateInv
<1>1. MigrateInv /\ [MigrateNext]_migrateVars => MigrateInv'
    BY DirStep, DeployStep, MigrateStutter DEF MigrateNext
<1> QED
    BY MigrateInitInv, <1>1, PTL DEF MigrateSpec

(* A database that is not dirty has its migrations up to its version and   *)
(* no other, whichever deploys overlapped, failed or were killed.          *)
THEOREM SchemaIsAsRecorded == MigrateSpec => []SchemaMatches
<1>1. MigrateInv => SchemaMatches
    <2> SUFFICES ASSUME MigrateInv, ~dirty, NEW v \in Versions(dir) \ (unrun \cup Merged)
                 PROVE  v \in applied <=> v <= version
        BY DEF SchemaMatches
    <2>1. v # 0
        BY DEF MigrateInv, MigrateShape, Versions
    <2> QED
        BY <2>1 DEF MigrateInv, SettledInv, SettledBut
<1> QED
    BY <1>1, MigrateInvInductive, PTL

-----------------------------------------------------------------------------
(***************************************************************************)
(* Accounts uses its three parts one at a time, and each keeps its promises. *)
(***************************************************************************)
(* What the specifications promise holds of accounts as a whole.       *)
THEOREM AccountsKeepPromises ==
    AccountsSpec => /\ [](RowsHaveParents /\ GuardsAgree /\ SchemaMatches)
                    /\ SingleUse /\ RevokedStayDead /\ LoadIsCurrent
<1>1. AccountsInit => Init /\ RbacInit /\ MigrateInit
  BY DEF AccountsInit
<1>2. [AccountsNext]_<<area, vars, rbacVars, migrateVars>> =>
        [Next]_vars /\ [RbacNext]_rbacVars /\ [MigrateNext]_migrateVars
  BY DEF AccountsNext
<1>3. AccountsSpec => Spec /\ RbacSpec /\ MigrateSpec
  BY <1>1, <1>2, PTL DEF AccountsSpec, Spec, RbacSpec, MigrateSpec
<1>4. Spec /\ RbacSpec /\ MigrateSpec =>
        /\ [](RowsHaveParents /\ GuardsAgree /\ SchemaMatches)
        /\ SingleUse /\ RevokedStayDead /\ LoadIsCurrent
  BY ParentsStay, GuardsConsistent, SchemaIsAsRecorded, ExchangedOnce, RevokedNeverExchanged, LoadsCurrent, PTL
<1> QED BY <1>3, <1>4

=============================================================================
