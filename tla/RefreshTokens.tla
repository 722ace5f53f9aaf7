--------------------------- MODULE RefreshTokens ---------------------------
(***************************************************************************)
(* The refresh tokens of irmik/auth: IssueTokenPair and Refresh over the   *)
(* process-local MemoryRefreshStore, with RevokeUser, expiry and restarts. *)
(* Each method of the store is one step (it holds mu throughout); the      *)
(* steps of one call interleave with those of others.                      *)
(***************************************************************************)
EXTENDS Naturals

CONSTANTS
    Users,
    Ids,            \* jti of the refresh tokens
    Calls,          \* calls of IssueTokenPair and Refresh
    None,           \* no token, no user
    TTL,            \* Config.RefreshTTL, also the ttl of the store
    MaxTime,        \* bound of the clock
    MaxRestarts     \* bound: restarts of the process

Records == [user : Users, exp : Nat]

ASSUME RefreshAssumption ==
    /\ TTL \in Nat \ {0} /\ MaxTime \in Nat /\ MaxRestarts \in Nat
    /\ None \notin Users \cup Ids \cup Records

VARIABLES
    now,            \* the clock
    tokens,         \* MemoryRefreshStore.tokens
    revokedUntil,   \* MemoryRefreshStore.revokedUntil; 0 is no entry
    jwt,            \* the user and exp of every token signed so far
    given,          \* the tokens clients hold
    used,           \* tokens exchanged so far
    dead,           \* tokens signed before a revocation of their user
    pc,             \* control state of the calls
    old,            \* the token a Refresh was given
    user,           \* the user the caller says the call is for
    new,            \* the token the call makes
    restarts        \* restarts so far

history == <<jwt, given, used, dead>>
calls == <<pc, old, user, new>>
vars == <<now, tokens, revokedUntil, history, calls, restarts>>

Init ==
    /\ now = 1
    /\ tokens = [i \in Ids |-> None]
    /\ revokedUntil = [u \in Users |-> 0]
    /\ jwt = [i \in Ids |-> None] /\ given = {} /\ used = {} /\ dead = {}
    /\ pc = [c \in Calls |-> "idle"]
    /\ old = [c \in Calls |-> None] /\ new = [c \in Calls |-> None]
    /\ user \in [Calls -> Users]
    /\ restarts = 0

Goto(c, at, next) == pc[c] = at /\ pc' = [pc EXCEPT ![c] = next]

-----------------------------------------------------------------------------
Tick ==
    /\ now < MaxTime /\ now' = now + 1
    /\ UNCHANGED <<tokens, revokedUntil, history, calls, restarts>>

(* The store is process-local; the secret, and so the JWTs, survive.       *)
Restart ==
    /\ restarts < MaxRestarts /\ restarts' = restarts + 1
    /\ tokens' = [i \in Ids |-> None]
    /\ revokedUntil' = [u \in Users |-> 0]
    /\ pc' = [c \in Calls |-> "idle"]
    /\ UNCHANGED <<now, history, old, user, new>>

(* gcLocked, which runs or not: once a minute, or when the store is large. *)
Expired(r) == now > r.exp

Collected(run) ==
    [i \in Ids |-> IF run /\ tokens[i] # None THEN
                      IF Expired(tokens[i]) THEN None ELSE tokens[i]
                   ELSE tokens[i]]

CollectedUntil(run) ==
    [u \in Users |-> IF run /\ revokedUntil[u] <= now THEN 0 ELSE revokedUntil[u]]

IsRevoked(u) == now < revokedUntil[u]

-----------------------------------------------------------------------------
(* IssueTokenPair: the claims are signed, then the id is stored.           *)

Login(c, u) ==
    /\ Goto(c, "idle", "sign")
    /\ old' = [old EXCEPT ![c] = None]
    /\ user' = [user EXCEPT ![c] = u]
    /\ UNCHANGED <<now, tokens, revokedUntil, history, new, restarts>>

Sign(c) ==
    /\ Goto(c, "sign", "put")
    /\ \E i \in Ids :
          /\ jwt[i] = None
          /\ jwt' = [jwt EXCEPT ![i] = [user |-> user[c], exp |-> now + TTL]]
          /\ new' = [new EXCEPT ![c] = i]
    /\ UNCHANGED <<now, tokens, revokedUntil, given, used, dead, old, user, restarts>>

Put(c) ==
    /\ Goto(c, "put", "idle")
    /\ \E gc \in BOOLEAN :
          /\ tokens' = [Collected(gc) EXCEPT ![new[c]] = [user |-> user[c], exp |-> now + TTL]]
          /\ revokedUntil' = CollectedUntil(gc)
    /\ given' = given \cup {new[c]}
    /\ UNCHANGED <<now, jwt, used, dead, old, user, new, restarts>>

(* newJTI or the store failed.                                             *)
IssueFails(c) ==
    /\ Goto(c, "sign", "idle") \/ Goto(c, "put", "idle")
    /\ UNCHANGED <<now, tokens, revokedUntil, history, old, user, new, restarts>>

-----------------------------------------------------------------------------
(* Refresh: parse, Consume, Revoked, then IssueTokenPair.                  *)

UserOf(i) == IF jwt[i] = None THEN None ELSE jwt[i].user

Refresh(c, i, u) ==
    /\ i \in given /\ now < jwt[i].exp
    /\ Goto(c, "idle", "consume")
    /\ old' = [old EXCEPT ![c] = i]
    /\ user' = [user EXCEPT ![c] = u]
    /\ UNCHANGED <<now, tokens, revokedUntil, history, new, restarts>>

(* Variant: the token is left to the Put of the new one.                   *)
FaultyTaken(t, i) == t

Taken(t, i) == [t EXCEPT ![i] = None]

(* Variant: the revocation is left to the check of Refresh.                *)
FaultyExchanges(c) ==
    /\ pc[c] = "consume" /\ tokens[old[c]] # None
    /\ ~Expired(tokens[old[c]])

Exchanges(c) ==
    LET i == old[c] IN
    /\ pc[c] = "consume" /\ tokens[i] # None
    /\ ~Expired(tokens[i]) /\ ~IsRevoked(tokens[i].user)

Consume(c) ==
    /\ Exchanges(c)
    /\ Goto(c, "consume", "check")
    /\ \E gc \in BOOLEAN :
          /\ tokens' = Taken(Collected(gc), old[c])
          /\ revokedUntil' = CollectedUntil(gc)
    /\ used' = used \cup {old[c]}
    /\ UNCHANGED <<now, jwt, given, dead, old, user, new, restarts>>

ConsumeFails(c) ==
    /\ ~Exchanges(c)
    /\ Goto(c, "consume", "idle")
    /\ \E gc \in BOOLEAN :
          /\ tokens' = Taken(Collected(gc), old[c])
          /\ revokedUntil' = CollectedUntil(gc)
    /\ UNCHANGED <<now, history, old, user, new, restarts>>

Rotates(c) == user[c] = UserOf(old[c]) /\ ~IsRevoked(user[c])

(* Revoked, or a token presented for another user: it is spent already.    *)
CheckFails(c) ==
    /\ Goto(c, "check", "idle")
    /\ ~Rotates(c)
    /\ UNCHANGED <<now, tokens, revokedUntil, history, old, user, new, restarts>>

CheckPasses(c) ==
    /\ Goto(c, "check", "sign")
    /\ Rotates(c)
    /\ UNCHANGED <<now, tokens, revokedUntil, history, old, user, new, restarts>>

-----------------------------------------------------------------------------
Of(u) == {i \in Ids : tokens[i] # None /\ tokens[i].user = u}

Without(u) == [i \in Ids |-> IF i \in Of(u) THEN None ELSE tokens[i]]

RevokeUser(u) ==
    /\ tokens' = Without(u)
    /\ \E gc \in BOOLEAN :
          revokedUntil' = [CollectedUntil(gc) EXCEPT ![u] = now + TTL]
    /\ dead' = dead \cup {i \in Ids : jwt[i] # None /\ UserOf(i) = u}
    /\ UNCHANGED <<now, jwt, given, used, calls, restarts>>

-----------------------------------------------------------------------------
Call(c) ==
    \/ Sign(c) \/ Put(c) \/ IssueFails(c)
    \/ Consume(c) \/ ConsumeFails(c) \/ CheckFails(c) \/ CheckPasses(c)

Next ==
    \/ Tick \/ Restart
    \/ \E u \in Users : RevokeUser(u)
    \/ \E c \in Calls :
          \/ Call(c)
          \/ \E u \in Users : Login(c, u)
          \/ \E i \in Ids, u \in Users : Refresh(c, i, u)

Spec == Init /\ [][Next]_vars

-----------------------------------------------------------------------------
TypeOK ==
    /\ now \in Nat
    /\ tokens \in [Ids -> Records \cup {None}]
    /\ revokedUntil \in [Users -> Nat]
    /\ jwt \in [Ids -> Records \cup {None}]
    /\ given \subseteq Ids /\ used \subseteq Ids /\ dead \subseteq Ids
    /\ \A i \in given : jwt[i] # None
    /\ pc \in [Calls -> {"idle", "sign", "put", "consume", "check"}]
    /\ old \in [Calls -> Ids \cup {None}] /\ new \in [Calls -> Ids \cup {None}]
    /\ \A c \in Calls : /\ pc[c] = "put" => new[c] # None
                        /\ pc[c] \in {"consume", "check"} => old[c] # None
    /\ user \in [Calls -> Users]
    /\ restarts \in 0 .. MaxRestarts

(* "The old token is invalid after one use" (jwt.go:114): a token is       *)
(* exchanged once, however many calls present it and whatever restarts.    *)
SingleUse == [][\A c \in Calls : Consume(c) => old[c] \notin used]_vars

(* "RevokeUser invalidates outstanding refresh tokens for userID until     *)
(* their TTL would have elapsed" (refresh.go:18): a token signed before a   *)
(* revocation, also one whose Put was still to come, is not exchanged as    *)
(* long as its claims are valid.                                           *)
RevokedStayDead ==
    [][\A c \in Calls : Consume(c) => old[c] \notin dead \/ now >= jwt[old[c]].exp]_vars

=============================================================================
