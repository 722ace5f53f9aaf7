--------------------------- MODULE SessionProofs ---------------------------
(***************************************************************************)
(* Theorems about sessions, for any number of browsers, requests, ids and  *)
(* failures: the variables keep their types, no browser ever runs as the   *)
(* user of another, a login changes the id, and the values a browser sees  *)
(* that waits for each response behave like a register.                    *)
(***************************************************************************)
EXTENDS Browsers, TLAPS

(* An id belongs to the browser whose request made it, and whatever is     *)
(* reachable under it belongs to that browser too.                         *)
OwnIds ==
    /\ \A r \in Requests :
          /\ sess[r].id # None => owner[sess[r].id] = ClientOf[r]
          /\ cookie[r] # None => owner[cookie[r]] = ClientOf[r]
          /\ hdr[r] \in Ids => owner[hdr[r]] = ClientOf[r]
    /\ \A c \in Clients : jar[c] # None => owner[jar[c]] = c

OwnUsers ==
    /\ \A r \in Requests : sess[r].vals.user \in {None, ClientOf[r]}
    /\ \A i \in Ids : store[i] # None =>
          owner[i] # None /\ store[i].vals.user \in {None, owner[i]}

SessionInv == TypeOK /\ OwnIds /\ OwnUsers

(* What a handler may leave in the Session of its request.                 *)
Proper(r, s) ==
    /\ s \in Sessions
    /\ s.id # None => owner[s.id] = ClientOf[r]
    /\ s.vals.user \in {None, ClientOf[r]}

-----------------------------------------------------------------------------
(* Sessions and requests are records of their types.                       *)
LEMMA RecordTypes ==
    /\ Empty \in Values /\ Empty.user = None /\ Empty.token = None
    /\ NewSession \in Sessions /\ NewSession.id = None
    /\ NewSession.vals.user = None
BY DEF Empty, Values, NewSession, Sessions

(* Every session of a reachable state is proper.                           *)
LEMMA SessionsProper ==
    ASSUME SessionInv, NEW r \in Requests
    PROVE  Proper(r, sess[r])
BY DEF SessionInv, TypeOK, OwnIds, OwnUsers, Proper

(* A step that changes one Session to a proper one and nothing the         *)
(* invariant relates it to.                                                *)
LEMMA KeepsInv ==
    ASSUME SessionInv, NEW r \in Requests, NEW s, Proper(r, s), Keep(r, s)
    PROVE  /\ sess' \in [Requests -> Sessions]
           /\ \A q \in Requests :
                 /\ sess'[q].id # None => owner[sess'[q].id] = ClientOf[q]
                 /\ sess'[q].vals.user \in {None, ClientOf[q]}
BY DEF SessionInv, TypeOK, OwnIds, OwnUsers, Proper, Keep

(* persist, whether its Save works or not, gives ids only to the browser   *)
(* that asked and stores only what that browser's request holds.           *)
LEMMA PersistKeepsInv ==
    ASSUME SessionInv, SessionAssumption, NEW r \in Requests,
           NEW s, Proper(r, s),
           NEW v \in Values, v.user \in {None, ClientOf[r]}, NEW d \in BOOLEAN,
           PersistSucceeds(r, s, v, d) \/ PersistFails(r, s),
           UNCHANGED <<env, spent, msgs, cookie, wrote, page>>,
           pc' \in [Requests -> {"idle", "load", "expired", "run", "regenerate", "done"}],
           \A q \in Requests : pc'[q] = "expired" => pc[q] = "expired"
    PROVE  SessionInv'
<1>1. PICK i \in Ids :
         /\ IdFor(s, i) /\ Make(r, i)
         /\ \/ /\ store' = [store EXCEPT ![i] = [vals |-> s.vals, flash |-> s.out, fresh |-> TRUE]]
               /\ Keep(r, [s EXCEPT !.id = i, !.out = {}, !.vals = v, !.dirty = d])
               /\ SetCookie(r, i) /\ UNCHANGED failures
            \/ /\ Keep(r, [s EXCEPT !.id = i])
               /\ Fails /\ UNCHANGED <<store, hdr>>
  BY DEF PersistSucceeds, PersistFails
<1>2. owner[i] \in {None, ClientOf[r]}
  BY <1>1 DEF IdFor, NewId, Proper
<1>3. /\ owner' \in [Ids -> Clients \cup {None}] /\ owner'[i] = ClientOf[r]
      /\ \A j \in Ids : owner[j] # None => owner'[j] = owner[j]
      /\ ClientOf[r] \in Clients /\ ClientOf[r] # None
  BY <1>1, <1>2 DEF Make, SessionInv, TypeOK, SessionAssumption
<1>4. /\ sess' \in [Requests -> Sessions]
      /\ \A q \in Requests : q # r => sess'[q] = sess[q]
      /\ sess'[r].id = i /\ sess'[r].vals.user \in {None, ClientOf[r]}
  <2>1. CASE Keep(r, [s EXCEPT !.id = i, !.out = {}, !.vals = v, !.dirty = d])
    <3> DEFINE t == [s EXCEPT !.id = i, !.out = {}, !.vals = v, !.dirty = d]
    <3>1. t \in Sessions /\ t.id = i /\ t.vals = v
      BY DEF Proper, Sessions
    <3> HIDE DEF t
    <3>2. sess' = [sess EXCEPT ![r] = t]
      BY <2>1 DEF Keep, t
    <3> QED BY <3>1, <3>2 DEF SessionInv, TypeOK
  <2>2. CASE Keep(r, [s EXCEPT !.id = i])
    BY <2>2 DEF Keep, SessionInv, TypeOK, Proper, Sessions
  <2> QED BY <1>1, <2>1, <2>2
<1>5. /\ hdr' \in [Requests -> Ids \cup {None, "clear"}]
      /\ \A q \in Requests : hdr'[q] = hdr[q] \/ (q = r /\ hdr'[q] = i)
  <2>1. CASE SetCookie(r, i)
    BY <2>1 DEF SetCookie, SessionInv, TypeOK
  <2>2. CASE UNCHANGED hdr
    BY <2>2 DEF SessionInv, TypeOK
  <2> QED BY <1>1, <2>1, <2>2
<1>6. /\ store' \in [Ids -> Entries \cup {None}]
      /\ \A j \in Ids : j # i => store'[j] = store[j]
      /\ store'[i] = store[i] \/ (store'[i] # None => store'[i].vals.user \in {None, ClientOf[r]})
  <2>1. CASE store' = [store EXCEPT ![i] = [vals |-> s.vals, flash |-> s.out, fresh |-> TRUE]]
    <3>1. [vals |-> s.vals, flash |-> s.out, fresh |-> TRUE] \in Entries
      BY DEF Proper, Sessions, Entries
    <3> QED BY <2>1, <3>1 DEF SessionInv, TypeOK, Proper
  <2>2. CASE UNCHANGED store
    BY <2>2 DEF SessionInv, TypeOK
  <2> QED BY <1>1, <2>1, <2>2
<1>7. failures' \in 0 .. MaxFailures
  BY <1>1 DEF Fails, SessionInv, TypeOK, SessionAssumption
<1>8. TypeOK'
  BY <1>3, <1>4, <1>5, <1>6, <1>7 DEF SessionInv, TypeOK, env
<1>9. OwnIds'
  <2>1. ASSUME NEW q \in Requests
        PROVE  /\ sess'[q].id # None => owner'[sess'[q].id] = ClientOf[q]
               /\ cookie'[q] # None => owner'[cookie'[q]] = ClientOf[q]
    BY <1>3, <1>4, SessionAssumption DEF SessionInv, TypeOK, OwnIds, Sessions
  <2>2. ASSUME NEW q \in Requests
        PROVE  hdr'[q] \in Ids => owner'[hdr'[q]] = ClientOf[q]
    BY <1>3, <1>5, SessionAssumption DEF SessionInv, TypeOK, OwnIds
  <2>3. ASSUME NEW c \in Clients
        PROVE  jar'[c] # None => owner'[jar'[c]] = c
    BY <1>3, SessionAssumption DEF SessionInv, TypeOK, OwnIds, env
  <2> QED BY <2>1, <2>2, <2>3 DEF OwnIds
<1>10. OwnUsers'
  BY <1>3, <1>4, <1>6 DEF SessionInv, TypeOK, OwnUsers
<1> QED BY <1>8, <1>9, <1>10 DEF SessionInv

(* Dropping an entry, whether or not the store did.                        *)
LEMMA DropKeepsInv ==
    ASSUME SessionInv, SessionAssumption, NEW i \in Ids \cup {None}, Drop(i)
    PROVE  /\ store' \in [Ids -> Entries \cup {None}]
           /\ \A j \in Ids : store'[j] \in {None, store[j]}
           /\ failures' \in 0 .. MaxFailures
<1>1. CASE store' = (IF i = None THEN store ELSE [store EXCEPT ![i] = None])
           /\ UNCHANGED failures
  BY <1>1 DEF SessionInv, TypeOK
<1>2. CASE Fails /\ UNCHANGED store
  BY <1>2 DEF SessionInv, TypeOK, Fails, SessionAssumption
<1> QED BY <1>1, <1>2 DEF Drop

(* The invariant holds before the first request.                           *)
LEMMA SessionInit == ASSUME SessionAssumption, Init PROVE SessionInv
<1>1. TypeOK
  BY RecordTypes DEF Init, TypeOK, SessionAssumption
<1>2. OwnIds
  BY RecordTypes DEF Init, OwnIds, SessionAssumption
<1>3. OwnUsers
  BY RecordTypes DEF Init, OwnUsers
<1> QED BY <1>1, <1>2, <1>3 DEF SessionInv

-----------------------------------------------------------------------------
(* Every step of a request, a browser and the store keeps it.              *)
LEMMA SessionStep == ASSUME SessionAssumption, SessionInv, [Next]_vars PROVE SessionInv'
<1> USE SessionAssumption
<1>1. CASE UNCHANGED vars
  BY <1>1 DEF SessionInv, TypeOK, OwnIds, OwnUsers, vars, env, history, response
<1>2. ASSUME NEW i \in Ids, Expire(i) PROVE SessionInv'
  <2>1. /\ store' \in [Ids -> Entries \cup {None}]
        /\ \A j \in Ids : \/ store'[j] = store[j]
                          \/ store[j] # None /\ store'[j].vals = store[j].vals
    <3>1. store[i] \in Entries
      BY <1>2 DEF Expire, SessionInv, TypeOK
    <3>2. /\ [store[i] EXCEPT !.fresh = FALSE] \in Entries
          /\ [store[i] EXCEPT !.fresh = FALSE].vals = store[i].vals
      BY <3>1 DEF Entries
    <3>3. store' = [store EXCEPT ![i] = [store[i] EXCEPT !.fresh = FALSE]]
      BY <1>2 DEF Expire
    <3> QED BY <1>2, <3>2, <3>3 DEF Expire, SessionInv, TypeOK
  <2> QED BY <1>2, <2>1 DEF Expire, SessionInv, TypeOK, OwnIds, OwnUsers,
                            env, history, response
<1>3. ASSUME NEW r \in Requests, Send(r) PROVE SessionInv'
  <2>1. Proper(r, NewSession)
    BY RecordTypes DEF Proper
  <2>2. jar[ClientOf[r]] # None => owner[jar[ClientOf[r]]] = ClientOf[r]
    BY DEF SessionInv, OwnIds
  <2>3. TypeOK'
    BY <1>3, <2>1, KeepsInv DEF Send, Goto, SessionInv, TypeOK, env, history
  <2>4. OwnIds' /\ OwnUsers'
    BY <1>3, <2>1, <2>2, KeepsInv DEF Send, Goto, SessionInv, TypeOK, OwnIds, OwnUsers,
                                       env, history
  <2> QED BY <2>3, <2>4 DEF SessionInv
<1>4. ASSUME NEW r \in Requests, Load(r) PROVE SessionInv'
  <2>1. CASE LoadNothing(r)
    BY <2>1 DEF LoadNothing, Goto, SessionInv, TypeOK, OwnIds, OwnUsers,
                env, history, response
  <2>2. CASE LoadFails(r)
    BY <2>2 DEF LoadFails, Fails, Goto, SessionInv, TypeOK, OwnIds, OwnUsers,
                env, history, response
  <2>3. CASE LoadFound(r)
    <3> DEFINE d == store[cookie[r]]
               s == [id |-> cookie[r], vals |-> d.vals, out |-> {},
                     dirty |-> FoundDirty(d.flash)]
    <3>1. /\ cookie[r] \in Ids /\ d # None /\ Goto(r, "load", "run") /\ Keep(r, s)
          /\ msgs' = [m \in Msgs |-> IF m \in d.flash THEN "seen" ELSE msgs[m]]
          /\ UNCHANGED <<store, env, owner, spent, response, failures>>
      BY <2>3 DEF LoadFound, Found, SessionInv, TypeOK
    <3>2. d \in Entries /\ owner[cookie[r]] = ClientOf[r] /\ d.vals.user \in {None, ClientOf[r]}
      BY <3>1 DEF SessionInv, TypeOK, OwnIds, OwnUsers
    <3>3. Proper(r, s)
      BY <3>1, <3>2 DEF Proper, Sessions, Entries, FoundDirty
    <3>4. TypeOK'
      BY <3>1, <3>3, KeepsInv DEF Goto, SessionInv, TypeOK, env, history, response
    <3>5. OwnIds' /\ OwnUsers'
      BY <3>1, <3>3, KeepsInv DEF SessionInv, OwnIds, OwnUsers, env, history, response
    <3> QED BY <3>4, <3>5 DEF SessionInv
  <2>4. CASE LoadExpired(r)
    BY <2>4 DEF LoadExpired, Found, Goto, SessionInv, TypeOK, OwnIds, OwnUsers,
                env, history, response
  <2>5. CASE LoadDeletes(r)
    BY <2>5 DEF LoadDeletes, Goto, SessionInv, TypeOK, OwnIds, OwnUsers,
                env, history, response
  <2> QED BY <1>4, <2>1, <2>2, <2>3, <2>4, <2>5 DEF Load
<1>5. ASSUME NEW r \in Requests, Handle(r) PROVE SessionInv'
  <2>1. CASE EnsureToken(r)
    <3>1. PICK t \in Tokens :
            /\ page' = [page EXCEPT ![r] = t]
            /\ \/ /\ spent' = spent \cup {t}
                  /\ Keep(r, [sess[r] EXCEPT !.vals.token = t, !.dirty = TRUE])
               \/ UNCHANGED <<spent, sess>>
      BY <2>1 DEF EnsureToken
    <3>2. Proper(r, [sess[r] EXCEPT !.vals.token = t, !.dirty = TRUE])
      BY SessionsProper DEF Proper, Sessions, Values
    <3>3. /\ sess' \in [Requests -> Sessions]
          /\ \A q \in Requests :
                /\ sess'[q].id # None => owner[sess'[q].id] = ClientOf[q]
                /\ sess'[q].vals.user \in {None, ClientOf[q]}
      BY <3>1, <3>2, KeepsInv DEF SessionInv, TypeOK, OwnIds, OwnUsers
    <3>4. TypeOK'
      BY <2>1, <3>1, <3>3 DEF EnsureToken, Change, Run, SessionInv, TypeOK, env
    <3>5. OwnIds' /\ OwnUsers'
      BY <2>1, <3>3 DEF EnsureToken, SessionInv, OwnIds, OwnUsers, env
    <3> QED BY <3>4, <3>5 DEF SessionInv
  <2>2. ASSUME NEW m \in Msgs, SetFlash(r, m) PROVE SessionInv'
    <3>1. Proper(r, [sess[r] EXCEPT !.out = @ \cup {m}, !.dirty = TRUE])
      BY SessionsProper DEF Proper, Sessions
    <3>2. TypeOK'
      BY <2>2, <3>1, KeepsInv DEF SetFlash, Change, Run, SessionInv, TypeOK, env, response
    <3>3. OwnIds' /\ OwnUsers'
      BY <2>2, <3>1, KeepsInv DEF SetFlash, SessionInv, OwnIds, OwnUsers, env, response
    <3> QED BY <3>2, <3>3 DEF SessionInv
  <2>3. CASE Clear(r)
    <3>1. Proper(r, [NewSession EXCEPT !.id = sess[r].id, !.dirty = TRUE])
      BY SessionsProper, RecordTypes DEF Proper, Sessions
    <3>2. TypeOK'
      BY <2>3, <3>1, KeepsInv DEF Clear, Change, Run, SessionInv, TypeOK, env, history
    <3>3. OwnIds' /\ OwnUsers'
      BY <2>3, <3>1, KeepsInv DEF Clear, SessionInv, OwnIds, OwnUsers, env, history
    <3> QED BY <3>2, <3>3 DEF SessionInv
  <2>4. CASE Save(r)
    <3>1. /\ Proper(r, sess[r]) /\ sess[r].vals \in Values
          /\ sess[r].vals.user \in {None, ClientOf[r]}
      BY SessionsProper DEF Proper, Sessions
    <3>2. /\ PersistSucceeds(r, sess[r], sess[r].vals, FALSE) \/ PersistFails(r, sess[r])
          /\ UNCHANGED <<env, spent, msgs, cookie, wrote, page>> /\ UNCHANGED pc
      BY <2>4 DEF Save, Persist, Change, Run
    <3> QED BY <3>1, <3>2, PersistKeepsInv DEF SessionInv, TypeOK
  <2>5. CASE Destroy(r)
    <3>1. Proper(r, NewSession) /\ sess[r].id \in Ids \cup {None}
      BY SessionsProper, RecordTypes DEF Proper, Sessions
    <3>2. TypeOK'
      BY <2>5, <3>1, KeepsInv, DropKeepsInv DEF Destroy, Run, SessionInv, TypeOK, env, history
    <3>3. OwnIds'
      BY <2>5, <3>1, KeepsInv DEF Destroy, SessionInv, TypeOK, OwnIds, env, history
    <3>4. OwnUsers'
      BY <2>5, <3>1, KeepsInv, DropKeepsInv DEF Destroy, SessionInv, OwnUsers, history
    <3> QED BY <3>2, <3>3, <3>4 DEF SessionInv
  <2>6. CASE Write(r)
    BY <2>6 DEF Write, Run, SessionInv, TypeOK, OwnIds, OwnUsers, env, history
  <2>7. CASE Panic(r)
    BY <2>7 DEF Panic, Goto, SessionInv, TypeOK, OwnIds, OwnUsers, env, history, response
  <2>8. CASE LoginDrops(r)
    <3>1. Proper(r, Anonymous(sess[r])) /\ sess[r].id \in Ids \cup {None}
      BY SessionsProper DEF Proper, Sessions, Anonymous
    <3>2. TypeOK'
      BY <2>8, <3>1, KeepsInv, DropKeepsInv
         DEF LoginDrops, Goto, SessionInv, TypeOK, env, history
    <3>3. OwnIds'
      BY <2>8, <3>1, KeepsInv DEF LoginDrops, SessionInv, OwnIds, env, history
    <3>4. OwnUsers'
      BY <2>8, <3>1, KeepsInv, DropKeepsInv DEF LoginDrops, SessionInv, OwnUsers, history
    <3> QED BY <3>2, <3>3, <3>4 DEF SessionInv
  <2>9. CASE LoginIssues(r)
    <3> DEFINE v == [sess[r].vals EXCEPT !.user = ClientOf[r]]
    <3>1. Proper(r, sess[r]) /\ v \in Values /\ v.user = ClientOf[r]
      BY SessionsProper DEF Proper, Sessions, Values
    <3>2. /\ PersistSucceeds(r, sess[r], v, TRUE) \/ PersistFails(r, sess[r])
          /\ UNCHANGED <<env, spent, msgs, cookie, wrote, page>>
          /\ pc' = [pc EXCEPT ![r] = "run"]
      BY <2>9 DEF LoginIssues, Goto
    <3> HIDE DEF v
    <3> QED BY <3>1, <3>2, PersistKeepsInv DEF SessionInv, TypeOK
  <2> QED BY <1>5, <2>1, <2>2, <2>3, <2>4, <2>5, <2>6, <2>7, <2>8, <2>9 DEF Handle
<1>6. ASSUME NEW r \in Requests, Finish(r) PROVE SessionInv'
  <2>1. pc' = [pc EXCEPT ![r] = "done"] /\ UNCHANGED <<env, spent, msgs, cookie, wrote, page>>
    BY <1>6 DEF Finish, Goto
  <2>2. CASE sess[r].dirty
    <3>1. /\ Proper(r, sess[r]) /\ sess[r].vals \in Values
          /\ sess[r].vals.user \in {None, ClientOf[r]}
      BY SessionsProper DEF Proper, Sessions
    <3>2. PersistSucceeds(r, sess[r], sess[r].vals, FALSE) \/ PersistFails(r, sess[r])
      BY <1>6, <2>2 DEF Finish, Persist
    <3> QED BY <2>1, <3>1, <3>2, PersistKeepsInv DEF SessionInv, TypeOK
  <2>3. CASE ~sess[r].dirty
    BY <1>6, <2>1, <2>3 DEF Finish, SessionInv, TypeOK, OwnIds, OwnUsers, env
  <2> QED BY <2>2, <2>3
<1>7. ASSUME NEW r \in Requests, Receive(r) PROVE SessionInv'
  <2>1. /\ NextJar(r) \in Ids \cup {None}
        /\ NextJar(r) # None => owner[NextJar(r)] = ClientOf[r]
    BY DEF NextJar, SessionInv, TypeOK, OwnIds
  <2>2. TypeOK'
    BY <1>7, <2>1 DEF Receive, Goto, SessionInv, TypeOK, history, response
  <2>3. OwnIds' /\ OwnUsers'
    BY <1>7, <2>1 DEF Receive, SessionInv, TypeOK, OwnIds, OwnUsers, history, response
  <2> QED BY <2>2, <2>3 DEF SessionInv
<1> QED BY <1>1, <1>2, <1>3, <1>4, <1>5, <1>6, <1>7 DEF Next

(* The inductive invariant of the sessions (session.go:78-227).            *)
THEOREM InvCorrect == Spec => []SessionInv
<1>1. Init => SessionInv
  BY SessionInit, SessionAssumption
<1>2. SessionInv /\ [Next]_vars => SessionInv'
  BY SessionStep, SessionAssumption
<1> QED BY <1>1, <1>2, PTL DEF Spec

(* The variables of the sessions keep their types.                         *)
THEOREM TypeCorrect == Spec => []TypeOK
<1>1. SessionInv => TypeOK
  BY DEF SessionInv
<1> QED BY <1>1, InvCorrect, PTL

(* For any number of browsers, of requests in flight and of failed store   *)
(* calls, no request runs, and no session a browser can reach is stored,   *)
(* as the user of another browser.                                         *)
THEOREM BrowsersIsolated == Spec => []Isolation
<1>1. SessionInv => Isolation
  <2> SUFFICES ASSUME SessionInv PROVE Isolation
    OBVIOUS
  <2>1. ASSUME NEW c \in Clients, NEW i \in Ids, Known(c, i), store[i] # None
        PROVE  store[i].vals.user \in {None, c}
    <3>1. owner[i] = c
      BY <2>1, SessionAssumption DEF SessionInv, TypeOK, OwnIds, Known, SessionAssumption
    <3> QED BY <2>1, <3>1 DEF SessionInv, OwnUsers
  <2> QED BY <2>1 DEF Isolation, SessionInv, OwnUsers
<1> QED BY <1>1, InvCorrect, PTL

-----------------------------------------------------------------------------
(* A request can store what its Session holds only while its handler runs. *)
Holds(r, i) == pc[r] \in {"run", "regenerate"} /\ sess[r].id = i

(* One request at most knows of the id: no browser sends it yet.           *)
Private(i, r) ==
    /\ \A c \in Clients : jar[c] # i
    /\ \A q \in Requests : cookie[q] # i
    /\ \A q \in Requests \ {r} : sess[q].id # i /\ hdr[q] # i

(* All who can read or write the session agree on its user.                *)
Settled(i, u) ==
    /\ store[i] # None => store[i].vals.user = u
    /\ \A r \in Requests : Holds(r, i) => sess[r].vals.user = u

(* An id is one request's own, or the user of its session is settled.      *)
Agreed(i) == \/ \E r \in Requests : Private(i, r)
             \/ \E u \in Clients \cup {None} : Settled(i, u)

Unnamed == \A r \in Requests : pc[r] \in {"load", "expired", "regenerate"} => sess[r].id = None

LoginInv == Unnamed /\ \A i \in Ids : Agreed(i)

(* A step of a request that gives its session no id and no other user.     *)
Inner(r) ==
    /\ UNCHANGED <<jar, cookie>>
    /\ \A i \in Ids : store'[i] \in {None, store[i]}
    /\ \A q \in Requests \ {r} : /\ pc'[q] = pc[q] /\ sess'[q] = sess[q]
                                 /\ hdr'[q] = hdr[q]
    /\ hdr'[r] \in {hdr[r], "clear"}
    /\ sess'[r].id \in {None, sess[r].id}
    /\ pc'[r] \in {"load", "expired", "regenerate"} => sess'[r].id = None
    /\ pc'[r] \in {"run", "regenerate"} /\ sess'[r].id # None =>
         pc[r] \in {"run", "regenerate"} /\ sess'[r].vals.user = sess[r].vals.user

(* A step of a request that stores its session, or fails to.               *)
Stores(r) ==
    /\ UNCHANGED <<jar, cookie>>
    /\ pc[r] \in {"run", "regenerate"} /\ pc'[r] \notin {"load", "expired", "regenerate"}
    /\ \A q \in Requests \ {r} : /\ pc'[q] = pc[q] /\ sess'[q] = sess[q]
                                 /\ hdr'[q] = hdr[q]
    /\ \E i \in Ids :
         /\ IdFor(sess[r], i)
         /\ \A j \in Ids \ {i} : store'[j] = store[j]
         /\ \/ store'[i] = store[i]
            \/ store'[i].vals.user = sess[r].vals.user
         /\ hdr'[r] \in {hdr[r], i}
         /\ sess'[r].id = i
         /\ sess[r].id # None => sess'[r].vals.user = sess[r].vals.user

(* Every step of the handlers, and the last one, is one of these.          *)
LEMMA HandlerKinds ==
    ASSUME SessionAssumption, SessionInv, Unnamed, "clear" \notin Ops,
           NEW r \in Requests, Handle(r) \/ Finish(r)
    PROVE  Inner(r) \/ Stores(r)
<1> USE DEF env, history, response
<1>1. /\ sess \in [Requests -> Sessions] /\ sess[r] \in Sessions
      /\ hdr \in [Requests -> Ids \cup {None, "clear"}]
      /\ store \in [Ids -> Entries \cup {None}]
      /\ pc \in [Requests -> {"idle", "load", "expired", "run", "regenerate", "done"}]
  BY DEF SessionInv, TypeOK
<1>2. ASSUME NEW v \in Values, NEW d \in BOOLEAN,
             PersistSucceeds(r, sess[r], v, d) \/ PersistFails(r, sess[r]),
             sess[r].id # None => v.user = sess[r].vals.user,
             UNCHANGED <<jar, cookie>>, pc[r] \in {"run", "regenerate"},
             UNCHANGED pc \/ \E at \in {"run", "done"} : pc' = [pc EXCEPT ![r] = at],
             pc'[r] # "regenerate"
      PROVE  Stores(r)
  <2>1. PICK i \in Ids :
          /\ IdFor(sess[r], i)
          /\ \/ /\ store' = [store EXCEPT ![i] = [vals |-> sess[r].vals, flash |-> sess[r].out,
                                                  fresh |-> TRUE]]
                /\ Keep(r, [sess[r] EXCEPT !.id = i, !.out = {}, !.vals = v, !.dirty = d])
                /\ SetCookie(r, i)
             \/ /\ Keep(r, [sess[r] EXCEPT !.id = i])
                /\ UNCHANGED <<store, hdr>>
    BY <1>2 DEF PersistSucceeds, PersistFails
  <2>2. /\ \A j \in Ids \ {i} : store'[j] = store[j]
        /\ \/ store'[i] = store[i]
           \/ store'[i].vals.user = sess[r].vals.user
    <3>1. CASE store' = [store EXCEPT ![i] = [vals |-> sess[r].vals, flash |-> sess[r].out,
                                              fresh |-> TRUE]]
      BY <1>1, <3>1
    <3>2. CASE UNCHANGED store
      BY <3>2
    <3> QED BY <2>1, <3>1, <3>2
  <2>3. /\ \A q \in Requests \ {r} : sess'[q] = sess[q]
        /\ sess'[r].id = i
        /\ sess[r].id # None => sess'[r].vals.user = sess[r].vals.user
    <3>1. CASE Keep(r, [sess[r] EXCEPT !.id = i, !.out = {}, !.vals = v, !.dirty = d])
      <4> DEFINE t == [sess[r] EXCEPT !.id = i, !.out = {}, !.vals = v, !.dirty = d]
      <4>1. t.id = i /\ t.vals = v
        BY <1>1 DEF Sessions
      <4> HIDE DEF t
      <4>2. sess' = [sess EXCEPT ![r] = t]
        BY <3>1 DEF Keep, t
      <4> QED BY <1>1, <1>2, <4>1, <4>2
    <3>2. CASE Keep(r, [sess[r] EXCEPT !.id = i])
      BY <1>1, <3>2 DEF Keep, Sessions
    <3> QED BY <2>1, <3>1, <3>2
  <2>4. /\ \A q \in Requests \ {r} : hdr'[q] = hdr[q]
        /\ hdr'[r] \in {hdr[r], i}
    BY <1>1, <2>1 DEF SetCookie
  <2>5. /\ \A q \in Requests \ {r} : pc'[q] = pc[q]
        /\ pc'[r] \notin {"load", "expired", "regenerate"}
    BY <1>1, <1>2
  <2> QED BY <1>2, <2>1, <2>2, <2>3, <2>4, <2>5 DEF Stores
<1>3. /\ sess[r].vals \in Values /\ [sess[r].vals EXCEPT !.user = ClientOf[r]] \in Values
      /\ ClientOf[r] \in Clients
  BY <1>1, SessionAssumption DEF Sessions, Values
<1>4. CASE Save(r)
  <2>1. PersistSucceeds(r, sess[r], sess[r].vals, FALSE) \/ PersistFails(r, sess[r])
    BY <1>4 DEF Save, Persist
  <2> QED BY <1>2, <1>3, <1>4, <2>1 DEF Save, Change, Run
<1>5. CASE LoginIssues(r)
  <2> DEFINE v == [sess[r].vals EXCEPT !.user = ClientOf[r]]
  <2>1. /\ PersistSucceeds(r, sess[r], v, TRUE) \/ PersistFails(r, sess[r])
        /\ pc[r] = "regenerate" /\ pc' = [pc EXCEPT ![r] = "run"] /\ UNCHANGED <<jar, cookie>>
    BY <1>5 DEF LoginIssues, Goto
  <2>2. v \in Values /\ sess[r].id = None
    BY <1>3, <2>1 DEF Unnamed
  <2> HIDE DEF v
  <2> QED BY <1>1, <1>2, <2>1, <2>2
<1>6. CASE Finish(r)
  <2>1. CASE sess[r].dirty
    <3>1. PersistSucceeds(r, sess[r], sess[r].vals, FALSE) \/ PersistFails(r, sess[r])
      BY <1>6, <2>1 DEF Finish, Persist
    <3> QED BY <1>1, <1>2, <1>3, <1>6, <3>1 DEF Finish, Goto
  <2>2. CASE ~sess[r].dirty
    BY <1>1, <1>6, <2>2 DEF Finish, Goto, Inner
  <2> QED BY <2>1, <2>2
<1>7. CASE Write(r) \/ Panic(r)
  BY <1>1, <1>7 DEF Write, Panic, Run, Goto, Inner
<1>8. ASSUME NEW s, Keep(r, s), s.id = sess[r].id, s.vals.user = sess[r].vals.user,
             UNCHANGED <<jar, cookie, store, pc, hdr>>, pc[r] = "run"
      PROVE  Inner(r)
  BY <1>1, <1>8 DEF Keep, Inner
<1>9. CASE EnsureToken(r)
  <2>1. PICK t \in Tokens :
          \/ Keep(r, [sess[r] EXCEPT !.vals.token = t, !.dirty = TRUE])
          \/ UNCHANGED sess
    BY <1>9 DEF EnsureToken
  <2>2. UNCHANGED <<jar, cookie, store, pc, hdr>> /\ pc[r] = "run"
    BY <1>9 DEF EnsureToken, Change, Run
  <2>3. CASE Keep(r, [sess[r] EXCEPT !.vals.token = t, !.dirty = TRUE])
    <3> DEFINE s == [sess[r] EXCEPT !.vals.token = t, !.dirty = TRUE]
    <3>1. s.id = sess[r].id /\ s.vals.user = sess[r].vals.user
      BY <1>1, <1>3 DEF Sessions, Values
    <3> QED BY <1>8, <2>2, <2>3, <3>1
  <2>4. CASE UNCHANGED sess
    BY <1>1, <2>2, <2>4 DEF Inner
  <2> QED BY <2>1, <2>3, <2>4
<1>10. ASSUME NEW m \in Msgs, SetFlash(r, m) PROVE Inner(r)
  <2> DEFINE s == [sess[r] EXCEPT !.out = @ \cup {m}, !.dirty = TRUE]
  <2>1. s.id = sess[r].id /\ s.vals.user = sess[r].vals.user
    BY <1>1 DEF Sessions
  <2>2. UNCHANGED <<jar, cookie, store, pc, hdr>> /\ pc[r] = "run" /\ Keep(r, s)
    BY <1>10 DEF SetFlash, Change, Run
  <2> QED BY <1>8, <2>1, <2>2
<1>11. ASSUME NEW s, Keep(r, s), s.id = None, UNCHANGED <<jar, cookie>>, Drop(sess[r].id),
              hdr' = hdr \/ \E h \in {hdr[r], "clear"} : hdr' = [hdr EXCEPT ![r] = h],
              \A q \in Requests \ {r} : pc'[q] = pc[q]
       PROVE  Inner(r)
  <2>1. \A i \in Ids : store'[i] \in {None, store[i]}
    BY <1>1, <1>11 DEF Drop, Sessions
  <2>2. sess'[r].id = None /\ \A q \in Requests \ {r} : sess'[q] = sess[q]
    BY <1>1, <1>11 DEF Keep
  <2>3. hdr'[r] \in {hdr[r], "clear"} /\ \A q \in Requests \ {r} : hdr'[q] = hdr[q]
    BY <1>1, <1>11
  <2> QED BY <1>11, <2>1, <2>2, <2>3 DEF Inner
<1>12. CASE LoginDrops(r)
  <2>1. Anonymous(sess[r]).id = None
    BY <1>1 DEF Anonymous, Sessions
  <2>2. /\ Keep(r, Anonymous(sess[r])) /\ UNCHANGED <<jar, cookie>> /\ Drop(sess[r].id)
        /\ hdr' = hdr /\ \A q \in Requests \ {r} : pc'[q] = pc[q]
    BY <1>1, <1>12 DEF LoginDrops, Goto
  <2> QED BY <1>11, <2>1, <2>2
<1>13. CASE Destroy(r)
  <2>1. NewSession.id = None
    BY RecordTypes
  <2>2. /\ Keep(r, NewSession) /\ UNCHANGED <<jar, cookie, pc>> /\ Drop(sess[r].id)
        /\ \E h \in {hdr[r], "clear"} : hdr' = [hdr EXCEPT ![r] = h]
    BY <1>13 DEF Destroy, Run
  <2> QED BY <1>11, <2>1, <2>2
<1>14. ~Clear(r)
  BY DEF Clear, Change, Run
<1> QED BY <1>4, <1>5, <1>6, <1>7, <1>9, <1>10, <1>12, <1>13, <1>14 DEF Handle


(* An id nobody has made yet belongs to nobody.                            *)
LEMMA NewIdIsPrivate ==
    ASSUME SessionAssumption, SessionInv, NEW i \in Ids, owner[i] = None
    PROVE  /\ \A c \in Clients : jar[c] # i
           /\ \A q \in Requests : cookie[q] # i /\ sess[q].id # i /\ hdr[q] # i
<1>1. \A c \in Clients : c # None /\ i # None
  BY DEF SessionAssumption
<1>2. \A q \in Requests : ClientOf[q] \in Clients
  BY DEF SessionAssumption
<1> QED BY <1>1, <1>2 DEF SessionInv, OwnIds

(* A step that gives no id to a session keeps every id agreed upon.        *)
LEMMA InnerAgrees ==
    ASSUME NEW r \in Requests, Inner(r), SessionAssumption, NEW i \in Ids, Agreed(i)
    PROVE  Agreed(i)'
<1>1. i # None /\ i # "clear"
  BY DEF SessionAssumption
<1>2. ASSUME NEW p \in Requests, Private(i, p) PROVE Private(i, p)'
  BY <1>1, <1>2 DEF Private, Inner
<1>3. ASSUME NEW u \in Clients \cup {None}, Settled(i, u) PROVE Settled(i, u)'
  <2>1. store'[i] # None => store'[i].vals.user = u
    BY <1>3 DEF Settled, Inner
  <2>2. ASSUME NEW q \in Requests, pc'[q] \in {"run", "regenerate"}, sess'[q].id = i
        PROVE  sess'[q].vals.user = u
    BY <1>1, <1>3, <2>2 DEF Settled, Holds, Inner
  <2> QED BY <2>1, <2>2 DEF Settled, Holds
<1> QED BY <1>2, <1>3 DEF Agreed

(* A request that stores its session does so under an id of its own, or    *)
(* leaves the user the id already has.                                     *)
LEMMA StoresAgrees ==
    ASSUME NEW r \in Requests, Stores(r), SessionAssumption, SessionInv,
           NEW i \in Ids, Agreed(i)
    PROVE  Agreed(i)'
<1> USE DEF Stores
<1>1. PICK j \in Ids :
        /\ IdFor(sess[r], j)
        /\ \A k \in Ids \ {j} : store'[k] = store[k]
        /\ store'[j] = store[j] \/ store'[j].vals.user = sess[r].vals.user
        /\ hdr'[r] \in {hdr[r], j}
        /\ sess'[r].id = j
        /\ sess[r].id # None => sess'[r].vals.user = sess[r].vals.user
  OBVIOUS
<1>2. CASE i # j
  <2>1. ASSUME NEW p \in Requests, Private(i, p) PROVE Private(i, p)'
    BY <1>1, <1>2, <2>1 DEF Private
  <2>2. ASSUME NEW u \in Clients \cup {None}, Settled(i, u) PROVE Settled(i, u)'
    BY <1>1, <1>2, <2>2 DEF Settled, Holds
  <2> QED BY <2>1, <2>2 DEF Agreed
<1>3. CASE i = j /\ sess[r].id = None
  <2>1. owner[i] = None
    BY <1>1, <1>3 DEF IdFor, NewId
  <2>2. Private(i, r)'
    BY <2>1, NewIdIsPrivate DEF Private
  <2> QED BY <2>2 DEF Agreed
<1>4. CASE i = j /\ sess[r].id # None
  <2>1. sess[r].id = i /\ Holds(r, i)
    BY <1>1, <1>4 DEF IdFor, Holds
  <2>2. ASSUME NEW p \in Requests, Private(i, p) PROVE Private(i, p)'
    BY <1>1, <1>4, <2>1, <2>2 DEF Private
  <2>3. ASSUME NEW u \in Clients \cup {None}, Settled(i, u) PROVE Settled(i, u)'
    <3>1. sess[r].vals.user = u /\ sess'[r].vals.user = u
      BY <1>1, <1>4, <2>1, <2>3 DEF Settled
    <3>2. store'[i] # None => store'[i].vals.user = u
      BY <1>1, <1>4, <2>3, <3>1 DEF Settled
    <3> QED BY <2>3, <3>1, <3>2 DEF Settled, Holds
  <2> QED BY <2>2, <2>3 DEF Agreed
<1> QED BY <1>2, <1>3, <1>4

(* The invariant holds before the first request.                           *)
LEMMA LoginInit == ASSUME SessionAssumption, Init PROVE LoginInv
<1>1. Unnamed
  BY RecordTypes DEF Init, Unnamed
<1>2. ASSUME NEW i \in Ids PROVE Settled(i, None)
  BY DEF Init, Settled, Holds
<1> QED BY <1>1, <1>2 DEF LoginInv, Agreed

(* A request starts with an empty session and the cookie of its browser.   *)
LEMMA SendAgrees ==
    ASSUME SessionAssumption, SessionInv, LoginInv, NEW r \in Requests, Send(r)
    PROVE  LoginInv'
<1> USE DEF env, history
<1>1. /\ \A q \in Requests \ {r} :
           /\ pc'[q] = pc[q] /\ sess'[q] = sess[q] /\ cookie'[q] = cookie[q]
           /\ hdr'[q] = hdr[q]
      /\ pc'[r] = "load" /\ sess'[r].id = None /\ hdr'[r] = None
      /\ ClientOf[r] \in Clients /\ cookie'[r] = jar[ClientOf[r]]
      /\ UNCHANGED <<store, jar>>
  BY RecordTypes DEF Send, Goto, Keep, SessionInv, TypeOK, SessionAssumption
<1>2. Unnamed'
  BY <1>1 DEF LoginInv, Unnamed
<1>3. ASSUME NEW i \in Ids PROVE Agreed(i)'
  <2>1. i # None
    BY DEF SessionAssumption
  <2>2. ASSUME NEW p \in Requests, Private(i, p) PROVE Private(i, p)'
    BY <1>1, <2>1, <2>2 DEF Private
  <2>3. ASSUME NEW u \in Clients \cup {None}, Settled(i, u) PROVE Settled(i, u)'
    BY <1>1, <2>1, <2>3 DEF Settled, Holds
  <2> QED BY <2>2, <2>3 DEF LoginInv, Agreed
<1> QED BY <1>2, <1>3 DEF LoginInv

(* A browser takes an id only from a response that is complete, whose      *)
(* request stores nothing any more.                                        *)
LEMMA ReceiveAgrees ==
    ASSUME SessionAssumption, SessionInv, LoginInv, NEW r \in Requests, Receive(r)
    PROVE  LoginInv'
<1> USE DEF history, response
<1>1. /\ \A q \in Requests : pc'[q] = IF q = r THEN "idle" ELSE pc[q]
      /\ pc[r] = "done" /\ UNCHANGED <<store, sess, cookie, hdr>>
      /\ \A c \in Clients : jar'[c] \in {jar[c], NextJar(r)}
  BY DEF Receive, Goto, SessionInv, TypeOK
<1>2. NextJar(r) \in {None, hdr[r], jar[ClientOf[r]]} /\ ClientOf[r] \in Clients
  BY DEF NextJar, SessionAssumption
<1>3. Unnamed'
  BY <1>1 DEF LoginInv, Unnamed
<1>4. ASSUME NEW i \in Ids PROVE Agreed(i)'
  <2>1. i # None
    BY DEF SessionAssumption
  <2>2. ASSUME NEW p \in Requests, Private(i, p), hdr[r] # i PROVE Private(i, p)'
    BY <1>1, <1>2, <2>1, <2>2 DEF Private
  <2>3. ASSUME NEW p \in Requests, Private(i, p), hdr[r] = i PROVE Agreed(i)'
    <3>1. p = r
      BY <2>3 DEF Private
    <3>2. \A q \in Requests : ~Holds(q, i)'
      BY <1>1, <2>3, <3>1 DEF Private, Holds
    <3>3. PICK u \in Clients \cup {None} : store[i] # None => store[i].vals.user = u
      BY DEF SessionInv, TypeOK, Entries, Values
    <3>4. Settled(i, u)'
      BY <1>1, <3>2, <3>3 DEF Settled
    <3> QED BY <3>4 DEF Agreed
  <2>4. ASSUME NEW u \in Clients \cup {None}, Settled(i, u) PROVE Settled(i, u)'
    BY <1>1, <2>4 DEF Settled, Holds
  <2> QED BY <2>2, <2>3, <2>4 DEF LoginInv, Agreed
<1> QED BY <1>3, <1>4 DEF LoginInv

(* A session that is read from the store has the user the store gives it.  *)
LEMMA LoadAgrees ==
    ASSUME SessionAssumption, SessionInv, LoginInv, NEW r \in Requests, Load(r)
    PROVE  LoginInv'
<1> USE DEF env, history, response
<1>1. /\ sess \in [Requests -> Sessions] /\ cookie[r] \in Ids \cup {None}
      /\ store \in [Ids -> Entries \cup {None}]
      /\ pc \in [Requests -> {"idle", "load", "expired", "run", "regenerate", "done"}]
  BY DEF SessionInv, TypeOK
<1>2. CASE LoadNothing(r) \/ LoadFails(r) \/ LoadExpired(r) \/ LoadDeletes(r)
  <2>1. /\ pc[r] \in {"load", "expired"} /\ UNCHANGED <<jar, cookie, sess, hdr>>
        /\ \E at \in {"run", "expired"} : pc' = [pc EXCEPT ![r] = at]
        /\ store' = store \/ store' = [store EXCEPT ![cookie[r]] = None]
    BY <1>2 DEF LoadNothing, LoadFails, LoadExpired, LoadDeletes, Goto
  <2>2. sess[r].id = None
    BY <2>1 DEF LoginInv, Unnamed
  <2>3. \A i \in Ids : store'[i] \in {None, store[i]}
    BY <1>1, <2>1
  <2>4. Inner(r)
    BY <1>1, <2>1, <2>2, <2>3 DEF Inner
  <2>5. Unnamed'
    BY <2>4 DEF LoginInv, Unnamed, Inner
  <2> QED BY <2>4, <2>5, InnerAgrees DEF LoginInv
<1>3. CASE LoadFound(r)
  <2> DEFINE d == store[cookie[r]]
             s == [id |-> cookie[r], vals |-> d.vals, out |-> {},
                   dirty |-> FoundDirty(d.flash)]
  <2>1. /\ cookie[r] \in Ids /\ d # None /\ sess' = [sess EXCEPT ![r] = s]
        /\ pc' = [pc EXCEPT ![r] = "run"] /\ UNCHANGED <<store, jar, cookie, hdr>>
    BY <1>1, <1>3 DEF LoadFound, Found, Goto, Keep
  <2>2. /\ sess'[r].id = cookie[r] /\ sess'[r].vals.user = d.vals.user /\ pc'[r] = "run"
        /\ \A q \in Requests \ {r} : sess'[q] = sess[q] /\ pc'[q] = pc[q]
    BY <1>1, <2>1
  <2>3. Unnamed'
    BY <2>2 DEF LoginInv, Unnamed
  <2>4. ASSUME NEW i \in Ids PROVE Agreed(i)'
    <3>1. ASSUME NEW p \in Requests, Private(i, p) PROVE Private(i, p)'
      BY <2>1, <2>2, <3>1 DEF Private
    <3>2. ASSUME NEW u \in Clients \cup {None}, Settled(i, u) PROVE Settled(i, u)'
      <4>1. cookie[r] = i => d.vals.user = u
        BY <2>1, <3>2 DEF Settled
      <4> QED BY <2>1, <2>2, <3>2, <4>1 DEF Settled, Holds
    <3> QED BY <3>1, <3>2 DEF LoginInv, Agreed
  <2> QED BY <2>3, <2>4 DEF LoginInv
<1> QED BY <1>2, <1>3 DEF Load

(* Every step keeps the invariant.                                         *)
LEMMA LoginStep ==
    ASSUME SessionAssumption, SessionInv, LoginInv, "clear" \notin Ops, [Next]_vars
    PROVE  LoginInv'
<1>1. CASE UNCHANGED vars
  BY <1>1 DEF vars, env, response, LoginInv, Unnamed, Agreed, Private, Settled, Holds
<1>2. ASSUME NEW i \in Ids, Expire(i) PROVE LoginInv'
  <2>1. UNCHANGED <<jar, cookie, sess, hdr, pc>>
    BY <1>2 DEF Expire, env, response
  <2>2. \A j \in Ids : store'[j] # None => store[j] # None /\ store'[j].vals = store[j].vals
    <3>1. store[i] \in Entries /\ store[i] # None /\ store \in [Ids -> Entries \cup {None}]
      BY <1>2 DEF Expire, SessionInv, TypeOK
    <3>2. [store[i] EXCEPT !.fresh = FALSE].vals = store[i].vals
      BY <3>1 DEF Entries
    <3>3. store' = [store EXCEPT ![i] = [store[i] EXCEPT !.fresh = FALSE]]
      BY <1>2 DEF Expire
    <3> QED BY <3>1, <3>2, <3>3
  <2> QED BY <2>1, <2>2 DEF LoginInv, Unnamed, Agreed, Private, Settled, Holds
<1>3. ASSUME NEW r \in Requests, Handle(r) \/ Finish(r) PROVE LoginInv'
  <2>1. Inner(r) \/ Stores(r)
    BY <1>3, HandlerKinds DEF LoginInv
  <2>2. Unnamed'
    BY <2>1 DEF LoginInv, Unnamed, Inner, Stores
  <2>3. \A i \in Ids : Agreed(i)'
    BY <2>1, InnerAgrees, StoresAgrees DEF LoginInv
  <2> QED BY <2>2, <2>3 DEF LoginInv
<1> QED BY <1>1, <1>2, <1>3, SendAgrees, LoadAgrees, ReceiveAgrees DEF Next

(* An anonymous session never becomes a logged-in one under an id that a   *)
(* browser already sends (session.go:194-208), for any number of browsers  *)
(* and requests at a time and whatever the store fails to do.  The helpers *)
(* of the framework never call Clear; a handler that does can break it.    *)
THEOREM LoginIssuesNewId == "clear" \notin Ops => (Spec => LoginChangesId)
<1> SUFFICES ASSUME "clear" \notin Ops PROVE Spec => LoginChangesId
  OBVIOUS
<1> DEFINE Kept(i) ==
      store[i] # None /\ store'[i] # None /\ store'[i].vals.user \notin {None, store[i].vals.user}
      => (\A c \in Clients : jar[c] # i) /\ \A r \in Requests : cookie[r] # i
<1>1. Init => LoginInv
  BY LoginInit, SessionAssumption
<1>2. SessionInv /\ LoginInv /\ [Next]_vars => LoginInv'
  BY LoginStep, SessionAssumption
<1>3. ASSUME SessionInv, LoginInv, [Next]_vars, NEW i \in Ids PROVE Kept(i)
  <2> SUFFICES ASSUME store[i] # None, store'[i] # None, store'[i].vals.user # store[i].vals.user
               PROVE  \E p \in Requests : Private(i, p)
    BY DEF Private
  <2>1. owner[i] # None
    BY <1>3 DEF SessionInv, OwnUsers
  <2>2. ASSUME NEW r \in Requests, Stores(r) PROVE \E p \in Requests : Private(i, p)
    <3>1. sess[r].id = i /\ Holds(r, i) /\ store'[i].vals.user = sess[r].vals.user
      BY <2>1, <2>2 DEF Stores, IdFor, NewId, Holds
    <3>2. ASSUME NEW u \in Clients \cup {None}, Settled(i, u) PROVE FALSE
      BY <3>1, <3>2 DEF Settled
    <3> QED BY <1>3, <3>2 DEF LoginInv, Agreed
  <2>3. ~\E r \in Requests : Inner(r)
    BY DEF Inner
  <2>4. ASSUME NEW r \in Requests, Handle(r) \/ Finish(r) PROVE Stores(r)
    BY <1>3, <2>3, <2>4, HandlerKinds, SessionAssumption DEF LoginInv
  <2>5. ASSUME NEW r \in Requests, Send(r) \/ Receive(r) \/ Load(r) PROVE FALSE
    <3>1. store' = store \/ store' = [store EXCEPT ![cookie[r]] = None]
      BY <2>5 DEF Send, Receive, Load, LoadNothing, LoadFails, LoadFound, LoadExpired, LoadDeletes
    <3> QED BY <1>3, <3>1 DEF SessionInv, TypeOK
  <2>6. ASSUME NEW j \in Ids, Expire(j) PROVE FALSE
    <3>1. store[j] \in Entries /\ store \in [Ids -> Entries \cup {None}]
      BY <1>3, <2>6 DEF Expire, SessionInv, TypeOK
    <3>2. [store[j] EXCEPT !.fresh = FALSE].vals = store[j].vals
      BY <3>1 DEF Entries
    <3>3. store' = [store EXCEPT ![j] = [store[j] EXCEPT !.fresh = FALSE]]
      BY <2>6 DEF Expire
    <3> QED BY <3>1, <3>2, <3>3
  <2>7. ~UNCHANGED vars
    BY DEF vars
  <2> QED BY <1>3, <2>2, <2>4, <2>5, <2>6, <2>7 DEF Next
<1>4. SessionInv /\ LoginInv /\ [Next]_vars
        => [\A i \in Ids :
              /\ store[i] # None /\ store'[i] # None
              /\ store'[i].vals.user \notin {None, store[i].vals.user}
              => /\ \A c \in Clients : jar[c] # i
                 /\ \A r \in Requests : cookie[r] # i]_vars
  BY <1>3
<1> QED BY <1>1, <1>2, <1>4, InvCorrect, PTL DEF Spec, LoginChangesId

-----------------------------------------------------------------------------
(* The lone browser: one request at a time, and a store that answers.      *)
LoneClient == ClientOf[LoneRequest]

Others == \A q \in Requests \ {LoneRequest} : pc[q] = "idle"

LoneTypes ==
    /\ store \in [LoneIds -> Lone!Entries \cup {None}]
    /\ jar \in [Clients -> LoneIds \cup {None}]
    /\ msgs \in [LoneMsgs -> {"new", "set", "seen"}]
    /\ pc \in [Requests -> {"idle", "load", "expired", "run", "regenerate", "done"}]
    /\ cookie \in [Requests -> LoneIds \cup {None}]
    /\ sess \in [Requests -> Lone!Sessions]
    /\ hdr \in [Requests -> LoneIds \cup {None, "clear"}]
    /\ wrote = [q \in Requests |-> FALSE]
    /\ failures = 0

(* A session under an id: its messages have not been read, and its values  *)
(* are v unless it is lost.                                                *)
Unread(i) == Lone!Found(i) # None => \A m \in store[i].flash : msgs[m] # "seen"

Carries(i, v) == Lone!Stored(i) \in {v, Empty} /\ Unread(i)

(* Where the session is: under the cookie until it is loaded; from there   *)
(* in the request alone, once it is dirty; otherwise where the cookie of   *)
(* the response points.                                                    *)
LoneState ==
    LET s == sess[LoneRequest]
        at == pc[LoneRequest]
    IN
    /\ at = "idle" => Unread(jar[LoneClient])
    /\ at # "idle" => cookie[LoneRequest] = jar[LoneClient]
    /\ at = "load" => Unread(cookie[LoneRequest])
    /\ at = "expired" => cookie[LoneRequest] # None
    /\ at \in {"load", "expired"} => s = NewSession /\ hdr[LoneRequest] = None
    /\ at = "regenerate" => s.id = None
    /\ at = "run" /\ ~s.dirty => Carries(Lone!NextJar(LoneRequest), s.vals)
    /\ at = "done" => Unread(Lone!NextJar(LoneRequest))
    /\ \A m \in s.out : msgs[m] # "seen"

LoneInv == Others /\ LoneTypes /\ LoneState

(* The lone request, its browser, and what can be told apart.              *)
LEMMA LoneFacts ==
    /\ LoneRequest \in Requests /\ LoneClient \in Clients
    /\ ClientOf[LoneRequest] = LoneClient
    /\ \A i \in LoneIds : i # None /\ i # "clear"
    /\ None # "clear"
    /\ \A e \in Lone!Entries : e # None
BY BrowsersAssumption, SessionAssumption, EntryAssumption DEF LoneClient

(* Sessions and their values are records.                                  *)
LEMMA LoneRecords ==
    /\ Lone!Empty = Empty /\ Lone!NewSession = NewSession
    /\ Empty \in Lone!Values /\ NewSession \in Lone!Sessions
    /\ NewSession.id = None /\ NewSession.vals = Empty /\ NewSession.out = {}
    /\ NewSession.dirty = FALSE
BY DEF Empty, Lone!Empty, NewSession, Lone!NewSession, Lone!Values, Lone!Sessions

(* Only the lone request acts, or time does; the store answers.            *)
LEMMA LoneKinds ==
    ASSUME LoneInv, Others', Lone!Next
    PROVE  \/ \E i \in LoneIds : Lone!Expire(i)
           \/ Lone!Send(LoneRequest) \/ Lone!Load(LoneRequest) \/ Lone!Handle(LoneRequest)
           \/ Lone!Finish(LoneRequest) \/ Lone!Receive(LoneRequest)
<1>1. ASSUME NEW q \in Requests \ {LoneRequest}, Lone!Send(q) PROVE FALSE
  <2>1. pc'[q] = "load"
    BY <1>1 DEF Lone!Send, Lone!Goto, LoneInv, LoneTypes
  <2> QED BY <2>1 DEF Others
<1>2. ASSUME NEW q \in Requests \ {LoneRequest},
             Lone!Load(q) \/ Lone!Handle(q) \/ Lone!Finish(q) \/ Lone!Receive(q)
      PROVE  FALSE
  <2>1. pc[q] # "idle"
    <3>1. CASE Lone!Load(q)
      BY <3>1 DEF LoneInv, Others, Lone!Load, Lone!LoadNothing, Lone!LoadFails, Lone!LoadFound,
                  Lone!LoadExpired, Lone!LoadDeletes, Lone!Goto
    <3>2. CASE Lone!Handle(q)
      BY <3>2 DEF Lone!Handle, Lone!EnsureToken, Lone!Clear, Lone!Save, Lone!Destroy, Lone!Write,
                  Lone!Panic, Lone!LoginDrops, Lone!LoginIssues, Lone!SetFlash, Lone!Change,
                  Lone!Run, Lone!Goto
    <3>3. CASE Lone!Finish(q) \/ Lone!Receive(q)
      BY <3>3 DEF Lone!Finish, Lone!Receive, Lone!Goto
    <3> QED BY <1>2, <3>1, <3>2, <3>3
  <2> QED BY <2>1 DEF LoneInv, Others
<1> QED BY <1>1, <1>2 DEF Lone!Next

(* A session that is stored is where the cookie of the response points.    *)
LEMMA LoneStores ==
    ASSUME LoneInv, NEW v \in Lone!Values, NEW d \in BOOLEAN,
           \/ Lone!PersistSucceeds(LoneRequest, sess[LoneRequest], v, d)
           \/ Lone!PersistFails(LoneRequest, sess[LoneRequest]),
           UNCHANGED msgs
    PROVE  /\ store' \in [LoneIds -> Lone!Entries \cup {None}]
           /\ sess' \in [Requests -> Lone!Sessions]
           /\ hdr' \in [Requests -> LoneIds \cup {None, "clear"}]
           /\ failures' = 0
           /\ sess'[LoneRequest].vals = v /\ sess'[LoneRequest].dirty = d
           /\ sess'[LoneRequest].out = {}
           /\ Lone!Stored(Lone!NextJar(LoneRequest))' = sess[LoneRequest].vals
           /\ Unread(Lone!NextJar(LoneRequest))'
<1> DEFINE s == sess[LoneRequest]
<1>1. /\ failures = 0 /\ store \in [LoneIds -> Lone!Entries \cup {None}]
      /\ sess \in [Requests -> Lone!Sessions] /\ s \in Lone!Sessions
      /\ hdr \in [Requests -> LoneIds \cup {None, "clear"}] /\ ~wrote[LoneRequest]
      /\ LoneRequest \in Requests /\ \A m \in s.out : msgs[m] # "seen"
  BY LoneFacts DEF LoneInv, LoneTypes, LoneState
<1>2. ~Lone!PersistFails(LoneRequest, s)
  BY <1>1 DEF Lone!PersistFails, Lone!Fails
<1>3. PICK i \in LoneIds :
        /\ store' = [store EXCEPT ![i] = [vals |-> s.vals, flash |-> s.out, fresh |-> TRUE]]
        /\ Lone!Keep(LoneRequest, [s EXCEPT !.id = i, !.out = {}, !.vals = v, !.dirty = d])
        /\ Lone!SetCookie(LoneRequest, i) /\ UNCHANGED failures
  BY <1>2 DEF Lone!PersistSucceeds
<1>4. /\ [vals |-> s.vals, flash |-> s.out, fresh |-> TRUE] \in Lone!Entries
      /\ s.vals \in Lone!Values
  BY <1>1 DEF Lone!Sessions, Lone!Entries
<1>5. /\ store' \in [LoneIds -> Lone!Entries \cup {None}]
      /\ store'[i] = [vals |-> s.vals, flash |-> s.out, fresh |-> TRUE]
  BY <1>1, <1>3, <1>4
<1>6. hdr' = [hdr EXCEPT ![LoneRequest] = i]
  BY <1>1, <1>3 DEF Lone!SetCookie
<1>7. /\ sess' \in [Requests -> Lone!Sessions]
      /\ sess'[LoneRequest].vals = v /\ sess'[LoneRequest].dirty = d
      /\ sess'[LoneRequest].out = {}
  <2> DEFINE t == [s EXCEPT !.id = i, !.out = {}, !.vals = v, !.dirty = d]
  <2>1. t \in Lone!Sessions /\ t.vals = v /\ t.dirty = d /\ t.out = {}
    BY <1>1 DEF Lone!Sessions
  <2>2. sess' = [sess EXCEPT ![LoneRequest] = t]
    BY <1>3 DEF Lone!Keep
  <2> HIDE DEF t, s
  <2> QED BY <1>1, <2>1, <2>2
<1>8. Lone!NextJar(LoneRequest)' = i
  BY <1>1, <1>6, LoneFacts DEF Lone!NextJar
<1>9. store'[i] # None /\ i # None /\ i \in LoneIds
  BY <1>4, <1>5, LoneFacts
<1>10. Lone!Stored(Lone!NextJar(LoneRequest))' = s.vals
  BY <1>5, <1>8, <1>9 DEF Lone!Stored, Lone!Found
<1>11. Unread(Lone!NextJar(LoneRequest))'
  BY <1>1, <1>5, <1>8, <1>9 DEF Unread
<1> QED BY <1>1, <1>3, <1>5, <1>6, <1>7, <1>10, <1>11

(* The values the lone browser sees, and what a step may do to them.       *)
Seen == Lone!Visible(LoneRequest)

ValueStep ==
    \/ Seen' = Seen
    \/ Seen' = Empty
    \/ Seen'.user \in Clients /\ Seen'.token = Seen.token
    \/ Seen.token = None /\ Seen'.token \in LoneTokens /\ Seen'.user = Seen.user

(* What the model sees of the lone request, in each of its states.         *)
LEMMA SeenAt ==
    ASSUME LoneTypes
    PROVE  /\ pc[LoneRequest] = "idle" => Seen = Lone!Stored(jar[LoneClient])
           /\ pc[LoneRequest] = "load" => Seen = Lone!Stored(cookie[LoneRequest])
           /\ pc[LoneRequest] = "done" => Seen = Lone!Stored(Lone!NextJar(LoneRequest))
           /\ pc[LoneRequest] \in {"run", "regenerate", "expired"} =>
                Seen = sess[LoneRequest].vals
           /\ Lone!NextJar(LoneRequest) \in {jar[LoneClient], None, hdr[LoneRequest]}
           /\ Lone!NextJar(LoneRequest) \in LoneIds \cup {None}
<1>1. LoneRequest \in Requests /\ ClientOf[LoneRequest] = LoneClient /\ LoneClient \in Clients
      /\ None # "clear"
  BY LoneFacts
<1>2. Lone!NextJar(LoneRequest) \in {jar[LoneClient], None, hdr[LoneRequest]}
  BY <1>1 DEF Lone!NextJar
<1>3. Lone!NextJar(LoneRequest) \in LoneIds \cup {None}
  BY <1>1 DEF Lone!NextJar, LoneTypes
<1> QED BY <1>1, <1>2, <1>3 DEF Seen, Lone!Visible

(* The same, after a step.                                                 *)
LEMMA SeenAfter ==
    ASSUME LoneTypes'
    PROVE  /\ pc'[LoneRequest] = "idle" => Seen' = Lone!Stored(jar[LoneClient])'
           /\ pc'[LoneRequest] = "load" => Seen' = Lone!Stored(cookie[LoneRequest])'
           /\ pc'[LoneRequest] = "done" => Seen' = Lone!Stored(Lone!NextJar(LoneRequest))'
           /\ pc'[LoneRequest] \in {"run", "regenerate", "expired"} =>
                Seen' = sess'[LoneRequest].vals
<1>1. LoneRequest \in Requests /\ ClientOf[LoneRequest] = LoneClient
  BY LoneFacts
<1> QED BY <1>1 DEF Seen, Lone!Visible, LoneClient

(* A session under an id is what it was, or has become too old.            *)
LEMMA LoneExpires ==
    ASSUME LoneInv, Others', NEW i \in LoneIds, Lone!Expire(i)
    PROVE  LoneInv' /\ ValueStep
<1>1. /\ store[i] # None /\ store' = [store EXCEPT ![i] = [store[i] EXCEPT !.fresh = FALSE]]
      /\ UNCHANGED <<jar, msgs, pc, cookie, sess, hdr, wrote, failures>>
  BY DEF Lone!Expire, Lone!env, Lone!history, Lone!response
<1>2. store \in [LoneIds -> Lone!Entries \cup {None}] /\ store[i] \in Lone!Entries
  BY <1>1 DEF LoneInv, LoneTypes
<1>3. /\ [store[i] EXCEPT !.fresh = FALSE] \in Lone!Entries
      /\ [store[i] EXCEPT !.fresh = FALSE].flash = store[i].flash
      /\ [store[i] EXCEPT !.fresh = FALSE].fresh = FALSE
  BY <1>2 DEF Lone!Entries
<1>4. LoneTypes'
  BY <1>1, <1>2, <1>3 DEF LoneInv, LoneTypes
<1>5. \A j \in LoneIds : \/ store'[j] = store[j]
                         \/ /\ store[j] # None /\ store'[j] # None
                            /\ store'[j].flash = store[j].flash /\ store'[j].fresh = FALSE
  BY <1>1, <1>2, <1>3, LoneFacts
<1>6. ASSUME NEW j \in LoneIds \cup {None}
      PROVE  /\ Lone!Stored(j)' \in {Lone!Stored(j), Empty}
             /\ Unread(j) => Unread(j)'
  BY <1>1, <1>5, LoneRecords, LoneFacts DEF Lone!Stored, Lone!Found, Unread
<1>7. /\ jar[LoneClient] \in LoneIds \cup {None} /\ cookie[LoneRequest] \in LoneIds \cup {None}
      /\ Lone!NextJar(LoneRequest) \in LoneIds \cup {None}
      /\ Lone!NextJar(LoneRequest)' = Lone!NextJar(LoneRequest)
  BY <1>1, SeenAt, LoneFacts DEF LoneInv, LoneTypes, Lone!NextJar
<1>8. LoneState'
  BY <1>1, <1>6, <1>7 DEF LoneInv, LoneState, Carries
<1>9. ValueStep
  <2>1. pc[LoneRequest] \in {"idle", "load", "expired", "run", "regenerate", "done"}
    BY LoneFacts DEF LoneInv, LoneTypes
  <2>2. Seen' \in {Seen, Empty}
    <3>1. CASE pc[LoneRequest] = "idle"
      <4>1. Seen = Lone!Stored(jar[LoneClient]) /\ Seen' = Lone!Stored(jar[LoneClient])'
        BY <1>1, <1>4, <3>1, SeenAt, SeenAfter DEF LoneInv
      <4>2. Lone!Stored(jar[LoneClient])' \in {Lone!Stored(jar[LoneClient]), Empty}
        BY <1>1, <1>6, <1>7
      <4> QED BY <4>1, <4>2
    <3>2. CASE pc[LoneRequest] = "load"
      <4>1. /\ Seen = Lone!Stored(cookie[LoneRequest])
            /\ Seen' = Lone!Stored(cookie[LoneRequest])'
        BY <1>1, <1>4, <3>2, SeenAt, SeenAfter DEF LoneInv
      <4>2. Lone!Stored(cookie[LoneRequest])' \in {Lone!Stored(cookie[LoneRequest]), Empty}
        BY <1>1, <1>6, <1>7
      <4> QED BY <4>1, <4>2
    <3>3. CASE pc[LoneRequest] = "done"
      <4>1. /\ Seen = Lone!Stored(Lone!NextJar(LoneRequest))
            /\ Seen' = Lone!Stored(Lone!NextJar(LoneRequest))'
        BY <1>1, <1>4, <3>3, SeenAt, SeenAfter DEF LoneInv
      <4>2. Lone!Stored(Lone!NextJar(LoneRequest))'
              \in {Lone!Stored(Lone!NextJar(LoneRequest)), Empty}
        BY <1>1, <1>6, <1>7 DEF Lone!Stored, Lone!Found
      <4> QED BY <4>1, <4>2
    <3>4. CASE pc[LoneRequest] \in {"run", "regenerate", "expired"}
      BY <1>1, <1>4, <3>4, SeenAt, SeenAfter DEF LoneInv
    <3> QED BY <2>1, <3>1, <3>2, <3>3, <3>4
  <2> QED BY <2>2 DEF ValueStep
<1> QED BY <1>4, <1>8, <1>9 DEF LoneInv

(* The next request takes the session along.                               *)
LEMMA LoneSends ==
    ASSUME LoneInv, Others', Lone!Send(LoneRequest)
    PROVE  LoneInv' /\ ValueStep
<1> DEFINE r == LoneRequest
           c == LoneClient
<1> USE LoneFacts, LoneRecords
<1>1. /\ pc[r] = "idle" /\ pc' = [pc EXCEPT ![r] = "load"]
      /\ cookie' = [cookie EXCEPT ![r] = jar[c]]
      /\ sess' = [sess EXCEPT ![r] = NewSession]
      /\ hdr' = [hdr EXCEPT ![r] = None] /\ wrote' = [wrote EXCEPT ![r] = FALSE]
      /\ UNCHANGED <<store, jar, msgs, failures>>
  BY DEF Lone!Send, Lone!Goto, Lone!Keep, Lone!env, Lone!history
<1>2. LoneTypes'
  BY <1>1 DEF LoneInv, LoneTypes
<1>3. /\ pc'[r] = "load" /\ cookie'[r] = jar[c] /\ sess'[r] = NewSession /\ hdr'[r] = None
      /\ Unread(jar[c])
  BY <1>1 DEF LoneInv, LoneTypes, LoneState
<1>4. LoneState'
  BY <1>1, <1>3 DEF LoneState, Unread, Lone!Found
<1>5. Seen = Lone!Stored(jar[c]) /\ Seen' = Lone!Stored(cookie[r])'
  BY <1>1, <1>2, <1>3, SeenAt, SeenAfter DEF LoneInv
<1>6. Seen' = Seen
  BY <1>1, <1>3, <1>5 DEF Lone!Stored, Lone!Found
<1> QED BY <1>2, <1>4, <1>6 DEF LoneInv, ValueStep

(* It finds what the cookie points at, or starts anew.                     *)
LEMMA LoneLoads ==
    ASSUME LoneInv, Others', Lone!Load(LoneRequest)
    PROVE  LoneInv' /\ ValueStep
<1> DEFINE r == LoneRequest
           c == LoneClient
<1> USE LoneFacts, LoneRecords
<1> USE DEF Lone!Goto, Lone!env, Lone!history, Lone!response
<1>1. /\ cookie[r] \in LoneIds \cup {None} /\ sess \in [Requests -> Lone!Sessions]
      /\ store \in [LoneIds -> Lone!Entries \cup {None}]
      /\ pc \in [Requests -> {"idle", "load", "expired", "run", "regenerate", "done"}]
  BY DEF LoneInv, LoneTypes
<1>2. pc[r] \in {"load", "expired"}
  BY DEF Lone!Load, Lone!LoadNothing, Lone!LoadFails, Lone!LoadFound, Lone!LoadExpired,
         Lone!LoadDeletes
<1>3. /\ sess[r] = NewSession /\ hdr[r] = None /\ cookie[r] = jar[c]
      /\ pc[r] = "load" => Unread(cookie[r])
      /\ pc[r] = "expired" => cookie[r] # None
  BY <1>2 DEF LoneInv, LoneState
<1>4. ~Lone!LoadFails(r)
  BY DEF Lone!LoadFails, Lone!Fails, LoneInv, LoneTypes
<1>5. CASE Lone!LoadNothing(r)
  <2>1. /\ pc[r] = "load" /\ pc' = [pc EXCEPT ![r] = "run"] /\ Lone!Found(cookie[r]) = None
        /\ UNCHANGED <<store, jar, msgs, cookie, sess, hdr, wrote, failures>>
    BY <1>5 DEF Lone!LoadNothing
  <2>2. LoneTypes'
    BY <2>1 DEF LoneInv, LoneTypes
  <2>3. pc'[r] = "run" /\ Lone!NextJar(r)' = cookie[r]
    BY <1>1, <1>3, <2>1 DEF Lone!NextJar
  <2>4. Lone!Found(Lone!NextJar(r))' = None
    BY <2>1, <2>3 DEF Lone!Found
  <2>5. Lone!Stored(Lone!NextJar(r))' = Empty /\ Unread(Lone!NextJar(r))'
    BY <2>4 DEF Lone!Stored, Unread
  <2>6. LoneState'
    BY <1>3, <2>1, <2>3, <2>5 DEF LoneState, Carries
  <2>7. Seen = Lone!Stored(cookie[r]) /\ Seen' = Empty
    BY <1>3, <2>1, <2>2, <2>3, SeenAt, SeenAfter DEF LoneInv
  <2> QED BY <2>2, <2>6, <2>7 DEF LoneInv, ValueStep
<1>6. CASE Lone!LoadFound(r)
  <2> DEFINE d == store[cookie[r]]
             s == [id |-> cookie[r], vals |-> d.vals, out |-> {},
                   dirty |-> Lone!FoundDirty(d.flash)]
  <2>1. /\ pc[r] = "load" /\ pc' = [pc EXCEPT ![r] = "run"] /\ cookie[r] # None
        /\ d # None /\ d.fresh /\ sess' = [sess EXCEPT ![r] = s]
        /\ msgs' = [m \in LoneMsgs |-> IF m \in d.flash THEN "seen" ELSE msgs[m]]
        /\ UNCHANGED <<store, jar, cookie, hdr, wrote, failures>>
    BY <1>6 DEF Lone!LoadFound, Lone!Found, Lone!Keep
  <2>2. cookie[r] \in LoneIds /\ d \in Lone!Entries
    BY <1>1, <2>1
  <2>3. s \in Lone!Sessions /\ s.vals = d.vals /\ s.out = {} /\ (~s.dirty => d.flash = {})
    BY <2>2 DEF Lone!Entries, Lone!Sessions, Lone!FoundDirty
  <2> HIDE DEF s
  <2>4. sess'[r] = s /\ pc'[r] = "run" /\ Lone!NextJar(r)' = cookie[r]
    BY <1>1, <1>3, <2>1 DEF Lone!NextJar
  <2>5. LoneTypes'
    <3>1. msgs' \in [LoneMsgs -> {"new", "set", "seen"}]
      BY <2>1 DEF LoneInv, LoneTypes
    <3> QED BY <2>1, <2>3, <3>1 DEF LoneInv, LoneTypes
  <2>6. Lone!Stored(Lone!NextJar(r))' = s.vals /\ Lone!Stored(cookie[r]) = s.vals
    BY <2>1, <2>3, <2>4 DEF Lone!Stored, Lone!Found
  <2>7. ~s.dirty => Unread(Lone!NextJar(r))'
    BY <2>1, <2>3, <2>4 DEF Unread
  <2>8. LoneState'
    BY <1>3, <2>1, <2>3, <2>4, <2>6, <2>7 DEF LoneState, Carries
  <2>9. Seen = Lone!Stored(cookie[r]) /\ Seen' = s.vals
    BY <2>1, <2>4, <2>5, SeenAt, SeenAfter DEF LoneInv
  <2> QED BY <2>5, <2>6, <2>8, <2>9 DEF LoneInv, ValueStep
<1>7. CASE Lone!LoadExpired(r)
  <2>1. /\ pc[r] = "load" /\ pc' = [pc EXCEPT ![r] = "expired"] /\ Lone!Found(cookie[r]) # None
        /\ UNCHANGED <<store, jar, msgs, cookie, sess, hdr, wrote, failures>>
    BY <1>7 DEF Lone!LoadExpired
  <2>2. LoneTypes'
    BY <2>1 DEF LoneInv, LoneTypes
  <2>3. pc'[r] = "expired" /\ cookie[r] # None
    BY <1>1, <2>1 DEF Lone!Found
  <2>4. LoneState'
    BY <1>3, <2>1, <2>3 DEF LoneState
  <2>5. Seen' = Empty
    BY <1>3, <2>1, <2>2, <2>3, SeenAfter
  <2> QED BY <2>2, <2>4, <2>5 DEF LoneInv, ValueStep
<1>8. CASE Lone!LoadDeletes(r)
  <2>1. /\ pc[r] = "expired" /\ pc' = [pc EXCEPT ![r] = "run"]
        /\ store' = [store EXCEPT ![cookie[r]] = None]
        /\ UNCHANGED <<jar, msgs, cookie, sess, hdr, wrote, failures>>
    BY <1>8 DEF Lone!LoadDeletes
  <2>2. LoneTypes'
    BY <1>1, <2>1 DEF LoneInv, LoneTypes
  <2>3. pc'[r] = "run" /\ Lone!NextJar(r)' = cookie[r] /\ store'[cookie[r]] = None
    BY <1>1, <1>3, <2>1 DEF Lone!NextJar
  <2>4. Lone!Found(Lone!NextJar(r))' = None
    BY <2>3 DEF Lone!Found
  <2>5. Lone!Stored(Lone!NextJar(r))' = Empty /\ Unread(Lone!NextJar(r))'
    BY <2>4 DEF Lone!Stored, Unread
  <2>6. LoneState'
    BY <1>3, <2>1, <2>3, <2>5 DEF LoneState, Carries
  <2>7. Seen' = Empty
    BY <1>3, <2>1, <2>2, <2>3, SeenAfter
  <2> QED BY <2>2, <2>6, <2>7 DEF LoneInv, ValueStep
<1> QED BY <1>4, <1>5, <1>6, <1>7, <1>8 DEF Lone!Load

(* A handler that changes the session leaves it dirty: nothing is asked of *)
(* the store until the session is stored.                                  *)
LEMMA LoneDirties ==
    ASSUME LoneInv, Others', NEW s \in Lone!Sessions, s.dirty,
           \A m \in s.out : msgs'[m] # "seen",
           sess' = [sess EXCEPT ![LoneRequest] = s],
           pc[LoneRequest] \in {"run", "regenerate"},
           \/ pc'[LoneRequest] = "run"
           \/ pc'[LoneRequest] = "regenerate" /\ s.id = None,
           pc' \in [Requests -> {"idle", "load", "expired", "run", "regenerate", "done"}],
           msgs' \in [LoneMsgs -> {"new", "set", "seen"}],
           store' \in [LoneIds -> Lone!Entries \cup {None}],
           UNCHANGED <<jar, cookie, wrote, hdr, failures>>
    PROVE  LoneInv' /\ Seen = sess[LoneRequest].vals /\ Seen' = s.vals
<1> USE LoneFacts
<1>1. LoneTypes'
  BY DEF LoneInv, LoneTypes
<1>2. sess'[LoneRequest] = s
  BY DEF LoneInv, LoneTypes
<1>3. LoneState'
  BY <1>2 DEF LoneInv, LoneState
<1>4. Seen = sess[LoneRequest].vals /\ Seen' = s.vals
  BY <1>1, <1>2, SeenAt, SeenAfter DEF LoneInv
<1> QED BY <1>1, <1>3, <1>4 DEF LoneInv

(* A handler that drops what is stored: the store does not fail.           *)
LEMMA LoneDrops ==
    ASSUME LoneTypes, NEW i \in LoneIds \cup {None}, Lone!Drop(i)
    PROVE  store' \in [LoneIds -> Lone!Entries \cup {None}] /\ failures' = failures
BY DEF Lone!Drop, Lone!Fails, LoneTypes

(* A session that was stored is where its response says.                   *)
LEMMA LoneSaves ==
    ASSUME LoneInv, Others', NEW v \in Lone!Values, NEW d \in BOOLEAN,
           \/ Lone!PersistSucceeds(LoneRequest, sess[LoneRequest], v, d)
           \/ Lone!PersistFails(LoneRequest, sess[LoneRequest]),
           d = TRUE \/ v = sess[LoneRequest].vals,
           pc[LoneRequest] \in {"run", "regenerate"},
           pc'[LoneRequest] = "run" \/ (pc'[LoneRequest] = "done" /\ d = FALSE),
           pc' \in [Requests -> {"idle", "load", "expired", "run", "regenerate", "done"}],
           UNCHANGED <<jar, msgs, cookie, wrote>>
    PROVE  LoneInv' /\ Seen = sess[LoneRequest].vals /\ Seen' = v
<1> USE LoneFacts
<1>1. /\ store' \in [LoneIds -> Lone!Entries \cup {None}]
      /\ sess' \in [Requests -> Lone!Sessions]
      /\ hdr' \in [Requests -> LoneIds \cup {None, "clear"}]
      /\ failures' = 0
      /\ sess'[LoneRequest].vals = v /\ sess'[LoneRequest].dirty = d
      /\ sess'[LoneRequest].out = {}
      /\ Lone!Stored(Lone!NextJar(LoneRequest))' = sess[LoneRequest].vals
      /\ Unread(Lone!NextJar(LoneRequest))'
  BY LoneStores
<1>2. LoneTypes'
  BY <1>1 DEF LoneInv, LoneTypes
<1>3. LoneState'
  BY <1>1 DEF LoneInv, LoneState, Carries
<1>4. Seen = sess[LoneRequest].vals /\ Seen' = v
  BY <1>1, <1>2, SeenAt, SeenAfter DEF LoneInv
<1> QED BY <1>2, <1>3, <1>4 DEF LoneInv

(* What handlers do to the session of the lone request.                    *)
LEMMA LoneHandles ==
    ASSUME LoneInv, Others', Lone!Handle(LoneRequest)
    PROVE  LoneInv' /\ ValueStep
<1> DEFINE r == LoneRequest
<1> USE LoneFacts, LoneRecords
<1> USE DEF Lone!Goto, Lone!env, Lone!history, Lone!response, Lone!Run, Lone!Change
<1>1. /\ sess[r] \in Lone!Sessions /\ sess[r].vals \in Lone!Values
      /\ \A m \in sess[r].out : msgs[m] # "seen"
      /\ LoneTypes
  BY DEF LoneInv, LoneTypes, LoneState, Lone!Sessions
<1>2. CASE Lone!EnsureToken(r)
  <2>1. PICK t \in LoneTokens :
          \/ /\ sess[r].vals.token = None
             /\ Lone!Keep(r, [sess[r] EXCEPT !.vals.token = t, !.dirty = TRUE])
          \/ UNCHANGED sess
    BY <1>2 DEF Lone!EnsureToken
  <2>2. pc[r] = "run" /\ UNCHANGED <<store, jar, msgs, pc, cookie, hdr, wrote, failures>>
    BY <1>2 DEF Lone!EnsureToken
  <2>3. CASE UNCHANGED sess
    <3>1. LoneTypes'
      BY <1>1, <2>2, <2>3 DEF LoneTypes
    <3>2. LoneState'
      BY <2>2, <2>3 DEF LoneInv, LoneState, Carries, Unread, Lone!Stored, Lone!Found,
                        Lone!NextJar
    <3>3. Seen' = Seen
      BY <1>1, <2>2, <2>3, <3>1, SeenAt, SeenAfter
    <3> QED BY <3>1, <3>2, <3>3 DEF LoneInv, ValueStep
  <2>4. CASE /\ sess[r].vals.token = None
             /\ Lone!Keep(r, [sess[r] EXCEPT !.vals.token = t, !.dirty = TRUE])
    <3> DEFINE s == [sess[r] EXCEPT !.vals.token = t, !.dirty = TRUE]
    <3>1. /\ s \in Lone!Sessions /\ s.dirty /\ s.out = sess[r].out
          /\ s.vals.token = t /\ s.vals.user = sess[r].vals.user
      BY <1>1 DEF Lone!Sessions, Lone!Values
    <3>2. sess' = [sess EXCEPT ![r] = s]
      BY <2>4 DEF Lone!Keep
    <3> HIDE DEF s
    <3>3. LoneInv' /\ Seen = sess[r].vals /\ Seen' = s.vals
      BY <1>1, <2>2, <3>1, <3>2, LoneDirties DEF LoneTypes
    <3> QED BY <2>4, <3>1, <3>3 DEF ValueStep
  <2> QED BY <2>1, <2>3, <2>4
<1>3. ASSUME NEW m \in LoneMsgs, Lone!SetFlash(r, m) PROVE LoneInv' /\ ValueStep
  <2> DEFINE s == [sess[r] EXCEPT !.out = @ \cup {m}, !.dirty = TRUE]
  <2>1. /\ pc[r] = "run" /\ msgs' = [msgs EXCEPT ![m] = "set"]
        /\ sess' = [sess EXCEPT ![r] = s]
        /\ UNCHANGED <<store, jar, pc, cookie, hdr, wrote, failures>>
    BY <1>3 DEF Lone!SetFlash, Lone!Keep
  <2>2. /\ s \in Lone!Sessions /\ s.dirty /\ s.out = sess[r].out \cup {m}
        /\ s.vals = sess[r].vals
    BY <1>1 DEF Lone!Sessions
  <2> HIDE DEF s
  <2>3. /\ msgs' \in [LoneMsgs -> {"new", "set", "seen"}]
        /\ \A n \in s.out : msgs'[n] # "seen"
    <3>1. sess[r].out \subseteq LoneMsgs
      BY <1>1 DEF Lone!Sessions
    <3> QED BY <1>1, <2>1, <2>2, <3>1 DEF LoneTypes
  <2>4. LoneInv' /\ Seen = sess[r].vals /\ Seen' = s.vals
    BY <1>1, <2>1, <2>2, <2>3, LoneDirties DEF LoneTypes
  <2> QED BY <2>2, <2>4 DEF ValueStep
<1>4. CASE Lone!Clear(r)
  <2> DEFINE s == [NewSession EXCEPT !.id = sess[r].id, !.dirty = TRUE]
  <2>1. /\ pc[r] = "run" /\ sess' = [sess EXCEPT ![r] = s]
        /\ UNCHANGED <<store, jar, msgs, pc, cookie, hdr, wrote, failures>>
    BY <1>4 DEF Lone!Clear, Lone!Keep
  <2>2. s \in Lone!Sessions /\ s.dirty /\ s.out = {} /\ s.vals = Empty
    BY <1>1 DEF Lone!Sessions, NewSession
  <2> HIDE DEF s
  <2>3. LoneInv' /\ Seen' = s.vals
    BY <1>1, <2>1, <2>2, LoneDirties DEF LoneTypes
  <2> QED BY <2>2, <2>3 DEF ValueStep
<1>5. CASE Lone!Save(r)
  <2>1. /\ \/ Lone!PersistSucceeds(r, sess[r], sess[r].vals, FALSE)
           \/ Lone!PersistFails(r, sess[r])
        /\ pc[r] = "run" /\ UNCHANGED <<jar, msgs, pc, cookie, wrote>>
    BY <1>5 DEF Lone!Save, Lone!Persist
  <2>2. LoneInv' /\ Seen = sess[r].vals /\ Seen' = sess[r].vals
    BY <1>1, <2>1, LoneSaves DEF LoneTypes
  <2> QED BY <2>2 DEF ValueStep
<1>6. CASE Lone!LoginIssues(r)
  <2> DEFINE v == [sess[r].vals EXCEPT !.user = ClientOf[r]]
  <2>1. /\ Lone!PersistSucceeds(r, sess[r], v, TRUE) \/ Lone!PersistFails(r, sess[r])
        /\ pc[r] = "regenerate" /\ pc' = [pc EXCEPT ![r] = "run"]
        /\ UNCHANGED <<jar, msgs, cookie, wrote>>
    BY <1>6 DEF Lone!LoginIssues
  <2>2. v \in Lone!Values /\ v.user = LoneClient /\ v.token = sess[r].vals.token
    BY <1>1 DEF Lone!Values
  <2> HIDE DEF v
  <2>3. /\ pc'[r] = "run"
        /\ pc' \in [Requests -> {"idle", "load", "expired", "run", "regenerate", "done"}]
    BY <1>1, <2>1 DEF LoneTypes
  <2>4. LoneInv' /\ Seen = sess[r].vals /\ Seen' = v
    BY <2>1, <2>2, <2>3, LoneSaves
  <2> QED BY <2>2, <2>4 DEF ValueStep
<1>7. CASE Lone!LoginDrops(r)
  <2> DEFINE s == [sess[r] EXCEPT !.id = None, !.dirty = TRUE]
  <2>1. /\ pc[r] = "run" /\ pc' = [pc EXCEPT ![r] = "regenerate"] /\ Lone!Drop(sess[r].id)
        /\ sess' = [sess EXCEPT ![r] = s]
        /\ UNCHANGED <<jar, msgs, cookie, hdr, wrote>>
    BY <1>7 DEF Lone!LoginDrops, Lone!Keep, Lone!Anonymous
  <2>2. /\ s \in Lone!Sessions /\ s.dirty /\ s.out = sess[r].out /\ s.vals = sess[r].vals
        /\ s.id = None
    BY <1>1 DEF Lone!Sessions
  <2> HIDE DEF s
  <2>3. sess[r].id \in LoneIds \cup {None}
    BY <1>1 DEF Lone!Sessions
  <2>4. store' \in [LoneIds -> Lone!Entries \cup {None}] /\ failures' = failures
    BY <1>1, <2>1, <2>3, LoneDrops
  <2>5. /\ pc'[r] = "regenerate"
        /\ pc' \in [Requests -> {"idle", "load", "expired", "run", "regenerate", "done"}]
        /\ msgs' \in [LoneMsgs -> {"new", "set", "seen"}]
    BY <1>1, <2>1 DEF LoneTypes
  <2>6. LoneInv' /\ Seen = sess[r].vals /\ Seen' = s.vals
    BY <1>1, <2>1, <2>2, <2>4, <2>5, LoneDirties
  <2> QED BY <2>2, <2>6 DEF ValueStep
<1>8. CASE Lone!Destroy(r)
  <2>1. /\ pc[r] = "run" /\ Lone!Drop(sess[r].id) /\ sess' = [sess EXCEPT ![r] = NewSession]
        /\ hdr' = [hdr EXCEPT ![r] = "clear"]
        /\ UNCHANGED <<jar, msgs, pc, cookie, wrote>>
    BY <1>1, <1>8 DEF Lone!Destroy, Lone!Keep, LoneTypes
  <2>2. sess[r].id \in LoneIds \cup {None}
    BY <1>1 DEF Lone!Sessions
  <2>3. store' \in [LoneIds -> Lone!Entries \cup {None}] /\ failures' = failures
    BY <1>1, <2>1, <2>2, LoneDrops
  <2>4. LoneTypes'
    BY <1>1, <2>1, <2>3 DEF LoneTypes
  <2>5. sess'[r] = NewSession /\ Lone!NextJar(r)' = None
    BY <1>1, <2>1 DEF LoneTypes, Lone!NextJar
  <2>6. Lone!Stored(Lone!NextJar(r))' = Empty /\ Unread(Lone!NextJar(r))'
    BY <2>5 DEF Lone!Stored, Lone!Found, Unread
  <2>7. LoneState'
    BY <2>1, <2>5, <2>6 DEF LoneInv, LoneState, Carries
  <2>8. Seen' = Empty
    BY <2>1, <2>4, <2>5, SeenAfter
  <2> QED BY <2>4, <2>7, <2>8 DEF LoneInv, ValueStep
<1>9. ~Lone!Write(r) /\ ~Lone!Panic(r)
  BY BrowsersAssumption DEF Lone!Write, Lone!Panic
<1> QED BY <1>2, <1>3, <1>4, <1>5, <1>6, <1>7, <1>8, <1>9 DEF Lone!Handle

(* The middleware stores what is dirty; what is not is already stored, or  *)
(* has expired.                                                            *)
LEMMA LoneFinishes ==
    ASSUME LoneInv, Others', Lone!Finish(LoneRequest)
    PROVE  LoneInv' /\ ValueStep
<1> DEFINE r == LoneRequest
<1> USE LoneFacts
<1>1. /\ pc[r] = "run" /\ pc' = [pc EXCEPT ![r] = "done"] /\ UNCHANGED <<jar, msgs, cookie, wrote>>
      /\ LoneTypes /\ sess[r] \in Lone!Sessions /\ sess[r].vals \in Lone!Values
  BY DEF LoneInv, LoneTypes, Lone!Finish, Lone!Goto, Lone!env, Lone!Sessions
<1>2. /\ pc'[r] = "done"
      /\ pc' \in [Requests -> {"idle", "load", "expired", "run", "regenerate", "done"}]
  BY <1>1 DEF LoneTypes
<1>3. CASE sess[r].dirty
  <2>1. \/ Lone!PersistSucceeds(r, sess[r], sess[r].vals, FALSE)
        \/ Lone!PersistFails(r, sess[r])
    BY <1>3 DEF Lone!Finish, Lone!Persist
  <2>2. LoneInv' /\ Seen = sess[r].vals /\ Seen' = sess[r].vals
    BY <1>1, <1>2, <2>1, LoneSaves
  <2> QED BY <2>2 DEF ValueStep
<1>4. CASE ~sess[r].dirty
  <2>1. UNCHANGED <<store, sess, hdr, failures>>
    BY <1>4 DEF Lone!Finish
  <2>2. LoneTypes'
    BY <1>1, <1>2, <2>1 DEF LoneTypes
  <2>3. /\ Carries(Lone!NextJar(r), sess[r].vals) /\ cookie[r] = jar[LoneClient]
        /\ \A m \in sess[r].out : msgs[m] # "seen"
    BY <1>1, <1>4 DEF LoneInv, LoneState
  <2>4. /\ Lone!NextJar(r)' = Lone!NextJar(r)
        /\ Lone!Stored(Lone!NextJar(r))' = Lone!Stored(Lone!NextJar(r))
        /\ Unread(Lone!NextJar(r))'
    BY <1>1, <2>1, <2>3 DEF Lone!NextJar, Lone!Stored, Lone!Found, Unread, Carries
  <2>5. LoneState'
    BY <1>1, <1>2, <2>1, <2>3, <2>4 DEF LoneState
  <2>6. Seen = sess[r].vals /\ Seen' \in {sess[r].vals, Empty}
    BY <1>1, <1>2, <2>2, <2>3, <2>4, SeenAt, SeenAfter DEF Carries
  <2> QED BY <2>2, <2>5, <2>6 DEF LoneInv, ValueStep
<1> QED BY <1>3, <1>4

(* The browser takes the cookie of the response.                           *)
LEMMA LoneReceives ==
    ASSUME LoneInv, Others', Lone!Receive(LoneRequest)
    PROVE  LoneInv' /\ ValueStep
<1> DEFINE r == LoneRequest
           c == LoneClient
           j == Lone!NextJar(LoneRequest)
<1> USE LoneFacts
<1>1. /\ pc[r] = "done" /\ pc' = [pc EXCEPT ![r] = "idle"] /\ jar' = [jar EXCEPT ![c] = j]
      /\ UNCHANGED <<store, msgs, cookie, sess, hdr, wrote, failures>>
  BY DEF Lone!Receive, Lone!Goto, Lone!history, Lone!response
<1>2. /\ LoneTypes /\ j \in LoneIds \cup {None} /\ Unread(j)
      /\ \A m \in sess[r].out : msgs[m] # "seen"
  BY <1>1, SeenAt DEF LoneInv, LoneState
<1> HIDE DEF j
<1>3. pc'[r] = "idle" /\ jar'[c] = j
  BY <1>1, <1>2 DEF LoneTypes
<1>4. LoneTypes'
  BY <1>1, <1>2 DEF LoneTypes
<1>5. LoneState'
  BY <1>1, <1>2, <1>3 DEF LoneState, Unread, Lone!Found
<1>6. Seen = Lone!Stored(j) /\ Seen' = Lone!Stored(jar[c])'
  BY <1>1, <1>2, <1>3, <1>4, SeenAt, SeenAfter DEF j
<1>7. Seen' = Seen
  BY <1>1, <1>3, <1>6 DEF Lone!Stored, Lone!Found
<1> QED BY <1>4, <1>5, <1>7 DEF LoneInv, ValueStep

(* Each step of the lone browser is a step of the register.                *)
LEMMA LoneStep ==
    ASSUME LoneInv, Others', Lone!Next
    PROVE  LoneInv' /\ ValueStep
<1>1. CASE \E i \in LoneIds : Lone!Expire(i)
  BY <1>1, LoneExpires
<1> QED BY <1>1, LoneKinds, LoneSends, LoneLoads, LoneHandles, LoneFinishes, LoneReceives

(* Nothing is stored, and no request runs.                                 *)
LEMMA LoneInit == Lone!Init => LoneInv /\ Seen = Empty
<1> SUFFICES ASSUME Lone!Init PROVE LoneInv /\ Seen = Empty
  OBVIOUS
<1> USE LoneFacts, LoneRecords DEF Lone!Init
<1>1. LoneTypes /\ Others
  BY DEF LoneTypes, Others
<1>2. jar[LoneClient] = None /\ pc[LoneRequest] = "idle" /\ sess[LoneRequest] = NewSession
  OBVIOUS
<1>3. Lone!Stored(None) = Empty /\ Unread(None)
  BY DEF Lone!Stored, Lone!Found, Unread
<1>4. LoneState
  BY <1>2, <1>3 DEF LoneState
<1>5. Seen = Empty
  BY <1>1, <1>2, <1>3, SeenAt
<1> QED BY <1>1, <1>4, <1>5 DEF LoneInv

BrowsersInv == crowd \in {"many", "lone"} /\ (crowd = "lone" => LoneInv)

LEMMA BrowsersInvInductive ==
    /\ BrowsersInit => BrowsersInv
    /\ BrowsersInv /\ [BrowsersNext]_<<crowd, vars>> => BrowsersInv'
<1>1. BrowsersInit => BrowsersInv
  BY LoneInit DEF BrowsersInit, BrowsersInv
<1>2. ASSUME BrowsersInv, BrowsersNext PROVE BrowsersInv'
  <2>1. crowd' = crowd
    BY <1>2 DEF BrowsersNext
  <2>2. CASE crowd = "lone"
    <3>1. LoneInv /\ Lone!Next /\ Others'
      BY <1>2, <2>2 DEF BrowsersInv, BrowsersNext, Others
    <3> QED BY <2>1, <2>2, <3>1, LoneStep DEF BrowsersInv
  <2>3. CASE crowd = "many"
    BY <2>1, <2>3 DEF BrowsersInv
  <2> QED BY <1>2, <2>2, <2>3 DEF BrowsersInv
<1>3. ASSUME BrowsersInv, UNCHANGED <<crowd, vars>> PROVE BrowsersInv'
  <2>1. UNCHANGED <<crowd, store, jar, msgs, pc, cookie, sess, hdr, wrote, failures>>
    BY <1>3 DEF vars, env, history, response
  <2>2. LoneInv => LoneInv'
    BY <2>1 DEF LoneInv, Others, LoneTypes, LoneState, Carries, Unread, Lone!Stored, Lone!Found,
                Lone!NextJar
  <2> QED BY <1>3, <2>1, <2>2 DEF BrowsersInv
<1> QED BY <1>1, <1>2, <1>3

(* The values a browser sees that waits for each response are a register:  *)
(* no login is lost, no logout undone and no token replaced between its    *)
(* requests (session.go:70-260).                                           *)
THEOREM LoneSessionIsARegister == BrowsersSpec => RegisterSpec
<1> USE LoneRecords
<1>1. BrowsersInit => Register!Init
  <2>1. ASSUME BrowsersInit PROVE crowd = "lone" => Seen = Empty
    BY <2>1, LoneInit DEF BrowsersInit
  <2>2. Empty.user = None /\ Empty.token = None
    BY DEF Empty
  <2> QED BY <2>1, <2>2 DEF Register!Init, Seen
<1>2. BrowsersInv /\ [BrowsersNext]_<<crowd, vars>> => [Register!Next]_Register!vars
  <2>1. ASSUME BrowsersInv, BrowsersNext, crowd = "lone" PROVE [Register!Next]_Register!vars
    <3>1. crowd' = "lone" /\ ValueStep
      BY <2>1, LoneStep DEF BrowsersInv, BrowsersNext, Others
    <3>2. CASE Seen' = Seen
      BY <2>1, <3>1, <3>2 DEF Register!vars, Seen
    <3>3. CASE Seen' = Empty
      BY <2>1, <3>1, <3>3 DEF Register!Next, Register!Forget, Seen, Empty
    <3>4. CASE Seen'.user \in Clients /\ Seen'.token = Seen.token
      BY <2>1, <3>1, <3>4 DEF Register!Next, Register!Login, Seen
    <3>5. CASE Seen.token = None /\ Seen'.token \in LoneTokens /\ Seen'.user = Seen.user
      BY <2>1, <3>1, <3>5 DEF Register!Next, Register!EnsureToken, Seen
    <3> QED BY <3>1, <3>2, <3>3, <3>4, <3>5 DEF ValueStep
  <2>2. ASSUME UNCHANGED crowd, crowd # "lone" PROVE UNCHANGED Register!vars
    BY <2>2 DEF Register!vars
  <2>3. ASSUME UNCHANGED <<crowd, vars>> PROVE UNCHANGED Register!vars
    <3>1. UNCHANGED <<crowd, store, jar, pc, cookie, sess, hdr>>
      BY <2>3 DEF vars, env, history, response
    <3>2. Lone!Visible(LoneRequest)' = Lone!Visible(LoneRequest)
      BY <3>1 DEF Lone!Visible, Lone!Stored, Lone!Found, Lone!NextJar
    <3> QED BY <3>1, <3>2 DEF Register!vars
  <2> QED BY <2>1, <2>2, <2>3 DEF BrowsersNext
<1> QED BY <1>1, <1>2, BrowsersInvInductive, PTL DEF BrowsersSpec, RegisterSpec, Register!Spec

(* No message is shown to two requests of a browser that waits for each    *)
(* response (session.go:96-100).                                           *)
THEOREM FlashIsReadOnce == BrowsersSpec => FlashOnce
<1>1. BrowsersInv => (crowd = "lone" /\ Lone!LoadFound(LoneRequest) =>
                        \A m \in store[cookie[LoneRequest]].flash : msgs[m] # "seen")
  BY DEF BrowsersInv, LoneInv, LoneState, Unread, Lone!LoadFound, Lone!Goto
<1> QED BY <1>1, BrowsersInvInductive, PTL DEF BrowsersSpec, FlashOnce

=============================================================================
