------------------------------ MODULE Session ------------------------------
(***************************************************************************)
(* irmik/session: cookie-backed sessions over a shared store, with the     *)
(* login and logout of irmik/auth, the token of irmik/csrf and the flash   *)
(* messages of irmik/admin.  Every request goroutine has its own Session   *)
(* object; requests meet only in the store, one call of which is one step, *)
(* and in the cookie jar of their browser.                                 *)
(*                                                                         *)
(* Of the values a session can carry the model keeps the two the framework *)
(* itself writes: the id of the logged-in user and the CSRF token.  A user *)
(* is identified with the browser it logs in from.                         *)
(***************************************************************************)
EXTENDS Naturals, FiniteSets

CONSTANTS
    Clients,        \* browsers
    Requests,       \* request goroutines
    ClientOf,       \* the browser each request comes from
    Ids,            \* session ids: 32 random bytes
    Tokens,         \* CSRF tokens: 32 random bytes
    Msgs,           \* flash messages, each set once
    None,           \* no id, no value, no entry
    Ops,            \* what handlers and the environment do in this instance
    MaxFailures     \* bound: failed calls of the store

ASSUME SessionAssumption ==
    /\ ClientOf \in [Requests -> Clients]
    /\ None \notin Clients \cup Ids \cup Tokens
    /\ "clear" \notin Ids \cup {None}
    /\ Ops \subseteq {"login", "destroy", "clear", "save", "token", "flash",
                      "write", "panic", "expire"}
    /\ MaxFailures \in Nat

VARIABLES
    store,      \* memoryStore.data, or the keys of redisStore
    jar,        \* the session cookie of each browser
    form,       \* the CSRF token of the last page each browser received
    owner,      \* the browser an id was made for
    spent,      \* the CSRF tokens generated so far
    msgs,       \* each flash message: "new", "set" by a handler, then "seen"
    pc,         \* control state of each request
    cookie,     \* the cookie each request came with
    sess,       \* its Session
    hdr,        \* the Set-Cookie of its response: None, an id or "clear"
    wrote,      \* has the handler begun the body of the response?
    page,       \* the token the body shows
    failures    \* failures so far

env == <<jar, form>>
history == <<owner, spent, msgs>>
response == <<cookie, hdr, wrote, page>>
vars == <<store, env, history, pc, sess, response, failures>>

Empty == [user |-> None, token |-> None]

Values == [user : Clients \cup {None}, token : Tokens \cup {None}]

Entries == [vals : Values, flash : SUBSET Msgs, fresh : BOOLEAN]

(* The flash a request may read goes with the request and is not part of   *)
(* what it saves; out is outFlash.                                         *)
Sessions == [id : Ids \cup {None}, vals : Values, out : SUBSET Msgs, dirty : BOOLEAN]

NewSession == [id |-> None, vals |-> Empty, out |-> {}, dirty |-> FALSE]

Init ==
    /\ store = [i \in Ids |-> None]
    /\ jar = [c \in Clients |-> None] /\ form = [c \in Clients |-> None]
    /\ owner = [i \in Ids |-> None] /\ spent = {}
    /\ msgs = [m \in Msgs |-> "new"]
    /\ pc = [r \in Requests |-> "idle"]
    /\ cookie = [r \in Requests |-> None]
    /\ sess = [r \in Requests |-> NewSession]
    /\ hdr = [r \in Requests |-> None] /\ wrote = [r \in Requests |-> FALSE]
    /\ page = [r \in Requests |-> None]
    /\ failures = 0

Goto(r, at, next) == pc[r] = at /\ pc' = [pc EXCEPT ![r] = next]

Run(r, op) == op \in Ops /\ pc[r] = "run" /\ UNCHANGED pc

(* Bound: no request gets to need an id when the model has run out of them. *)
Spare ==
    Cardinality({i \in Ids : owner[i] = None}) >
        Cardinality({r \in Requests : sess[r].id = None /\ sess[r].dirty})

Change(r, op) == Run(r, op) /\ (sess[r].id = None => Spare)

Keep(r, s) == sess' = [sess EXCEPT ![r] = s]

Fails == failures < MaxFailures /\ failures' = failures + 1

-----------------------------------------------------------------------------
(* The browser sends a request and receives its response.                  *)

Send(r) ==
    /\ Goto(r, "idle", "load")
    /\ cookie' = [cookie EXCEPT ![r] = jar[ClientOf[r]]]
    /\ Keep(r, NewSession)
    /\ hdr' = [hdr EXCEPT ![r] = None] /\ wrote' = [wrote EXCEPT ![r] = FALSE]
    /\ page' = [page EXCEPT ![r] = None]
    /\ UNCHANGED <<store, env, history, failures>>

NextJar(r) ==
    CASE hdr[r] = None -> jar[ClientOf[r]]
      [] hdr[r] = "clear" -> None
      [] OTHER -> hdr[r]

Receive(r) ==
    /\ Goto(r, "done", "idle")
    /\ jar' = [jar EXCEPT ![ClientOf[r]] = NextJar(r)]
    /\ form' = [form EXCEPT ![ClientOf[r]] = IF page[r] = None THEN @ ELSE page[r]]
    /\ UNCHANGED <<store, history, sess, response, failures>>

(* A session idle for Options.MaxAge.                                      *)
Expire(i) ==
    /\ "expire" \in Ops /\ store[i] # None
    /\ store' = [store EXCEPT ![i].fresh = FALSE]
    /\ UNCHANGED <<env, history, pc, sess, response, failures>>

-----------------------------------------------------------------------------
(* Store.Get, without its error.                                           *)
Found(i) == IF i = None THEN None ELSE store[i]

(* Manager.load                                                            *)

LoadNothing(r) ==
    /\ Found(cookie[r]) = None
    /\ Goto(r, "load", "run")
    /\ UNCHANGED <<store, env, history, sess, response, failures>>

(* Any error of the store: the request gets a new, empty session.          *)
LoadFails(r) ==
    /\ cookie[r] # None
    /\ Goto(r, "load", "run")
    /\ Fails
    /\ UNCHANGED <<store, env, history, sess, response>>

FaultyFoundDirty(flash) == FALSE    \* variant: seen messages stay in the store

FoundDirty(flash) == flash # {}

LoadFound(r) ==
    LET d == Found(cookie[r]) IN
    /\ d # None /\ d.fresh
    /\ Goto(r, "load", "run")
    /\ Keep(r, [id |-> cookie[r], vals |-> d.vals, out |-> {},
                dirty |-> FoundDirty(d.flash)])
    /\ msgs' = [m \in Msgs |-> IF m \in d.flash THEN "seen" ELSE msgs[m]]
    /\ UNCHANGED <<store, env, owner, spent, response, failures>>

(* Get decides on expiry with the lock released, then calls Delete.        *)
LoadExpired(r) ==
    /\ Found(cookie[r]) # None /\ ~store[cookie[r]].fresh
    /\ Goto(r, "load", "expired")
    /\ UNCHANGED <<store, env, history, sess, response, failures>>

LoadDeletes(r) ==
    /\ Goto(r, "expired", "run")
    /\ store' = [store EXCEPT ![cookie[r]] = None]
    /\ UNCHANGED <<env, history, sess, response, failures>>

-----------------------------------------------------------------------------
(* Session.persist, under the session's mutex: an id if there is none,     *)
(* then the Save, then the cookie, which a response already begun no       *)
(* longer carries.                                                         *)

(* Variant: an id that is not in the store counts as new.                  *)
FaultyNewId(i) == i \in Ids /\ store[i] = None

NewId(i) == i \in Ids /\ owner[i] = None

IdFor(s, i) == IF s.id = None THEN NewId(i) ELSE i = s.id

Make(r, i) == owner' = [owner EXCEPT ![i] = ClientOf[r]]

SetCookie(r, i) == hdr' = [hdr EXCEPT ![r] = IF wrote[r] THEN @ ELSE i]

PersistFails(r, s) ==
    \E i \in Ids :
        /\ IdFor(s, i) /\ Make(r, i) /\ Keep(r, [s EXCEPT !.id = i])
        /\ Fails
        /\ UNCHANGED <<store, hdr>>

(* s is the session to store and next what the caller makes of its values. *)
PersistSucceeds(r, s, next, dirty) ==
    \E i \in Ids :
        /\ IdFor(s, i) /\ Make(r, i)
        /\ store' = [store EXCEPT ![i] = [vals |-> s.vals, flash |-> s.out, fresh |-> TRUE]]
        /\ Keep(r, [s EXCEPT !.id = i, !.out = {}, !.vals = next, !.dirty = dirty])
        /\ SetCookie(r, i)
        /\ UNCHANGED failures

Persist(r, s) == PersistSucceeds(r, s, s.vals, FALSE) \/ PersistFails(r, s)

-----------------------------------------------------------------------------
(* What handlers do.                                                       *)

(* csrf.ensureToken, for a page whose body shows the token.                *)
EnsureToken(r) ==
    /\ Change(r, "token")
    /\ \E t \in Tokens :
          /\ IF sess[r].vals.token = None
             THEN /\ t \notin spent /\ spent' = spent \cup {t}
                  /\ Keep(r, [sess[r] EXCEPT !.vals.token = t, !.dirty = TRUE])
             ELSE t = sess[r].vals.token /\ UNCHANGED <<spent, sess>>
          /\ page' = [page EXCEPT ![r] = t]
    /\ UNCHANGED <<store, env, owner, msgs, cookie, hdr, wrote, failures>>

SetFlash(r, m) ==
    /\ Change(r, "flash")
    /\ msgs[m] = "new" /\ msgs' = [msgs EXCEPT ![m] = "set"]
    /\ Keep(r, [sess[r] EXCEPT !.out = @ \cup {m}, !.dirty = TRUE])
    /\ UNCHANGED <<store, env, owner, spent, response, failures>>

(* A handler that ends the session shows no form.                          *)
Clear(r) ==
    /\ Change(r, "clear")
    /\ Keep(r, [NewSession EXCEPT !.id = sess[r].id, !.dirty = TRUE])
    /\ page' = [page EXCEPT ![r] = None]
    /\ UNCHANGED <<store, env, history, cookie, hdr, wrote, failures>>

Save(r) ==
    /\ Change(r, "save")
    /\ Persist(r, sess[r])
    /\ UNCHANGED <<env, spent, msgs, cookie, wrote, page>>

(* store.Delete: nobody looks at its error.                                *)
Drop(i) ==
    \/ /\ store' = IF i = None THEN store ELSE [store EXCEPT ![i] = None]
       /\ UNCHANGED failures
    \/ i # None /\ Fails /\ UNCHANGED store

FaultyAnonymous(s) == [s EXCEPT !.dirty = TRUE]    \* variant: the id is kept

Anonymous(s) == [s EXCEPT !.id = None, !.dirty = TRUE]

(* auth.LoginSession: Regenerate drops the old id and persists under a new *)
(* one; the user is set after that, to be saved by the middleware.         *)
LoginDrops(r) ==
    /\ "login" \in Ops /\ Spare
    /\ Goto(r, "run", "regenerate")
    /\ Drop(sess[r].id)
    /\ Keep(r, Anonymous(sess[r]))
    /\ UNCHANGED <<env, history, cookie, hdr, wrote, page>>

(* Variant of the next action: the user is set without marking the session *)
(* dirty.                                                                  *)
FaultyLoginIssues(r) ==
    /\ Goto(r, "regenerate", "run")
    /\ \/ PersistSucceeds(r, sess[r], [sess[r].vals EXCEPT !.user = ClientOf[r]], FALSE)
       \/ PersistFails(r, sess[r])
    /\ UNCHANGED <<env, spent, msgs, cookie, wrote, page>>

LoginIssues(r) ==
    /\ Goto(r, "regenerate", "run")
    /\ \/ PersistSucceeds(r, sess[r], [sess[r].vals EXCEPT !.user = ClientOf[r]], TRUE)
       \/ PersistFails(r, sess[r])
    /\ UNCHANGED <<env, spent, msgs, cookie, wrote, page>>

(* Session.Destroy, as auth.LogoutSession calls it.                        *)
Destroy(r) ==
    /\ Run(r, "destroy")
    /\ Drop(sess[r].id)
    /\ Keep(r, NewSession)
    /\ hdr' = [hdr EXCEPT ![r] = IF wrote[r] THEN @ ELSE "clear"]
    /\ page' = [page EXCEPT ![r] = None]
    /\ UNCHANGED <<env, history, cookie, wrote>>

(* The first byte of the body: net/http takes its copy of the headers.     *)
Write(r) ==
    /\ Run(r, "write")
    /\ wrote' = [wrote EXCEPT ![r] = TRUE]
    /\ UNCHANGED <<store, env, history, sess, cookie, hdr, page, failures>>

(* The rest of Manager.Middleware.                                         *)
Finish(r) ==
    /\ Goto(r, "run", "done")
    /\ IF sess[r].dirty THEN Persist(r, sess[r])
       ELSE UNCHANGED <<store, owner, sess, hdr, failures>>
    /\ UNCHANGED <<env, spent, msgs, cookie, wrote, page>>

(* A panic unwinds past the middleware.                                    *)
Panic(r) ==
    /\ "panic" \in Ops
    /\ Goto(r, "run", "done")
    /\ UNCHANGED <<store, env, history, sess, response, failures>>

-----------------------------------------------------------------------------
Load(r) ==
    \/ LoadNothing(r) \/ LoadFails(r) \/ LoadFound(r)
    \/ LoadExpired(r) \/ LoadDeletes(r)

Handle(r) ==
    \/ EnsureToken(r) \/ Clear(r) \/ Save(r) \/ Destroy(r) \/ Write(r) \/ Panic(r)
    \/ LoginDrops(r) \/ LoginIssues(r)
    \/ \E m \in Msgs : SetFlash(r, m)

Next ==
    \/ \E i \in Ids : Expire(i)
    \/ \E r \in Requests : Send(r) \/ Load(r) \/ Handle(r) \/ Finish(r) \/ Receive(r)

Spec == Init /\ [][Next]_vars

-----------------------------------------------------------------------------
TypeOK ==
    /\ store \in [Ids -> Entries \cup {None}]
    /\ jar \in [Clients -> Ids \cup {None}] /\ form \in [Clients -> Tokens \cup {None}]
    /\ owner \in [Ids -> Clients \cup {None}] /\ spent \subseteq Tokens
    /\ msgs \in [Msgs -> {"new", "set", "seen"}]
    /\ pc \in [Requests -> {"idle", "load", "expired", "run", "regenerate", "done"}]
    /\ cookie \in [Requests -> Ids \cup {None}]
    /\ \A r \in Requests : pc[r] = "expired" => cookie[r] # None
    /\ sess \in [Requests -> Sessions]
    /\ hdr \in [Requests -> Ids \cup {None, "clear"}]
    /\ wrote \in [Requests -> BOOLEAN]
    /\ page \in [Requests -> Tokens \cup {None}]
    /\ failures \in 0 .. MaxFailures

Known(c, i) ==      \* browser c, or a request of it, knows id i
    \/ jar[c] = i
    \/ \E r \in Requests : ClientOf[r] = c /\ i \in {cookie[r], sess[r].id, hdr[r]}

(* No request runs, or leaves a session in the store, as a user who did    *)
(* not log in from that browser, whatever requests, failures, panics and   *)
(* expiries came between (session.go:76-104, 195-208, 236-273).            *)
Isolation ==
    /\ \A r \in Requests : sess[r].vals.user \in {None, ClientOf[r]}
    /\ \A c \in Clients, i \in Ids : Known(c, i) /\ store[i] # None =>
          store[i].vals.user \in {None, c}

(* A session that is anonymous never becomes a logged-in one under an id   *)
(* a browser already sends: "Regenerate issues a new session id (call      *)
(* after login)", session.go:194.                                          *)
LoginChangesId ==
    [][\A i \in Ids :
          /\ store[i] # None /\ store'[i] # None
          /\ store'[i].vals.user \notin {None, store[i].vals.user}
          => /\ \A c \in Clients : jar[c] # i
             /\ \A r \in Requests : cookie[r] # i]_vars

(* The token of the last form is the token the next request's session has, *)
(* so that csrf.Valid accepts it: "csrf.Middleware stores a token in the   *)
(* session. Clients send X-CSRF-Token or form field _csrf" (docs/auth.md:  *)
(* 101).                                                                   *)
TokenRoundTrip ==
    \A r \in Requests : pc[r] = "idle" /\ form[ClientOf[r]] # None =>
        LET d == Found(jar[ClientOf[r]]) IN
        d # None /\ d.vals.token = form[ClientOf[r]]

-----------------------------------------------------------------------------
(* The values a browser that waits for each response sees.                 *)

Stored(i) ==
    IF Found(i) = None THEN Empty
    ELSE IF store[i].fresh THEN store[i].vals ELSE Empty

Visible(r) ==
    CASE pc[r] = "idle" -> Stored(jar[ClientOf[r]])
      [] pc[r] = "load" -> Stored(cookie[r])
      [] pc[r] = "done" -> Stored(NextJar(r))
      [] OTHER -> sess[r].vals

=============================================================================
