----------------------------- MODULE IsrRouter -----------------------------
(***************************************************************************)
(* irmik/router/router.go, ISR routes, over the memory, disk and Redis     *)
(* stores of irmik/cache: requests look a page up, serve it when it is     *)
(* cached and render it when it is not; the first request that meets a     *)
(* stale page starts a background goroutine that renders and stores it.    *)
(*                                                                         *)
(* A page body is the version of the data its loader read.  Time is kept   *)
(* as ages: an entry is stale when its age exceeds Reval (StaleAt) and     *)
(* expired when it exceeds Lifetime (ExpiresAt).                           *)
(***************************************************************************)
EXTENDS Naturals, FiniteSets

CONSTANTS
    Keys,           \* cache.Key of the pages
    Requests,       \* request goroutines
    Jobs,           \* revalidation goroutines
    None,           \* no entry
    Driver,         \* "memory", "disk" or "redis"
    Reval,          \* the route's revalidate, in ticks
    MaxVersion,     \* bound: how often the data of a page changes
    MaxRender,      \* bound: ticks between a loader's read and the Set
    MaxFailures     \* bound: failures of loaders, templates and stores

ASSUME IsrAssumption ==
    /\ Driver \in {"memory", "disk", "redis"}
    /\ Reval \in Nat \ {0}
    /\ MaxVersion \in Nat /\ MaxRender \in Nat /\ MaxFailures \in Nat

VARIABLES
    version,    \* the current data of each page
    gone,       \* ticks since each version was replaced (capped)
    store,      \* memoryStore.data, the directory of diskStore, or Redis
    inflight,   \* Router.inflight
    rpc,        \* control state of the requests
    rkey, rent, \* a request's key and the entry Get returned
    rver, rage, \* the version it rendered and the age of that render
    jpc,        \* control state of the jobs
    jkey, jver, jage,
    failures    \* failures so far

reqVars == <<rpc, rkey, rent, rver, rage>>
jobVars == <<jpc, jkey, jver, jage>>
vars == <<version, gone, store, inflight, reqVars, jobVars, failures>>

Versions == 0 .. MaxVersion

FaultyLifetime == 3 * Reval         \* variant: a third period of grace

Lifetime == 2 * Reval

Cap == MaxRender + Lifetime + 1

Entries == [ver : Versions, age : 0 .. Lifetime + 1]

Stale(e) == e.age > Reval
Expired(e) == e.age > Lifetime

NewEntry(v) == [ver |-> v, age |-> 0]

Init ==
    /\ version = [k \in Keys |-> 0]
    /\ gone = [k \in Keys |-> [v \in Versions |-> 0]]
    /\ store = [k \in Keys |-> None]
    /\ inflight = [k \in Keys |-> FALSE]
    /\ rpc = [r \in Requests |-> "idle"]
    /\ rkey \in [Requests -> Keys]
    /\ rent = [r \in Requests |-> None]
    /\ rver = [r \in Requests |-> 0] /\ rage = [r \in Requests |-> 0]
    /\ jpc = [j \in Jobs |-> "idle"]
    /\ jkey \in [Jobs -> Keys]
    /\ jver = [j \in Jobs |-> 0] /\ jage = [j \in Jobs |-> 0]
    /\ failures = 0

-----------------------------------------------------------------------------
(* The environment: the data changes, time passes, something fails.        *)

Edit(k) ==
    /\ version[k] < MaxVersion
    /\ version' = [version EXCEPT ![k] = @ + 1]
    /\ UNCHANGED <<gone, store, inflight, reqVars, jobVars, failures>>

UpTo(n, cap) == IF n < cap THEN n + 1 ELSE cap

Older(e) == IF e = None THEN None ELSE [e EXCEPT !.age = UpTo(@, Lifetime + 1)]

(* No render is under way for more than MaxRender ticks.                   *)
Tick ==
    /\ \A r \in Requests : rpc[r] = "set" => rage[r] < MaxRender
    /\ \A j \in Jobs : jpc[j] = "set" => jage[j] < MaxRender
    /\ gone' = [k \in Keys |-> [v \in Versions |->
                  IF v < version[k] THEN UpTo(gone[k][v], Cap) ELSE 0]]
    /\ store' = [k \in Keys |-> Older(store[k])]
    /\ rent' = [r \in Requests |-> Older(rent[r])]
    /\ rage' = [r \in Requests |-> IF rpc[r] = "set" THEN rage[r] + 1 ELSE 0]
    /\ jage' = [j \in Jobs |-> IF jpc[j] = "set" THEN jage[j] + 1 ELSE 0]
    /\ UNCHANGED <<version, inflight, rpc, rkey, rver, jpc, jkey, jver, failures>>

\* The disk and Redis return errors, and other processes may change them.
External == Driver # "memory"

\* Redis drops an entry at the ttl it was set with.
ServerExpires(k) ==
    /\ Driver = "redis" /\ store[k] # None /\ Expired(store[k])
    /\ store' = [store EXCEPT ![k] = None]
    /\ UNCHANGED <<version, gone, inflight, reqVars, jobVars, failures>>

(* "irmik cache clear" runs in another process and removes one entry after *)
(* another; the memory store it clears is its own.                         *)
Clear(k) ==
    /\ External /\ store[k] # None
    /\ store' = [store EXCEPT ![k] = None]
    /\ UNCHANGED <<version, gone, inflight, reqVars, jobVars, failures>>

Fails ==
    /\ failures < MaxFailures
    /\ failures' = failures + 1

-----------------------------------------------------------------------------
(* revalidateAsync: one goroutine per key.                                 *)

MayStart(k) == ~inflight[k]

StartJob(k) ==
    \E j \in Jobs :
        /\ jpc[j] = "idle"
        /\ inflight' = [inflight EXCEPT ![k] = TRUE]
        /\ jpc' = [jpc EXCEPT ![j] = "load"]
        /\ jkey' = [jkey EXCEPT ![j] = k]
        /\ UNCHANGED <<jver, jage>>

Revalidate(k) ==
    IF MayStart(k) THEN StartJob(k) ELSE UNCHANGED <<inflight, jobVars>>

(* Variant of the next action: the loader is not run again.                *)
FaultyJobLoads(j) ==
    /\ jpc[j] = "load"
    /\ jver' = [jver EXCEPT ![j] = IF store[jkey[j]] = None THEN @
                                   ELSE store[jkey[j]].ver]
    /\ jage' = [jage EXCEPT ![j] = 0]
    /\ jpc' = [jpc EXCEPT ![j] = "set"]
    /\ UNCHANGED <<version, gone, store, inflight, reqVars, jkey, failures>>

JobLoads(j) ==
    /\ jpc[j] = "load"
    /\ jver' = [jver EXCEPT ![j] = version[jkey[j]]]
    /\ jage' = [jage EXCEPT ![j] = 0]
    /\ jpc' = [jpc EXCEPT ![j] = "set"]
    /\ UNCHANGED <<version, gone, store, inflight, reqVars, jkey, failures>>

(* What the job rendered is dropped with its variables.                    *)
JobEnds(j) ==
    /\ jpc' = [jpc EXCEPT ![j] = "release"]
    /\ jver' = [jver EXCEPT ![j] = 0] /\ jage' = [jage EXCEPT ![j] = 0]

(* The loader, the template or the Set of an external store failed; Set's  *)
(* error is dropped.                                                       *)
JobFails(j) ==
    /\ jpc[j] = "load" \/ (jpc[j] = "set" /\ External)
    /\ Fails
    /\ JobEnds(j)
    /\ UNCHANGED <<version, gone, store, inflight, reqVars, jkey>>

JobSets(j) ==
    /\ jpc[j] = "set"
    /\ store' = [store EXCEPT ![jkey[j]] = NewEntry(jver[j])]
    /\ JobEnds(j)
    /\ UNCHANGED <<version, gone, inflight, reqVars, jkey, failures>>

(* Variant of the next action: a failed job leaves its mark.               *)
FaultyJobReleases(j) ==
    /\ jpc[j] = "release"
    /\ inflight' = [inflight EXCEPT ![jkey[j]] = failures > 0]
    /\ jpc' = [jpc EXCEPT ![j] = "idle"]
    /\ UNCHANGED <<version, gone, store, reqVars, jkey, jver, jage, failures>>

(* The deferred delete(r.inflight, key).                                   *)
JobReleases(j) ==
    /\ jpc[j] = "release"
    /\ inflight' = [inflight EXCEPT ![jkey[j]] = FALSE]
    /\ jpc' = [jpc EXCEPT ![j] = "idle"]
    /\ UNCHANGED <<version, gone, store, reqVars, jkey, jver, jage, failures>>

-----------------------------------------------------------------------------
(* serveISR                                                                *)

Goto(r, pc) == rpc' = [rpc EXCEPT ![r] = pc]

Arrive(r, k) ==
    /\ rpc[r] = "idle"
    /\ Goto(r, "lookup")
    /\ rkey' = [rkey EXCEPT ![r] = k]
    /\ UNCHANGED <<version, gone, store, inflight, rent, rver, rage, jobVars, failures>>

LookupMisses(r) ==
    /\ rpc[r] = "lookup" /\ store[rkey[r]] = None
    /\ Goto(r, "load")
    /\ UNCHANGED <<version, gone, store, inflight, rkey, rent, rver, rage, jobVars, failures>>

LookupFinds(r) ==
    /\ rpc[r] = "lookup" /\ store[rkey[r]] # None
    /\ ~Expired(store[rkey[r]])
    /\ Goto(r, "decide")
    /\ rent' = [rent EXCEPT ![r] = store[rkey[r]]]
    /\ UNCHANGED <<version, gone, store, inflight, rkey, rver, rage, jobVars, failures>>

(* diskStore.Get holds its mutex from the read to the removal;             *)
(* memoryStore.Get releases its lock and calls Delete, and redisStore.Get  *)
(* has none.                                                               *)
HoldsLock == Driver = "disk"

LookupExpires(r) ==
    /\ rpc[r] = "lookup" /\ store[rkey[r]] # None
    /\ Expired(store[rkey[r]])
    /\ IF HoldsLock
       THEN /\ store' = [store EXCEPT ![rkey[r]] = None] /\ Goto(r, "load")
       ELSE UNCHANGED store /\ Goto(r, "delete")
    /\ UNCHANGED <<version, gone, inflight, rkey, rent, rver, rage, jobVars, failures>>

LookupDeletes(r) ==
    /\ rpc[r] = "delete"
    /\ store' = [store EXCEPT ![rkey[r]] = None]
    /\ Goto(r, "load")
    /\ UNCHANGED <<version, gone, inflight, rkey, rent, rver, rage, jobVars, failures>>

(* A store that returns an error: the page is rendered and not stored.     *)
LookupFails(r) ==
    /\ rpc[r] = "lookup" /\ External
    /\ Fails
    /\ Goto(r, "idle")
    /\ UNCHANGED <<version, gone, store, inflight, rkey, rent, rver, rage, jobVars>>

(* A page that was in time when Get looked may have expired since: it is   *)
(* served like a stale one.                                                *)
ServeCached(r) ==
    /\ rpc[r] = "decide"
    /\ Goto(r, "idle")
    /\ rent' = [rent EXCEPT ![r] = None]
    /\ IF Stale(rent[r]) THEN Revalidate(rkey[r])
       ELSE UNCHANGED <<inflight, jobVars>>
    /\ UNCHANGED <<version, gone, store, rkey, rver, rage, failures>>

Load(r) ==
    /\ rpc[r] = "load"
    /\ rver' = [rver EXCEPT ![r] = version[rkey[r]]]
    /\ rage' = [rage EXCEPT ![r] = 0]
    /\ Goto(r, "set")
    /\ UNCHANGED <<version, gone, store, inflight, rkey, rent, jobVars, failures>>

(* What the request rendered is dropped with its variables.                *)
Answered(r) ==
    /\ Goto(r, "idle")
    /\ rver' = [rver EXCEPT ![r] = 0] /\ rage' = [rage EXCEPT ![r] = 0]

(* The render failed (500), or the Set of an external store did.           *)
RenderFails(r) ==
    /\ rpc[r] = "load" \/ (rpc[r] = "set" /\ External)
    /\ Fails
    /\ Answered(r)
    /\ UNCHANGED <<version, gone, store, inflight, rkey, rent, jobVars>>

SetAndServe(r) ==
    /\ rpc[r] = "set"
    /\ store' = [store EXCEPT ![rkey[r]] = NewEntry(rver[r])]
    /\ Answered(r)
    /\ UNCHANGED <<version, gone, inflight, rkey, rent, jobVars, failures>>

-----------------------------------------------------------------------------
Request(r) ==
    \/ LookupMisses(r) \/ LookupFinds(r) \/ LookupExpires(r) \/ LookupDeletes(r)
    \/ ServeCached(r) \/ Load(r) \/ SetAndServe(r)

Job(j) == JobLoads(j) \/ JobSets(j) \/ JobReleases(j)

Next ==
    \/ Tick
    \/ \E k \in Keys : Edit(k) \/ ServerExpires(k) \/ Clear(k)
    \/ \E r \in Requests :
          \/ Request(r) \/ LookupFails(r) \/ RenderFails(r)
          \/ \E k \in Keys : Arrive(r, k)
    \/ \E j \in Jobs : Job(j) \/ JobFails(j)

Spec == Init /\ [][Next]_vars

-----------------------------------------------------------------------------
TypeOK ==
    /\ version \in [Keys -> Versions]
    /\ gone \in [Keys -> [Versions -> 0 .. Cap]]
    /\ store \in [Keys -> Entries \cup {None}]
    /\ inflight \in [Keys -> BOOLEAN]
    /\ rpc \in [Requests -> {"idle", "lookup", "delete", "decide", "load", "set"}]
    /\ rkey \in [Requests -> Keys]
    /\ rent \in [Requests -> Entries \cup {None}]
    /\ \A r \in Requests : rpc[r] = "decide" => rent[r] \in Entries
    /\ rver \in [Requests -> Versions] /\ rage \in [Requests -> 0 .. MaxRender]
    /\ jpc \in [Jobs -> {"idle", "load", "set", "release"}]
    /\ jkey \in [Jobs -> Keys]
    /\ jver \in [Jobs -> Versions] /\ jage \in [Jobs -> 0 .. MaxRender]
    /\ failures \in 0 .. MaxFailures

Running(j) == jpc[j] # "idle"

(* A page is marked in inflight exactly while one goroutine revalidates    *)
(* it: two never do, and no failed render leaves a page marked for ever.   *)
SingleFlight ==
    /\ \A i, j \in Jobs : Running(i) /\ Running(j) /\ jkey[i] = jkey[j] => i = j
    /\ \A k \in Keys : inflight[k] <=> \E j \in Jobs : Running(j) /\ jkey[j] = k

(* Get never returns a body whose data was replaced longer ago than twice  *)
(* the revalidate period ("soft expiry after 2x TTL", router.go:464) and   *)
(* the time of one render.                                                 *)
BoundedStaleness ==
    [][\A r \in Requests : LookupFinds(r) =>
          gone[rkey[r]][store[rkey[r]].ver] <= MaxRender + 2 * Reval]_vars

=============================================================================
