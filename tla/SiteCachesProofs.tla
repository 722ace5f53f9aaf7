-------------------------- MODULE SiteCachesProofs -------------------------
(***************************************************************************)
(* Proofs about the caches of a site, for any number of pages, images and  *)
(* requests: IsrRouter over any store and any periods, and VariantCache    *)
(* with any limit.                                                         *)
(***************************************************************************)
EXTENDS SiteCaches, TLAPS

(* The bounds are numbers.                                                 *)
LEMMA Bounds == MaxVersion \in Nat /\ MaxRender \in Nat /\ MaxFailures \in Nat
  BY IsrAssumption

(* The ages of entries are numbers.                                        *)
LEMMA LifetimeNat == Lifetime \in Nat /\ Cap \in Nat
  BY IsrAssumption DEF Lifetime, Cap

(* A page that is rendered is an entry.                                    *)
LEMMA NewEntryType == \A v \in Versions : NewEntry(v) \in Entries
  BY LifetimeNat DEF NewEntry, Entries

(* An entry that ages is an entry.                                         *)
LEMMA OlderEntry ==
  ASSUME NEW e \in Entries, e # None
  PROVE  Older(e) \in Entries
  BY LifetimeNat DEF Older, Entries, UpTo

(* So is a place without one.                                              *)
LEMMA OlderType == \A e \in Entries \cup {None} : Older(e) \in Entries \cup {None}
  BY OlderEntry DEF Older

(* Every variable keeps its type.                                          *)
THEOREM TypeCorrect == Spec => []TypeOK
<1> USE Bounds, LifetimeNat
<1>1. Init => TypeOK
  BY DEF Init, TypeOK, Versions
<1>2. TypeOK /\ [Next]_vars => TypeOK'
  <2> SUFFICES ASSUME TypeOK, [Next]_vars PROVE TypeOK'
    OBVIOUS
  <2> USE DEF TypeOK, reqVars, jobVars
  <2>1. CASE Tick
    <3>1. gone' \in [Keys -> [Versions -> 0 .. Cap]]
      <4>1. \A n \in 0 .. Cap : UpTo(n, Cap) \in 0 .. Cap
        BY DEF UpTo
      <4>2. QED
        BY <2>1, <4>1 DEF Tick
    <3>2. store' \in [Keys -> Entries \cup {None}]
      BY <2>1, OlderType DEF Tick
    <3>3. rent' \in [Requests -> Entries \cup {None}]
      BY <2>1, OlderType DEF Tick
    <3>4. \A r \in Requests : rpc[r] = "decide" => rent'[r] \in Entries
      <4>2. \A e \in Entries : e # None => Older(e) \in Entries
        BY OlderEntry
      <4>3. \A r \in Requests : rpc[r] = "decide" => rent[r] \in Entries
        OBVIOUS
      <4>4. ASSUME NEW r \in Requests, rpc[r] = "decide", rent[r] = None
            PROVE  rent'[r] \in Entries
        BY <2>1, <4>3, <4>4 DEF Tick, Older
      <4>5. QED
        BY <2>1, <4>2, <4>3, <4>4 DEF Tick
    <3>5. rage' \in [Requests -> 0 .. MaxRender]
      BY <2>1 DEF Tick
    <3>6. jage' \in [Jobs -> 0 .. MaxRender]
      BY <2>1 DEF Tick
    <3>7. QED
      BY <2>1, <3>1, <3>2, <3>3, <3>4, <3>5, <3>6 DEF Tick
  <2>2. ASSUME NEW k \in Keys, Edit(k) PROVE TypeOK'
    <3>1. version[k] + 1 \in Versions
      BY <2>2 DEF Edit, Versions
    <3>2. QED
      BY <2>2, <3>1 DEF Edit
  <2>3. ASSUME NEW r \in Requests, NEW k \in Keys, Arrive(r, k) PROVE TypeOK'
    BY <2>3 DEF Arrive, Goto
  <2>4. ASSUME NEW r \in Requests, LookupMisses(r) PROVE TypeOK'
    BY <2>4 DEF LookupMisses, Goto
  <2>5. ASSUME NEW r \in Requests, LookupFinds(r) PROVE TypeOK'
    BY <2>5 DEF LookupFinds, Goto
  <2>6. ASSUME NEW r \in Requests, LookupExpires(r) PROVE TypeOK'
    BY <2>6 DEF LookupExpires, Goto
  <2>7. ASSUME NEW r \in Requests, LookupDeletes(r) PROVE TypeOK'
    BY <2>7 DEF LookupDeletes, Goto
  <2>8. ASSUME NEW r \in Requests, ServeCached(r) PROVE TypeOK'
    <3>1. /\ rpc' = [rpc EXCEPT ![r] = "idle"] /\ rent' = [rent EXCEPT ![r] = None]
          /\ UNCHANGED <<version, gone, store, rkey, rver, rage, failures>>
      BY <2>8 DEF ServeCached, Goto
    <3>2. UNCHANGED <<inflight, jobVars>> \/ StartJob(rkey[r])
      BY <2>8 DEF ServeCached, Revalidate
    <3>3. CASE UNCHANGED <<inflight, jobVars>>
      BY <3>1, <3>3
    <3>4. CASE StartJob(rkey[r])
      <4>1. /\ inflight' \in [Keys -> BOOLEAN] /\ UNCHANGED <<jver, jage>>
            /\ jpc' \in [Jobs -> {"idle", "load", "set", "release"}]
            /\ jkey' \in [Jobs -> Keys]
        BY <3>4 DEF StartJob
      <4>2. QED
        BY <3>1, <4>1
    <3>5. QED
      BY <3>2, <3>3, <3>4
  <2>9. ASSUME NEW r \in Requests, Load(r) PROVE TypeOK'
    BY <2>9 DEF Load, Goto
  <2>10. ASSUME NEW r \in Requests, SetAndServe(r) PROVE TypeOK'
    BY <2>10, NewEntryType DEF SetAndServe, Answered, Goto, Versions
  <2>11. ASSUME NEW r \in Requests, LookupFails(r) \/ RenderFails(r) PROVE TypeOK'
    <3>1. failures' \in 0 .. MaxFailures /\ rpc' = [rpc EXCEPT ![r] = "idle"]
      BY <2>11 DEF LookupFails, RenderFails, Fails, Answered, Goto
    <3>2. UNCHANGED <<version, gone, store, inflight, rkey, rent, jobVars>>
      BY <2>11 DEF LookupFails, RenderFails
    <3>3. rver' \in [Requests -> Versions] /\ rage' \in [Requests -> 0 .. MaxRender]
      <4>1. CASE LookupFails(r)
        BY <4>1 DEF LookupFails
      <4>2. CASE RenderFails(r)
        BY <4>2 DEF RenderFails, Answered, Versions
      <4>3. QED
        BY <2>11, <4>1, <4>2
    <3>4. QED
      BY <3>1, <3>2, <3>3
  <2>12. ASSUME NEW j \in Jobs, JobLoads(j) PROVE TypeOK'
    BY <2>12 DEF JobLoads
  <2>13. ASSUME NEW j \in Jobs, JobFails(j) PROVE TypeOK'
    BY <2>13 DEF JobFails, JobEnds, Fails, Versions
  <2>14. ASSUME NEW j \in Jobs, JobSets(j) PROVE TypeOK'
    BY <2>14, NewEntryType DEF JobSets, JobEnds, Versions
  <2>15. ASSUME NEW j \in Jobs, JobReleases(j) PROVE TypeOK'
    BY <2>15 DEF JobReleases
  <2>16. ASSUME NEW k \in Keys, ServerExpires(k) \/ Clear(k) PROVE TypeOK'
    BY <2>16 DEF ServerExpires, Clear
  <2>17. CASE UNCHANGED vars
    BY <2>17 DEF vars
  <2>18. QED
    BY <2>1, <2>2, <2>3, <2>4, <2>5, <2>6, <2>7, <2>8, <2>9, <2>10, <2>11,
       <2>12, <2>13, <2>14, <2>15, <2>16, <2>17 DEF Next, Request, Job
<1>3. QED
  BY <1>1, <1>2, PTL DEF Spec

(* At most one goroutine revalidates a page, and the page is marked in     *)
(* inflight exactly while it does.                                         *)
THEOREM OneRevalidationPerPage == Spec => []SingleFlight
<1>1. Init => SingleFlight
  BY DEF Init, SingleFlight, Running
<1>2. TypeOK /\ SingleFlight /\ [Next]_vars => SingleFlight'
  <2> SUFFICES ASSUME TypeOK, SingleFlight, [Next]_vars PROVE SingleFlight'
    OBVIOUS
  <2> USE DEF TypeOK, SingleFlight, Running
  <2>1. CASE UNCHANGED <<inflight, jpc, jkey>>
    BY <2>1
  <2>2. ASSUME NEW j \in Jobs, jpc[j] # "idle", UNCHANGED <<inflight, jkey>>,
               NEW pc \in {"load", "set", "release"}, jpc' = [jpc EXCEPT ![j] = pc]
        PROVE  SingleFlight'
    BY <2>2
  <2>3. ASSUME NEW r \in Requests, ServeCached(r) PROVE SingleFlight'
    <3> DEFINE k == rkey[r]
    <3>1. CASE Stale(rent[r]) /\ MayStart(k)
      <4>1. PICK j \in Jobs : /\ jpc[j] = "idle"
                              /\ inflight' = [inflight EXCEPT ![k] = TRUE]
                              /\ jpc' = [jpc EXCEPT ![j] = "load"]
                              /\ jkey' = [jkey EXCEPT ![j] = k]
        BY <2>3, <3>1 DEF ServeCached, Revalidate, StartJob
      <4>2. \A i \in Jobs : Running(i) => jkey[i] # k
        BY <3>1 DEF MayStart
      <4>3. QED
        BY <4>1, <4>2
    <3>2. CASE ~(Stale(rent[r]) /\ MayStart(k))
      BY <2>3, <3>2, <2>1 DEF ServeCached, Revalidate, jobVars
    <3>3. QED
      BY <3>1, <3>2
  <2>4. ASSUME NEW j \in Jobs, JobLoads(j) \/ JobFails(j) \/ JobSets(j)
        PROVE  SingleFlight'
    BY <2>2, <2>4 DEF JobLoads, JobFails, JobSets, JobEnds
  <2>5. ASSUME NEW j \in Jobs, JobReleases(j) PROVE SingleFlight'
    BY <2>5 DEF JobReleases
  <2>6. ASSUME NEW r \in Requests,
               \/ LookupMisses(r) \/ LookupFinds(r) \/ LookupExpires(r)
               \/ LookupDeletes(r) \/ Load(r) \/ SetAndServe(r)
               \/ LookupFails(r) \/ RenderFails(r)
               \/ \E k \in Keys : Arrive(r, k)
        PROVE  UNCHANGED <<inflight, jpc, jkey>>
    BY <2>6 DEF LookupMisses, LookupFinds, LookupExpires, LookupDeletes, Load,
       SetAndServe, LookupFails, RenderFails, Arrive, jobVars
  <2>7. CASE Tick \/ UNCHANGED vars \/ \E k \in Keys : Edit(k) \/ ServerExpires(k) \/ Clear(k)
    BY <2>1, <2>7 DEF Tick, Edit, ServerExpires, Clear, vars, jobVars
  <2>8. QED
    BY <2>1, <2>3, <2>4, <2>5, <2>6, <2>7 DEF Next, Request, Job
<1>3. QED
  BY <1>1, <1>2, TypeCorrect, PTL DEF Spec

-----------------------------------------------------------------------------
(* How long ago the data behind a body was replaced: no longer than the    *)
(* body has been stored and rendered.  Current data was not replaced.      *)
Current == \A k \in Keys, v \in Versions : v >= version[k] => gone[k][v] = 0

StoredInTime ==
    \A k \in Keys : store[k] # None /\ ~Expired(store[k]) =>
        gone[k][store[k].ver] <= MaxRender + store[k].age

RenderedInTime ==
    /\ \A r \in Requests : rpc[r] = "set" => gone[rkey[r]][rver[r]] <= rage[r]
    /\ \A j \in Jobs : jpc[j] = "set" => gone[jkey[j]][jver[j]] <= jage[j]

AgeInv == Current /\ StoredInTime /\ RenderedInTime

(* An age grows by one, up to its cap.                                     *)
LEMMA UpToBounds ==
  ASSUME NEW n \in Nat, NEW cap \in Nat, n <= cap
  PROVE  UpTo(n, cap) \in Nat /\ UpTo(n, cap) <= n + 1 /\ (n < cap => UpTo(n, cap) = n + 1)
  BY DEF UpTo

(* A tick ages what is stored, rendered and replaced alike.                *)
LEMMA TickKeepsAges == TypeOK /\ AgeInv /\ Tick => AgeInv'
<1> SUFFICES ASSUME TypeOK, AgeInv, Tick PROVE AgeInv'
  OBVIOUS
<1> USE Bounds, LifetimeNat
<1>1. /\ gone \in [Keys -> [Versions -> 0 .. Cap]]
      /\ rkey \in [Requests -> Keys] /\ rver \in [Requests -> Versions]
      /\ jkey \in [Jobs -> Keys] /\ jver \in [Jobs -> Versions]
      /\ rage \in [Requests -> 0 .. MaxRender] /\ jage \in [Jobs -> 0 .. MaxRender]
      /\ UNCHANGED <<version, rpc, rkey, rver, jpc, jkey, jver>>
  BY DEF TypeOK, Tick
<1>2. ASSUME NEW k \in Keys, NEW v \in Versions
      PROVE  /\ gone'[k][v] <= gone[k][v] + 1
             /\ v >= version[k] => gone'[k][v] = 0
             /\ gone'[k][v] \in Nat /\ gone[k][v] \in Nat
  <2>1. gone'[k][v] = IF v < version[k] THEN UpTo(gone[k][v], Cap) ELSE 0
    BY DEF Tick
  <2>2. gone[k][v] \in Nat /\ gone[k][v] <= Cap
    BY <1>1
  <2>3. version[k] \in Nat /\ v \in Nat
    BY DEF TypeOK, Versions
  <2>4. UpTo(gone[k][v], Cap) \in Nat /\ UpTo(gone[k][v], Cap) <= gone[k][v] + 1
    BY <2>2, UpToBounds
  <2>5. CASE v < version[k]
    BY <2>1, <2>2, <2>3, <2>4, <2>5
  <2>6. CASE ~(v < version[k])
    BY <2>1, <2>2, <2>3, <2>6
  <2> QED BY <2>3, <2>5, <2>6
<1>3. Current'
  BY <1>1, <1>2 DEF Current
<1>4. RenderedInTime'
  <2>1. ASSUME NEW r \in Requests, rpc[r] = "set" PROVE gone'[rkey[r]][rver[r]] <= rage'[r]
    <3>1. rage'[r] = rage[r] + 1 /\ gone[rkey[r]][rver[r]] <= rage[r] /\ rage[r] \in Nat
      BY <1>1, <2>1 DEF Tick, AgeInv, RenderedInTime
    <3> QED BY <1>1, <1>2, <3>1
  <2>2. ASSUME NEW j \in Jobs, jpc[j] = "set" PROVE gone'[jkey[j]][jver[j]] <= jage'[j]
    <3>1. jage'[j] = jage[j] + 1 /\ gone[jkey[j]][jver[j]] <= jage[j] /\ jage[j] \in Nat
      BY <1>1, <2>2 DEF Tick, AgeInv, RenderedInTime
    <3> QED BY <1>1, <1>2, <3>1
  <2> QED BY <1>1, <2>1, <2>2 DEF RenderedInTime
<1>5. ASSUME NEW k \in Keys, store'[k] # None, ~Expired(store'[k])
      PROVE  gone'[k][store'[k].ver] <= MaxRender + store'[k].age
  <2>1. store[k] # None /\ store'[k] = [store[k] EXCEPT !.age = UpTo(@, Lifetime + 1)]
    BY <1>5 DEF Tick, Older
  <2>2. store[k] \in Entries
    BY <2>1 DEF TypeOK
  <2>3. /\ store[k].age \in Nat /\ store[k].age <= Lifetime + 1 /\ store[k].ver \in Versions
        /\ store'[k].ver = store[k].ver /\ store'[k].age = UpTo(store[k].age, Lifetime + 1)
    BY <2>1, <2>2 DEF Entries
  <2>4. store[k].age <= Lifetime /\ store'[k].age = store[k].age + 1
    <3>1. store'[k].age <= Lifetime
      BY <1>5, <2>3 DEF Expired, UpTo
    <3> QED BY <2>3, <3>1 DEF UpTo
  <2>5. gone[k][store[k].ver] <= MaxRender + store[k].age
    BY <2>1, <2>3, <2>4 DEF AgeInv, StoredInTime, Expired
  <2> QED BY <1>2, <2>3, <2>4, <2>5
<1> QED BY <1>3, <1>4, <1>5 DEF AgeInv, StoredInTime

(* What a page is stored from was rendered within MaxRender.               *)
LEMMA SetKeepsAges ==
  ASSUME TypeOK, AgeInv, NEW k \in Keys, NEW v \in Versions, NEW age \in 0 .. MaxRender,
         gone[k][v] <= age, store' = [store EXCEPT ![k] = NewEntry(v)], UNCHANGED gone
  PROVE  StoredInTime'
<1>1. store'[k] = [ver |-> v, age |-> 0] /\ \A l \in Keys \ {k} : store'[l] = store[l]
  BY DEF TypeOK, NewEntry
<1>2. gone[k][v] <= MaxRender + 0
  BY Bounds DEF TypeOK
<1> QED BY <1>1, <1>2 DEF AgeInv, StoredInTime, Expired

(* AgeInv holds initially and is preserved by every step.                  *)
LEMMA AgesBounded == Spec => []AgeInv
<1> USE Bounds, LifetimeNat
<1>1. Init => AgeInv
  BY DEF Init, AgeInv, Current, StoredInTime, RenderedInTime
<1>2. TypeOK /\ AgeInv /\ [Next]_vars => AgeInv'
  <2> SUFFICES ASSUME TypeOK, AgeInv, [Next]_vars PROVE AgeInv'
    OBVIOUS
  <2> USE DEF TypeOK, reqVars, jobVars
  <2>1. CASE Tick
    BY <2>1, TickKeepsAges
  <2>2. ASSUME NEW k \in Keys, Edit(k) PROVE AgeInv'
    <3>1. /\ UNCHANGED <<gone, store, reqVars, jobVars>>
          /\ \A l \in Keys : version'[l] >= version[l] /\ version[l] \in Nat /\ version'[l] \in Nat
      BY <2>2 DEF Edit, Versions
    <3>2. Current'
      BY <3>1 DEF AgeInv, Current, Versions
    <3> QED BY <3>1, <3>2 DEF AgeInv, StoredInTime, RenderedInTime
  <2>3. ASSUME UNCHANGED <<version, gone>>, \A k \in Keys : store'[k] \in {None, store[k]},
               UNCHANGED <<rver, rage, jver, jage>>,
               \A r \in Requests : rpc'[r] = "set" => rpc[r] = "set" /\ rkey'[r] = rkey[r],
               \A j \in Jobs : jpc'[j] = "set" => jpc[j] = "set" /\ jkey'[j] = jkey[j]
        PROVE  AgeInv'
    BY <2>3 DEF AgeInv, Current, StoredInTime, RenderedInTime
  <2>4. ASSUME NEW k \in Keys, ServerExpires(k) \/ Clear(k) PROVE AgeInv'
    BY <2>3, <2>4 DEF ServerExpires, Clear
  <2>5. ASSUME NEW r \in Requests,
               \/ LookupMisses(r) \/ LookupFinds(r) \/ LookupExpires(r) \/ LookupDeletes(r)
               \/ LookupFails(r) \/ \E k \in Keys : Arrive(r, k)
        PROVE  AgeInv'
    BY <2>3, <2>5 DEF LookupMisses, LookupFinds, LookupExpires, LookupDeletes, LookupFails,
       Arrive, Goto
  <2>6. ASSUME NEW r \in Requests, ServeCached(r) PROVE AgeInv'
    <3>1. /\ UNCHANGED <<version, gone, store, rkey, rver, rage, jver, jage>>
          /\ rpc' = [rpc EXCEPT ![r] = "idle"]
      BY <2>6 DEF ServeCached, Goto, Revalidate, StartJob
    <3>2. \A j \in Jobs : jpc'[j] = "set" => jpc[j] = "set" /\ jkey'[j] = jkey[j]
      BY <2>6 DEF ServeCached, Revalidate, StartJob
    <3> QED BY <2>3, <3>1, <3>2
  <2>7. ASSUME NEW r \in Requests, Load(r) PROVE AgeInv'
    <3>1. gone[rkey[r]][version[rkey[r]]] = 0
      BY DEF AgeInv, Current, Versions
    <3>2. /\ UNCHANGED <<version, gone, store, rkey, jobVars>>
          /\ rpc' = [rpc EXCEPT ![r] = "set"] /\ rage' = [rage EXCEPT ![r] = 0]
          /\ rver' = [rver EXCEPT ![r] = version[rkey[r]]]
      BY <2>7 DEF Load, Goto
    <3> QED BY <3>1, <3>2 DEF AgeInv, Current, StoredInTime, RenderedInTime
  <2>8. ASSUME NEW j \in Jobs, JobLoads(j) PROVE AgeInv'
    <3>1. gone[jkey[j]][version[jkey[j]]] = 0
      BY DEF AgeInv, Current, Versions
    <3>2. /\ UNCHANGED <<version, gone, store, jkey, reqVars>>
          /\ jpc' = [jpc EXCEPT ![j] = "set"] /\ jage' = [jage EXCEPT ![j] = 0]
          /\ jver' = [jver EXCEPT ![j] = version[jkey[j]]]
      BY <2>8 DEF JobLoads
    <3> QED BY <3>1, <3>2 DEF AgeInv, Current, StoredInTime, RenderedInTime
  <2>9. ASSUME NEW r \in Requests, RenderFails(r) \/ SetAndServe(r) PROVE AgeInv'
    <3>1. /\ UNCHANGED <<version, gone, rkey, jobVars>> /\ rpc' = [rpc EXCEPT ![r] = "idle"]
          /\ rver' = [rver EXCEPT ![r] = 0] /\ rage' = [rage EXCEPT ![r] = 0]
      BY <2>9 DEF RenderFails, SetAndServe, Answered, Goto
    <3>2. Current' /\ RenderedInTime'
      BY <3>1 DEF AgeInv, Current, RenderedInTime
    <3>3. StoredInTime'
      <4>1. CASE RenderFails(r)
        BY <4>1 DEF RenderFails, AgeInv, StoredInTime
      <4>2. CASE SetAndServe(r)
        BY <4>2, SetKeepsAges DEF SetAndServe, AgeInv, RenderedInTime
      <4> QED BY <2>9, <4>1, <4>2
    <3> QED BY <3>2, <3>3 DEF AgeInv
  <2>10. ASSUME NEW j \in Jobs, JobFails(j) \/ JobSets(j) PROVE AgeInv'
    <3>1. /\ UNCHANGED <<version, gone, jkey, reqVars>> /\ jpc' = [jpc EXCEPT ![j] = "release"]
          /\ jver' = [jver EXCEPT ![j] = 0] /\ jage' = [jage EXCEPT ![j] = 0]
      BY <2>10 DEF JobFails, JobSets, JobEnds
    <3>2. Current' /\ RenderedInTime'
      BY <3>1 DEF AgeInv, Current, RenderedInTime
    <3>3. StoredInTime'
      <4>1. CASE JobFails(j)
        BY <4>1 DEF JobFails, AgeInv, StoredInTime
      <4>2. CASE JobSets(j)
        BY <4>2, SetKeepsAges DEF JobSets, AgeInv, RenderedInTime
      <4> QED BY <2>10, <4>1, <4>2
    <3> QED BY <3>2, <3>3 DEF AgeInv
  <2>11. ASSUME NEW j \in Jobs, JobReleases(j) PROVE AgeInv'
    BY <2>3, <2>11 DEF JobReleases
  <2>12. CASE UNCHANGED vars
    BY <2>3, <2>12 DEF vars
  <2> QED BY <2>1, <2>2, <2>4, <2>5, <2>6, <2>7, <2>8, <2>9, <2>10, <2>11, <2>12
          DEF Next, Request, Job
<1>3. QED
  BY <1>1, <1>2, TypeCorrect, PTL DEF Spec

(* Get never returns a body whose data was replaced longer ago than twice  *)
(* the revalidate period and one render (router.go:464, cache.go:57-83),   *)
(* over any store and whatever fails.                                      *)
THEOREM StalenessBounded == Spec => BoundedStaleness
<1>1. ASSUME TypeOK, AgeInv, NEW r \in Requests, LookupFinds(r)
      PROVE  gone[rkey[r]][store[rkey[r]].ver] <= MaxRender + 2 * Reval
  <2>1. rkey[r] \in Keys /\ store[rkey[r]] # None /\ ~Expired(store[rkey[r]])
    BY <1>1 DEF LookupFinds, TypeOK
  <2>2. store[rkey[r]] \in Entries
    BY <1>1, <2>1 DEF TypeOK
  <2>3. /\ store[rkey[r]].age \in Nat /\ store[rkey[r]].ver \in Versions
        /\ store[rkey[r]].age <= Lifetime
    BY <2>1, <2>2, LifetimeNat DEF Entries, Expired
  <2>4. gone[rkey[r]][store[rkey[r]].ver] \in Nat
    BY <1>1, <2>1, <2>3, LifetimeNat DEF TypeOK
  <2>5. gone[rkey[r]][store[rkey[r]].ver] <= MaxRender + store[rkey[r]].age
    BY <1>1, <2>1 DEF AgeInv, StoredInTime
  <2> QED BY <2>3, <2>4, <2>5, IsrAssumption DEF Lifetime
<1>2. TypeOK /\ AgeInv /\ [Next]_vars
        => [\A r \in Requests : LookupFinds(r) =>
              gone[rkey[r]][store[rkey[r]].ver] <= MaxRender + 2 * Reval]_vars
  BY <1>1
<1>3. QED
  BY <1>2, TypeCorrect, AgesBounded, PTL DEF Spec, BoundedStaleness

-----------------------------------------------------------------------------
(* What the order lists after the oldest key is dropped and one appended.  *)
LEMMA DropAndAppend ==
  ASSUME NEW S, NEW s \in Seq(S), IsInjective(s), s # <<>>,
         NEW k \in S, k \notin ToSet(s)
  PROVE  LET t == Append(Tail(s), k) IN
         /\ t \in Seq(S) /\ Len(t) = Len(s) /\ IsInjective(t)
         /\ ToSet(t) = (ToSet(s) \ {Head(s)}) \cup {k}
<1> DEFINE t == Append(Tail(s), k)
<1>0. Len(s) \in Nat /\ Len(s) > 0
  OBVIOUS
<1>1. Len(s) \in Nat \ {0} /\ Tail(s) \in Seq(S) /\ Len(Tail(s)) = Len(s) - 1
  OBVIOUS
<1>2. t \in Seq(S) /\ Len(t) = Len(s) /\ DOMAIN t = 1 .. Len(s) /\ DOMAIN s = 1 .. Len(s)
  BY <1>1
<1>3. \A i \in 1 .. Len(s) - 1 : t[i] = s[i + 1]
  BY <1>1
<1>4. t[Len(s)] = k
  BY <1>1
<1>5. \A i \in 1 .. Len(s) : s[i] # k
  BY <1>2 DEF ToSet
<1> HIDE DEF t
<1>6. IsInjective(t)
  <2> SUFFICES ASSUME NEW a \in 1 .. Len(s), NEW b \in 1 .. Len(s), t[a] = t[b]
               PROVE  a = b
    BY <1>2 DEF IsInjective
  <2>1. CASE a = Len(s)
    BY <2>1, <1>1, <1>3, <1>4, <1>5
  <2>2. CASE b = Len(s)
    BY <2>2, <1>1, <1>3, <1>4, <1>5
  <2>3. CASE a # Len(s) /\ b # Len(s)
    <3>0. a \in 1 .. Len(s) - 1 /\ b \in 1 .. Len(s) - 1
      BY <2>3, <1>0
    <3>1. a + 1 \in 1 .. Len(s) /\ b + 1 \in 1 .. Len(s)
      BY <3>0, <1>0
    <3>4. s[a + 1] = s[b + 1]
      BY <3>0, <1>3
    <3>2. a + 1 = b + 1
      BY <3>1, <3>4, <1>2 DEF IsInjective
    <3>3. QED
      BY <3>2
  <2>4. QED
    BY <2>1, <2>2, <2>3
<1>7. ToSet(t) = (ToSet(s) \ {Head(s)}) \cup {k}
  <2>1. ASSUME NEW x \in ToSet(t) PROVE x \in (ToSet(s) \ {Head(s)}) \cup {k}
    <3>1. PICK i \in 1 .. Len(s) : x = t[i]
      BY <1>2 DEF ToSet
    <3>2. CASE i = Len(s)
      BY <3>1, <3>2, <1>4
    <3>3. CASE i # Len(s)
      <4>0. i \in 1 .. Len(s) - 1
        BY <3>3, <1>0
      <4>1. i + 1 \in 1 .. Len(s) /\ 1 \in 1 .. Len(s) /\ i + 1 # 1
        BY <4>0, <1>0
      <4>4. x = s[i + 1]
        BY <4>0, <3>1, <1>3
      <4>2. x \in ToSet(s) /\ s[i + 1] # s[1]
        BY <4>1, <4>4, <1>2 DEF ToSet, IsInjective
      <4>3. QED
        BY <4>2, <4>4, <1>1
    <3>4. QED
      BY <3>2, <3>3
  <2>2. ASSUME NEW x \in ToSet(s), x # Head(s) PROVE x \in ToSet(t)
    <3>1. PICK i \in 1 .. Len(s) : x = s[i]
      BY <1>2 DEF ToSet
    <3>2. i # 1
      BY <2>2, <3>1, <1>1
    <3>3. i - 1 \in 1 .. Len(s) - 1 /\ (i - 1) + 1 = i /\ i - 1 \in 1 .. Len(s)
      BY <3>2, <1>0
    <3>4. t[i - 1] = s[i]
      BY <3>3, <1>3
    <3>5. QED
      BY <3>1, <3>3, <3>4, <1>2 DEF ToSet
  <2>3. k \in ToSet(t)
    BY <1>1, <1>2, <1>4 DEF ToSet
  <2>4. QED
    BY <2>1, <2>2, <2>3
<1>8. QED
  BY <1>2, <1>6, <1>7 DEF t

(* What the order lists after a new key is appended.                       *)
LEMMA AppendNew ==
  ASSUME NEW S, NEW s \in Seq(S), IsInjective(s), NEW k \in S, k \notin ToSet(s)
  PROVE  LET t == Append(s, k) IN
         /\ t \in Seq(S) /\ Len(t) = Len(s) + 1 /\ IsInjective(t)
         /\ ToSet(t) = ToSet(s) \cup {k}
<1> DEFINE t == Append(s, k)
<1>1. t \in Seq(S) /\ Len(t) = Len(s) + 1 /\ Len(s) \in Nat
      /\ DOMAIN t = 1 .. Len(s) + 1 /\ DOMAIN s = 1 .. Len(s)
  OBVIOUS
<1>2. (\A i \in 1 .. Len(s) : t[i] = s[i]) /\ t[Len(s) + 1] = k
  OBVIOUS
<1>3. \A i \in 1 .. Len(s) : s[i] # k
  BY <1>1 DEF ToSet
<1>4. IsInjective(t)
  <2> SUFFICES ASSUME NEW a \in 1 .. Len(s) + 1, NEW b \in 1 .. Len(s) + 1, t[a] = t[b]
               PROVE  a = b
    BY <1>1 DEF IsInjective
  <2>1. CASE a = Len(s) + 1 \/ b = Len(s) + 1
    BY <2>1, <1>1, <1>2, <1>3
  <2>2. CASE a # Len(s) + 1 /\ b # Len(s) + 1
    <3>1. s[a] = s[b] /\ a \in 1 .. Len(s) /\ b \in 1 .. Len(s)
      BY <2>2, <1>1, <1>2
    <3>2. QED
      BY <3>1, <1>1 DEF IsInjective
  <2>3. QED
    BY <2>1, <2>2
<1>5. ToSet(t) = ToSet(s) \cup {k}
  <2>1. ASSUME NEW x \in ToSet(t) PROVE x \in ToSet(s) \cup {k}
    <3>1. PICK i \in 1 .. Len(s) + 1 : x = t[i]
      BY <1>1 DEF ToSet
    <3>2. CASE i = Len(s) + 1
      BY <3>1, <3>2, <1>2
    <3>3. CASE i \in 1 .. Len(s)
      BY <3>1, <3>3, <1>1, <1>2 DEF ToSet
    <3>4. QED
      BY <1>1, <3>2, <3>3
  <2>2. ASSUME NEW x \in ToSet(s) PROVE x \in ToSet(t)
    <3>1. PICK i \in 1 .. Len(s) : x = s[i]
      BY <1>1 DEF ToSet
    <3>2. t[i] = x /\ i \in 1 .. Len(s) + 1
      BY <3>1, <1>1, <1>2
    <3>3. QED
      BY <3>2, <1>1 DEF ToSet
  <2>3. k \in ToSet(t)
    BY <1>1, <1>2 DEF ToSet
  <2>4. QED
    BY <2>1, <2>2, <2>3
<1>6. QED
  BY <1>1, <1>4, <1>5

(* A request that is about to remember a body holds one.                   *)
Holding == \A v \in Views : vpc[v] \in {"keep", "set"} => body[v] # Absent

ImageInv == ImageTypes /\ MemoryBounded /\ Holding

(* Remembering a variant keeps to the limit of the memory.                 *)
LEMMA RememberKeeps ==
  ASSUME ImageTypes, MemoryBounded, NEW k \in Variants,
         NEW b \in Files, b # Absent, Remember(k, b)
  PROVE  /\ mem' \in [Variants -> Files] /\ ord' \in Seq(Variants)
         /\ MemoryBounded'
<1> USE VariantAssumption
<1> DEFINE full == ~Known(k) /\ Len(ord) >= MemCacheLimit
<1>1. mem \in [Variants -> Files] /\ ord \in Seq(Variants)
  BY DEF ImageTypes
<1>2. IsInjective(ord) /\ Len(ord) <= MemCacheLimit /\ Len(ord) \in Nat
      /\ ToSet(ord) = {x \in Variants : mem[x] # Absent}
  BY <1>1 DEF MemoryBounded
<1>3. CASE Known(k)
  <2>1. mem' = [mem EXCEPT ![k] = b] /\ ord' = ord
    BY <1>3 DEF Remember
  <2>2. {x \in Variants : mem'[x] # Absent} = {x \in Variants : mem[x] # Absent}
    BY <2>1, <1>1, <1>3 DEF Known
  <2>3. QED
    BY <2>1, <2>2, <1>1, <1>2 DEF MemoryBounded
<1>4. CASE ~Known(k) /\ ~full
  <2>1. mem' = [mem EXCEPT ![k] = b] /\ ord' = Append(ord, k)
    BY <1>4 DEF Remember
  <2>2. k \notin ToSet(ord)
    BY <1>2, <1>4 DEF Known
  <2>3. /\ ord' \in Seq(Variants) /\ Len(ord') = Len(ord) + 1 /\ IsInjective(ord')
        /\ ToSet(ord') = ToSet(ord) \cup {k}
    BY <2>1, <2>2, <1>1, <1>2, AppendNew
  <2>4. {x \in Variants : mem'[x] # Absent} = {x \in Variants : mem[x] # Absent} \cup {k}
    BY <2>1, <1>1
  <2>5. Len(ord') <= MemCacheLimit
    BY <2>3, <1>2, <1>4
  <2>6. QED
    BY <2>1, <2>3, <2>4, <2>5, <1>1, <1>2 DEF MemoryBounded
<1>5. CASE full
  <2>1. ord # <<>> /\ Len(ord) = MemCacheLimit
    BY <1>1, <1>2, <1>5
  <2>2. Head(ord) \in Variants
    BY <2>1, <1>1
  <2>3. /\ mem' = [[mem EXCEPT ![Head(ord)] = Absent] EXCEPT ![k] = b]
        /\ ord' = Append(Tail(ord), k)
    BY <1>5 DEF Remember
  <2>4. k \notin ToSet(ord)
    BY <1>2, <1>5 DEF Known
  <2>5. /\ ord' \in Seq(Variants) /\ Len(ord') = Len(ord) /\ IsInjective(ord')
        /\ ToSet(ord') = (ToSet(ord) \ {Head(ord)}) \cup {k}
    BY <2>1, <2>3, <2>4, <1>1, <1>2, DropAndAppend
  <2>6. /\ mem' \in [Variants -> Files] /\ mem'[k] = b
        /\ \A x \in Variants \ {k} : mem'[x] = IF x = Head(ord) THEN Absent ELSE mem[x]
    BY <2>2, <2>3, <1>1 DEF Files
  <2>7. {x \in Variants : mem'[x] # Absent}
          = ({x \in Variants : mem[x] # Absent} \ {Head(ord)}) \cup {k}
    BY <2>6
  <2>8. QED
    BY <2>1, <2>5, <2>6, <2>7, <1>2 DEF MemoryBounded
<1>6. QED
  BY <1>3, <1>4, <1>5

(* Nothing is remembered at first.                                         *)
LEMMA ImageInitInv == ImageInit => ImageInv
<1> SUFFICES ASSUME ImageInit PROVE ImageInv
  OBVIOUS
<1> USE VariantAssumption DEF ImageInit
<1>1. ImageTypes /\ Holding
  BY DEF ImageTypes, Holding, Files, Bodies
<1>2. MemoryBounded
  BY DEF MemoryBounded, IsInjective, ToSet
<1>3. QED
  BY <1>1, <1>2 DEF ImageInv

(* Every step of the pipeline keeps the variants bounded.                  *)
LEMMA ImageStep == ImageInv /\ [ImageNext]_images => ImageInv'
<1> SUFFICES ASSUME ImageInv, [ImageNext]_images PROVE ImageInv'
  OBVIOUS
<1> USE VariantAssumption
<1>0. ImageTypes /\ MemoryBounded /\ Holding
  BY DEF ImageInv
<1>1. ASSUME UNCHANGED <<mem, ord>> PROVE MemoryBounded'
  BY <1>0, <1>1 DEF MemoryBounded
<1>2. CASE UNCHANGED images
  BY <1>0, <1>1, <1>2 DEF images, view, ImageInv, ImageTypes, Holding
<1>3. CASE ServerRestarts
  <2>1. MemoryBounded'
    BY <1>3 DEF ServerRestarts, MemoryBounded, IsInjective, ToSet
  <2>2. QED
    BY <1>0, <1>3, <2>1 DEF ServerRestarts, ImageInv, ImageTypes, Holding, Files
<1>4. ASSUME NEW k \in Variants, EditImage(k) PROVE ImageInv'
  <2>1. image[k] + 1 \in Bodies
    BY <1>0, <1>4 DEF EditImage, ImageTypes, Bodies
  <2>2. QED
    BY <1>0, <1>1, <1>4, <2>1 DEF EditImage, view, ImageInv, ImageTypes, Holding
<1>5. ASSUME NEW v \in Views, NEW k \in Variants, View(v, k) PROVE ImageInv'
  BY <1>0, <1>1, <1>5 DEF View, GoOn, ImageInv, ImageTypes, Holding
<1>6. ASSUME NEW v \in Views, GetHits(v) \/ EncodeFails(v) \/ WriteFails(v)
      PROVE ImageInv'
  <2>1. /\ vpc' = [vpc EXCEPT ![v] = "idle"] /\ body' = [body EXCEPT ![v] = Absent]
        /\ UNCHANGED <<image, mem, ord, file, vkey>>
    BY <1>6 DEF GetHits, EncodeFails, WriteFails, Answer, GoOn
  <2>2. QED
    BY <1>0, <1>1, <2>1 DEF ImageInv, ImageTypes, Holding, Files
<1>7. ASSUME NEW v \in Views, GetMisses(v) PROVE ImageInv'
  BY <1>0, <1>1, <1>7 DEF GetMisses, GoOn, ImageInv, ImageTypes, Holding
<1>8. ASSUME NEW v \in Views, ReadFile(v) PROVE ImageInv'
  <2>1. file[vkey[v]] \in Files
    BY <1>0 DEF ImageTypes
  <2>2. QED
    BY <1>0, <1>1, <1>8, <2>1 DEF ReadFile, GoOn, ImageInv, ImageTypes, Holding
<1>9. ASSUME NEW v \in Views, Encode(v) PROVE ImageInv'
  <2>1. image[vkey[v]] \in Bodies
    BY <1>0 DEF ImageTypes
  <2>2. QED
    BY <1>0, <1>1, <1>9, <2>1 DEF Encode, GoOn, ImageInv, ImageTypes, Holding, Files
<1>10. ASSUME NEW v \in Views, Keep(v) \/ Set(v) PROVE ImageInv'
  <2>1. /\ Remember(vkey[v], body[v]) /\ UNCHANGED <<image, file, vkey>>
        /\ vpc[v] \in {"keep", "set"}
    BY <1>10 DEF Keep, Set, Answer, GoOn
  <2>2. /\ vkey[v] \in Variants /\ body[v] \in Files /\ body[v] # Absent
    BY <1>0, <2>1 DEF ImageTypes, Holding
  <2>3. /\ mem' \in [Variants -> Files] /\ ord' \in Seq(Variants) /\ MemoryBounded'
    BY <1>0, <2>1, <2>2, RememberKeeps
  <2>4. \/ vpc' = [vpc EXCEPT ![v] = "idle"] /\ body' = [body EXCEPT ![v] = Absent]
        \/ vpc' = [vpc EXCEPT ![v] = "open"] /\ body' = body
    BY <1>10 DEF Keep, Set, Answer, GoOn
  <2>5. QED
    BY <1>0, <2>1, <2>3, <2>4 DEF ImageInv, ImageTypes, Holding, Files
<1>11. ASSUME NEW v \in Views, OpenFile(v) PROVE ImageInv'
  BY <1>0, <1>1, <1>11 DEF OpenFile, GoOn, ImageInv, ImageTypes, Holding, Files
<1>12. ASSUME NEW v \in Views, WriteFile(v) PROVE ImageInv'
  <2>1. /\ vpc' = [vpc EXCEPT ![v] = "idle"] /\ body' = [body EXCEPT ![v] = Absent]
        /\ UNCHANGED <<image, mem, ord, vkey>>
    BY <1>12 DEF WriteFile, Answer, GoOn
  <2>2. file' \in [Variants -> Files]
    BY <1>0, <1>12 DEF WriteFile, ImageTypes, Files
  <2>3. QED
    BY <1>0, <1>1, <2>1, <2>2 DEF ImageInv, ImageTypes, Holding, Files
<1>13. QED
  BY <1>2, <1>3, <1>4, <1>5, <1>6, <1>7, <1>8, <1>9, <1>10, <1>11, <1>12
  DEF ImageNext, Serve

(* What is in memory is what the order lists, once each, and no more than  *)
(* the limit.                                                              *)
THEOREM VariantsBounded == ImageSpec => []MemoryBounded
<1>1. ImageInv => MemoryBounded
  BY DEF ImageInv
<1>2. QED
  BY <1>1, ImageInitInv, ImageStep, PTL DEF ImageSpec

(* So it is in the site, where the page cache takes its steps too.         *)
THEOREM SiteVariantsBounded == CachesSpec => []MemoryBounded
<1>1. CachesInit => ImageInv
  BY ImageInitInv DEF CachesInit
<1>2. ImageInv /\ [CachesNext]_<<used, vars, images>> => ImageInv'
  <2>1. [CachesNext]_<<used, vars, images>> => [ImageNext]_images
    BY DEF CachesNext
  <2>2. QED
    BY <2>1, ImageStep
<1>3. ImageInv => MemoryBounded
  BY DEF ImageInv
<1>4. QED
  BY <1>1, <1>2, <1>3, PTL DEF CachesSpec

=============================================================================
