---------------------------- MODULE ServerProofs ---------------------------
(***************************************************************************)
(* Proofs about the parts of Server, for any jobs, workers, handlers,      *)
(* zones and capacities: the memory queue, the application's shutdown and  *)
(* the scheduler; and for a server that uses any of them.                  *)
(***************************************************************************)
EXTENDS Server, FiniteSetTheorems, SequenceTheorems, TLAPS

(***************************************************************************)
(* The memory queue: wg counts the delayed jobs exactly, so it never goes  *)
(* below zero and the Close that waits for it leaves none behind.          *)
(***************************************************************************)
WgCounts == wg = Cardinality(Pending)

QueueInv == TypeOK /\ WgCounts

(* The states in which a delayed job has a goroutine.                      *)
Counted == {"sleep", "resend", "leave"}

(* There are finitely many jobs the WaitGroup counts.                      *)
LEMMA PendingFinite ==
    ASSUME QueueAssumption
    PROVE  /\ IsFiniteSet(Pending) /\ Cardinality(Pending) \in Nat
           /\ Cardinality(Pending) = 0 <=> Pending = {}
<1>1. Pending \in SUBSET Jobs
  BY DEF Pending
<1>2. IsFiniteSet(Pending)
  BY <1>1, FS_Subset DEF QueueAssumption
<1> QED BY <1>2, FS_CardinalityType, FS_EmptySet

(* A job that moves between two states of which both or neither are busy   *)
(* leaves the count alone; one that starts or ends changes it by one.      *)
LEMMA Moves ==
    ASSUME TypeOK, NEW j \in Jobs, NEW at, NEW next, Job(j, at, next)
    PROVE  /\ at \in Counted /\ next \in Counted => Pending' = Pending
           /\ at \notin Counted /\ next \notin Counted => Pending' = Pending
           /\ at \notin Counted /\ next \in Counted => j \notin Pending /\ Pending' = Pending \cup {j}
           /\ at \in Counted /\ next \notin Counted => j \in Pending /\ Pending' = Pending \ {j}
<1>1. jpc[j] = at /\ \A i \in Jobs : jpc'[i] = IF i = j THEN next ELSE jpc[i]
  BY DEF Job, TypeOK
<1>2. \A i \in Jobs : i \in Pending <=> jpc[i] \in Counted
  BY DEF Pending, Counted
<1>3. \A i \in Jobs : i \in Pending' <=> jpc'[i] \in Counted
  BY DEF Pending, Counted
<1>4. Pending \subseteq Jobs /\ Pending' \subseteq Jobs
  BY DEF Pending
<1> QED BY <1>1, <1>2, <1>3, <1>4

(* A job that is delayed adds one to the WaitGroup.                        *)
LEMMA Starts ==
    ASSUME QueueInv, QueueAssumption, NEW j \in Jobs, Job(j, "idle", "sleep"), wg' = wg + 1
    PROVE  wg' \in Nat /\ WgCounts'
<1>1. j \notin Pending /\ Pending' = Pending \cup {j}
  BY Moves DEF QueueInv, Counted
<1>2. Cardinality(Pending') = Cardinality(Pending) + 1
  BY <1>1, PendingFinite, FS_AddElement
<1> QED BY <1>2, PendingFinite DEF QueueInv, WgCounts

(* A job that is done takes one from it.                                   *)
LEMMA Ends ==
    ASSUME QueueInv, QueueAssumption, NEW j \in Jobs, Job(j, "leave", "gone"), wg' = wg - 1
    PROVE  wg' \in Nat /\ WgCounts'
<1>1. j \in Pending /\ Pending' = Pending \ {j}
  BY Moves DEF QueueInv, Counted
<1>2. Cardinality(Pending') = Cardinality(Pending) - 1 /\ Cardinality(Pending) # 0
  BY <1>1, PendingFinite, FS_RemoveElement
<1> QED BY <1>2, PendingFinite DEF QueueInv, WgCounts

-----------------------------------------------------------------------------
(* A queue starts with nothing delayed.                                    *)
LEMMA QueueInit == ASSUME QueueAssumption, Init PROVE QueueInv
<1>1. TypeOK
  <2>1. ch \in Seq(Jobs) /\ Len(ch) = 0
    BY EmptySeq DEF Init
  <2>2. Len(ch) <= Buffer
    BY <2>1 DEF QueueAssumption
  <2>3. closed \in BOOLEAN /\ wg \in Nat /\ dead \subseteq Jobs /\ stopped \subseteq Workers
        /\ ran \subseteq Jobs
    BY DEF Init
  <2>4. /\ jpc \in [Jobs -> {"idle", "sleep", "resend", "leave", "gone", "send",
                             "accepted", "refused"}]
        /\ wpc \in [Workers -> {"select", "handle", "ended"}]
        /\ wjob \in [Workers -> Jobs \cup {None}]
        /\ cpc \in [Closers -> {"idle", "waiting", "returned"}]
    BY DEF Init
  <2> QED BY <2>1, <2>2, <2>3, <2>4 DEF TypeOK
<1>2. Pending = {}
  BY DEF Init, Pending
<1>3. WgCounts
  BY <1>2, FS_EmptySet DEF Init, WgCounts
<1> QED BY <1>1, <1>3 DEF QueueInv

(* A call of Enqueue, Process or Close keeps the invariant.                *)
LEMMA CallerStep ==
    ASSUME QueueAssumption, QueueInv, NEW j \in Jobs,
           Delays(j) \/ Offers(j) \/ Refused(j) \/ Cancel(j) \/ Caller(j)
    PROVE  QueueInv'
<1> USE DEF QueueInv
<1>1. CASE Delays(j)
  <2>1. wg' \in Nat /\ WgCounts'
    BY <1>1, Starts DEF Delays
  <2> QED BY <1>1, <2>1 DEF Delays, Job, TypeOK, workers
<1>2. CASE Offers(j)
  <2>1. Pending' = Pending
    BY <1>2, Moves DEF Offers, Counted
  <2> QED BY <1>2, <2>1 DEF Offers, Job, TypeOK, workers, WgCounts
<1>3. CASE Refused(j)
  <2>1. Pending' = Pending
    BY <1>3, Moves DEF Refused, Counted
  <2> QED BY <1>3, <2>1 DEF Refused, Job, TypeOK, workers, WgCounts
<1>4. CASE Cancel(j)
  BY <1>4 DEF Cancel, TypeOK, workers, WgCounts, Pending
<1>5. CASE Abandons(j)
  <2>1. Pending' = Pending
    <3>1. CASE Job(j, "sleep", "leave")
      BY <3>1, Moves DEF Counted
    <3>2. CASE Job(j, "resend", "leave")
      BY <3>2, Moves DEF Counted
    <3> QED BY <1>5, <3>1, <3>2 DEF Abandons
  <2> QED BY <1>5, <2>1 DEF Abandons, Job, TypeOK, workers, WgCounts
<1>6. CASE Leaves(j)
  <2>1. wg' \in Nat /\ WgCounts'
    BY <1>6, Ends DEF Leaves
  <2> QED BY <1>6, <2>1 DEF Leaves, Job, TypeOK, workers
<1>7. CASE Wakes(j)
  <2>1. Pending' = Pending
    BY <1>7, Moves DEF Wakes, Counted
  <2> QED BY <1>7, <2>1 DEF Wakes, Job, TypeOK, workers, WgCounts
<1>8. CASE Sends(j)
  <2>1. Pending' = Pending
    <3>1. CASE Job(j, "send", "accepted")
      BY <3>1, Moves DEF Counted
    <3>2. CASE Job(j, "resend", "leave")
      BY <3>2, Moves DEF Counted
    <3> QED BY <1>8, <3>1, <3>2 DEF Sends
  <2>2. ch' \in Seq(Jobs) /\ Len(ch') <= Buffer
    BY <1>8, AppendProperties DEF Sends, TypeOK, QueueAssumption
  <2> QED BY <1>8, <2>1, <2>2 DEF Sends, Job, TypeOK, workers, WgCounts
<1>9. CASE SendFails(j)
  <2>1. Pending' = Pending
    BY <1>9, Moves DEF SendFails, Counted
  <2> QED BY <1>9, <2>1 DEF SendFails, Job, TypeOK, workers, WgCounts
<1> QED BY <1>1, <1>2, <1>3, <1>4, <1>5, <1>6, <1>7, <1>8, <1>9 DEF Caller

(* So does every step of the queue.                                        *)
LEMMA QueueStep == ASSUME QueueAssumption, QueueInv, [Next]_vars PROVE QueueInv'
<1> USE DEF QueueInv
<1>1. CASE UNCHANGED vars
  BY <1>1 DEF TypeOK, WgCounts, Pending, vars, callers, workers
<1>2. ASSUME NEW j \in Jobs, Delays(j) \/ Offers(j) \/ Refused(j) \/ Cancel(j) \/ Caller(j)
      PROVE  QueueInv'
  BY <1>2, CallerStep
<1>3. ASSUME NEW w \in Workers, Worker(w) \/ Stop(w) PROVE QueueInv'
  <2>1. CASE Takes(w)
    <3>1. Head(ch) \in Jobs /\ ch' \in Seq(Jobs) /\ Len(ch') <= Buffer
      BY <2>1, HeadTailProperties DEF Takes, TypeOK, QueueAssumption
    <3> QED BY <2>1, <3>1 DEF Takes, TypeOK, WgCounts, Pending, callers
  <2>2. CASE Handled(w)
    BY <2>2 DEF Handled, AfterHandler, TypeOK, WgCounts, Pending, callers
  <2>3. CASE RunReturns(w)
    BY <2>3 DEF RunReturns, TypeOK, WgCounts, Pending, callers
  <2>4. CASE Stop(w)
    BY <2>4 DEF Stop, TypeOK, WgCounts, Pending, callers
  <2> QED BY <1>3, <2>1, <2>2, <2>3, <2>4 DEF Worker
<1>4. ASSUME NEW c \in Closers, Closes(c) \/ CloseReturns(c) PROVE QueueInv'
  <2>1. CASE Closes(c)
    BY <2>1 DEF Closes, TypeOK, WgCounts, Pending, callers, workers
  <2>2. CASE CloseReturns(c)
    BY <2>2 DEF CloseReturns, TypeOK, WgCounts, Pending, callers, workers
  <2> QED BY <1>4, <2>1, <2>2
<1> QED BY <1>1, <1>2, <1>3, <1>4 DEF Next

(* The inductive invariant of the memory queue (queue.go:72-178).          *)
THEOREM QueueInvCorrect == Spec => []QueueInv
<1>1. Init => QueueInv
  BY QueueInit, QueueAssumption
<1>2. QueueInv /\ [Next]_vars => QueueInv'
  BY QueueStep, QueueAssumption
<1> QED BY <1>1, <1>2, PTL DEF Spec

(* The variables keep their types; in particular wg never becomes negative *)
(* (sync.WaitGroup would panic).                                           *)
THEOREM TypeCorrect == Spec => []TypeOK
<1>1. QueueInv => TypeOK
  BY DEF QueueInv
<1> QED BY <1>1, QueueInvCorrect, PTL

-----------------------------------------------------------------------------
(* A closed queue delays no further job.                                   *)
LEMMA NoNewPending ==
    ASSUME TypeOK, closed, [Next]_vars
    PROVE  Pending' \subseteq Pending
<1>1. CASE jpc' = jpc
  BY <1>1 DEF Pending
<1>2. ASSUME NEW j \in Jobs, NEW at, NEW next, Job(j, at, next),
             at \in Counted \/ next \notin Counted
      PROVE  Pending' \subseteq Pending
  BY <1>2, Moves
<1>3. ASSUME NEW j \in Jobs, Delays(j) \/ Offers(j) \/ Refused(j) \/ Cancel(j) \/ Caller(j)
      PROVE  Pending' \subseteq Pending
  <2>1. CASE Delays(j) \/ Offers(j)
    BY <2>1 DEF Delays, Offers
  <2>2. CASE Cancel(j)
    BY <2>2, <1>1 DEF Cancel
  <2>3. CASE Refused(j)
    BY <2>3, <1>2 DEF Refused, Counted
  <2>4. CASE Abandons(j)
    <3>1. CASE Job(j, "sleep", "leave")
      BY <3>1, <1>2 DEF Counted
    <3>2. CASE Job(j, "resend", "leave")
      BY <3>2, <1>2 DEF Counted
    <3> QED BY <2>4, <3>1, <3>2 DEF Abandons
  <2>5. CASE Leaves(j)
    BY <2>5, <1>2 DEF Leaves, Counted
  <2>6. CASE Wakes(j)
    BY <2>6, <1>2 DEF Wakes, Counted
  <2>7. CASE Sends(j)
    <3>1. CASE Job(j, "send", "accepted")
      BY <3>1, <1>2 DEF Counted
    <3>2. CASE Job(j, "resend", "leave")
      BY <3>2, <1>2 DEF Counted
    <3> QED BY <2>7, <3>1, <3>2 DEF Sends
  <2>8. CASE SendFails(j)
    BY <2>8, <1>2 DEF SendFails, Counted
  <2> QED BY <1>3, <2>1, <2>2, <2>3, <2>4, <2>5, <2>6, <2>7, <2>8 DEF Caller
<1>4. ASSUME NEW w \in Workers, Worker(w) \/ Stop(w) PROVE jpc' = jpc
  BY <1>4 DEF Worker, Takes, Handled, RunReturns, Stop, callers
<1>5. ASSUME NEW c \in Closers, Closes(c) \/ CloseReturns(c) PROVE jpc' = jpc
  BY <1>5 DEF Closes, CloseReturns, callers
<1>6. CASE UNCHANGED vars
  BY <1>6, <1>1 DEF vars, callers
<1> QED BY <1>1, <1>3, <1>4, <1>5, <1>6 DEF Next

(* The Close that closed the queue waits for all delayed jobs, and no job  *)
(* is delayed after it, for any number of jobs, workers and closers.       *)
THEOREM CloseLeavesNoneBehind == Spec => FirstCloseWaits
<1>1. ASSUME QueueInv, [Next]_vars
      PROVE  [/\ \A c \in Closers :
                    cpc[c] = "waiting" /\ cpc'[c] = "returned" => Pending' = {}
              /\ closed /\ Pending = {} => Pending' = {}]_vars
  <2>1. closed /\ Pending = {} => Pending' = {}
    BY <1>1, NoNewPending DEF QueueInv
  <2>2. ASSUME NEW c \in Closers, cpc[c] = "waiting", cpc'[c] = "returned"
        PROVE  Pending' = {}
    <3>1. ASSUME NEW d \in Closers, Closes(d) PROVE FALSE
      BY <1>1, <2>2, <3>1 DEF Closes, QueueInv, TypeOK
    <3>2. PICK d \in Closers : CloseReturns(d)
      <4>1. cpc' # cpc
        BY <2>2
      <4>2. ASSUME NEW j \in Jobs,
                   Delays(j) \/ Offers(j) \/ Refused(j) \/ Cancel(j) \/ Caller(j)
            PROVE  cpc' = cpc
        BY <4>2 DEF Delays, Offers, Refused, Cancel, Caller, Abandons, Leaves, Wakes,
                    Sends, SendFails
      <4>3. ASSUME NEW w \in Workers, Worker(w) \/ Stop(w) PROVE cpc' = cpc
        BY <4>3 DEF Worker, Takes, Handled, RunReturns, Stop
      <4>4. ~UNCHANGED vars
        BY <4>1 DEF vars
      <4> QED BY <1>1, <3>1, <4>1, <4>2, <4>3, <4>4 DEF Next
    <3>3. Pending = {} /\ Pending' = Pending
      BY <1>1, <3>2, PendingFinite, QueueAssumption
         DEF CloseReturns, QueueInv, WgCounts, Pending, callers
    <3> QED BY <3>3
  <2> QED BY <2>1, <2>2
<1> QED BY <1>1, QueueInvCorrect, PTL DEF Spec, FirstCloseWaits

-----------------------------------------------------------------------------
(***************************************************************************)
(* The application: what its shutdown waits for.                           *)
(***************************************************************************)
(* Before Run reaches Serve's select.                                      *)
Before == {"before_start", "after_start", "serve"}

(* After Serve has returned and the flag is reset.                         *)
Stopping == {"before_stop", "cache_closed", "after_stop", "returned"}

(* Only a server in shutdown ends with nil, and Serve leaves its select    *)
(* before that; once Shutdown has drained, no handler runs on a connection *)
(* it knows of, and none starts or comes back to one.                      *)
DrainInv ==
    /\ errCh = "nil" => inShutdown
    /\ run \in Before => ~inShutdown
    /\ run \in {"shutdown", "receive"} => inShutdown
    /\ run = "receive" => ~Busy
    /\ result = "nil" => inShutdown /\ ~Busy

(* The stores close after the flag is reset.                               *)
CloseInv ==
    /\ run \in Stopping => ~ready
    /\ run \in {"before_start", "after_start", "serve", "shutdown", "receive", "served"}
          => cache /\ sessions
    /\ run = "before_start" => ~ready

StopInv == AppTypes /\ DrainInv /\ CloseInv

-----------------------------------------------------------------------------
(* The initial state: nothing runs and everything is open.                 *)
LEMMA InitStop == AppInit => StopInv
  BY DEF AppInit, StopInv, AppTypes, DrainInv, CloseInv, Busy, Before, Stopping

(* Every step keeps StopInv.                                               *)
LEMMA NextStop == StopInv /\ [AppNext]_appVars => StopInv'
  <1> SUFFICES ASSUME StopInv, [AppNext]_appVars PROVE StopInv'
    OBVIOUS
  <1> USE DEF StopInv, AppTypes, DrainInv, CloseInv, Busy, Before, Stopping, listener, work,
              stores, Reaches
  <1>1. CASE HookFails
    BY <1>1 DEF HookFails
  <1>2. CASE Started
    BY <1>2 DEF Started
  <1>3. CASE AfterStart
    BY <1>3 DEF AfterStart
  <1>4. CASE ServeReturns
    BY <1>4 DEF ServeReturns, Return
  <1>5. CASE ServeShutsDown
    BY <1>5 DEF ServeShutsDown
  <1>6. CASE ServeDrains
    <2>1. run = "shutdown" /\ run' = "receive"
      BY <1>6 DEF ServeDrains
    <2>2. UNCHANGED <<listener, ready, cancelled, result, work, stores>> /\ HandlersDone
      BY <1>6 DEF ServeDrains
    <2>3. ~Busy /\ ~Busy'
      BY <2>2 DEF HandlersDone
    <2>4. inShutdown
      BY <2>1
    <2>5. QED
      BY <2>1, <2>2, <2>3, <2>4
  <1>7. CASE ServeReceives
    BY <1>7 DEF ServeReceives, Return
  <1>8. CASE ServeTimesOut
    BY <1>8 DEF ServeTimesOut, Return
  <1>9. CASE StopApp
    <2>1. CASE NotReady
      BY <2>1 DEF NotReady
    <2>2. CASE CloseCache
      BY <2>2 DEF CloseCache
    <2>3. CASE CloseSessions
      BY <2>3 DEF CloseSessions
    <2>4. CASE AfterStop
      BY <2>4 DEF AfterStop
    <2>5. QED
      BY <1>9, <2>1, <2>2, <2>3, <2>4 DEF StopApp
  <1>10. CASE Goroutine \/ ListenerFails \/ CancelApp
    <2>1. CASE Listen
      BY <2>1 DEF Listen
    <2>2. CASE ListenEnds
      BY <2>2 DEF ListenEnds
    <2>3. CASE ListenerFails
      BY <2>3 DEF ListenerFails
    <2>4. CASE CancelApp
      BY <2>4 DEF CancelApp
    <2>5. QED
      BY <1>10, <2>1, <2>2, <2>3, <2>4 DEF Goroutine
  <1>11. ASSUME NEW r \in Handlers,
                Accept(r) \/ Hijack(r) \/ Respond(r) \/ Revalidate(r) \/ JobEnds(r)
         PROVE  StopInv'
    <2>1. CASE Accept(r)
      BY <2>1 DEF Accept
    <2>2. CASE Hijack(r)
      BY <2>2 DEF Hijack
    <2>3. CASE Respond(r)
      BY <2>3 DEF Respond
    <2>4. CASE Revalidate(r) \/ JobEnds(r)
      BY <2>4 DEF Revalidate, JobEnds
    <2>5. QED
      BY <1>11, <2>1, <2>2, <2>3, <2>4
  <1>12. CASE UNCHANGED appVars
    BY <1>12 DEF appVars
  <1>13. QED
    BY <1>1, <1>2, <1>3, <1>4, <1>5, <1>6, <1>7, <1>8, <1>9, <1>10, <1>11, <1>12
    DEF AppNext, Run, Serve

-----------------------------------------------------------------------------
(* What StopInv says of a graceful stop.                                   *)
LEMMA StopInvMeans == StopInv => AppTypes /\ GracefulStop /\ ReadyMeansOpen
  BY DEF StopInv, AppTypes, DrainInv, CloseInv, GracefulStop, ReadyMeansOpen, Stopping

(* The variables keep their types; a graceful stop closes the stores after *)
(* the last handler whose connection is net/http's (app.go:404-417,        *)
(* lifecycle.go:36-47), whichever handlers take theirs over and go on; and *)
(* a ready app has its stores open (app.go:406-417).                       *)
THEOREM StopsGracefully ==
    AppSpec => [](AppTypes /\ GracefulStop /\ ReadyMeansOpen)
  BY InitStop, NextStop, StopInvMeans, PTL DEF AppSpec

-----------------------------------------------------------------------------
(***************************************************************************)
(* The scheduler: what Run waits for.                                      *)
(***************************************************************************)
(* What the WaitGroup waits for: every goroutine that is left, and for the *)
(* runs of a cron job its runner.                                          *)
Awaited ==
    /\ \A j \in IntervalJobs : loop[j] \in {"select", "fn"} => j \in waits
    /\ \A z \in Zones : runner[z] \in {"begun", "started", "stopping"} => z \in waits
    /\ \A j \in CronJobs : runs[j] > 0 =>
          \E z \in Zones : j \in entries[z] /\ runner[z] \in {"started", "stopping"}
    /\ runAt \in {"new", "returned"} => waits = {}

SchedInv == SchedTypes /\ Awaited

(* Every step keeps the invariant.                                         *)
LEMMA SchedStep == SchedInv /\ [SchedNext]_schedVars => SchedInv'
  <1> SUFFICES ASSUME SchedInv, [SchedNext]_schedVars PROVE SchedInv'
    OBVIOUS
  <1> USE SchedulerAssumption DEF SchedInv, SchedTypes, Awaited
  <1>1. CASE \E j \in Scheduled : Add(j)
    BY <1>1 DEF Add
  <1>2. CASE SchedStarts
    <2>1. SchedTypes'
      <3>1. entries' \in [Zones -> SUBSET CronJobs]
        BY <1>2 DEF SchedStarts, Group
      <3>2. waits' \subseteq IntervalJobs \cup Zones
        BY <1>2 DEF SchedStarts
      <3>3. QED
        BY <1>2, <3>1, <3>2 DEF SchedStarts
    <2>2. \A j \in IntervalJobs : loop'[j] \in {"select", "fn"} => j \in waits'
      BY <1>2 DEF SchedStarts
    <2>3. \A z \in Zones : runner'[z] \in {"begun", "started", "stopping"} => z \in waits'
      BY <1>2 DEF SchedStarts
    <2>4. \A j \in CronJobs : runs'[j] = 0
      BY <1>2 DEF SchedStarts
    <2>5. runAt' = "running"
      BY <1>2 DEF SchedStarts
    <2>6. QED
      BY <2>1, <2>2, <2>3, <2>4, <2>5
  <1>3. CASE CancelRun \/ SchedSees \/ SchedReturns
    BY <1>3 DEF CancelRun, SchedSees, SchedReturns
  <1>4. ASSUME NEW j \in IntervalJobs, Ticks(j) \/ FnStarts(j) \/ FnEnds(j) \/ FnPanics(j)
        PROVE  SchedInv'
    <2>1. CASE Ticks(j)
      BY <2>1 DEF Ticks
    <2>2. CASE FnStarts(j)
      BY <2>2 DEF FnStarts, Loop
    <2>3. CASE FnEnds(j)
      BY <2>3 DEF FnEnds, Loop
    <2>4. CASE FnPanics(j)
      BY <2>4 DEF FnPanics, Loop
    <2>5. QED
      BY <1>4, <2>1, <2>2, <2>3, <2>4
  <1>5. ASSUME NEW j \in IntervalJobs, LoopEnds(j)
        PROVE  SchedInv'
    BY <1>5 DEF LoopEnds, Loop, DoneWith
  <1>6. ASSUME NEW z \in Zones, CronStarts(z) \/ CronStops(z)
        PROVE  SchedInv'
    <2>1. SchedTypes'
      BY <1>6 DEF CronStarts, CronStops, Cron
    <2>2. PICK to \in {"started", "stopping"} : runner' = [runner EXCEPT ![z] = to]
      BY <1>6 DEF CronStarts, CronStops, Cron
    <2>3. runner[z] \in {"begun", "started"} /\ UNCHANGED <<runAt, waits, loop, entries, runs>>
      BY <1>6 DEF CronStarts, CronStops, Cron
    <2>4. QED
      BY <2>1, <2>2, <2>3
  <1>7. ASSUME NEW z \in Zones, CronEnds(z)
        PROVE  SchedInv'
    <2>1. SchedTypes'
      BY <1>7 DEF CronEnds, Cron, DoneWith
    <2>2. runner' = [runner EXCEPT ![z] = "ended"] /\ waits' = waits \ {z} /\ \A j \in entries[z] : runs[j] = 0
      BY <1>7 DEF CronEnds, Cron, Drained, DoneWith
    <2>3. UNCHANGED <<runAt, loop, entries, runs>>
      BY <1>7 DEF CronEnds, Cron
    <2>4. \A j \in CronJobs : runs'[j] > 0 => \E y \in Zones : j \in entries'[y] /\ runner'[y] \in {"started", "stopping"}
      BY <2>2, <2>3
    <2>5. QED
      BY <2>1, <2>2, <2>3, <2>4
  <1>8. ASSUME NEW z \in Zones, NEW j \in CronJobs, CronFires(z, j)
        PROVE  SchedInv'
    <2>1. runs[j] + 1 \in 0..MaxOverlap
      BY <1>8 DEF CronFires
    <2>2. runs' \in [CronJobs -> 0..MaxOverlap]
      BY <1>8, <2>1 DEF CronFires
    <2>3. SchedTypes'
      BY <1>8, <2>2 DEF CronFires, CronJobs
    <2>4. Awaited'
      BY <1>8 DEF CronFires
    <2>5. QED
      BY <2>3, <2>4
  <1>9. ASSUME NEW j \in CronJobs, CronFnEnds(j)
        PROVE  SchedInv'
    <2>1. SchedTypes'
      BY <1>9 DEF CronFnEnds
    <2>2. Awaited'
      BY <1>9 DEF CronFnEnds
    <2>3. QED
      BY <2>1, <2>2
  <1>10. CASE UNCHANGED schedVars
    BY <1>10 DEF schedVars
  <1>11. QED
    BY <1>1, <1>2, <1>3, <1>4, <1>5, <1>6, <1>7, <1>8, <1>9, <1>10 DEF SchedNext

(* A new scheduler waits for nothing.                                      *)
LEMMA InitSched == SchedInit => SchedInv
  <1> SUFFICES ASSUME SchedInit PROVE SchedInv
    OBVIOUS
  <1>1. runs \in [CronJobs -> 0..MaxOverlap] /\ \A j \in CronJobs : ~(runs[j] > 0)
    BY SchedulerAssumption DEF SchedInit
  <1>2. entries \in [Zones -> SUBSET CronJobs]
    BY DEF SchedInit
  <1>3. QED
    BY <1>1, <1>2 DEF SchedInit, SchedInv, SchedTypes, Awaited

(* When nothing is waited for, nothing runs.                               *)
LEMMA SchedInvMeans == SchedInv => NothingRunsAfterRun
  BY SchedulerAssumption DEF SchedInv, SchedTypes, Awaited, NothingRunsAfterRun

(* When Run has returned no job function is running and none will start    *)
(* (scheduler.go:171-173, 201-204).                                        *)
THEOREM RunIsOver == SchedSpec => []NothingRunsAfterRun
  BY InitSched, SchedStep, SchedInvMeans, PTL DEF SchedSpec

-----------------------------------------------------------------------------
(***************************************************************************)
(* A server process uses one of the parts, and leaves the others alone.    *)
(***************************************************************************)
(* So each promise is kept by every server: a graceful stop, a scheduler   *)
(* that is over when Run returns, and a queue whose Close leaves no job.   *)
THEOREM ServerKeepsPromises ==
    ServerSpec => [](GracefulStop /\ NothingRunsAfterRun) /\ FirstCloseWaits
  <1> DEFINE all == <<driver, queue, appVars, schedVars, grpcVars>>
  <1>1. ServerInit => AppInit /\ SchedInit /\ Init
    BY DEF ServerInit, NewQueues
  <1>2. [ServerNext]_all => [AppNext]_appVars
    BY DEF ServerNext
  <1>3. [ServerNext]_all => [SchedNext]_schedVars
    BY DEF ServerNext
  <1>4. [ServerNext]_all => [Next]_vars
    BY DEF ServerNext, Step, queue
  <1>5. ServerInit /\ [][ServerNext]_all => [](StopInv /\ SchedInv)
    BY <1>1, <1>2, <1>3, InitStop, NextStop, InitSched, SchedStep, PTL
  <1>6. ServerInit /\ [][ServerNext]_all => Init /\ [][Next]_vars
    BY <1>1, <1>4, PTL
  <1>7. Init /\ [][Next]_vars => FirstCloseWaits
    BY CloseLeavesNoneBehind DEF Spec
  <1>8. StopInv /\ SchedInv => GracefulStop /\ NothingRunsAfterRun
    BY StopInvMeans, SchedInvMeans
  <1>9. QED
    BY <1>5, <1>6, <1>7, <1>8, PTL DEF ServerSpec

=============================================================================
