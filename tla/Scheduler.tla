------------------------------ MODULE Scheduler ----------------------------
(***************************************************************************)
(* irmik/scheduler: Run starts a goroutine per interval job and a cron     *)
(* runner (robfig/cron) per time zone, and returns when the context is     *)
(* cancelled and they have ended.  Runs of an interval job follow one      *)
(* another in its goroutine; runs of a cron job have a goroutine each and  *)
(* may overlap.                                                            *)
(***************************************************************************)
EXTENDS Naturals

CONSTANTS
    Scheduled,      \* what Add is called with
    IntervalJobs,   \* those without a cron expression
    BadJobs,        \* those without name, function, schedule or known zone
    Zones, ZoneOf,  \* the location of each cron job
    MaxOverlap      \* bound: runs of one cron job at a time

CronJobs == Scheduled \ (IntervalJobs \cup BadJobs)

ASSUME SchedulerAssumption ==
    /\ IntervalJobs \cup BadJobs \subseteq Scheduled /\ IntervalJobs \cap BadJobs = {}
    /\ ZoneOf \in [CronJobs -> Zones] /\ Zones \cap Scheduled = {}
    /\ MaxOverlap \in Nat \ {0}

VARIABLES
    jobs,           \* Scheduler.jobs
    runAt,          \* Run: "new", "running", "waiting" (in wg.Wait), "returned"
    stopRun,        \* its context is cancelled
    waits,          \* goroutines added to the WaitGroup and not yet done
    loop,           \* runEvery of an interval job: "none", "select", "fn", "ended"
    tick,           \* its ticker's channel, of capacity one
    entries,        \* the jobs of each zone's cron runner
    runner,         \* runCronGroup: "none", "begun", "started", "stopping", "ended"
    runs,           \* runs in flight of each cron job
    panicked        \* the process has died

schedVars == <<jobs, runAt, stopRun, waits, loop, tick, entries, runner, runs, panicked>>

SchedInit ==
    /\ jobs = {} /\ runAt = "new" /\ stopRun = FALSE /\ waits = {}
    /\ loop = [j \in IntervalJobs |-> "none"] /\ tick = [j \in IntervalJobs |-> FALSE]
    /\ entries = [z \in Zones |-> {}] /\ runner = [z \in Zones |-> "none"]
    /\ runs = [j \in CronJobs |-> 0] /\ panicked = FALSE

-----------------------------------------------------------------------------
\* A job that cannot run is refused.
Add(j) ==
    /\ j \notin BadJobs
    /\ jobs' = jobs \cup {j}
    /\ UNCHANGED <<runAt, stopRun, waits, loop, tick, entries, runner, runs, panicked>>

Group(z) == {j \in jobs \cap CronJobs : ZoneOf[j] = z}

(* Run takes the jobs there are; those added later are not started.        *)
SchedStarts ==
    LET loops == jobs \cap IntervalJobs
        zones == {z \in Zones : Group(z) # {}}
    IN  /\ runAt = "new" /\ runAt' = "running"
        /\ loop' = [j \in IntervalJobs |-> IF j \in loops THEN "select" ELSE "none"]
        /\ entries' = [z \in Zones |-> Group(z)]
        /\ runner' = [z \in Zones |-> IF z \in zones THEN "begun" ELSE "none"]
        /\ waits' = loops \cup zones
        /\ UNCHANGED <<jobs, stopRun, tick, runs, panicked>>

CancelRun ==
    /\ ~stopRun /\ stopRun' = TRUE
    /\ UNCHANGED <<jobs, runAt, waits, loop, tick, entries, runner, runs, panicked>>

SchedSees ==
    /\ runAt = "running" /\ stopRun
    /\ runAt' = "waiting"
    /\ UNCHANGED <<jobs, stopRun, waits, loop, tick, entries, runner, runs, panicked>>

SchedReturns ==
    /\ runAt = "waiting" /\ waits = {}
    /\ runAt' = "returned"
    /\ UNCHANGED <<jobs, stopRun, waits, loop, tick, entries, runner, runs, panicked>>

-----------------------------------------------------------------------------
\* variant: the goroutine of a zone's runner lacks the deferred Done
FaultyDoneWith(g) == waits \ ({g} \ Zones)

\* wg.Done of a goroutine.
DoneWith(g) == waits \ {g}

(* runEvery.  With a tick pending and the context cancelled select takes   *)
(* either.                                                                 *)

Loop(j, from, to) ==
    /\ loop[j] = from /\ loop' = [loop EXCEPT ![j] = to]
    /\ UNCHANGED <<jobs, runAt, stopRun, entries, runner, runs>>

Ticks(j) ==
    /\ loop[j] \in {"select", "fn"} /\ ~tick[j]
    /\ tick' = [tick EXCEPT ![j] = TRUE]
    /\ UNCHANGED <<jobs, runAt, stopRun, waits, loop, entries, runner, runs, panicked>>

FnStarts(j) ==
    /\ tick[j] /\ Loop(j, "select", "fn")
    /\ tick' = [tick EXCEPT ![j] = FALSE]
    /\ UNCHANGED <<waits, panicked>>

FnEnds(j) == Loop(j, "fn", "select") /\ UNCHANGED <<waits, tick, panicked>>

\* Nothing recovers: the program ends.
FnPanics(j) == Loop(j, "fn", "ended") /\ panicked' = TRUE /\ UNCHANGED <<waits, tick>>

LoopEnds(j) ==
    /\ stopRun /\ Loop(j, "select", "ended")
    /\ waits' = DoneWith(j)
    /\ UNCHANGED <<tick, panicked>>

-----------------------------------------------------------------------------
(* runCronGroup and the cron runner of a zone.                             *)

Cron(z, from, to) ==
    /\ runner[z] = from /\ runner' = [runner EXCEPT ![z] = to]
    /\ UNCHANGED <<jobs, runAt, stopRun, loop, tick, entries, runs, panicked>>

CronStarts(z) == Cron(z, "begun", "started") /\ UNCHANGED waits

CronStops(z) == stopRun /\ Cron(z, "started", "stopping") /\ UNCHANGED waits

\* variant: Stop is called, what it returns is not waited for
FaultyDrained(z) == TRUE

Drained(z) == \A j \in entries[z] : runs[j] = 0

CronEnds(z) == Drained(z) /\ Cron(z, "stopping", "ended") /\ waits' = DoneWith(z)

\* The runner starts a goroutine whether or not the last run has ended.
CronFires(z, j) ==
    /\ runner[z] = "started" /\ j \in entries[z] /\ runs[j] < MaxOverlap
    /\ runs' = [runs EXCEPT ![j] = @ + 1]
    /\ UNCHANGED <<jobs, runAt, stopRun, waits, loop, tick, entries, runner, panicked>>

\* The function returns, or panics: cron.Recover.
CronFnEnds(j) ==
    /\ runs[j] > 0 /\ runs' = [runs EXCEPT ![j] = @ - 1]
    /\ UNCHANGED <<jobs, runAt, stopRun, waits, loop, tick, entries, runner, panicked>>

-----------------------------------------------------------------------------
SchedNext ==
    /\ ~panicked
    /\ \/ \E j \in Scheduled : Add(j)
       \/ SchedStarts \/ CancelRun \/ SchedSees \/ SchedReturns
       \/ \E j \in IntervalJobs : Ticks(j) \/ FnStarts(j) \/ FnEnds(j) \/ FnPanics(j) \/ LoopEnds(j)
       \/ \E z \in Zones : CronStarts(z) \/ CronStops(z) \/ CronEnds(z)
       \/ \E z \in Zones, j \in CronJobs : CronFires(z, j)
       \/ \E j \in CronJobs : CronFnEnds(j)

(* Time passes, job functions return, and goroutines run; a select that    *)
(* has two ready cases again and again takes each of them at last.         *)
SchedFairness ==
    LET up == ~panicked
    IN  /\ WF_schedVars(up /\ SchedSees) /\ WF_schedVars(up /\ SchedReturns)
        /\ \A j \in IntervalJobs :
              /\ WF_schedVars(up /\ Ticks(j)) /\ WF_schedVars(up /\ FnEnds(j))
              /\ SF_schedVars(up /\ FnStarts(j)) /\ SF_schedVars(up /\ LoopEnds(j))
        /\ \A z \in Zones : WF_schedVars(up /\ (CronStarts(z) \/ CronStops(z) \/ CronEnds(z)))
        /\ \A j \in CronJobs :
              /\ WF_schedVars(up /\ CronFnEnds(j))
              /\ WF_schedVars(up /\ \E z \in Zones : CronFires(z, j))

SchedSpec == SchedInit /\ [][SchedNext]_schedVars /\ SchedFairness

-----------------------------------------------------------------------------
\* Type invariant.
SchedTypes ==
    /\ jobs \subseteq Scheduled /\ runAt \in {"new", "running", "waiting", "returned"}
    /\ stopRun \in BOOLEAN /\ panicked \in BOOLEAN /\ waits \subseteq IntervalJobs \cup Zones
    /\ loop \in [IntervalJobs -> {"none", "select", "fn", "ended"}]
    /\ tick \in [IntervalJobs -> BOOLEAN]
    /\ entries \in [Zones -> SUBSET CronJobs]
    /\ runner \in [Zones -> {"none", "begun", "started", "stopping", "ended"}]
    /\ runs \in [CronJobs -> 0..MaxOverlap]

(* When Run has returned no job function is running and none will start:   *)
(* what the jobs use may be closed (scheduler.go:171-173, 201-204).        *)
NothingRunsAfterRun ==
    runAt = "returned" =>
        /\ \A j \in IntervalJobs : loop[j] \in {"none", "ended"}
        /\ \A j \in CronJobs : runs[j] = 0

(* After the cancellation Run returns, however ticks and runs of cron jobs *)
(* overlap with it, if the functions return (scheduler.go:171-186).        *)
RunEnds == runAt = "running" /\ stopRun ~> runAt = "returned" \/ panicked

=============================================================================
