---------------------------- MODULE MemoryQueue ----------------------------
(***************************************************************************)
(* queue.Memory of irmik/queue: callers enqueue jobs into a buffered       *)
(* channel, delayed jobs wait in goroutines of their own, workers run the  *)
(* jobs, and Close ends all of them.  A critical section under mu, a       *)
(* channel operation and a return are one step each.                       *)
(***************************************************************************)
EXTENDS Naturals, Sequences, FiniteSets

CONSTANTS
    Jobs,       \* jobs, each enqueued by a caller of its own
    Delayed,    \* those whose At is in the future
    Workers,    \* calls of Run
    Closers,    \* calls of Close
    Buffer,     \* capacity of the channel
    None        \* no job

ASSUME QueueAssumption ==
    /\ Delayed \subseteq Jobs /\ IsFiniteSet(Jobs)
    /\ Buffer \in Nat \ {0}
    /\ None \notin Jobs

VARIABLES
    ch,         \* Memory.ch
    closed,     \* Memory.closed; quit is closed in the same critical section
    wg,         \* Memory.wg
    jpc,        \* control state of each job's Enqueue or enqueueDelayed
    dead,       \* jobs whose context is done
    wpc, wjob,  \* control state of each worker and the job it runs
    stopped,    \* workers whose context is done
    ran,        \* jobs handed to a handler
    cpc         \* control state of each Close

callers == <<jpc, dead>>
workers == <<wpc, wjob, stopped, ran>>
vars == <<ch, closed, wg, callers, workers, cpc>>

Init ==
    /\ ch = <<>> /\ closed = FALSE /\ wg = 0
    /\ jpc = [j \in Jobs |-> "idle"] /\ dead = {}
    /\ wpc = [w \in Workers |-> "select"] /\ wjob = [w \in Workers |-> None]
    /\ stopped = {} /\ ran = {}
    /\ cpc = [c \in Closers |-> "idle"]

Job(j, at, next) == jpc[j] = at /\ jpc' = [jpc EXCEPT ![j] = next]

-----------------------------------------------------------------------------
(* Enqueue: the closed flag and the count of delayed jobs, under mu.       *)

(* Variant of the next action: closed was read in an earlier critical      *)
(* section.                                                                *)
FaultyDelays(j) ==
    /\ j \in Delayed
    /\ Job(j, "idle", "sleep")
    /\ wg' = wg + 1
    /\ UNCHANGED <<ch, closed, dead, workers, cpc>>

Delays(j) ==
    /\ ~closed /\ j \in Delayed
    /\ Job(j, "idle", "sleep")
    /\ wg' = wg + 1
    /\ UNCHANGED <<ch, closed, dead, workers, cpc>>

Offers(j) ==
    /\ ~closed /\ j \notin Delayed
    /\ Job(j, "idle", "send")
    /\ UNCHANGED <<ch, closed, wg, dead, workers, cpc>>

Refused(j) ==
    /\ closed
    /\ Job(j, "idle", "refused")
    /\ UNCHANGED <<ch, closed, wg, dead, workers, cpc>>

(* The caller's context ends.                                              *)
Cancel(j) ==
    /\ jpc[j] \in {"send", "sleep", "resend"} /\ j \notin dead
    /\ dead' = dead \cup {j}
    /\ UNCHANGED <<ch, closed, wg, jpc, workers, cpc>>

(* enqueueDelayed                                                          *)

Wakes(j) ==
    /\ Job(j, "sleep", "resend")
    /\ UNCHANGED <<ch, closed, wg, dead, workers, cpc>>

(* Variant of GivesUp: a full channel is waited for.                       *)
FaultyGivesUp(j) == j \in dead

(* What the selects of send and enqueueDelayed watch besides the channel.  *)
GivesUp(j) == closed \/ j \in dead

Abandons(j) ==
    /\ GivesUp(j)
    /\ Job(j, "sleep", "leave") \/ Job(j, "resend", "leave")
    /\ UNCHANGED <<ch, closed, wg, dead, workers, cpc>>

Leaves(j) ==
    /\ Job(j, "leave", "gone")
    /\ wg' = wg - 1
    /\ UNCHANGED <<ch, closed, dead, workers, cpc>>

(* send: a select picks any case that is ready, so a job may still go into *)
(* the channel after quit was closed.                                      *)

Sends(j) ==
    /\ Len(ch) < Buffer /\ ch' = Append(ch, j)
    /\ Job(j, "send", "accepted") \/ Job(j, "resend", "leave")
    /\ UNCHANGED <<closed, wg, dead, workers, cpc>>

SendFails(j) ==
    /\ GivesUp(j)
    /\ Job(j, "send", "refused")
    /\ UNCHANGED <<ch, closed, wg, dead, workers, cpc>>

-----------------------------------------------------------------------------
(* Run                                                                     *)

Takes(w) ==
    /\ wpc[w] = "select" /\ ch # <<>>
    /\ wpc' = [wpc EXCEPT ![w] = "handle"]
    /\ wjob' = [wjob EXCEPT ![w] = Head(ch)]
    /\ ch' = Tail(ch)
    /\ ran' = ran \cup {Head(ch)}
    /\ UNCHANGED <<closed, wg, callers, stopped, cpc>>

FaultyHandled == "ended"        \* variant: a handler's error ends Run

AfterHandler == "select"

(* The handler returns; its error is dropped.                              *)
Handled(w) ==
    /\ wpc[w] = "handle"
    /\ wpc' = [wpc EXCEPT ![w] = AfterHandler]
    /\ wjob' = [wjob EXCEPT ![w] = None]
    /\ UNCHANGED <<ch, closed, wg, callers, stopped, ran, cpc>>

Stop(w) ==
    /\ w \notin stopped /\ stopped' = stopped \cup {w}
    /\ UNCHANGED <<ch, closed, wg, callers, wpc, wjob, ran, cpc>>

RunReturns(w) ==
    /\ wpc[w] = "select" /\ (closed \/ w \in stopped)
    /\ wpc' = [wpc EXCEPT ![w] = "ended"]
    /\ UNCHANGED <<ch, closed, wg, callers, wjob, stopped, ran, cpc>>

-----------------------------------------------------------------------------
(* Close: a second call returns at once.                                   *)

Closes(c) ==
    /\ cpc[c] = "idle"
    /\ closed' = TRUE
    /\ cpc' = [cpc EXCEPT ![c] = IF closed THEN "returned" ELSE "waiting"]
    /\ UNCHANGED <<ch, wg, callers, workers>>

CloseReturns(c) ==
    /\ cpc[c] = "waiting" /\ wg = 0
    /\ cpc' = [cpc EXCEPT ![c] = "returned"]
    /\ UNCHANGED <<ch, closed, wg, callers, workers>>

-----------------------------------------------------------------------------
Caller(j) == Abandons(j) \/ Leaves(j) \/ Wakes(j) \/ Sends(j) \/ SendFails(j)

Worker(w) == Takes(w) \/ Handled(w) \/ RunReturns(w)

Next ==
    \/ \E j \in Jobs :
          Delays(j) \/ Offers(j) \/ Refused(j) \/ Cancel(j) \/ Caller(j)
    \/ \E w \in Workers : Worker(w) \/ Stop(w)
    \/ \E c \in Closers : Closes(c) \/ CloseReturns(c)

Spec == Init /\ [][Next]_vars

(* Goroutines that can run do, handlers return, timers fire.               *)
Fairness ==
    /\ \A j \in Jobs : WF_vars(Caller(j))
    /\ \A w \in Workers : WF_vars(Worker(w))
    /\ \A c \in Closers : WF_vars(CloseReturns(c))

-----------------------------------------------------------------------------
TypeOK ==
    /\ ch \in Seq(Jobs) /\ Len(ch) <= Buffer
    /\ closed \in BOOLEAN /\ wg \in Nat
    /\ jpc \in [Jobs -> {"idle", "sleep", "resend", "leave", "gone", "send",
                         "accepted", "refused"}]
    /\ dead \subseteq Jobs
    /\ wpc \in [Workers -> {"select", "handle", "ended"}]
    /\ wjob \in [Workers -> Jobs \cup {None}]
    /\ stopped \subseteq Workers /\ ran \subseteq Jobs
    /\ cpc \in [Closers -> {"idle", "waiting", "returned"}]

Pending == {j \in Jobs : jpc[j] \in {"sleep", "resend", "leave"}}

(* "Close stops accepting jobs and waits for delayed enqueue goroutines"   *)
(* (queue.go:187), of the Close that closed the queue (a later one returns *)
(* at once): when it returns no delayed job is left, and none is delayed   *)
(* after that.                                                             *)
FirstCloseWaits ==
    [][/\ \A c \in Closers :
             cpc[c] = "waiting" /\ cpc'[c] = "returned" => Pending' = {}
       /\ closed /\ Pending = {} => Pending' = {}]_vars

(* Close releases every caller blocked on a full queue, and every Run.     *)
CloseReleases ==
    closed ~> /\ \A j \in Jobs : jpc[j] \notin {"send", "sleep", "resend", "leave"}
              /\ \A w \in Workers : wpc[w] = "ended"

(* An accepted job runs, unless Close or the workers' contexts come first. *)
AcceptedRuns ==
    \A j \in Jobs :
        jpc[j] = "accepted" ~> (j \in ran \/ closed \/ stopped = Workers)

=============================================================================
