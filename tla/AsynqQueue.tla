---------------------------- MODULE AsynqQueue -----------------------------
(***************************************************************************)
(* asynqx.Queue: queue.Queue over an asynq client and server.  The flags   *)
(* closed and started are read and written under mu; the calls into asynq  *)
(* happen after it was released.                                           *)
(*                                                                         *)
(* The asynq server is external: Start refuses a server that is not new,   *)
(* Shutdown does nothing to one that is not active.                        *)
(***************************************************************************)
CONSTANTS
    Runs,       \* calls of Run
    Closers,    \* calls of Close
    Callers     \* calls of Enqueue

VARIABLES
    closed, started,    \* Queue.closed, Queue.started
    server,             \* the asynq server: "new", "active" or "closed"
    client,             \* is the asynq client open?
    rpc,                \* control state of each Run
    done,               \* runs whose context is done
    cpc,                \* control state of each Close
    epc                 \* control state of each Enqueue

vars == <<closed, started, server, client, rpc, done, cpc, epc>>

Init ==
    /\ closed = FALSE /\ started = FALSE
    /\ server = "new" /\ client = TRUE
    /\ rpc = [r \in Runs |-> "idle"] /\ done = {}
    /\ cpc = [c \in Closers |-> "idle"]
    /\ epc = [e \in Callers |-> "idle"]

Run(r, at, next) == rpc[r] = at /\ rpc' = [rpc EXCEPT ![r] = next]

Shutdown == server' = IF server = "active" THEN "closed" ELSE server

-----------------------------------------------------------------------------
RunRefused(r) ==
    /\ closed \/ started
    /\ Run(r, "idle", "returned")
    /\ UNCHANGED <<closed, started, server, client, done, cpc, epc>>

RunAdmitted(r) ==
    /\ ~closed /\ ~started
    /\ Run(r, "idle", "start")
    /\ started' = TRUE
    /\ UNCHANGED <<closed, server, client, done, cpc, epc>>

(* server.Start: it may fail to reach Redis.                               *)
RunStarts(r) ==
    /\ server = "new" /\ server' = "active"
    /\ Run(r, "start", "wait")
    /\ UNCHANGED <<closed, started, client, done, cpc, epc>>

RunFails(r) ==
    /\ Run(r, "start", "returned")
    /\ UNCHANGED <<closed, started, server, client, done, cpc, epc>>

Cancel(r) ==
    /\ r \notin done /\ done' = done \cup {r}
    /\ UNCHANGED <<closed, started, server, client, rpc, cpc, epc>>

RunEnds(r) ==
    /\ r \in done
    /\ Run(r, "wait", "returned")
    /\ Shutdown
    /\ UNCHANGED <<closed, started, client, done, cpc, epc>>

-----------------------------------------------------------------------------
(* Close                                                                   *)

CloseMarks(c) ==
    /\ cpc[c] = "idle"
    /\ closed' = TRUE
    /\ cpc' = [cpc EXCEPT ![c] = CASE closed -> "returned"
                                   [] ~closed /\ started -> "shutdown"
                                   [] OTHER -> "client"]
    /\ UNCHANGED <<started, server, client, rpc, done, epc>>

CloseServer(c) ==
    /\ cpc[c] = "shutdown"
    /\ cpc' = [cpc EXCEPT ![c] = "client"]
    /\ Shutdown
    /\ UNCHANGED <<closed, started, client, rpc, done, epc>>

CloseClient(c) ==
    /\ cpc[c] = "client"
    /\ cpc' = [cpc EXCEPT ![c] = "returned"]
    /\ client' = FALSE
    /\ UNCHANGED <<closed, started, server, rpc, done, epc>>

-----------------------------------------------------------------------------
(* Enqueue: closed is read under mu, the client is used after it.          *)

EnqueueChecks(e) ==
    /\ epc[e] = "idle"
    /\ epc' = [epc EXCEPT ![e] = IF closed THEN "refused" ELSE "push"]
    /\ UNCHANGED <<closed, started, server, client, rpc, done, cpc>>

EnqueuePushes(e) ==
    /\ epc[e] = "push"
    /\ epc' = [epc EXCEPT ![e] = IF client THEN "pushed" ELSE "refused"]
    /\ UNCHANGED <<closed, started, server, client, rpc, done, cpc>>

-----------------------------------------------------------------------------
Runner(r) == RunStarts(r) \/ RunEnds(r)

Closer(c) == CloseServer(c) \/ CloseClient(c)

Next ==
    \/ \E r \in Runs : RunRefused(r) \/ RunAdmitted(r) \/ RunFails(r) \/ Cancel(r) \/ Runner(r)
    \/ \E c \in Closers : CloseMarks(c) \/ Closer(c)
    \/ \E e \in Callers : EnqueueChecks(e) \/ EnqueuePushes(e)

Spec == Init /\ [][Next]_vars

-----------------------------------------------------------------------------
TypeOK ==
    /\ closed \in BOOLEAN /\ started \in BOOLEAN /\ client \in BOOLEAN
    /\ server \in {"new", "active", "closed"}
    /\ rpc \in [Runs -> {"idle", "start", "wait", "returned"}]
    /\ done \subseteq Runs
    /\ cpc \in [Closers -> {"idle", "shutdown", "client", "returned"}]
    /\ epc \in [Callers -> {"idle", "push", "pushed", "refused"}]

=============================================================================
