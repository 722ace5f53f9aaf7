----------------------------- MODULE GrpcServer ----------------------------
(***************************************************************************)
(* ListenAndServe of irmik/grpcx: a goroutine serves; a cancellation stops *)
(* the server gracefully in another goroutine, and the hard way after ten  *)
(* seconds.  What grpc.Server does is modelled as this code relies on it:  *)
(* GracefulStop accepts no more and waits for the calls in progress, Stop  *)
(* ends them, and Serve returns after either.                              *)
(***************************************************************************)
CONSTANT Rpcs       \* calls of clients

VARIABLES
    listen,         \* ListenAndServe: "new", "select", "stopping", "returned"
    outcome,        \* what it returned: "none", "listen", "ctx", "serve"
    stopRpc,        \* its context is cancelled
    timedOut,       \* Stop has been called
    serve,          \* the serving goroutine: "none", "serving", "sending", "ended"
    serveErr,       \* errCh, of capacity one, holds an error
    stopper,        \* the goroutine of GracefulStop: "none", "waiting", "ended"
    call            \* "none", "open", "done" or "cut"

grpcVars == <<listen, outcome, stopRpc, timedOut, serve, serveErr, stopper, call>>

GrpcInit ==
    /\ listen = "new" /\ outcome = "none" /\ stopRpc = FALSE /\ timedOut = FALSE
    /\ serve = "none" /\ serveErr = FALSE /\ stopper = "none"
    /\ call = [c \in Rpcs |-> "none"]

-----------------------------------------------------------------------------
CancelRpc ==
    /\ ~stopRpc /\ stopRpc' = TRUE
    /\ UNCHANGED <<listen, outcome, timedOut, serve, serveErr, stopper, call>>

ReturnsWith(how) ==
    /\ listen' = "returned" /\ outcome' = how

ListenFails ==
    /\ listen = "new" /\ ReturnsWith("listen")
    /\ UNCHANGED <<stopRpc, timedOut, serve, serveErr, stopper, call>>

Listens ==
    /\ listen = "new"
    /\ listen' = "select" /\ serve' = "serving"
    /\ UNCHANGED <<outcome, stopRpc, timedOut, serveErr, stopper, call>>

SeesCancel ==
    /\ listen = "select" /\ stopRpc
    /\ listen' = "stopping" /\ stopper' = "waiting"
    /\ UNCHANGED <<outcome, stopRpc, timedOut, serve, serveErr, call>>

SeesServeError ==
    /\ listen = "select" /\ serveErr
    /\ ReturnsWith("serve") /\ serveErr' = FALSE
    /\ UNCHANGED <<stopRpc, timedOut, serve, stopper, call>>

SeesStopped ==
    /\ listen = "stopping" /\ stopper = "ended"
    /\ ReturnsWith("ctx")
    /\ UNCHANGED <<stopRpc, timedOut, serve, serveErr, stopper, call>>

\* Ten seconds are over: the calls in progress are ended.
StopTimer ==
    /\ listen = "stopping" /\ ReturnsWith("ctx")
    /\ timedOut' = TRUE
    /\ call' = [c \in Rpcs |-> IF call[c] = "open" THEN "cut" ELSE call[c]]
    /\ UNCHANGED <<stopRpc, serve, serveErr, stopper>>

-----------------------------------------------------------------------------
Stopped == stopper # "none" \/ timedOut

\* Serve returns because the server stopped, or because Accept failed.
ServeEnds ==
    /\ serve = "serving" /\ serve' = "sending"
    /\ UNCHANGED <<listen, outcome, stopRpc, timedOut, serveErr, stopper, call>>

\* variant: the channel is not buffered
FaultyRoom == listen = "select"

Room == ~serveErr

ServeSends ==
    /\ serve = "sending" /\ Room
    /\ serve' = "ended" /\ serveErr' = TRUE
    /\ UNCHANGED <<listen, outcome, stopRpc, timedOut, stopper, call>>

Graceful == \A c \in Rpcs : call[c] # "open"

StopperEnds ==
    /\ stopper = "waiting" /\ Graceful
    /\ stopper' = "ended"
    /\ UNCHANGED <<listen, outcome, stopRpc, timedOut, serve, serveErr, call>>

RpcStarts(c) ==
    /\ call[c] = "none" /\ serve = "serving" /\ ~Stopped
    /\ call' = [call EXCEPT ![c] = "open"]
    /\ UNCHANGED <<listen, outcome, stopRpc, timedOut, serve, serveErr, stopper>>

RpcEnds(c) ==
    /\ call[c] = "open" /\ call' = [call EXCEPT ![c] = "done"]
    /\ UNCHANGED <<listen, outcome, stopRpc, timedOut, serve, serveErr, stopper>>

GrpcNext ==
    \/ CancelRpc \/ ListenFails \/ Listens \/ SeesCancel \/ SeesServeError \/ SeesStopped
    \/ StopTimer \/ ServeEnds \/ ServeSends \/ StopperEnds
    \/ \E c \in Rpcs : RpcStarts(c) \/ RpcEnds(c)

(* Goroutines run and the timer fires; Serve returns once the server has   *)
(* stopped.  Calls may hang.                                               *)
GrpcFairness ==
    /\ WF_grpcVars(SeesCancel \/ SeesServeError) /\ WF_grpcVars(SeesStopped \/ StopTimer)
    /\ WF_grpcVars(Stopped /\ ServeEnds)
    /\ WF_grpcVars(ServeSends) /\ WF_grpcVars(StopperEnds)

GrpcSpec == GrpcInit /\ [][GrpcNext]_grpcVars /\ GrpcFairness

-----------------------------------------------------------------------------
\* Type invariant.
GrpcTypes ==
    /\ listen \in {"new", "select", "stopping", "returned"}
    /\ outcome \in {"none", "listen", "ctx", "serve"}
    /\ stopRpc \in BOOLEAN /\ timedOut \in BOOLEAN /\ serveErr \in BOOLEAN
    /\ serve \in {"none", "serving", "sending", "ended"}
    /\ stopper \in {"none", "waiting", "ended"}
    /\ call \in [Rpcs -> {"none", "open", "done", "cut"}]

(* A cancelled server returns however long its calls hang, and leaves no   *)
(* goroutine behind: neither the one that serves nor the one that stops    *)
(* (grpcx.go:75-93).                                                       *)
GrpcStops ==
    listen = "select" /\ stopRpc ~>
        listen = "returned" /\ serve = "ended" /\ (stopper = "none" \/ stopper = "ended")

=============================================================================
