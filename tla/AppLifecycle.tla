---------------------------- MODULE AppLifecycle ----------------------------
(***************************************************************************)
(* App.Run and lifecycle.Serve: start hooks, the readiness flag, the HTTP  *)
(* listener and its goroutine, the graceful shutdown with its timeout, and   *)
(* the closing of the stores that handlers and background revalidations    *)
(* use.  net/http is external: Shutdown closes the listener and returns    *)
(* when no connection of its own has a handler; it leaves running handlers *)
(* alone when it gives up, and a connection that was hijacked, as that of  *)
(* every WebSocket, is none of its own: nothing waits for its handler.     *)
(***************************************************************************)
EXTENDS Naturals

CONSTANT Handlers   \* requests, and the revalidation each may start

VARIABLES
    run,            \* control state of Run and of Serve, which it calls
    serving,        \* ListenAndServe: "no", "starting", "listening", "ended"
    errCh,          \* Serve's errCh: "none", "nil" or "err"
    inShutdown,     \* has Shutdown or Close been called on the listener?
    ready,          \* App.ready
    cancelled,      \* the context of Run, or a signal
    result,         \* what Serve returned: "none", "nil", "err" or "timeout"
    request,        \* each request: "idle", "active", "hijacked", "done"
    job,            \* its background revalidation: "none", "running", "done"
    cache, sessions \* are App.Cache and App.Sessions open?

listener == <<serving, errCh, inShutdown>>
work == <<request, job>>
stores == <<cache, sessions>>
appVars == <<run, listener, ready, cancelled, result, work, stores>>

AppInit ==
    /\ run = "before_start"
    /\ serving = "no" /\ errCh = "none" /\ inShutdown = FALSE
    /\ ready = FALSE /\ cancelled = FALSE /\ result = "none"
    /\ request = [r \in Handlers |-> "idle"] /\ job = [r \in Handlers |-> "none"]
    /\ cache = TRUE /\ sessions = TRUE

Reaches(at, next) == run = at /\ run' = next

-----------------------------------------------------------------------------
(* App.Run up to Serve.                                                    *)

HookFails ==
    /\ Reaches("before_start", "returned")
    /\ UNCHANGED <<listener, ready, cancelled, result, work, stores>>

(* The hooks of before_start pass, the listener is made, signals are caught. *)
Started ==
    /\ Reaches("before_start", "after_start")
    /\ ready' = TRUE
    /\ UNCHANGED <<listener, cancelled, result, work, stores>>

(* The hooks of after_start, whatever they return; Serve starts its        *)
(* goroutine.                                                              *)
AfterStart ==
    /\ Reaches("after_start", "serve")
    /\ serving' = "starting"
    /\ UNCHANGED <<errCh, inShutdown, ready, cancelled, result, work, stores>>

CancelApp ==
    /\ ~cancelled /\ cancelled' = TRUE
    /\ UNCHANGED <<run, listener, ready, result, work, stores>>

-----------------------------------------------------------------------------
(* The goroutine of Serve.                                                 *)

Listen ==
    /\ serving = "starting" /\ ~inShutdown
    /\ serving' = "listening"
    /\ UNCHANGED <<run, errCh, inShutdown, ready, cancelled, result, work, stores>>

(* ErrServerClosed, also when Shutdown came before the listener was open.  *)
ListenEnds ==
    /\ serving \in {"starting", "listening"} /\ inShutdown
    /\ serving' = "ended" /\ errCh' = "nil"
    /\ UNCHANGED <<run, inShutdown, ready, cancelled, result, work, stores>>

(* The address is in use, or accept failed.                                *)
ListenerFails ==
    /\ serving \in {"starting", "listening"} /\ ~inShutdown
    /\ serving' = "ended" /\ errCh' = "err"
    /\ UNCHANGED <<run, inShutdown, ready, cancelled, result, work, stores>>

-----------------------------------------------------------------------------
(* Serve                                                                   *)

Return(at, r) == Reaches(at, "served") /\ result' = r

ServeReturns ==
    /\ errCh # "none"
    /\ Return("serve", errCh)
    /\ UNCHANGED <<listener, ready, cancelled, work, stores>>

ServeShutsDown ==
    /\ cancelled
    /\ Reaches("serve", "shutdown")
    /\ inShutdown' = TRUE
    /\ UNCHANGED <<serving, errCh, ready, cancelled, result, work, stores>>

(* A handler runs on a connection of net/http's: what Shutdown waits for.  *)
Busy == \E r \in Handlers : request[r] = "active"

FaultyHandlersDone == TRUE               \* variant: Close instead of Shutdown

(* Shutdown has nothing left to wait for.                                  *)
HandlersDone == ~Busy

(* Shutdown returned nil: receive from errCh.                              *)
ServeDrains ==
    /\ HandlersDone
    /\ Reaches("shutdown", "receive")
    /\ UNCHANGED <<listener, ready, cancelled, result, work, stores>>

ServeReceives ==
    /\ errCh # "none"
    /\ Return("receive", errCh)
    /\ UNCHANGED <<listener, ready, cancelled, work, stores>>

FaultyHandlersHang == FALSE              \* variant: Shutdown without a deadline

HandlersHang == Busy

(* shutdownTimeout: Close, and the error of Shutdown.                      *)
ServeTimesOut ==
    /\ HandlersHang
    /\ Return("shutdown", "timeout")
    /\ UNCHANGED <<listener, ready, cancelled, work, stores>>

-----------------------------------------------------------------------------
(* The rest of App.Run.                                                    *)

NotReady ==
    /\ Reaches("served", "before_stop")
    /\ ready' = FALSE
    /\ UNCHANGED <<listener, cancelled, result, work, stores>>

CloseCache ==
    /\ Reaches("before_stop", "cache_closed")
    /\ cache' = FALSE
    /\ UNCHANGED <<listener, ready, cancelled, result, work, sessions>>

CloseSessions ==
    /\ Reaches("cache_closed", "after_stop")
    /\ sessions' = FALSE
    /\ UNCHANGED <<listener, ready, cancelled, result, work, cache>>

AfterStop ==
    /\ Reaches("after_stop", "returned")
    /\ UNCHANGED <<listener, ready, cancelled, result, work, stores>>

-----------------------------------------------------------------------------
(* Handlers: a request is accepted while the listener is open; its handler *)
(* may take the connection over, or start a revalidation, that nobody      *)
(* waits for.                                                              *)

Accept(r) ==
    /\ serving = "listening" /\ ~inShutdown /\ request[r] = "idle"
    /\ request' = [request EXCEPT ![r] = "active"]
    /\ UNCHANGED <<run, listener, ready, cancelled, result, job, stores>>

(* ws.Upgrade takes the connection away from net/http.                     *)
Hijack(r) ==
    /\ request[r] = "active"
    /\ request' = [request EXCEPT ![r] = "hijacked"]
    /\ UNCHANGED <<run, listener, ready, cancelled, result, job, stores>>

Respond(r) ==
    /\ request[r] \in {"active", "hijacked"}
    /\ request' = [request EXCEPT ![r] = "done"]
    /\ UNCHANGED <<run, listener, ready, cancelled, result, job, stores>>

Revalidate(r) ==
    /\ request[r] = "active" /\ job[r] = "none"
    /\ job' = [job EXCEPT ![r] = "running"]
    /\ UNCHANGED <<run, listener, ready, cancelled, result, request, stores>>

JobEnds(r) ==
    /\ job[r] = "running"
    /\ job' = [job EXCEPT ![r] = "done"]
    /\ UNCHANGED <<run, listener, ready, cancelled, result, request, stores>>

-----------------------------------------------------------------------------
Serve ==
    \/ ServeReturns \/ ServeShutsDown \/ ServeDrains \/ ServeReceives \/ ServeTimesOut

StopApp == NotReady \/ CloseCache \/ CloseSessions \/ AfterStop

Run == Started \/ AfterStart \/ Serve \/ StopApp

Goroutine == Listen \/ ListenEnds

AppNext ==
    \/ HookFails \/ Run \/ Goroutine \/ ListenerFails \/ CancelApp
    \/ \E r \in Handlers :
          Accept(r) \/ Hijack(r) \/ Respond(r) \/ Revalidate(r) \/ JobEnds(r)

AppSpec == AppInit /\ [][AppNext]_appVars

-----------------------------------------------------------------------------
AppTypes ==
    /\ run \in {"before_start", "after_start", "serve", "shutdown", "receive", "served",
                "before_stop", "cache_closed", "after_stop", "returned"}
    /\ serving \in {"no", "starting", "listening", "ended"}
    /\ errCh \in {"none", "nil", "err"}
    /\ inShutdown \in BOOLEAN /\ ready \in BOOLEAN /\ cancelled \in BOOLEAN
    /\ result \in {"none", "nil", "err", "timeout"}
    /\ request \in [Handlers -> {"idle", "active", "hijacked", "done"}]
    /\ job \in [Handlers -> {"none", "running", "done"}]
    /\ cache \in BOOLEAN /\ sessions \in BOOLEAN

(* Graceful means: no handler finds the cache or the sessions closed,      *)
(* unless the shutdown timed out or the listener itself failed (app.go:    *)
(* 404-417, lifecycle.go:36-47), or the handler has taken its connection   *)
(* over, as that of a WebSocket has (ws.go:52-63): Shutdown has forgotten  *)
(* it, and it may find both closed after a stop without an error.          *)
GracefulStop == result = "nil" /\ Busy => cache /\ sessions

(* An app that says it is ready has its stores open (app.go:406-417).      *)
ReadyMeansOpen == ready => cache /\ sessions

(* Run returns after a cancellation however many handlers hang, and both   *)
(* stores are closed by then.                                              *)
StopsWhenCancelled ==
    cancelled /\ run = "serve" ~> run = "returned" /\ ~cache /\ ~sessions

=============================================================================
