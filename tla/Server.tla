-------------------------------- MODULE Server -----------------------------
(***************************************************************************)
(* What runs in a server process beside its handlers, and how it ends: the *)
(* app and its listener, a job queue, the scheduler and the gRPC server.   *)
(* They share nothing: a behaviour uses one of them.                       *)
(***************************************************************************)
EXTENDS Queues, Scheduler, GrpcServer, AppLifecycle

queue == <<vars, asynq>>

ServerInit ==
    /\ NewQueues /\ AppInit /\ SchedInit /\ GrpcInit
    /\ driver \in {"memory", "asynq", "app", "scheduler", "grpc"}

ServerNext ==
    /\ UNCHANGED driver
    /\ \/ Step /\ UNCHANGED <<appVars, schedVars, grpcVars>>
       \/ driver = "app" /\ AppNext /\ UNCHANGED <<queue, schedVars, grpcVars>>
       \/ driver = "scheduler" /\ SchedNext /\ UNCHANGED <<queue, appVars, grpcVars>>
       \/ driver = "grpc" /\ GrpcNext /\ UNCHANGED <<queue, appVars, schedVars>>

(* Goroutines run and timers fire, that of the app's shutdown too; its     *)
(* handlers may hang.  The fairness of a part asks nothing of a behaviour  *)
(* that does not use it.                                                   *)
ServerSpec ==
    /\ ServerInit /\ [][ServerNext]_<<driver, queue, appVars, schedVars, grpcVars>>
    /\ driver = "memory" => Fairness
    /\ WF_appVars(driver = "app" /\ Run) /\ WF_appVars(driver = "app" /\ Goroutine)
    /\ SchedFairness /\ GrpcFairness

=============================================================================
