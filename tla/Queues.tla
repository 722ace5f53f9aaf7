------------------------------- MODULE Queues ------------------------------
(***************************************************************************)
(* queue.New: an application opens one queue, of the driver it names, and  *)
(* uses it through the interface both implement.                           *)
(***************************************************************************)
EXTENDS MemoryQueue

CONSTANTS
    Runs, Callers       \* calls of Run and Enqueue of the asynq queue

VARIABLES
    driver,             \* Options.Driver
    marked, started, server, client, rpc, done, acpc, epc   \* see AsynqQueue

asynq == <<marked, started, server, client, rpc, done, acpc, epc>>

Asynq == INSTANCE AsynqQueue WITH closed <- marked, cpc <- acpc

NewQueues == Init /\ Asynq!Init

Step ==
    \/ driver = "memory" /\ Next /\ UNCHANGED asynq
    \/ driver = "asynq" /\ Asynq!Next /\ UNCHANGED vars

=============================================================================
