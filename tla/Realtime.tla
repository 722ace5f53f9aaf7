------------------------------ MODULE Realtime -----------------------------
(***************************************************************************)
(* The two ways to push messages to browsers (docs/realtime.md), each with *)
(* its hub.  They share nothing: a behaviour uses one of them.             *)
(***************************************************************************)
EXTENDS EventStream

CONSTANTS Clients, Rooms, NoRoom, NoClient, BroadcastCap, SendBuf, MaxMsgs  \* see WsHub

VARIABLES
    protocol,   \* "sse" or "ws"
    started, done, lpc, lcli, lmsg, clients, rooms, joined, log, broadcast, send,
    wsClosed, conn, hpc, pend, wpc, out     \* see WsHub

ws == <<started, done, lpc, lcli, lmsg, clients, rooms, joined, log, broadcast, send,
        wsClosed, conn, hpc, pend, wpc, out>>

Hub == INSTANCE WsHub WITH closed <- wsClosed

RealtimeInit == Init /\ Hub!Init /\ protocol \in {"sse", "ws"}

RealtimeNext ==
    /\ UNCHANGED protocol
    /\ \/ protocol = "sse" /\ Next /\ UNCHANGED ws
       \/ protocol = "ws" /\ Hub!Next /\ UNCHANGED vars

(* Goroutines are scheduled, and a mutex is handed to who waits for it: a  *)
(* heartbeat does not keep Stream.mu from the others for ever.  Nobody has *)
(* to broadcast, tick or disconnect.                                       *)
SseFairness ==
    /\ \A s \in Streams :
        /\ SF_vars(protocol = "sse" /\ Watch(s)) /\ SF_vars(protocol = "sse" /\ Attach(s))
        /\ WF_vars(protocol = "sse" /\ Beat(s))
    /\ \A p \in Producers : WF_vars(protocol = "sse" /\ Broadcast(p))

(* A goroutine that can take a step takes it; a select picks at random     *)
(* among its ready cases, and senders blocked on a channel are served in   *)
(* order, so that a case which is ready again and again is taken.  Reads   *)
(* fail and pings are sent in bounded time on a connection that has        *)
(* failed.  Nothing is assumed of the application or of the peers.         *)
WsFairness ==
    /\ WF_ws(protocol = "ws" /\ (Hub!LoopInserts \/ Hub!LoopRemoves \/ Hub!LoopDispatches))
    /\ SF_ws(protocol = "ws" /\ Hub!LoopReceives)
    /\ \A c \in Clients :
        /\ SF_ws(protocol = "ws" /\ Hub!LoopRegisters(c))
        /\ SF_ws(protocol = "ws" /\ Hub!LoopUnregisters(c))
        /\ SF_ws(protocol = "ws" /\ Hub!Post(c))
        /\ WF_ws(protocol = "ws" /\ (Hub!RegisterLost(c) \/ Hub!PostAbandoned(c)))
        /\ WF_ws(protocol = "ws" /\ Hub!UnregisterAfterClose(c))
        /\ WF_ws(protocol = "ws" /\ conn[c] = "closed" /\ Hub!ReadEnds(c))
        /\ WF_ws(protocol = "ws" /\ conn[c] = "closed" /\ Hub!WritePump(c))

RealtimeSpec ==
    /\ RealtimeInit /\ [][RealtimeNext]_<<protocol, vars, ws>>
    /\ SseFairness /\ WsFairness

-----------------------------------------------------------------------------
(* A hub that stays open forgets each client whose connection has failed,  *)
(* however full its channels are (ws.go:214-228).                          *)
OpenHubForgets == Hub!OpenHubForgets

(* "Register and unregister do not hang after Close" (ws.go:232), and      *)
(* neither does a broadcast that found the buffer full.                    *)
CloseReleases == Hub!CloseReleases

=============================================================================
