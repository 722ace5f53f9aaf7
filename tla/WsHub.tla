------------------------------- MODULE WsHub -------------------------------
(***************************************************************************)
(* irmik/ws/ws.go: the WebSocket hub.  One event loop owns the set of      *)
(* connected clients; every connection has a handler goroutine that turns  *)
(* into its read pump and a second goroutine, its write pump.  They meet   *)
(* on three channels (register and unregister, unbuffered; broadcast,      *)
(* buffered), on each client's buffered send channel, on the done channel  *)
(* that Close closes, and on the mutex that guards clients and rooms.      *)
(*                                                                         *)
(* A critical section of h.mu is one step.  A receive by the loop and the  *)
(* critical section that follows it are two steps: between them any other  *)
(* goroutine may run.  A message is named by its position in the order in  *)
(* which the broadcast channel accepted the envelopes (log).               *)
(***************************************************************************)
EXTENDS Naturals, Sequences, FiniteSets

CONSTANTS
    Clients,        \* connections, one *Client value each
    Rooms,          \* room names, without the empty name
    NoRoom,         \* Envelope.Room = "": every client
    NoClient,       \* the loop holds no client
    BroadcastCap,   \* capacity of h.broadcast (256 in the code)
    SendBuf,        \* resolveSendBuf(opts), 64 by default
    MaxMsgs         \* bound: messages produced while the model runs

ASSUME WsHubAssumption ==
    /\ NoRoom \notin Rooms
    /\ NoClient \notin Clients
    /\ BroadcastCap \in Nat \ {0}
    /\ SendBuf \in Nat \ {0}
    /\ MaxMsgs \in Nat

VARIABLES
    started,    \* startOnce has launched the event loop
    done,       \* h.done is closed
    lpc,        \* control state of runLoop
    lcli,       \* the client runLoop received and has not handled yet
    lmsg,       \* the message runLoop received and has not dispatched yet
    clients,    \* h.clients
    rooms,      \* h.rooms: the members of each room
    joined,     \* c.rooms of each client
    log,        \* history: the Room of every envelope accepted, in order
    broadcast,  \* h.broadcast: the messages waiting for the loop
    send,       \* c.send of each client
    closed,     \* c.send has been closed
    conn,       \* "open" until the connection fails or is closed
    hpc,        \* control state of the handler / read pump
    pend,       \* rooms the read pump still has to post its message to
    wpc,        \* control state of the write pump
    out         \* history: messages written to each connection

loopVars == <<lpc, lcli, lmsg>>
hubVars == <<clients, rooms, joined>>
chanVars == <<log, broadcast>>
pumpVars == <<conn, hpc, pend, wpc>>
vars == <<started, done, loopVars, hubVars, chanVars, send, closed,
          pumpVars, out>>

Targets == Rooms \cup {NoRoom}

Init ==
    /\ started = FALSE /\ done = FALSE
    /\ lpc = "select" /\ lcli = NoClient /\ lmsg = 0
    /\ clients = {}
    /\ rooms = [r \in Rooms |-> {}]
    /\ joined = [c \in Clients |-> {}]
    /\ log = <<>> /\ broadcast = <<>>
    /\ send = [c \in Clients |-> <<>>]
    /\ closed = [c \in Clients |-> FALSE]
    /\ conn = [c \in Clients |-> "open"]
    /\ hpc = [c \in Clients |-> "none"]
    /\ pend = [c \in Clients |-> {}]
    /\ wpc = [c \in Clients |-> "none"]
    /\ out = [c \in Clients |-> <<>>]

-----------------------------------------------------------------------------
(* The application: Start, Run, Close, Broadcast and BroadcastRoom.        *)

(* Start returns without launching the loop once the hub is closed; Run    *)
(* launches it all the same.                                               *)
Start ==
    /\ ~started /\ ~done
    /\ started' = TRUE
    /\ UNCHANGED <<done, loopVars, hubVars, chanVars, send, closed, pumpVars, out>>

Run ==
    /\ ~started
    /\ started' = TRUE
    /\ UNCHANGED <<done, loopVars, hubVars, chanVars, send, closed, pumpVars, out>>

Close ==
    /\ ~done
    /\ done' = TRUE
    /\ UNCHANGED <<started, loopVars, hubVars, chanVars, send, closed, pumpVars, out>>

(* A message is produced only within the bound MaxMsgs.                    *)
MayProduce ==
    Len(log) + Cardinality({c \in Clients : pend[c] # {}}) < MaxMsgs

(* The first case of the select in Broadcast and BroadcastRoom.            *)
Enqueue(r) ==
    /\ Len(broadcast) < BroadcastCap
    /\ log' = Append(log, r)
    /\ broadcast' = Append(broadcast, Len(log) + 1)

(* A call that finds the buffer full waits here until the loop takes an    *)
(* envelope or the hub is closed; a call that finds done changes nothing.  *)
Publish(r) ==
    /\ MayProduce
    /\ Enqueue(r)
    /\ UNCHANGED <<started, done, loopVars, hubVars, send, closed, pumpVars, out>>

-----------------------------------------------------------------------------
(* ServeHTTP                                                               *)

JoinRoom(c, r) ==
    /\ rooms' = [rooms EXCEPT ![r] = @ \cup {c}]
    /\ joined' = [joined EXCEPT ![c] = @ \cup {r}]

Joins(r) == r # NoRoom

(* h.Start, Upgrade, newClient and client.Join of the room of the query,   *)
(* if there is one.  The handler then offers itself to the loop.           *)
Connect(c, r) ==
    /\ hpc[c] = "none"
    /\ started' = (started \/ ~done)
    /\ hpc' = [hpc EXCEPT ![c] = "registering"]
    /\ IF Joins(r) THEN JoinRoom(c, r) ELSE UNCHANGED <<rooms, joined>>
    /\ UNCHANGED <<done, loopVars, clients, chanVars, send, closed, conn,
                   pend, wpc, out>>

(* Variant of the next action: the room is joined before the upgrade.      *)
FaultyUpgradeFails(c) ==
    /\ hpc[c] = "none"
    /\ started' = (started \/ ~done)
    /\ hpc' = [hpc EXCEPT ![c] = "gone"]
    /\ \E r \in Rooms : JoinRoom(c, r)
    /\ UNCHANGED <<done, loopVars, clients, chanVars, send, closed, conn,
                   pend, wpc, out>>

(* h.Start succeeded, Upgrade did not.                                     *)
UpgradeFails(c) ==
    /\ hpc[c] = "none"
    /\ started' = (started \/ ~done)
    /\ hpc' = [hpc EXCEPT ![c] = "gone"]
    /\ UNCHANGED <<done, loopVars, hubVars, chanVars, send, closed, conn,
                   pend, wpc, out>>

(* case <-h.done: the connection is closed; the room keeps the client.     *)
RegisterLost(c) ==
    /\ hpc[c] = "registering" /\ done
    /\ hpc' = [hpc EXCEPT ![c] = "gone"]
    /\ conn' = [conn EXCEPT ![c] = "closed"]
    /\ UNCHANGED <<started, done, loopVars, hubVars, chanVars, send, closed,
                   pend, wpc, out>>

-----------------------------------------------------------------------------
(* runLoop.  The select may take any case that is ready.                   *)

Selecting == started /\ lpc = "select"

(* case c := <-h.register: the handler goes on to start both pumps while   *)
(* the loop has still to take the lock.                                    *)
LoopRegisters(c) ==
    /\ Selecting /\ hpc[c] = "registering"
    /\ lpc' = "insert" /\ lcli' = c
    /\ hpc' = [hpc EXCEPT ![c] = "reading"]
    /\ wpc' = [wpc EXCEPT ![c] = "run"]
    /\ UNCHANGED <<started, done, lmsg, hubVars, chanVars, send, closed,
                   conn, pend, out>>

LoopInserts ==
    /\ lpc = "insert"
    /\ clients' = clients \cup {lcli}
    /\ lpc' = "select" /\ lcli' = NoClient
    /\ UNCHANGED <<started, done, lmsg, rooms, joined, chanVars, send,
                   closed, pumpVars, out>>

LoopUnregisters(c) ==
    /\ Selecting /\ hpc[c] = "unregistering"
    /\ lpc' = "remove" /\ lcli' = c
    /\ hpc' = [hpc EXCEPT ![c] = "gone"]
    /\ UNCHANGED <<started, done, lmsg, hubVars, chanVars, send, closed,
                   conn, pend, wpc, out>>

(* The members a room keeps when c is removed: removeClient takes c out of *)
(* the rooms in c.rooms.                                                   *)
FaultyKeepsMember(r, c) == rooms[r]     \* variant: rooms are not cleaned up

Remaining(r, c) == IF r \in joined[c] THEN rooms[r] \ {c} ELSE rooms[r]

(* removeClient does nothing for a client that is not in h.clients.        *)
RemoveClient(c) ==
    IF c \in clients
    THEN /\ clients' = clients \ {c}
         /\ rooms' = [r \in Rooms |-> Remaining(r, c)]
         /\ closed' = [closed EXCEPT ![c] = TRUE]
         /\ conn' = [conn EXCEPT ![c] = "closed"]
    ELSE UNCHANGED <<clients, rooms, closed, conn>>

LoopRemoves ==
    /\ lpc = "remove"
    /\ RemoveClient(lcli)
    /\ lpc' = "select" /\ lcli' = NoClient
    /\ UNCHANGED <<started, done, lmsg, joined, chanVars, send, hpc, pend,
                   wpc, out>>

LoopReceives ==
    /\ Selecting /\ broadcast # <<>>
    /\ lpc' = "dispatch" /\ lmsg' = Head(broadcast)
    /\ broadcast' = Tail(broadcast)
    /\ UNCHANGED <<started, done, lcli, hubVars, log, send, closed, pumpVars, out>>

(* The clients a message is for: a room's members, registered or not.      *)
FaultyEveryone(r) == clients            \* variant: the room is ignored

Audience(r) == IF r = NoRoom THEN clients ELSE rooms[r]

HasSpace(c) == Len(send[c]) < SendBuf

(* Variant of the next action: the loop waits for a slow consumer.         *)
FaultyWaitingDispatch ==
    /\ lpc = "dispatch"
    /\ \A c \in Audience(log[lmsg]) : HasSpace(c)
    /\ send' = [c \in Clients |->
                  IF c \in Audience(log[lmsg]) THEN Append(send[c], lmsg)
                  ELSE send[c]]
    /\ lpc' = "select" /\ lmsg' = 0
    /\ UNCHANGED <<started, done, lcli, hubVars, chanVars, closed, pumpVars, out>>

(* dispatch: a send that would block is dropped.                           *)
LoopDispatches ==
    /\ lpc = "dispatch"
    /\ send' = [c \in Clients |->
                  IF c \in Audience(log[lmsg]) /\ HasSpace(c)
                  THEN Append(send[c], lmsg) ELSE send[c]]
    /\ lpc' = "select" /\ lmsg' = 0
    /\ UNCHANGED <<started, done, lcli, hubVars, chanVars, closed, pumpVars, out>>

LoopExits ==
    /\ Selecting /\ done
    /\ lpc' = "exited"
    /\ UNCHANGED <<started, done, lcli, lmsg, hubVars, chanVars, send, closed,
                   pumpVars, out>>

-----------------------------------------------------------------------------
(* readPump                                                                *)

(* ReadMessage and roomNames: a client in no room posts to every client.   *)
Read(c) ==
    /\ hpc[c] = "reading" /\ pend[c] = {} /\ conn[c] = "open"
    /\ MayProduce
    /\ pend' = [pend EXCEPT ![c] = IF joined[c] = {} THEN {NoRoom} ELSE joined[c]]
    /\ UNCHANGED <<started, done, loopVars, hubVars, chanVars, send, closed,
                   conn, hpc, wpc, out>>

Post(c) ==
    \E r \in pend[c] :
        /\ Enqueue(r)
        /\ pend' = [pend EXCEPT ![c] = @ \ {r}]
        /\ UNCHANGED <<started, done, loopVars, hubVars, send, closed, conn,
                       hpc, wpc, out>>

(* case <-h.done in Broadcast: the message is lost.                        *)
FaultyNeverAbandons(c) == FALSE     \* variant: a send without the done case

PostAbandoned(c) ==
    /\ done
    /\ \E r \in pend[c] : pend' = [pend EXCEPT ![c] = @ \ {r}]
    /\ UNCHANGED <<started, done, loopVars, hubVars, chanVars, send, closed,
                   conn, hpc, wpc, out>>

(* ReadMessage returns an error: the connection is closed, the peer sent a *)
(* close frame or too long a message, or the read deadline has passed.     *)
ReadEnds(c) ==
    /\ hpc[c] = "reading" /\ pend[c] = {}
    /\ hpc' = [hpc EXCEPT ![c] = "unregistering"]
    /\ UNCHANGED <<started, done, loopVars, hubVars, chanVars, send, closed,
                   conn, pend, wpc, out>>

(* case <-c.hub.done of the deferred select.                               *)
UnregisterAfterClose(c) ==
    /\ hpc[c] = "unregistering" /\ done
    /\ RemoveClient(c)
    /\ hpc' = [hpc EXCEPT ![c] = "gone"]
    /\ UNCHANGED <<started, done, loopVars, joined, chanVars, send, pend, wpc, out>>

-----------------------------------------------------------------------------
(* writePump.  A failed write closes the connection and ends the pump.     *)

Write(c) ==
    /\ wpc[c] = "run" /\ send[c] # <<>> /\ conn[c] = "open"
    /\ send' = [send EXCEPT ![c] = Tail(@)]
    /\ out' = [out EXCEPT ![c] = Append(@, Head(send[c]))]
    /\ UNCHANGED <<started, done, loopVars, hubVars, chanVars, closed, pumpVars>>

WritePumpEnds(c) ==
    /\ wpc' = [wpc EXCEPT ![c] = "gone"]
    /\ conn' = [conn EXCEPT ![c] = "closed"]
    /\ UNCHANGED <<started, done, loopVars, hubVars, chanVars, closed, hpc,
                   pend, out>>

WriteFails(c) ==
    /\ wpc[c] = "run" /\ send[c] # <<>>
    /\ send' = [send EXCEPT ![c] = Tail(@)]
    /\ WritePumpEnds(c)

(* A closed channel is received from once its buffer is empty.             *)
WriteClose(c) ==
    /\ wpc[c] = "run" /\ send[c] = <<>> /\ closed[c]
    /\ WritePumpEnds(c) /\ UNCHANGED send

(* A ping that succeeds changes nothing.                                   *)
PingFails(c) ==
    /\ wpc[c] = "run"
    /\ WritePumpEnds(c) /\ UNCHANGED send

(* The peer goes away, or the network does.                                *)
PeerFails(c) ==
    /\ hpc[c] # "none" /\ conn[c] = "open"
    /\ conn' = [conn EXCEPT ![c] = "closed"]
    /\ UNCHANGED <<started, done, loopVars, hubVars, chanVars, send, closed,
                   hpc, pend, wpc, out>>

-----------------------------------------------------------------------------
Loop ==
    LoopInserts \/ LoopRemoves \/ LoopReceives \/ LoopDispatches \/ LoopExits

Handler(c) ==
    \/ \E r \in Targets : Connect(c, r)
    \/ UpgradeFails(c) \/ RegisterLost(c)
    \/ LoopRegisters(c) \/ LoopUnregisters(c)
    \/ Read(c) \/ Post(c) \/ PostAbandoned(c) \/ ReadEnds(c)
    \/ UnregisterAfterClose(c)

WritePump(c) == Write(c) \/ WriteFails(c) \/ WriteClose(c) \/ PingFails(c)

Next ==
    \/ Start \/ Run \/ Close
    \/ \E r \in Targets : Publish(r)
    \/ Loop
    \/ \E c \in Clients : Handler(c) \/ WritePump(c) \/ PeerFails(c)

Spec == Init /\ [][Next]_vars

-----------------------------------------------------------------------------
(* The state every variable ranges over; a send channel and the broadcast  *)
(* channel never hold more than their capacity.                            *)
TypeOK ==
    /\ started \in BOOLEAN /\ done \in BOOLEAN
    /\ lpc \in {"select", "insert", "remove", "dispatch", "exited"}
    /\ lcli \in Clients \cup {NoClient} /\ lmsg \in Nat
    /\ lpc \in {"insert", "remove"} => lcli \in Clients
    /\ clients \subseteq Clients
    /\ rooms \in [Rooms -> SUBSET Clients]
    /\ joined \in [Clients -> SUBSET Rooms]
    /\ log \in Seq(Targets)
    /\ broadcast \in Seq(Nat) /\ Len(broadcast) <= BroadcastCap
    /\ send \in [Clients -> Seq(Nat)]
    /\ \A c \in Clients : Len(send[c]) <= SendBuf
    /\ closed \in [Clients -> BOOLEAN]
    /\ conn \in [Clients -> {"open", "closed"}]
    /\ hpc \in [Clients -> {"none", "registering", "reading",
                             "unregistering", "gone"}]
    /\ pend \in [Clients -> SUBSET Targets]
    /\ wpc \in [Clients -> {"none", "run", "gone"}]
    /\ out \in [Clients -> Seq(Nat)]

InRoom(c) == \E r \in Rooms : c \in rooms[r]

(* dispatch sends to h.clients or to the members of a room: none of them   *)
(* has a closed send channel, so neither dispatch nor a second close       *)
(* panics, whatever the order of registration, Close and removal.          *)
NoSendOnClosed ==
    \A c \in Clients : c \in clients \/ InRoom(c) => ~closed[c]

LoopHolds(c, pc) == lpc = pc /\ lcli = c

RemovalPending(c) == LoopHolds(c, "remove")

HandlerLives(c) == hpc[c] \in {"registering", "reading", "unregistering"}

(* Until Close, the hub keeps no client, in its set or in a room, whose    *)
(* handler has returned and is not about to be removed by the loop.        *)
OpenHubKeepsLiveOnly ==
    ~done => \A c \in Clients :
                c \in clients \/ InRoom(c) => HandlerLives(c) \/ RemovalPending(c)

(* The inductive invariant behind the two: where a client can be, given    *)
(* what its handler has done and what the loop holds.                      *)
HubInv ==
    \A c \in Clients :
        /\ \A r \in Rooms : c \in rooms[r] => r \in joined[c]
        /\ closed[c] => /\ hpc[c] = "gone" /\ c \notin clients /\ ~InRoom(c)
                        /\ ~LoopHolds(c, "insert")
        /\ hpc[c] \in {"none", "registering"} =>
             c \notin clients /\ ~LoopHolds(c, "insert")
        /\ hpc[c] = "none" => joined[c] = {}
        /\ hpc[c] \in {"reading", "unregistering"} =>
             c \in clients \/ LoopHolds(c, "insert")
        /\ LoopHolds(c, "insert") => c \notin clients
        /\ LoopHolds(c, "remove") => hpc[c] = "gone" /\ c \in clients

(* The hub is a feed with rooms: what is written to a connection is meant  *)
(* for that client and comes in the one order of the broadcast channel,    *)
(* nothing twice, whatever is dropped on the way.                          *)
Feed == INSTANCE RoomFeed WITH Subscribers <- Clients, got <- out
FeedSpec == Feed!Spec

Forgotten(c) ==
    /\ hpc[c] = "gone" /\ lcli # c
    /\ c \notin clients /\ ~InRoom(c)

(* A hub that stays open forgets each client whose connection has failed,  *)
(* however full its channels are.                                          *)
OpenHubForgets ==
    \A c \in Clients : conn[c] = "closed" ~> done \/ Forgotten(c)

(* "Register and unregister do not hang after Close" (ws.go:232), and      *)
(* neither does a broadcast that found the buffer full.                    *)
CloseReleases ==
    \A c \in Clients :
        /\ (done /\ hpc[c] \in {"registering", "unregistering"})
               ~> hpc[c] \notin {"registering", "unregistering"}
        /\ (done /\ pend[c] # {}) ~> pend[c] = {}

=============================================================================
