---------------------------- MODULE WsHubProofs ----------------------------
(***************************************************************************)
(* Proofs about WsHub, for every set of connections and rooms and every    *)
(* capacity of the channels: it never sends to a closed channel, keeps no  *)
(* client that has gone, and implements RoomFeed.                          *)
(***************************************************************************)
EXTENDS WsHub, SequenceTheorems, TLAPS

(* The variables keep their types and no channel exceeds its capacity.     *)
THEOREM TypeCorrect == Spec => []TypeOK
<1>1. Init => TypeOK
  <2>1. <<>> \in Seq(Nat) /\ <<>> \in Seq(Targets) /\ Len(<<>>) = 0
    BY EmptySeq
  <2>2. BroadcastCap \in Nat /\ SendBuf \in Nat
    BY WsHubAssumption
  <2>3. SUFFICES ASSUME Init PROVE TypeOK
    OBVIOUS
  <2>4. Len(broadcast) <= BroadcastCap /\ \A c \in Clients : Len(send[c]) <= SendBuf
    BY <2>1, <2>2, <2>3 DEF Init
  <2>5. /\ rooms \in [Rooms -> SUBSET Clients] /\ joined \in [Clients -> SUBSET Rooms]
        /\ send \in [Clients -> Seq(Nat)] /\ out \in [Clients -> Seq(Nat)]
        /\ pend \in [Clients -> SUBSET Targets]
    BY <2>1, <2>3 DEF Init
  <2>6. QED
    BY <2>1, <2>3, <2>4, <2>5 DEF Init, TypeOK
<1>2. TypeOK /\ [Next]_vars => TypeOK'
  <2> SUFFICES ASSUME TypeOK, [Next]_vars PROVE TypeOK'
    OBVIOUS
  <2> USE WsHubAssumption DEF TypeOK, Targets, loopVars, hubVars, chanVars, pumpVars
  <2>1. CASE Start
    BY <2>1 DEF Start
  <2>2. CASE Run
    BY <2>2 DEF Run
  <2>3. CASE Close
    BY <2>3 DEF Close
  <2>4. ASSUME NEW r \in Targets, Publish(r) PROVE TypeOK'
    BY <2>4 DEF Publish, Enqueue
  <2>5. CASE LoopInserts
    BY <2>5 DEF LoopInserts
  <2>6. CASE LoopRemoves
    <3>1. CASE lcli \in clients
      <4>1. rooms' \in [Rooms -> SUBSET Clients]
        <5>1. rooms' = [r \in Rooms |-> Remaining(r, lcli)]
          BY <2>6, <3>1 DEF LoopRemoves, RemoveClient
        <5>2. \A r \in Rooms : Remaining(r, lcli) \subseteq Clients
          BY DEF Remaining
        <5>3. QED
          BY <5>1, <5>2
      <4>2. QED
        BY <4>1, <2>6, <3>1 DEF LoopRemoves, RemoveClient
    <3>2. CASE lcli \notin clients
      BY <2>6, <3>2 DEF LoopRemoves, RemoveClient
    <3>3. QED
      BY <3>1, <3>2
  <2>7. CASE LoopReceives
    BY <2>7 DEF LoopReceives, Selecting
  <2>8. CASE LoopDispatches
    BY <2>8 DEF LoopDispatches, HasSpace
  <2>9. CASE LoopExits
    BY <2>9 DEF LoopExits
  <2>10. ASSUME NEW c \in Clients, NEW r \in Targets, Connect(c, r) PROVE TypeOK'
    <3>1. CASE Joins(r)
      <4>1. r \in Rooms
        BY <3>1 DEF Joins
      <4>2. QED
        <5>1. /\ rooms' = [rooms EXCEPT ![r] = @ \cup {c}]
              /\ joined' = [joined EXCEPT ![c] = @ \cup {r}]
          BY <2>10, <3>1 DEF Connect, JoinRoom
        <5>2. rooms' \in [Rooms -> SUBSET Clients]
          BY <5>1, <4>1
        <5>3. joined' \in [Clients -> SUBSET Rooms]
          BY <5>1, <4>1
        <5>4. QED
          BY <2>10, <5>2, <5>3 DEF Connect
    <3>2. CASE ~Joins(r)
      BY <2>10, <3>2 DEF Connect
    <3>3. QED
      BY <3>1, <3>2
  <2>11. ASSUME NEW c \in Clients,
                UpgradeFails(c) \/ RegisterLost(c) \/ LoopRegisters(c)
                  \/ LoopUnregisters(c)
         PROVE  TypeOK'
    <3>1. CASE UpgradeFails(c)
      BY <3>1 DEF UpgradeFails
    <3>2. CASE RegisterLost(c)
      BY <3>2 DEF RegisterLost
    <3>3. CASE LoopRegisters(c)
      BY <3>3 DEF LoopRegisters
    <3>4. CASE LoopUnregisters(c)
      BY <3>4 DEF LoopUnregisters
    <3>5. QED
      BY <2>11, <3>1, <3>2, <3>3, <3>4
  <2>12. ASSUME NEW c \in Clients, Read(c) \/ PostAbandoned(c) \/ ReadEnds(c)
         PROVE  TypeOK'
    <3>1. CASE Read(c)
      BY <3>1 DEF Read
    <3>2. CASE PostAbandoned(c)
      BY <3>2 DEF PostAbandoned
    <3>3. CASE ReadEnds(c)
      BY <3>3 DEF ReadEnds
    <3>4. QED
      BY <2>12, <3>1, <3>2, <3>3
  <2>13. ASSUME NEW c \in Clients, Post(c) PROVE TypeOK'
    BY <2>13 DEF Post, Enqueue
  <2>14. ASSUME NEW c \in Clients, UnregisterAfterClose(c) PROVE TypeOK'
    <3>1. CASE c \in clients
      <4>1. rooms' \in [Rooms -> SUBSET Clients]
        <5>1. rooms' = [r \in Rooms |-> Remaining(r, c)]
          BY <2>14, <3>1 DEF UnregisterAfterClose, RemoveClient
        <5>2. \A r \in Rooms : Remaining(r, c) \subseteq Clients
          BY DEF Remaining
        <5>3. QED
          BY <5>1, <5>2
      <4>2. QED
        BY <4>1, <2>14, <3>1 DEF UnregisterAfterClose, RemoveClient
    <3>2. CASE c \notin clients
      BY <2>14, <3>2 DEF UnregisterAfterClose, RemoveClient
    <3>3. QED
      BY <3>1, <3>2
  <2>15. ASSUME NEW c \in Clients, Write(c) PROVE TypeOK'
    BY <2>15 DEF Write
  <2>16. ASSUME NEW c \in Clients, WriteFails(c) \/ WriteClose(c) \/ PingFails(c)
         PROVE  TypeOK'
    <3>1. CASE WriteFails(c)
      BY <3>1, HeadTailProperties DEF WriteFails, WritePumpEnds
    <3>2. CASE WriteClose(c) \/ PingFails(c)
      <4>1. WritePumpEnds(c) /\ UNCHANGED send
        BY <3>2 DEF WriteClose, PingFails
      <4>2. QED
        BY <4>1 DEF WritePumpEnds
    <3>3. QED
      BY <2>16, <3>1, <3>2
  <2>17. ASSUME NEW c \in Clients, PeerFails(c) PROVE TypeOK'
    BY <2>17 DEF PeerFails
  <2>18. CASE UNCHANGED vars
    BY <2>18 DEF vars
  <2>19. QED
    BY <2>1, <2>2, <2>3, <2>4, <2>5, <2>6, <2>7, <2>8, <2>9, <2>10, <2>11,
       <2>12, <2>13, <2>14, <2>15, <2>16, <2>17, <2>18
       DEF Next, Loop, Handler, WritePump
<1>3. QED
  BY <1>1, <1>2, PTL DEF Spec

(* HubInv holds initially and is preserved by every step.                  *)
LEMMA HubInvInductive == Spec => []HubInv
<1>1. Init => HubInv
  BY WsHubAssumption DEF Init, HubInv, InRoom, LoopHolds
<1>2. TypeOK /\ HubInv /\ [Next]_vars => HubInv'
  <2> SUFFICES ASSUME TypeOK, HubInv, [Next]_vars PROVE HubInv'
    OBVIOUS
  <2> USE DEF TypeOK, HubInv, InRoom, LoopHolds
  (* Steps that touch neither the hub's maps nor who stands where.         *)
  <2>1. CASE /\ UNCHANGED <<clients, rooms, joined, closed, hpc, lcli>>
             /\ \/ lpc' = lpc
                \/ /\ lpc \in {"select", "dispatch"}
                   /\ lpc' \in {"select", "dispatch", "exited"}
    BY <2>1
  <2>2. CASE LoopInserts
    <3>1. /\ lcli \in Clients /\ clients' = clients \cup {lcli}
          /\ lpc = "insert" /\ lpc' = "select"
          /\ UNCHANGED <<rooms, joined, closed, hpc>>
      BY <2>2 DEF LoopInserts, pumpVars
    <3>2. QED
      BY <3>1
  <2>3. CASE LoopRemoves
    <3>1. lcli \in clients /\ lcli \in Clients /\ hpc[lcli] = "gone"
      BY <2>3 DEF LoopRemoves
    <3>2. /\ clients' = clients \ {lcli}
          /\ rooms' = [r \in Rooms |-> Remaining(r, lcli)]
          /\ closed' = [closed EXCEPT ![lcli] = TRUE]
          /\ lpc' = "select" /\ UNCHANGED <<joined, hpc>>
      BY <2>3, <3>1 DEF LoopRemoves, RemoveClient
    <3>3. \A r \in Rooms : rooms'[r] \subseteq rooms[r] /\ lcli \notin rooms'[r]
      BY <3>1, <3>2 DEF Remaining
    <3>4. QED
      BY <3>1, <3>2, <3>3
  <2>4. ASSUME NEW c \in Clients, NEW r \in Targets, Connect(c, r) PROVE HubInv'
    <3>1. /\ hpc[c] = "none" /\ ~closed[c]
          /\ hpc' = [hpc EXCEPT ![c] = "registering"]
          /\ UNCHANGED <<clients, closed, lpc, lcli>>
      BY <2>4 DEF Connect, loopVars
    <3>2. CASE Joins(r)
      <4>1. /\ r \in Rooms
            /\ rooms' = [rooms EXCEPT ![r] = @ \cup {c}]
            /\ joined' = [joined EXCEPT ![c] = @ \cup {r}]
        BY <2>4, <3>2 DEF Connect, Joins, JoinRoom, Targets
      <4>2. QED
        BY <3>1, <4>1
    <3>3. CASE ~Joins(r)
      BY <2>4, <3>1, <3>3 DEF Connect
    <3>4. QED
      BY <3>2, <3>3
  <2>5. ASSUME NEW c \in Clients, UpgradeFails(c) PROVE HubInv'
    BY <2>5 DEF UpgradeFails, loopVars, hubVars
  <2>6. ASSUME NEW c \in Clients, RegisterLost(c) PROVE HubInv'
    BY <2>6 DEF RegisterLost, loopVars, hubVars
  <2>7. ASSUME NEW c \in Clients, LoopRegisters(c) PROVE HubInv'
    BY <2>7 DEF LoopRegisters, Selecting, hubVars
  <2>8. ASSUME NEW c \in Clients, LoopUnregisters(c) PROVE HubInv'
    BY <2>8 DEF LoopUnregisters, Selecting, hubVars
  <2>9. ASSUME NEW c \in Clients, ReadEnds(c) PROVE HubInv'
    BY <2>9 DEF ReadEnds, loopVars, hubVars
  <2>10. ASSUME NEW c \in Clients, UnregisterAfterClose(c) PROVE HubInv'
    <3>1. /\ hpc[c] = "unregistering" /\ hpc' = [hpc EXCEPT ![c] = "gone"]
          /\ UNCHANGED <<joined, lpc, lcli>>
      BY <2>10 DEF UnregisterAfterClose, loopVars
    <3>2. CASE c \in clients
      <4>1. /\ clients' = clients \ {c}
            /\ rooms' = [r \in Rooms |-> Remaining(r, c)]
            /\ closed' = [closed EXCEPT ![c] = TRUE]
        BY <2>10, <3>2 DEF UnregisterAfterClose, RemoveClient
      <4>2. \A r \in Rooms : rooms'[r] \subseteq rooms[r] /\ c \notin rooms'[r]
        BY <4>1 DEF Remaining
      <4>3. ~LoopHolds(c, "insert")
        BY <3>2
      <4>4. QED
        BY <3>1, <4>1, <4>2, <4>3
    <3>3. CASE c \notin clients
      <4>1. UNCHANGED <<clients, rooms, closed>>
        BY <2>10, <3>3 DEF UnregisterAfterClose, RemoveClient
      <4>2. QED
        BY <3>1, <3>3, <4>1
    <3>4. QED
      BY <3>2, <3>3
  <2>11. ASSUME NEW c \in Clients, WritePump(c) \/ Read(c) \/ Post(c)
                                  \/ PostAbandoned(c) \/ PeerFails(c)
         PROVE  UNCHANGED <<clients, rooms, joined, closed, hpc, lcli, lpc>>
    <3> USE DEF loopVars, hubVars
    <3>1. CASE WritePump(c)
      BY <3>1 DEF WritePump, Write, WriteFails, WriteClose, PingFails,
         WritePumpEnds, pumpVars
    <3>2. CASE Read(c) \/ PostAbandoned(c) \/ PeerFails(c)
      BY <3>2 DEF Read, PostAbandoned, PeerFails
    <3>3. CASE Post(c)
      BY <3>3 DEF Post
    <3>4. QED
      BY <2>11, <3>1, <3>2, <3>3
  <2>12. CASE \/ Start \/ Run \/ Close \/ LoopReceives \/ LoopDispatches
              \/ LoopExits \/ UNCHANGED vars \/ \E r \in Targets : Publish(r)
    <3> USE DEF loopVars, hubVars, pumpVars
    <3>1. CASE Start \/ Run \/ Close \/ UNCHANGED vars
      BY <2>1, <3>1 DEF Start, Run, Close, vars
    <3>2. CASE LoopReceives \/ LoopDispatches \/ LoopExits
      BY <2>1, <3>2 DEF LoopReceives, LoopDispatches, LoopExits, Selecting
    <3>3. CASE \E r \in Targets : Publish(r)
      BY <2>1, <3>3 DEF Publish
    <3>4. QED
      BY <2>12, <3>1, <3>2, <3>3
  <2>13. QED
    BY <2>1, <2>2, <2>3, <2>4, <2>5, <2>6, <2>7, <2>8, <2>9, <2>10, <2>11,
       <2>12 DEF Next, Loop, Handler
<1>3. QED
  BY <1>1, <1>2, TypeCorrect, PTL DEF Spec

(* No client in the set or in a room has a closed send channel, so neither *)
(* dispatch nor removeClient panics.                                       *)
THEOREM NeverSendsOnClosed == Spec => []NoSendOnClosed
<1>1. HubInv => NoSendOnClosed
  BY DEF HubInv, NoSendOnClosed
<1>2. QED
  BY <1>1, HubInvInductive, PTL

(* What a hub that is not closed keeps, strengthened by the client the     *)
(* loop has received and not inserted yet.                                 *)
OpenHubInv ==
    ~done => \A c \in Clients :
                c \in clients \/ InRoom(c) \/ LoopHolds(c, "insert")
                  => HandlerLives(c) \/ RemovalPending(c)

(* An open hub keeps only clients whose handler has not returned, or which *)
(* the loop is about to remove.                                            *)
THEOREM OpenHubKeepsLive == Spec => []OpenHubKeepsLiveOnly
<1>1. Init => OpenHubInv
  BY WsHubAssumption DEF Init, OpenHubInv, InRoom, LoopHolds
<1>2. TypeOK /\ HubInv /\ OpenHubInv /\ [Next]_vars => OpenHubInv'
  <2> SUFFICES ASSUME TypeOK, HubInv, OpenHubInv, [Next]_vars, ~done'
               PROVE  OpenHubInv'
    BY DEF OpenHubInv
  <2> USE DEF TypeOK, OpenHubInv, InRoom, LoopHolds, HandlerLives, RemovalPending
  <2>1. CASE /\ UNCHANGED <<clients, rooms, hpc, lcli, done>>
             /\ \/ lpc' = lpc
                \/ /\ lpc \in {"select", "dispatch"}
                   /\ lpc' \in {"select", "dispatch", "exited"}
    BY <2>1
  <2>2. CASE LoopInserts
    <3>1. /\ lcli \in Clients /\ clients' = clients \cup {lcli}
          /\ lpc = "insert" /\ lpc' = "select"
          /\ UNCHANGED <<rooms, hpc, done>>
      BY <2>2 DEF LoopInserts, pumpVars
    <3>2. QED
      BY <3>1
  <2>3. CASE LoopRemoves
    <3>1. lcli \in clients /\ lcli \in Clients
      BY <2>3 DEF LoopRemoves, HubInv
    <3>2. /\ clients' = clients \ {lcli}
          /\ rooms' = [r \in Rooms |-> Remaining(r, lcli)]
          /\ lpc = "remove" /\ lpc' = "select" /\ UNCHANGED <<hpc, done>>
      BY <2>3, <3>1 DEF LoopRemoves, RemoveClient
    <3>3. \A r \in Rooms : rooms'[r] \subseteq rooms[r] /\ lcli \notin rooms'[r]
      BY <3>1, <3>2 DEF Remaining, HubInv
    <3>4. QED
      BY <3>1, <3>2, <3>3
  <2>4. ASSUME NEW c \in Clients, NEW r \in Targets, Connect(c, r)
        PROVE  OpenHubInv'
    <3>1. /\ hpc' = [hpc EXCEPT ![c] = "registering"]
          /\ UNCHANGED <<done, clients, lpc, lcli>>
      BY <2>4 DEF Connect, loopVars
    <3>2. \A d \in Clients \ {c} : InRoom(d)' => InRoom(d)
      <4>1. CASE Joins(r)
        <5>1. r \in Rooms /\ rooms' = [rooms EXCEPT ![r] = @ \cup {c}]
          BY <2>4, <4>1 DEF Connect, Joins, JoinRoom, Targets
        <5>2. QED
          BY <5>1
      <4>2. CASE ~Joins(r)
        BY <2>4, <4>2 DEF Connect
      <4>3. QED
        BY <4>1, <4>2
    <3>3. QED
      BY <3>1, <3>2
  <2>5. ASSUME NEW c \in Clients, UpgradeFails(c) PROVE OpenHubInv'
    BY <2>5 DEF UpgradeFails, loopVars, hubVars, HubInv
  <2>6. ASSUME NEW c \in Clients, LoopRegisters(c) PROVE OpenHubInv'
    BY <2>6 DEF LoopRegisters, Selecting, hubVars
  <2>7. ASSUME NEW c \in Clients, LoopUnregisters(c) PROVE OpenHubInv'
    BY <2>7 DEF LoopUnregisters, Selecting, hubVars
  <2>8. ASSUME NEW c \in Clients, ReadEnds(c) PROVE OpenHubInv'
    BY <2>8 DEF ReadEnds, loopVars, hubVars
  <2>9. ASSUME NEW c \in Clients, RegisterLost(c) \/ UnregisterAfterClose(c)
        PROVE  FALSE
    BY <2>9 DEF RegisterLost, UnregisterAfterClose
  <2>10. ASSUME NEW c \in Clients, WritePump(c) \/ Read(c) \/ Post(c)
                                  \/ PostAbandoned(c) \/ PeerFails(c)
         PROVE  UNCHANGED <<clients, rooms, hpc, lcli, done, lpc>>
    <3> USE DEF loopVars, hubVars
    <3>1. CASE WritePump(c)
      BY <3>1 DEF WritePump, Write, WriteFails, WriteClose, PingFails,
         WritePumpEnds, pumpVars
    <3>2. CASE Read(c) \/ PostAbandoned(c) \/ PeerFails(c)
      BY <3>2 DEF Read, PostAbandoned, PeerFails
    <3>3. CASE Post(c)
      BY <3>3 DEF Post
    <3>4. QED
      BY <2>10, <3>1, <3>2, <3>3
  <2>11. CASE \/ Start \/ Run \/ Close \/ LoopReceives \/ LoopDispatches
              \/ LoopExits \/ UNCHANGED vars \/ \E r \in Targets : Publish(r)
    <3> USE DEF loopVars, hubVars, pumpVars
    <3>1. CASE Start \/ Run \/ Close \/ UNCHANGED vars
      BY <2>1, <3>1 DEF Start, Run, Close, vars
    <3>2. CASE LoopReceives \/ LoopDispatches \/ LoopExits
      BY <2>1, <3>2 DEF LoopReceives, LoopDispatches, LoopExits, Selecting
    <3>3. CASE \E r \in Targets : Publish(r)
      BY <2>1, <3>3 DEF Publish
    <3>4. QED
      BY <2>11, <3>1, <3>2, <3>3
  <2>12. QED
    BY <2>1, <2>2, <2>3, <2>4, <2>5, <2>6, <2>7, <2>8, <2>9, <2>10, <2>11
       DEF Next, Loop, Handler
<1>3. OpenHubInv => OpenHubKeepsLiveOnly
  BY DEF OpenHubInv, OpenHubKeepsLiveOnly
<1>4. QED
  BY <1>1, <1>2, <1>3, TypeCorrect, HubInvInductive, PTL DEF Spec

-----------------------------------------------------------------------------
(* A message is behind the loop when the loop has neither it nor an        *)
(* earlier one still to send.                                              *)
Ascending(q) == \A i, j \in 1 .. Len(q) : i < j => q[i] < q[j]

Behind(m) ==
    /\ m <= Len(log)
    /\ lpc = "dispatch" => m < lmsg
    /\ \A i \in 1 .. Len(broadcast) : m < broadcast[i]

(* What the loop still has to send: accepted messages, in their order.     *)
QueueInv ==
    /\ Ascending(broadcast)
    /\ \A i \in 1 .. Len(broadcast) : broadcast[i] \in 1 .. Len(log)
    /\ lpc = "dispatch" =>
         /\ lmsg \in 1 .. Len(log)
         /\ \A i \in 1 .. Len(broadcast) : lmsg < broadcast[i]

(* What a client has received and has still to receive: messages for it,   *)
(* in their order, all behind the loop; nothing before it connects.        *)
ClientInv(c) ==
    /\ Behind(Feed!LastOf(out[c]))
    /\ Ascending(send[c])
    /\ \A i \in 1 .. Len(send[c]) :
         /\ Feed!LastOf(out[c]) < send[c][i]
         /\ Behind(send[c][i])
         /\ send[c][i] > 0 /\ Feed!Addressed(send[c][i], c)
    /\ hpc[c] = "none" => send[c] = <<>> /\ out[c] = <<>>

FeedInv == QueueInv /\ \A c \in Clients : ClientInv(c)

(* The first and the later elements of a queue that is not empty.          *)
LEMMA TailElements ==
  ASSUME NEW q \in Seq(Nat), q # <<>>
  PROVE  /\ Tail(q) \in Seq(Nat) /\ Len(q) \in Nat \ {0} /\ Len(Tail(q)) = Len(q) - 1
         /\ Head(q) = q[1] /\ Head(q) \in Nat
         /\ \A i \in 1 .. Len(Tail(q)) : i + 1 \in 1 .. Len(q) /\ Tail(q)[i] = q[i + 1]
<1>1. Tail(q) \in Seq(Nat) /\ Len(Tail(q)) = Len(q) - 1 /\ Len(q) \in Nat \ {0}
  BY HeadTailProperties, LenProperties, EmptySeq
<1>2. QED
  BY <1>1

(* A queue stays in order when its head is taken, and the head was below   *)
(* all that is left.                                                       *)
LEMMA AscendingTail ==
  ASSUME NEW q \in Seq(Nat), q # <<>>, Ascending(q)
  PROVE  /\ Ascending(Tail(q))
         /\ \A i \in 1 .. Len(Tail(q)) : Head(q) < Tail(q)[i]
<1>1. \A i \in 1 .. Len(Tail(q)) : i + 1 \in 1 .. Len(q) /\ Tail(q)[i] = q[i + 1]
  BY TailElements
<1>2. 1 \in 1 .. Len(q) /\ Head(q) = q[1]
  BY TailElements
<1>3. \A i \in 1 .. Len(Tail(q)) : Head(q) < Tail(q)[i]
  BY <1>1, <1>2 DEF Ascending
<1>4. ASSUME NEW i \in 1 .. Len(Tail(q)), NEW j \in 1 .. Len(Tail(q)), i < j
      PROVE  Tail(q)[i] < Tail(q)[j]
  BY <1>1, <1>4 DEF Ascending
<1>5. QED
  BY <1>3, <1>4 DEF Ascending

(* The elements of a queue that grew at its end.                           *)
LEMMA AppendElements ==
  ASSUME NEW q \in Seq(Nat), NEW m \in Nat
  PROVE  /\ Append(q, m) \in Seq(Nat) /\ Append(q, m) # <<>>
         /\ Len(q) \in Nat /\ Len(Append(q, m)) = Len(q) + 1
         /\ Append(q, m)[Len(q) + 1] = m
         /\ \A i \in 1 .. Len(Append(q, m)) :
              i # Len(q) + 1 => i \in 1 .. Len(q) /\ Append(q, m)[i] = q[i]
  BY AppendProperties, LenProperties, EmptySeq

(* A queue stays in order when what is appended is above all of it.        *)
LEMMA AscendingAppend ==
  ASSUME NEW q \in Seq(Nat), NEW m \in Nat, Ascending(q),
         \A i \in 1 .. Len(q) : q[i] < m
  PROVE  Ascending(Append(q, m))
<1>1. ASSUME NEW i \in 1 .. Len(Append(q, m)), NEW j \in 1 .. Len(Append(q, m)), i < j
      PROVE  Append(q, m)[i] < Append(q, m)[j]
  <2>1. Len(q) \in Nat /\ i # Len(q) + 1
    BY <1>1, AppendElements
  <2>2. i \in 1 .. Len(q) /\ Append(q, m)[i] = q[i]
    BY <2>1, AppendElements
  <2>3. CASE j = Len(q) + 1
    BY <2>2, <2>3, AppendElements
  <2>4. CASE j # Len(q) + 1
    BY <1>1, <2>2, <2>4, AppendElements DEF Ascending
  <2>5. QED
    BY <2>3, <2>4
<1>2. QED
  BY <1>1 DEF Ascending

(* The last element of a queue of numbers, 0 of an empty one.              *)
LEMMA LastOfAppend ==
  ASSUME NEW q \in Seq(Nat), NEW m \in Nat
  PROVE  Feed!LastOf(Append(q, m)) = m /\ Feed!LastOf(q) \in Nat
<1>1. Feed!LastOf(Append(q, m)) = m
  BY AppendElements DEF Feed!LastOf
<1>2. Feed!LastOf(q) \in Nat
  BY LenProperties, EmptySeq DEF Feed!LastOf
<1>3. QED
  BY <1>1, <1>2

-----------------------------------------------------------------------------
(* What a step can do to messages on their way.                            *)
Quiet ==
    /\ UNCHANGED <<log, broadcast, lmsg, send, out, joined>>
    /\ lpc' = "dispatch" <=> lpc = "dispatch"
    /\ \A c \in Clients : hpc'[c] = "none" => hpc[c] = "none"

Accepts(r) ==
    /\ Enqueue(r)
    /\ UNCHANGED <<lpc, lmsg, send, out, joined, hpc>>

JoinsFirst(c, r) ==
    /\ hpc[c] = "none" /\ hpc' = [hpc EXCEPT ![c] = "registering"]
    /\ joined' = [joined EXCEPT ![c] = @ \cup {r}]
    /\ UNCHANGED <<log, broadcast, lpc, lmsg, send, out>>

Takes(c) ==
    /\ send[c] # <<>> /\ send' = [send EXCEPT ![c] = Tail(@)]
    /\ \/ UNCHANGED out
       \/ out' = [out EXCEPT ![c] = Append(@, Head(send[c]))]
    /\ UNCHANGED <<log, broadcast, lpc, lmsg, joined, hpc>>

(* Every step is one of these.                                             *)
LEMMA StepKinds ==
  ASSUME TypeOK, [Next]_vars
  PROVE  \/ Quiet
         \/ \E r \in Targets : Accepts(r)
         \/ LoopReceives \/ LoopDispatches
         \/ \E c \in Clients, r \in Rooms : JoinsFirst(c, r)
         \/ \E c \in Clients : Takes(c)
<1> USE DEF loopVars, hubVars, chanVars, pumpVars
<1>1. CASE \/ Start \/ Run \/ Close \/ LoopInserts \/ LoopRemoves \/ LoopExits
           \/ UNCHANGED vars
  BY <1>1 DEF Start, Run, Close, LoopInserts, LoopRemoves, LoopExits, Selecting,
     Quiet, vars
<1>2. CASE \E r \in Targets : Publish(r)
  BY <1>2 DEF Publish, Accepts
<1>3. ASSUME NEW c \in Clients, NEW r \in Targets, Connect(c, r)
      PROVE  Quiet \/ \E d \in Clients, t \in Rooms : JoinsFirst(d, t)
  <2>1. CASE Joins(r)
    <3>1. r \in Rooms
      BY <2>1 DEF Joins, Targets
    <3>2. JoinsFirst(c, r)
      BY <1>3, <2>1 DEF Connect, JoinRoom, JoinsFirst
    <3>3. QED
      BY <3>1, <3>2
  <2>2. CASE ~Joins(r)
    <3>1. /\ UNCHANGED <<log, broadcast, lmsg, send, out, joined, lpc>>
          /\ hpc' = [hpc EXCEPT ![c] = "registering"]
      BY <1>3, <2>2 DEF Connect
    <3>2. QED
      BY <3>1 DEF Quiet, TypeOK
  <2>3. QED
    BY <2>1, <2>2
<1>4. ASSUME NEW c \in Clients, UpgradeFails(c) \/ RegisterLost(c) \/ ReadEnds(c)
      PROVE  Quiet
  <2>1. /\ UNCHANGED <<log, broadcast, lmsg, send, out, joined, lpc>>
        /\ \E pc \in {"gone", "unregistering"} : hpc' = [hpc EXCEPT ![c] = pc]
    BY <1>4 DEF UpgradeFails, RegisterLost, ReadEnds
  <2>2. QED
    BY <2>1 DEF Quiet, TypeOK
<1>5. ASSUME NEW c \in Clients,
             LoopRegisters(c) \/ LoopUnregisters(c) \/ UnregisterAfterClose(c)
      PROVE  Quiet
  <2>1. /\ UNCHANGED <<log, broadcast, lmsg, send, out, joined>>
        /\ lpc' = lpc \/ (lpc = "select" /\ lpc' \in {"insert", "remove"})
        /\ \E pc \in {"reading", "gone"} : hpc' = [hpc EXCEPT ![c] = pc]
    BY <1>5 DEF LoopRegisters, LoopUnregisters, UnregisterAfterClose, Selecting
  <2>2. QED
    BY <2>1 DEF Quiet, TypeOK
<1>6. ASSUME NEW c \in Clients, Read(c) \/ PostAbandoned(c) \/ PeerFails(c)
      PROVE  Quiet
  BY <1>6 DEF Read, PostAbandoned, PeerFails, Quiet
<1>7. ASSUME NEW c \in Clients, Post(c) PROVE \E r \in Targets : Accepts(r)
  <2>1. PICK r \in pend[c] : Enqueue(r) /\ UNCHANGED <<lpc, lmsg, send, out, joined, hpc>>
    BY <1>7 DEF Post
  <2>2. r \in Targets
    BY DEF TypeOK
  <2>3. QED
    BY <2>1, <2>2 DEF Accepts
<1>8. ASSUME NEW c \in Clients, WritePump(c) PROVE Quiet \/ Takes(c)
  <2>1. CASE Write(c)
    BY <2>1 DEF Write, Takes
  <2>2. CASE WriteFails(c)
    BY <2>2 DEF WriteFails, WritePumpEnds, Takes
  <2>3. CASE WriteClose(c) \/ PingFails(c)
    BY <2>3 DEF WriteClose, PingFails, WritePumpEnds, Quiet
  <2>4. QED
    BY <1>8, <2>1, <2>2, <2>3 DEF WritePump
<1>9. QED
  BY <1>1, <1>2, <1>3, <1>4, <1>5, <1>6, <1>7, <1>8 DEF Next, Loop, Handler

(* An accepted message comes after all those the queue holds.              *)
LEMMA AcceptsLast ==
  ASSUME TypeOK, QueueInv, NEW r \in Targets, Accepts(r)
  PROVE  /\ log \in Seq(Targets) /\ Len(log) \in Nat /\ Len(log') = Len(log) + 1
         /\ log'[Len(log) + 1] = r
         /\ \A i \in 1 .. Len(log) : log'[i] = log[i]
         /\ broadcast' = Append(broadcast, Len(log) + 1)
         /\ \A i \in 1 .. Len(broadcast) : broadcast[i] < Len(log) + 1
<1>1. log' = Append(log, r) /\ broadcast' = Append(broadcast, Len(log) + 1)
  BY DEF Accepts, Enqueue
<1>2. log \in Seq(Targets)
  BY DEF TypeOK
<1>3. Len(log) \in Nat
  BY <1>2, LenProperties
<1>4. /\ Len(log') = Len(log) + 1 /\ log'[Len(log) + 1] = r
      /\ \A i \in 1 .. Len(log) : log'[i] = log[i]
  BY <1>1, <1>2, <1>3, AppendProperties
<1>5. \A i \in 1 .. Len(broadcast) : broadcast[i] < Len(log) + 1
  BY <1>3 DEF QueueInv
<1>6. QED
  BY <1>1, <1>2, <1>3, <1>4, <1>5

(* Once behind the loop, a message stays there.                            *)
LEMMA BehindStays ==
  ASSUME TypeOK, QueueInv, [Next]_vars, NEW m \in Nat, Behind(m)
  PROVE  Behind(m)'
<1>1. CASE Quiet
  BY <1>1 DEF Quiet, Behind
<1>2. ASSUME NEW r \in Targets, Accepts(r) PROVE Behind(m)'
  <2>1. Len(log) \in Nat /\ Len(log') = Len(log) + 1 /\ m < Len(log) + 1
    BY <1>2, AcceptsLast DEF Behind
  <2>2. UNCHANGED <<lpc, lmsg>>
    BY <1>2 DEF Accepts
  <2>3. broadcast \in Seq(Nat) /\ broadcast' = Append(broadcast, Len(log) + 1)
    BY <1>2, AcceptsLast DEF TypeOK
  <2>4. ASSUME NEW i \in 1 .. Len(broadcast') PROVE m < broadcast'[i]
    <3>1. CASE i = Len(broadcast) + 1
      BY <2>1, <2>3, <3>1, AppendElements
    <3>2. CASE i # Len(broadcast) + 1
      BY <2>1, <2>3, <3>2, AppendElements DEF Behind
    <3>3. QED
      BY <3>1, <3>2
  <2>5. QED
    BY <2>1, <2>2, <2>4 DEF Behind
<1>3. CASE LoopReceives
  <2>1. /\ broadcast # <<>> /\ lmsg' = Head(broadcast) /\ broadcast' = Tail(broadcast)
        /\ log' = log
    BY <1>3 DEF LoopReceives
  <2>2. broadcast \in Seq(Nat)
    BY DEF TypeOK
  <2>3. m < lmsg'
    BY <2>1, <2>2, TailElements DEF Behind
  <2>4. \A i \in 1 .. Len(broadcast') : m < broadcast'[i]
    BY <2>1, <2>2, TailElements DEF Behind
  <2>5. QED
    BY <2>1, <2>3, <2>4 DEF Behind
<1>4. CASE LoopDispatches
  BY <1>4 DEF LoopDispatches, Behind, chanVars
<1>5. ASSUME NEW c \in Clients, NEW r \in Rooms, JoinsFirst(c, r) PROVE Behind(m)'
  BY <1>5 DEF JoinsFirst, Behind
<1>6. ASSUME NEW c \in Clients, Takes(c) PROVE Behind(m)'
  BY <1>6 DEF Takes, Behind
<1>7. QED
  BY <1>1, <1>2, <1>3, <1>4, <1>5, <1>6, StepKinds

(* What the loop has still to send stays in order.                         *)
LEMMA QueueStep == TypeOK /\ QueueInv /\ [Next]_vars => QueueInv'
<1> SUFFICES ASSUME TypeOK, QueueInv, [Next]_vars PROVE QueueInv'
  OBVIOUS
<1>1. broadcast \in Seq(Nat) /\ log \in Seq(Targets) /\ Len(log) \in Nat
  BY LenProperties DEF TypeOK
<1>2. ASSUME UNCHANGED <<log, broadcast, lmsg>>, lpc' = "dispatch" => lpc = "dispatch"
      PROVE  QueueInv'
  BY <1>2 DEF QueueInv, Ascending
<1>3. CASE Quiet \/ \E c \in Clients, r \in Rooms : JoinsFirst(c, r)
  BY <1>2, <1>3 DEF Quiet, JoinsFirst
<1>4. CASE \E c \in Clients : Takes(c)
  BY <1>2, <1>4 DEF Takes
<1>5. CASE LoopDispatches
  <2>1. UNCHANGED <<log, broadcast>> /\ lpc' = "select"
    BY <1>5 DEF LoopDispatches, chanVars
  <2>2. QED
    BY <2>1 DEF QueueInv, Ascending
<1>6. ASSUME NEW r \in Targets, Accepts(r) PROVE QueueInv'
  <2>1. /\ Len(log') = Len(log) + 1 /\ broadcast' = Append(broadcast, Len(log) + 1)
        /\ \A i \in 1 .. Len(broadcast) : broadcast[i] < Len(log) + 1
    BY <1>6, AcceptsLast
  <2>2. Ascending(broadcast')
    BY <1>1, <2>1, AscendingAppend DEF QueueInv
  <2>3. \A i \in 1 .. Len(broadcast') :
          \/ broadcast'[i] = Len(log) + 1
          \/ i \in 1 .. Len(broadcast) /\ broadcast'[i] = broadcast[i]
    BY <1>1, <2>1, AppendElements
  <2>4. \A i \in 1 .. Len(broadcast') : broadcast'[i] \in 1 .. Len(log')
    BY <1>1, <2>1, <2>3 DEF QueueInv
  <2>5. UNCHANGED <<lpc, lmsg>>
    BY <1>6 DEF Accepts
  <2>6. ASSUME lpc = "dispatch"
        PROVE  /\ lmsg \in 1 .. Len(log')
               /\ \A i \in 1 .. Len(broadcast') : lmsg < broadcast'[i]
    BY <1>1, <2>1, <2>3, <2>6 DEF QueueInv
  <2>7. QED
    BY <2>2, <2>4, <2>5, <2>6 DEF QueueInv
<1>7. CASE LoopReceives
  <2>1. /\ broadcast # <<>> /\ lmsg' = Head(broadcast) /\ broadcast' = Tail(broadcast)
        /\ log' = log
    BY <1>7 DEF LoopReceives
  <2>2. /\ Ascending(broadcast')
        /\ \A i \in 1 .. Len(broadcast') : lmsg' < broadcast'[i]
    BY <1>1, <2>1, AscendingTail DEF QueueInv
  <2>3. lmsg' \in 1 .. Len(log)
    BY <1>1, <2>1, TailElements DEF QueueInv
  <2>4. \A i \in 1 .. Len(broadcast') : broadcast'[i] \in 1 .. Len(log)
    BY <1>1, <2>1, TailElements DEF QueueInv
  <2>5. QED
    BY <2>1, <2>2, <2>3, <2>4 DEF QueueInv
<1>8. QED
  BY <1>3, <1>4, <1>5, <1>6, <1>7, StepKinds

(* What a message is meant for does not change.                            *)
LEMMA AddressedStays ==
  ASSUME TypeOK, QueueInv, [Next]_vars, NEW c \in Clients, NEW m \in Nat,
         m > 0, m <= Len(log), Feed!Addressed(m, c)
  PROVE  Feed!Addressed(m, c)'
<1>1. CASE Quiet \/ LoopReceives \/ LoopDispatches \/ \E d \in Clients : Takes(d)
  BY <1>1 DEF Quiet, LoopReceives, LoopDispatches, Takes, chanVars, hubVars, Feed!Addressed
<1>2. ASSUME NEW r \in Targets, Accepts(r) PROVE Feed!Addressed(m, c)'
  <2>1. Len(log) \in Nat /\ \A i \in 1 .. Len(log) : log'[i] = log[i]
    BY <1>2, AcceptsLast
  <2>2. log'[m] = log[m] /\ joined' = joined
    BY <1>2, <2>1 DEF Accepts
  <2>3. QED
    BY <2>2 DEF Feed!Addressed
<1>3. ASSUME NEW d \in Clients, NEW r \in Rooms, JoinsFirst(d, r)
      PROVE  Feed!Addressed(m, c)'
  <2>1. log' = log /\ joined[c] \subseteq joined'[c]
    BY <1>3 DEF JoinsFirst, TypeOK
  <2>2. QED
    BY <2>1 DEF Feed!Addressed
<1>4. QED
  BY <1>1, <1>2, <1>3, StepKinds

(* A message kept for a client stays behind the loop and meant for it.     *)
Kept(c, m) ==
    /\ m \in Nat /\ m > 0
    /\ Behind(m)
    /\ Feed!Addressed(m, c)

(* What a client has still to receive is kept.                             *)
LEMMA KeptStays ==
  ASSUME TypeOK, QueueInv, [Next]_vars, NEW c \in Clients, NEW m \in Nat, Kept(c, m)
  PROVE  Kept(c, m)'
<1>1. Behind(m)' /\ m <= Len(log)
  BY BehindStays DEF Kept, Behind
<1>2. Feed!Addressed(m, c)'
  BY <1>1, AddressedStays DEF Kept
<1>3. QED
  BY <1>1, <1>2 DEF Kept

(* A client's messages after a step, from what the step does to them.      *)
LEMMA ClientNext ==
  ASSUME NEW c \in Clients, Ascending(send'[c]),
         NEW last \in Nat, last = Feed!LastOf(out'[c]), Behind(last)',
         \A i \in 1 .. Len(send'[c]) : last < send'[c][i],
         \A i \in 1 .. Len(send'[c]) : \E m \in Nat : m = send'[c][i] /\ Kept(c, m)',
         hpc'[c] = "none" => send'[c] = <<>> /\ out'[c] = <<>>
  PROVE  ClientInv(c)'
<1>1. Behind(Feed!LastOf(out[c]))'
  BY DEF Behind, Feed!LastOf
<1>2. Ascending(send[c])'
  BY DEF Ascending
<1>3. ASSUME NEW i \in 1 .. Len(send'[c])
      PROVE  /\ Feed!LastOf(out'[c]) < send'[c][i]
             /\ Behind(send[c][i])'
             /\ send'[c][i] > 0 /\ Feed!Addressed(send[c][i], c)'
  <2>1. PICK m \in Nat : m = send'[c][i] /\ Kept(c, m)'
    OBVIOUS
  <2>2. QED
    BY <2>1 DEF Kept, Behind, Feed!Addressed
<1>4. QED
  BY <1>1, <1>2, <1>3 DEF ClientInv, Behind, Feed!LastOf, Feed!Addressed

(* A client none of whose messages moves.                                  *)
LEMMA ClientSame ==
  ASSUME TypeOK, QueueInv, [Next]_vars, NEW c \in Clients, ClientInv(c),
         send'[c] = send[c], out'[c] = out[c], hpc'[c] = "none" => hpc[c] = "none"
  PROVE  ClientInv(c)'
<1>1. send[c] \in Seq(Nat) /\ out[c] \in Seq(Nat)
  BY DEF TypeOK
<1>2. PICK last \in Nat : last = Feed!LastOf(out[c])
  BY <1>1, LastOfAppend
<1>3. last = Feed!LastOf(out'[c])
  BY <1>2 DEF Feed!LastOf
<1>4. Behind(last)'
  BY <1>2, BehindStays DEF ClientInv
<1>5. ASSUME NEW i \in 1 .. Len(send[c])
      PROVE  last < send[c][i] /\ \E m \in Nat : m = send[c][i] /\ Kept(c, m)'
  <2>1. PICK m \in Nat : m = send[c][i]
    BY <1>1
  <2>2. Kept(c, m) /\ last < m
    BY <1>2, <2>1 DEF ClientInv, Kept
  <2>3. QED
    BY <2>1, <2>2, KeptStays
<1>6. Ascending(send'[c]) /\ (hpc'[c] = "none" => send'[c] = <<>> /\ out'[c] = <<>>)
  BY DEF ClientInv
<1>7. QED
  BY <1>3, <1>4, <1>5, <1>6, ClientNext

(* dispatch puts the message it holds behind those a client waits for.     *)
LEMMA ClientDispatched ==
  ASSUME TypeOK, HubInv, FeedInv, [Next]_vars, LoopDispatches, NEW c \in Clients
  PROVE  ClientInv(c)'
<1>1. /\ lpc = "dispatch" /\ lpc' = "select"
      /\ send' = [d \in Clients |->
                    IF d \in Audience(log[lmsg]) /\ HasSpace(d)
                    THEN Append(send[d], lmsg) ELSE send[d]]
      /\ UNCHANGED <<log, broadcast, joined, out, hpc>>
  BY DEF LoopDispatches, chanVars, hubVars, pumpVars
<1>2. CASE ~(c \in Audience(log[lmsg]) /\ HasSpace(c))
  <2>1. send'[c] = send[c] /\ out'[c] = out[c] /\ hpc'[c] = hpc[c]
    BY <1>1, <1>2
  <2>2. QED
    BY <2>1, ClientSame DEF FeedInv
<1>3. CASE c \in Audience(log[lmsg]) /\ HasSpace(c)
  <2>1. send'[c] = Append(send[c], lmsg) /\ send[c] \in Seq(Nat) /\ out[c] \in Seq(Nat)
    BY <1>1, <1>3 DEF TypeOK
  <2>2. /\ lmsg \in Nat /\ lmsg > 0 /\ lmsg <= Len(log) /\ Len(log) \in Nat
        /\ \A i \in 1 .. Len(broadcast) : lmsg < broadcast[i]
    BY <1>1, LenProperties DEF FeedInv, QueueInv, TypeOK
  <2>3. \/ log[lmsg] = NoRoom /\ c \in clients
        \/ log[lmsg] \in Rooms /\ c \in rooms[log[lmsg]]
    <3>1. log[lmsg] \in Targets
      BY <2>2 DEF TypeOK
    <3>2. QED
      BY <1>3, <3>1 DEF Audience, Targets
  <2>4. hpc[c] # "none" /\ (log[lmsg] = NoRoom \/ log[lmsg] \in joined[c])
    BY <2>3 DEF HubInv
  <2>5. PICK last \in Nat : last = Feed!LastOf(out[c])
    BY <2>1, LastOfAppend
  <2>6. last = Feed!LastOf(out'[c])
    BY <1>1, <2>5 DEF Feed!LastOf
  <2>7. Behind(last) /\ last < lmsg
    BY <1>1, <2>5 DEF FeedInv, ClientInv, Behind
  <2>8. \A i \in 1 .. Len(send[c]) :
          send[c][i] \in Nat /\ Kept(c, send[c][i]) /\ last < send[c][i] /\ send[c][i] < lmsg
    BY <1>1, <2>1, <2>5 DEF FeedInv, ClientInv, Kept, Behind
  <2>9. Ascending(send'[c])
    BY <2>1, <2>2, <2>8, AscendingAppend DEF FeedInv, ClientInv
  <2>10. ASSUME NEW i \in 1 .. Len(send'[c])
         PROVE  last < send'[c][i] /\ \E m \in Nat : m = send'[c][i] /\ Kept(c, m)'
    <3>1. CASE i = Len(send[c]) + 1
      <4>1. send'[c][i] = lmsg
        BY <2>1, <2>2, <3>1, AppendElements
      <4>2. PICK m \in Nat : m = lmsg
        BY <2>2
      <4>3. Kept(c, m)'
        BY <1>1, <2>2, <2>4, <4>2 DEF Kept, Behind, Feed!Addressed
      <4>4. QED
        BY <2>7, <4>1, <4>2, <4>3
    <3>2. CASE i # Len(send[c]) + 1
      <4>1. i \in 1 .. Len(send[c]) /\ send'[c][i] = send[c][i]
        BY <2>1, <2>2, <3>2, AppendElements
      <4>2. PICK m \in Nat : m = send[c][i] /\ Kept(c, m) /\ last < m
        BY <2>8, <4>1
      <4>3. QED
        BY <4>1, <4>2, KeptStays DEF FeedInv
    <3>3. QED
      BY <3>1, <3>2
  <2>11. Behind(last)'
    BY <2>7, BehindStays DEF FeedInv
  <2>12. hpc'[c] # "none"
    BY <1>1, <2>4
  <2>13. QED
    BY <2>6, <2>9, <2>10, <2>11, <2>12, ClientNext
<1>4. QED
  BY <1>2, <1>3

(* The write pump takes the first of a client's messages, written or lost. *)
LEMMA ClientTakes ==
  ASSUME TypeOK, FeedInv, [Next]_vars, NEW c \in Clients, Takes(c)
  PROVE  ClientInv(c)'
<1>1. /\ send[c] \in Seq(Nat) /\ out[c] \in Seq(Nat) /\ send[c] # <<>>
      /\ send'[c] = Tail(send[c]) /\ hpc'[c] = hpc[c]
      /\ out'[c] = out[c] \/ out'[c] = Append(out[c], Head(send[c]))
  BY DEF TypeOK, Takes
<1>2. PICK head \in Nat : head = Head(send[c])
  BY <1>1, TailElements
<1>3. PICK last \in Nat : last = Feed!LastOf(out[c])
  BY <1>1, LastOfAppend
<1>4. \A i \in 1 .. Len(send[c]) :
        send[c][i] \in Nat /\ Kept(c, send[c][i]) /\ last < send[c][i]
  BY <1>1, <1>3 DEF FeedInv, ClientInv, Kept
<1>5. Behind(last) /\ Behind(head) /\ last < head
  BY <1>1, <1>2, <1>3, <1>4, TailElements DEF FeedInv, ClientInv, Kept
<1>6. PICK new \in {last, head} : new = Feed!LastOf(out'[c])
  <2>1. CASE out'[c] = out[c]
    BY <1>3, <2>1 DEF Feed!LastOf
  <2>2. CASE out'[c] = Append(out[c], Head(send[c]))
    <3>1. Feed!LastOf(Append(out[c], head)) = head
      BY <1>1, LastOfAppend
    <3>2. QED
      BY <1>2, <2>2, <3>1 DEF Feed!LastOf
  <2>3. QED
    BY <1>1, <2>1, <2>2
<1>7. new \in Nat /\ Behind(new)'
  BY <1>5, <1>6, BehindStays DEF FeedInv
<1>8. ASSUME NEW i \in 1 .. Len(send'[c])
      PROVE  new < send'[c][i] /\ \E m \in Nat : m = send'[c][i] /\ Kept(c, m)'
  <2>1. i + 1 \in 1 .. Len(send[c]) /\ send'[c][i] = send[c][i + 1]
    BY <1>1, TailElements
  <2>2. head < send'[c][i]
    BY <1>1, <1>2, AscendingTail DEF FeedInv, ClientInv
  <2>3. PICK m \in Nat : m = send'[c][i] /\ Kept(c, m)
    BY <1>4, <2>1
  <2>4. QED
    BY <1>5, <1>6, <2>2, <2>3, KeptStays DEF FeedInv
<1>9. Ascending(send'[c])
  BY <1>1, AscendingTail DEF FeedInv, ClientInv
<1>10. hpc'[c] # "none"
  BY <1>1 DEF FeedInv, ClientInv
<1>11. QED
  BY <1>6, <1>7, <1>8, <1>9, <1>10, ClientNext

(* FeedInv holds initially and is preserved by every step.                 *)
LEMMA FeedInvInductive == Spec => []FeedInv
<1>1. Init => FeedInv
  <2> SUFFICES ASSUME Init PROVE FeedInv
    OBVIOUS
  <2>1. log = <<>> /\ broadcast = <<>> /\ lpc = "select" /\ Len(<<>>) = 0
    BY EmptySeq DEF Init
  <2>2. \A c \in Clients : send[c] = <<>> /\ out[c] = <<>>
    BY DEF Init
  <2>3. QED
    BY <2>1, <2>2 DEF FeedInv, QueueInv, ClientInv, Ascending, Behind, Feed!LastOf
<1>2. TypeOK /\ HubInv /\ FeedInv /\ [Next]_vars => FeedInv'
  <2> SUFFICES ASSUME TypeOK, HubInv, FeedInv, [Next]_vars PROVE FeedInv'
    OBVIOUS
  <2>1. QueueInv'
    BY QueueStep DEF FeedInv
  <2>2. ASSUME NEW c \in Clients PROVE ClientInv(c)'
    <3>1. ASSUME send'[c] = send[c], out'[c] = out[c], hpc'[c] = "none" => hpc[c] = "none"
          PROVE  ClientInv(c)'
      BY <3>1, ClientSame DEF FeedInv
    <3>2. CASE Quiet \/ (\E r \in Targets : Accepts(r)) \/ LoopReceives
      BY <3>1, <3>2 DEF Quiet, Accepts, LoopReceives, pumpVars
    <3>3. CASE LoopDispatches
      BY <3>3, ClientDispatched
    <3>4. ASSUME NEW d \in Clients, NEW r \in Rooms, JoinsFirst(d, r)
          PROVE  ClientInv(c)'
      BY <3>1, <3>4 DEF JoinsFirst, TypeOK
    <3>5. ASSUME NEW d \in Clients, Takes(d) PROVE ClientInv(c)'
      <4>1. CASE d = c
        BY <3>5, <4>1, ClientTakes
      <4>2. CASE d # c
        <5>1. send'[c] = send[c] /\ out'[c] = out[c] /\ hpc'[c] = hpc[c]
          BY <3>5, <4>2 DEF Takes, TypeOK
        <5>2. QED
          BY <3>1, <5>1
      <4>3. QED
        BY <4>1, <4>2
    <3>6. QED
      BY <3>2, <3>3, <3>4, <3>5, StepKinds
  <2>3. QED
    BY <2>1, <2>2 DEF FeedInv
<1>3. QED
  BY <1>1, <1>2, TypeCorrect, HubInvInductive, PTL DEF Spec

(* The hub is the feed with rooms that RoomFeed describes: what is written *)
(* to a connection is meant for that client, comes in the one order of the *)
(* broadcast channel and nothing twice, and rooms are joined before        *)
(* anything is received (ws.go: dispatch, writePump, ServeHTTP).           *)
THEOREM HubIsAFeed == Spec => FeedSpec
<1>1. Init => Feed!Init
  BY DEF Init, Feed!Init
<1>2. TypeOK /\ HubInv /\ FeedInv /\ [Next]_vars => [Feed!Next]_(Feed!feedVars)
  <2> SUFFICES ASSUME TypeOK, HubInv, FeedInv, [Next]_vars
               PROVE  Feed!Next \/ UNCHANGED Feed!feedVars
    OBVIOUS
  <2> USE DEF Feed!feedVars
  <2>1. CASE Quiet
    BY <2>1 DEF Quiet
  <2>2. ASSUME NEW r \in Targets, Accepts(r) PROVE Feed!Next
    <3>1. Feed!Accept(r)
      BY <2>2 DEF Accepts, Enqueue, Feed!Accept
    <3>2. QED
      BY <3>1 DEF Feed!Next, Targets
  <2>3. CASE LoopReceives \/ LoopDispatches
    BY <2>3 DEF LoopReceives, LoopDispatches, hubVars, chanVars
  <2>4. ASSUME NEW c \in Clients, NEW r \in Rooms, JoinsFirst(c, r) PROVE Feed!Next
    <3>1. joined[c] = {} /\ out[c] = <<>>
      BY <2>4 DEF JoinsFirst, HubInv, FeedInv, ClientInv
    <3>2. Feed!Join(c, r)
      BY <2>4, <3>1 DEF JoinsFirst, Feed!Join
    <3>3. QED
      BY <3>2 DEF Feed!Next
  <2>5. ASSUME NEW c \in Clients, Takes(c) PROVE Feed!Next \/ UNCHANGED Feed!feedVars
    <3>1. CASE UNCHANGED out
      BY <2>5, <3>1 DEF Takes
    <3>2. CASE out' = [out EXCEPT ![c] = Append(@, Head(send[c]))]
      <4>1. send[c] \in Seq(Nat) /\ out[c] \in Seq(Nat) /\ send[c] # <<>>
        BY <2>5 DEF Takes, TypeOK
      <4>2. PICK m \in Nat : m = Head(send[c])
        BY <4>1, TailElements
      <4>3. PICK last \in Nat : last = Feed!LastOf(out[c])
        BY <4>1, LastOfAppend
      <4>4. last < m /\ m <= Len(log) /\ Feed!Addressed(m, c)
        BY <4>1, <4>2, <4>3, TailElements DEF FeedInv, ClientInv, Behind
      <4>5. m \in Feed!LastOf(out[c]) + 1 .. Len(log)
        <5>1. Len(log) \in Nat
          BY LenProperties DEF TypeOK
        <5>2. QED
          BY <4>3, <4>4, <5>1
      <4>6. out' = [out EXCEPT ![c] = Append(@, m)] /\ UNCHANGED <<log, joined>>
        BY <2>5, <3>2, <4>2 DEF Takes
      <4>7. Feed!Deliver(c)
        BY <4>4, <4>5, <4>6 DEF Feed!Deliver
      <4>8. QED
        BY <4>7 DEF Feed!Next
    <3>3. QED
      BY <2>5, <3>1, <3>2 DEF Takes
  <2>6. QED
    BY <2>1, <2>2, <2>3, <2>4, <2>5, StepKinds
<1>3. QED
  BY <1>1, <1>2, TypeCorrect, HubInvInductive, FeedInvInductive, PTL
  DEF Spec, FeedSpec, Feed!Spec

=============================================================================
