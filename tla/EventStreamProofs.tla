-------------------------- MODULE EventStreamProofs ------------------------
(***************************************************************************)
(* Proofs about EventStream, for any streams, producers and buffers: the   *)
(* response belongs to one goroutine at a time and to none once the        *)
(* handler has returned, and a client receives each producer's events in   *)
(* the order of their broadcasts.                                          *)
(***************************************************************************)
EXTENDS Realtime, TLAPS

(* The control state: who writes holds the mutex, the heartbeat starts     *)
(* with the stream, and a handler returns when it has closed the stream.   *)
Control ==
    /\ handler \in [Streams -> {"none", "subscribe", "subscribing", "select", "write", "writing",
                                "unsubscribe", "unsubscribing", "close", "returned"}]
    /\ heartbeat \in [Streams -> {"none", "select", "comment", "ended"}]
    /\ mu \in [Streams -> {Nobody, "handler", "heartbeat"}]
    /\ closed \in [Streams -> BOOLEAN]

Writing ==
    \A s \in Streams :
        /\ mu[s] = "handler" <=> handler[s] = "writing"
        /\ mu[s] = "heartbeat" <=> heartbeat[s] = "comment"
        /\ handler[s] = "none" => heartbeat[s] = "none"
        /\ handler[s] = "returned" => closed[s] /\ mu[s] = Nobody

MutexInv == Control /\ Writing

-----------------------------------------------------------------------------
(* A new stream has one goroutine, and its response is free.               *)
LEMMA MutexInit == Init => MutexInv
  BY StreamAssumption DEF Init, MutexInv, Control, Writing


(* Every step keeps the invariant.                                         *)
LEMMA MutexStep == MutexInv /\ [Next]_vars => MutexInv'
  <1> SUFFICES ASSUME MutexInv, [Next]_vars PROVE MutexInv'
    OBVIOUS
  <1> USE StreamAssumption DEF Goto
  <1>0. Control /\ Writing
    BY DEF MutexInv
  <1>1. ASSUME UNCHANGED <<handler, heartbeat, mu, closed>> PROVE MutexInv'
    BY <1>0, <1>1 DEF MutexInv, Control, Writing
  <1>2. ASSUME NEW s \in Streams, Disconnect(s) \/ WatcherSees(s) \/ WatcherEnds(s)
        PROVE  MutexInv'
    BY <1>1, <1>2 DEF Disconnect, WatcherSees, WatcherEnds
  <1>3. ASSUME NEW s \in Streams, Open(s) PROVE MutexInv'
    <2>1. handler[s] = "none" /\ handler' = [handler EXCEPT ![s] = "subscribe"]
      BY <1>3 DEF Open
    <2>2. /\ UNCHANGED <<mu, closed>>
          /\ \/ heartbeat' = [heartbeat EXCEPT ![s] = "select"]
             \/ heartbeat' = [heartbeat EXCEPT ![s] = "ended"]
      BY <1>3 DEF Open
    <2>3. Control'
      BY <1>0, <2>1, <2>2 DEF Control
    <2>4. Writing'
      BY <1>0, <2>1, <2>2 DEF Control, Writing
    <2>5. QED
      BY <2>3, <2>4 DEF MutexInv
  <1>4. ASSUME NEW s \in Streams, WatcherCloses(s) PROVE MutexInv'
    <2>1. /\ UNCHANGED <<handler, heartbeat, mu>> /\ closed' = [closed EXCEPT ![s] = TRUE]
      BY <1>4 DEF WatcherCloses, Closes
    <2>2. QED
      BY <1>0, <2>1 DEF MutexInv, Control, Writing
  <1>5. ASSUME NEW s \in Streams, Ticks(s) PROVE MutexInv'
    <2>1. /\ mu[s] = Nobody /\ ~closed[s] /\ heartbeat[s] = "select"
          /\ mu' = [mu EXCEPT ![s] = "heartbeat"]
          /\ heartbeat' = [heartbeat EXCEPT ![s] = "comment"] /\ UNCHANGED <<handler, closed>>
      BY <1>5 DEF Ticks, Begins
    <2>2. QED
      BY <1>0, <2>1 DEF MutexInv, Control, Writing
  <1>6. ASSUME NEW s \in Streams, CommentWritten(s) \/ CommentFails(s) PROVE MutexInv'
    <2>1. /\ heartbeat[s] = "comment" /\ mu[s] = "heartbeat"
          /\ mu' = [mu EXCEPT ![s] = Nobody] /\ UNCHANGED <<handler, closed>>
          /\ \/ heartbeat' = [heartbeat EXCEPT ![s] = "select"]
             \/ heartbeat' = [heartbeat EXCEPT ![s] = "ended"]
      BY <1>6 DEF CommentWritten, CommentFails, Ends
    <2>2. QED
      BY <1>0, <2>1 DEF MutexInv, Control, Writing
  <1>7. ASSUME NEW s \in Streams, HeartbeatEnds(s) PROVE MutexInv'
    <2>1. /\ heartbeat[s] = "select" /\ heartbeat' = [heartbeat EXCEPT ![s] = "ended"]
          /\ UNCHANGED <<handler, mu, closed>>
      BY <1>7 DEF HeartbeatEnds
    <2>2. QED
      BY <1>0, <2>1 DEF MutexInv, Control, Writing
  <1>8. ASSUME NEW s \in Streams,
               \/ WaitsForLock(s) \/ Subscribe(s) \/ Receives(s) \/ SeesDone(s)
               \/ WriteRefused(s) \/ Unsubscribe(s)
        PROVE  MutexInv'
    <2>1. /\ UNCHANGED <<heartbeat, mu, closed>> /\ handler[s] \notin {"none", "writing", "returned"}
          /\ \E next \in {"subscribing", "unsubscribing", "select", "write", "unsubscribe", "close"} :
                handler' = [handler EXCEPT ![s] = next]
      BY <1>8 DEF WaitsForLock, Subscribe, Receives, SeesDone, WriteRefused, Unsubscribe
    <2>2. QED
      BY <1>0, <2>1 DEF MutexInv, Control, Writing
  <1>9. ASSUME NEW s \in Streams, Writes(s) PROVE MutexInv'
    <2>1. /\ mu[s] = Nobody /\ handler[s] = "write" /\ mu' = [mu EXCEPT ![s] = "handler"]
          /\ handler' = [handler EXCEPT ![s] = "writing"] /\ UNCHANGED <<heartbeat, closed>>
      BY <1>9 DEF Writes, Begins
    <2>2. QED
      BY <1>0, <2>1 DEF MutexInv, Control, Writing
  <1>10. ASSUME NEW s \in Streams, Written(s) \/ WriteFails(s) PROVE MutexInv'
    <2>1. /\ mu[s] = "handler" /\ handler[s] = "writing" /\ mu' = [mu EXCEPT ![s] = Nobody]
          /\ \/ handler' = [handler EXCEPT ![s] = "select"]
             \/ handler' = [handler EXCEPT ![s] = "unsubscribe"]
          /\ UNCHANGED <<heartbeat, closed>>
      BY <1>10 DEF Written, WriteFails, Ends
    <2>2. QED
      BY <1>0, <2>1 DEF MutexInv, Control, Writing
  <1>11. ASSUME NEW s \in Streams, Return(s) PROVE MutexInv'
    <2>1. /\ mu[s] = Nobody /\ handler[s] = "close" /\ closed' = [closed EXCEPT ![s] = TRUE]
          /\ handler' = [handler EXCEPT ![s] = "returned"] /\ UNCHANGED <<heartbeat, mu>>
      BY <1>11 DEF Return, Closes
    <2>2. QED
      BY <1>0, <2>1 DEF MutexInv, Control, Writing
  <1>12. ASSUME NEW p \in Producers, BroadcastStarts(p) \/ Broadcast(p) PROVE MutexInv'
    BY <1>1, <1>12 DEF BroadcastStarts, Broadcast, Sends, BroadcastEnds
  <1>13. CASE UNCHANGED vars
    BY <1>1, <1>13 DEF vars
  <1>14. QED
    BY <1>2, <1>3, <1>4, <1>5, <1>6, <1>7, <1>8, <1>9, <1>10, <1>11, <1>12, <1>13
    DEF Next, Watch, Beat, Attach

(* Nothing is written to a response whose handler has returned             *)
(* (sse.go:97-106, 146-176, 187).                                          *)
THEOREM ReturnedIsOver == Spec => []NoWriteAfterReturn
  <1>1. MutexInv => NoWriteAfterReturn
    BY DEF MutexInv, Writing, NoWriteAfterReturn
  <1>2. QED
    BY <1>1, MutexInit, MutexStep, PTL DEF Spec
-----------------------------------------------------------------------------
(* The order of events: of one producer, the earlier one has the lower     *)
(* number.                                                                 *)
Msgs == [by : Producers, no : Nat]

Before(x, y) == x.by = y.by => x.no < y.no

Ordered(q) == \A i, j \in 1 .. Len(q) : i < j => Before(q[i], q[j])

(* A sequence grows in order when what is appended comes after all of it.  *)
LEMMA OrderedAppend ==
  ASSUME NEW S, NEW q \in Seq(S), NEW x \in S, Ordered(q),
         \A y \in Range(q) : Before(y, x)
  PROVE  /\ Ordered(Append(q, x)) /\ Append(q, x) \in Seq(S)
         /\ Range(Append(q, x)) = Range(q) \cup {x}
  <1> DEFINE t == Append(q, x)
  <1>1. /\ t \in Seq(S) /\ Len(t) = Len(q) + 1 /\ Len(q) \in Nat
        /\ DOMAIN t = 1 .. Len(q) + 1 /\ DOMAIN q = 1 .. Len(q)
    OBVIOUS
  <1>2. (\A i \in 1 .. Len(q) : t[i] = q[i]) /\ t[Len(q) + 1] = x
    OBVIOUS
  <1> HIDE DEF t
  <1>3. Ordered(t)
    <2> SUFFICES ASSUME NEW i \in 1 .. Len(q) + 1, NEW j \in 1 .. Len(q) + 1, i < j
                 PROVE  Before(t[i], t[j])
      BY <1>1 DEF Ordered
    <2>1. i \in 1 .. Len(q) /\ t[i] = q[i]
      BY <1>1, <1>2
    <2>2. CASE j \in 1 .. Len(q)
      BY <2>1, <2>2, <1>2 DEF Ordered
    <2>3. CASE j = Len(q) + 1
      <3>1. q[i] \in Range(q)
        BY <2>1, <1>1 DEF Range
      <3>2. QED
        BY <2>1, <2>3, <3>1, <1>2
    <2>4. QED
      BY <1>1, <2>2, <2>3
  <1>4. Range(t) = Range(q) \cup {x}
    <2>1. ASSUME NEW y \in Range(t) PROVE y \in Range(q) \cup {x}
      <3>1. PICK i \in 1 .. Len(q) + 1 : y = t[i]
        BY <1>1 DEF Range
      <3>2. CASE i = Len(q) + 1
        BY <3>1, <3>2, <1>2
      <3>3. CASE i \in 1 .. Len(q)
        BY <3>1, <3>3, <1>1, <1>2 DEF Range
      <3>4. QED
        BY <1>1, <3>2, <3>3
    <2>2. ASSUME NEW y \in Range(q) PROVE y \in Range(t)
      <3>1. PICK i \in 1 .. Len(q) : y = q[i]
        BY <1>1 DEF Range
      <3>2. t[i] = y /\ i \in 1 .. Len(q) + 1
        BY <3>1, <1>1, <1>2
      <3>3. QED
        BY <3>2, <1>1 DEF Range
    <2>3. x \in Range(t)
      BY <1>1, <1>2 DEF Range
    <2>4. QED
      BY <2>1, <2>2, <2>3
  <1>5. QED
    BY <1>1, <1>3, <1>4 DEF t

(* The first of a sequence comes before what is left of it.                *)
LEMMA OrderedTail ==
  ASSUME NEW S, NEW q \in Seq(S), q # <<>>, Ordered(q)
  PROVE  /\ Tail(q) \in Seq(S) /\ Head(q) \in Range(q) /\ Head(q) \in S
         /\ Ordered(Tail(q)) /\ Range(Tail(q)) \subseteq Range(q)
         /\ \A y \in Range(Tail(q)) : Before(Head(q), y)
  <1> DEFINE t == Tail(q)
  <1>1. Len(q) \in Nat /\ Len(q) > 0 /\ DOMAIN q = 1 .. Len(q) /\ Head(q) = q[1]
    OBVIOUS
  <1>2. t \in Seq(S) /\ Len(t) = Len(q) - 1 /\ DOMAIN t = 1 .. Len(q) - 1 /\ Head(q) \in S
    BY <1>1
  <1>3. \A i \in 1 .. Len(q) - 1 : t[i] = q[i + 1]
    BY <1>1
  <1> HIDE DEF t
  <1>4. Head(q) \in Range(q)
    BY <1>1 DEF Range
  <1>5. \A i \in 1 .. Len(q) - 1 : i + 1 \in 1 .. Len(q) /\ 1 < i + 1
    BY <1>1
  <1>6. Ordered(t)
    <2> SUFFICES ASSUME NEW i \in 1 .. Len(q) - 1, NEW j \in 1 .. Len(q) - 1, i < j
                 PROVE  Before(t[i], t[j])
      BY <1>2 DEF Ordered
    <2>1. t[i] = q[i + 1] /\ t[j] = q[j + 1]
      BY <1>3
    <2>2. i + 1 < j + 1
      OBVIOUS
    <2>3. QED
      BY <2>1, <2>2, <1>5 DEF Ordered
  <1>7. ASSUME NEW y \in Range(t) PROVE y \in Range(q) /\ Before(Head(q), y)
    <2>1. PICK i \in 1 .. Len(q) - 1 : y = t[i]
      BY <1>2 DEF Range
    <2>2. y = q[i + 1] /\ i + 1 \in 1 .. Len(q) /\ 1 < i + 1 /\ 1 \in 1 .. Len(q)
      BY <2>1, <1>1, <1>3, <1>5
    <2>3. QED
      BY <2>2, <1>1 DEF Ordered, Range
  <1>8. QED
    BY <1>2, <1>4, <1>6, <1>7 DEF t

(* Two sequences follow each other in order.                               *)
LEMMA OrderedConcat ==
  ASSUME NEW S, NEW a \in Seq(S), NEW b \in Seq(S), Ordered(a), Ordered(b),
         \A x \in Range(a), y \in Range(b) : Before(x, y)
  PROVE  /\ Ordered(a \o b) /\ a \o b \in Seq(S)
         /\ Range(a \o b) \subseteq Range(a) \cup Range(b)
  <1> DEFINE t == a \o b
  <1>1. /\ t \in Seq(S) /\ Len(t) = Len(a) + Len(b) /\ Len(a) \in Nat /\ Len(b) \in Nat
        /\ DOMAIN t = 1 .. Len(a) + Len(b) /\ DOMAIN a = 1 .. Len(a) /\ DOMAIN b = 1 .. Len(b)
    OBVIOUS
  <1>2. \A i \in 1 .. Len(a) : t[i] = a[i]
    OBVIOUS
  <1>3. \A i \in 1 .. Len(a) + Len(b) : i > Len(a) =>
           t[i] = b[i - Len(a)] /\ i - Len(a) \in 1 .. Len(b)
    BY <1>1
  <1> HIDE DEF t
  <1>4. Ordered(t)
    <2> SUFFICES ASSUME NEW i \in 1 .. Len(a) + Len(b), NEW j \in 1 .. Len(a) + Len(b), i < j
                 PROVE  Before(t[i], t[j])
      BY <1>1 DEF Ordered
    <2>1. CASE j <= Len(a)
      <3>1. i \in 1 .. Len(a) /\ j \in 1 .. Len(a)
        BY <2>1, <1>1
      <3>2. QED
        BY <3>1, <1>2 DEF Ordered
    <2>2. CASE i <= Len(a) /\ j > Len(a)
      <3>1. i \in 1 .. Len(a) /\ t[i] = a[i]
        BY <2>2, <1>1, <1>2
      <3>2. t[j] = b[j - Len(a)] /\ j - Len(a) \in 1 .. Len(b)
        BY <2>2, <1>3
      <3>3. t[i] \in Range(a) /\ t[j] \in Range(b)
        BY <3>1, <3>2, <1>1 DEF Range
      <3>4. QED
        BY <3>3
    <2>3. CASE i > Len(a)
      <3>1. j > Len(a) /\ i - Len(a) < j - Len(a)
        BY <2>3, <1>1
      <3>2. /\ t[i] = b[i - Len(a)] /\ i - Len(a) \in 1 .. Len(b)
            /\ t[j] = b[j - Len(a)] /\ j - Len(a) \in 1 .. Len(b)
        BY <2>3, <3>1, <1>3
      <3>3. QED
        BY <3>1, <3>2 DEF Ordered
    <2>4. QED
      BY <1>1, <2>1, <2>2, <2>3
  <1>5. ASSUME NEW y \in Range(t) PROVE y \in Range(a) \cup Range(b)
    <2>1. PICK i \in 1 .. Len(a) + Len(b) : y = t[i]
      BY <1>1 DEF Range
    <2>2. CASE i \in 1 .. Len(a)
      BY <2>1, <2>2, <1>1, <1>2 DEF Range
    <2>3. CASE i > Len(a)
      <3>1. y = b[i - Len(a)] /\ i - Len(a) \in 1 .. Len(b)
        BY <2>1, <2>3, <1>3
      <3>2. QED
        BY <3>1, <1>1 DEF Range
    <2>4. QED
      BY <1>1, <2>2, <2>3
  <1>6. QED
    BY <1>1, <1>4, <1>5 DEF t

-----------------------------------------------------------------------------
(* What a stream holds of the events, in the order of Pending: each part   *)
(* is in order and before the next, and no event is newer than the last    *)
(* broadcast of its producer, or than the one before it while the stream   *)
(* has still to be served.                                                 *)
EventTypes ==
    /\ ch \in [Streams -> Seq(Msgs)] /\ written \in [Streams -> Seq(Msgs)]
    /\ event \in [Streams -> Msgs \cup {NoEvent}]
    /\ sent \in [Producers -> Nat] /\ left \in [Producers -> SUBSET Streams]
    /\ subs \subseteq Streams
    /\ \A s \in Streams : event[s] # NoEvent <=> handler[s] \in {"write", "writing"}

Held(s) == Range(written[s]) \cup Range(ch[s]) \cup ({event[s]} \ {NoEvent})

Begun(s, x) == x.no <= sent[x.by] /\ (s \in left[x.by] => x.no < sent[x.by])

Parts(s) ==
    /\ Ordered(written[s]) /\ Ordered(ch[s])
    /\ \A x \in Range(written[s]), y \in Range(ch[s]) : Before(x, y)
    /\ event[s] # NoEvent => /\ \A x \in Range(written[s]) : Before(x, event[s])
                             /\ \A y \in Range(ch[s]) : Before(event[s], y)
    /\ \A x \in Held(s) : Begun(s, x)

OrderInv == MutexInv /\ EventTypes /\ \A s \in Streams : Parts(s)

(* Nothing has been broadcast.                                             *)
LEMMA OrderInit == Init => OrderInv
  <1> SUFFICES ASSUME Init PROVE OrderInv
    OBVIOUS
  <1>1. MutexInv
    BY MutexInit
  <1>2. EventTypes
    BY DEF Init, EventTypes
  <1>3. ASSUME NEW s \in Streams PROVE Parts(s)
    <2>1. ch[s] = <<>> /\ written[s] = <<>> /\ event[s] = NoEvent
      BY DEF Init
    <2>2. Range(ch[s]) = {} /\ Range(written[s]) = {} /\ Held(s) = {}
      BY <2>1 DEF Range, Held
    <2>3. QED
      BY <2>1, <2>2 DEF Parts, Ordered
  <1>4. QED
    BY <1>1, <1>2, <1>3 DEF OrderInv

(* A stream none of whose events moves, while nothing is broadcast.        *)
LEMMA PartsSame ==
    ASSUME NEW s \in Streams, Parts(s), UNCHANGED <<sent, left>>,
           ch'[s] = ch[s], written'[s] = written[s], event'[s] = event[s]
    PROVE  Parts(s)'
  BY DEF Parts, Held, Begun, Ordered, Range

(* Events are records of Msgs wherever a stream holds them.                *)
LEMMA HeldTyped ==
    ASSUME EventTypes, NEW s \in Streams
    PROVE  /\ ch[s] \in Seq(Msgs) /\ written[s] \in Seq(Msgs) /\ Held(s) \subseteq Msgs
           /\ Range(ch[s]) \subseteq Msgs /\ Range(written[s]) \subseteq Msgs
  <1>1. ch[s] \in Seq(Msgs) /\ written[s] \in Seq(Msgs) /\ event[s] \in Msgs \cup {NoEvent}
    BY DEF EventTypes
  <1>2. ASSUME NEW q \in Seq(Msgs) PROVE Range(q) \subseteq Msgs
    BY DEF Range
  <1>3. QED
    BY <1>1, <1>2 DEF Held

(* Every step keeps the order.                                             *)
LEMMA OrderStep == OrderInv /\ [Next]_vars => OrderInv'
  <1> SUFFICES ASSUME OrderInv, [Next]_vars PROVE OrderInv'
    OBVIOUS
  <1> USE StreamAssumption DEF Goto
  <1>0. MutexInv' /\ EventTypes /\ MutexInv /\ \A s \in Streams : Parts(s)
    BY MutexStep DEF OrderInv
  <1>1. ASSUME UNCHANGED <<ch, written, event, sent, left>>, EventTypes' PROVE OrderInv'
    BY <1>0, <1>1, PartsSame DEF OrderInv
  <1>2. ASSUME UNCHANGED <<ch, written, event, sent, left, subs, handler>> PROVE OrderInv'
    BY <1>0, <1>1, <1>2 DEF EventTypes
  <1>3. ASSUME NEW s \in Streams,
               \/ Open(s) \/ WaitsForLock(s) \/ SeesDone(s) \/ Subscribe(s) \/ Unsubscribe(s)
               \/ Writes(s) \/ Return(s)
        PROVE  OrderInv'
    <2>1. UNCHANGED <<ch, written, event, sent, left>>
      BY <1>3 DEF Open, WaitsForLock, SeesDone, Subscribe, Unsubscribe, Writes, Return,
         hub, producers, response
    <2>2. subs' \subseteq Streams
      BY <1>0, <1>3 DEF EventTypes, Open, WaitsForLock, SeesDone, Subscribe, Unsubscribe, Writes,
         Return, hub
    <2>3. \A t \in Streams : event[t] # NoEvent <=> handler'[t] \in {"write", "writing"}
      <3>1. \/ /\ handler[s] \notin {"write", "writing"}
               /\ \E next \in {"subscribe", "subscribing", "unsubscribing", "unsubscribe",
                                "select", "close", "returned"} :
                     handler' = [handler EXCEPT ![s] = next]
            \/ handler[s] = "write" /\ handler' = [handler EXCEPT ![s] = "writing"]
        BY <1>3 DEF Open, WaitsForLock, SeesDone, Subscribe, Unsubscribe, Writes, Return
      <3>2. handler \in [Streams -> {"none", "subscribe", "subscribing", "select", "write",
                       "writing", "unsubscribe", "unsubscribing", "close", "returned"}]
        BY <1>0 DEF MutexInv, Control
      <3>3. \/ handler[s] \notin {"write", "writing"} /\ handler'[s] \notin {"write", "writing"}
            \/ handler[s] = "write" /\ handler'[s] = "writing"
        BY <3>1, <3>2
      <3>4. \A t \in Streams : t # s => handler'[t] = handler[t]
        BY <3>1, <3>2
      <3>5. \A t \in Streams : event[t] # NoEvent <=> handler[t] \in {"write", "writing"}
        BY <1>0 DEF EventTypes
      <3>6. QED
        BY <3>3, <3>4, <3>5
    <2>4. QED
      BY <1>0, <1>1, <2>1, <2>2, <2>3 DEF EventTypes
  <1>4. ASSUME NEW s \in Streams, Receives(s) PROVE OrderInv'
    <2>1. /\ ch[s] # <<>> /\ handler[s] = "select" /\ handler' = [handler EXCEPT ![s] = "write"]
          /\ event' = [event EXCEPT ![s] = Head(ch[s])] /\ ch' = [ch EXCEPT ![s] = Tail(ch[s])]
          /\ UNCHANGED <<written, sent, left, subs>>
      BY <1>4 DEF Receives, producers, response
    <2>2. /\ ch[s] \in Seq(Msgs) /\ event[s] = NoEvent /\ Ordered(ch[s])
      BY <1>0, <2>1 DEF EventTypes, Parts
    <2>3. /\ Tail(ch[s]) \in Seq(Msgs) /\ Head(ch[s]) \in Range(ch[s]) /\ Head(ch[s]) \in Msgs
          /\ Ordered(Tail(ch[s])) /\ Range(Tail(ch[s])) \subseteq Range(ch[s])
          /\ \A y \in Range(Tail(ch[s])) : Before(Head(ch[s]), y)
      BY <2>1, <2>2, OrderedTail
    <2>4. Head(ch[s]) # NoEvent
      BY <2>3 DEF Msgs
    <2>5. EventTypes'
      BY <1>0, <2>1, <2>3, <2>4 DEF EventTypes, MutexInv, Control
    <2>6. ch'[s] = Tail(ch[s]) /\ event'[s] = Head(ch[s]) /\ written'[s] = written[s]
      BY <1>0, <2>1 DEF EventTypes
    <2>7. Held(s)' \subseteq Held(s)
      BY <2>3, <2>6 DEF Held
    <2>8. Parts(s)'
      BY <1>0, <2>1, <2>3, <2>6, <2>7 DEF Parts, Begun
    <2>9. ASSUME NEW t \in Streams, t # s PROVE Parts(t)'
      BY <1>0, <2>1, <2>9, PartsSame DEF EventTypes
    <2>10. QED
      BY <1>0, <2>5, <2>8, <2>9 DEF OrderInv
  <1>5. ASSUME NEW s \in Streams, Written(s) PROVE OrderInv'
    <2>1. /\ handler[s] = "writing" /\ handler' = [handler EXCEPT ![s] = "select"]
          /\ written' = [written EXCEPT ![s] = Append(written[s], event[s])]
          /\ event' = [event EXCEPT ![s] = NoEvent] /\ UNCHANGED <<ch, sent, left, subs>>
      BY <1>5 DEF Written, producers, hub
    <2>2. /\ event[s] # NoEvent /\ event[s] \in Msgs /\ written[s] \in Seq(Msgs)
          /\ Ordered(written[s]) /\ \A x \in Range(written[s]) : Before(x, event[s])
      BY <1>0, <2>1 DEF EventTypes, Parts
    <2>3. /\ Ordered(Append(written[s], event[s])) /\ Append(written[s], event[s]) \in Seq(Msgs)
          /\ Range(Append(written[s], event[s])) = Range(written[s]) \cup {event[s]}
      BY <2>2, OrderedAppend
    <2>4. EventTypes'
      BY <1>0, <2>1, <2>3 DEF EventTypes, MutexInv, Control
    <2>5. /\ ch'[s] = ch[s] /\ event'[s] = NoEvent
          /\ written'[s] = Append(written[s], event[s])
      BY <1>0, <2>1 DEF EventTypes
    <2>6. Held(s)' = Held(s)
      BY <2>2, <2>3, <2>5 DEF Held
    <2>7. Parts(s)'
      BY <1>0, <2>1, <2>2, <2>3, <2>5, <2>6 DEF Parts, Begun
    <2>8. ASSUME NEW t \in Streams, t # s PROVE Parts(t)'
      BY <1>0, <2>1, <2>8, PartsSame DEF EventTypes
    <2>9. QED
      BY <1>0, <2>4, <2>7, <2>8 DEF OrderInv
  <1>6. ASSUME NEW s \in Streams, WriteFails(s) \/ WriteRefused(s) PROVE OrderInv'
    <2>1. /\ handler[s] \in {"write", "writing"} /\ handler' = [handler EXCEPT ![s] = "unsubscribe"]
          /\ event' = [event EXCEPT ![s] = NoEvent] /\ UNCHANGED <<written, ch, sent, left, subs>>
      BY <1>6 DEF WriteFails, WriteRefused, producers, hub, response
    <2>2. EventTypes'
      BY <1>0, <2>1 DEF EventTypes, MutexInv, Control
    <2>3. event'[s] = NoEvent
      BY <1>0, <2>1 DEF EventTypes
    <2>4. Held(s)' \subseteq Held(s)
      BY <2>1, <2>3 DEF Held
    <2>5. Parts(s)'
      BY <1>0, <2>1, <2>3, <2>4 DEF Parts, Begun
    <2>6. ASSUME NEW t \in Streams, t # s PROVE Parts(t)'
      BY <1>0, <2>1, <2>6, PartsSame DEF EventTypes
    <2>7. QED
      BY <1>0, <2>2, <2>5, <2>6 DEF OrderInv
  <1>7. ASSUME NEW p \in Producers, BroadcastStarts(p) PROVE OrderInv'
    <2>1. /\ left' = [left EXCEPT ![p] = subs] /\ sent' = [sent EXCEPT ![p] = sent[p] + 1]
          /\ UNCHANGED <<ch, written, event, handler, subs>>
      BY <1>7 DEF BroadcastStarts, hub, response
    <2>2. EventTypes'
      BY <1>0, <2>1 DEF EventTypes
    <2>3. ASSUME NEW s \in Streams PROVE Parts(s)'
      <3>1. Held(s)' = Held(s) /\ Held(s) \subseteq Msgs
        BY <1>0, <2>1, HeldTyped DEF Held
      <3>2. ASSUME NEW x \in Held(s) PROVE Begun(s, x)'
        <4>1. x.no <= sent[x.by] /\ (s \in left[x.by] => x.no < sent[x.by])
              /\ x.no \in Nat /\ x.by \in Producers
          BY <1>0, <3>1 DEF Parts, Begun, Msgs
        <4>2. sent \in [Producers -> Nat] /\ left \in [Producers -> SUBSET Streams]
          BY <1>0 DEF EventTypes
        <4>3. CASE x.by = p
          <5>1. sent'[x.by] = sent[x.by] + 1 /\ sent[x.by] \in Nat
            BY <2>1, <4>1, <4>2, <4>3
          <5>2. QED
            BY <4>1, <5>1 DEF Begun
        <4>4. CASE x.by # p
          <5>1. sent'[x.by] = sent[x.by] /\ left'[x.by] = left[x.by]
            BY <2>1, <4>1, <4>2, <4>4
          <5>2. QED
            BY <4>1, <5>1 DEF Begun
        <4>5. QED
          BY <4>3, <4>4
      <3>3. Parts(s)
        BY <1>0
      <3>4. QED
        BY <2>1, <3>1, <3>2, <3>3 DEF Parts
    <2>4. QED
      BY <1>0, <2>2, <2>3 DEF OrderInv
  <1>8. ASSUME NEW p \in Producers, Sends(p) PROVE OrderInv'
    <2>1. PICK s \in left[p] : Offered(p, s) /\ left' = [left EXCEPT ![p] = left[p] \ {s}]
                             /\ UNCHANGED <<written, event, sent, handler, subs>>
      BY <1>8 DEF Sends, Served, response
    <2>0. PICK x : x = [by |-> p, no |-> sent[p]]
      OBVIOUS
    <2>2. /\ s \in Streams /\ x \in Msgs /\ x.by = p /\ x.no = sent[p]
          /\ left \in [Producers -> SUBSET Streams] /\ sent \in [Producers -> Nat]
      BY <1>0, <2>0, <2>1 DEF EventTypes, Msgs
    <2>3. ASSUME NEW t \in Streams, NEW y \in Held(t) PROVE Begun(t, y)'
      <3>1. Begun(t, y) /\ y.by \in Producers
        BY <1>0, HeldTyped DEF Parts, Msgs
      <3>2. left'[y.by] \subseteq left[y.by] /\ sent' = sent
        BY <2>1, <2>2, <3>1
      <3>3. QED
        BY <3>1, <3>2 DEF Begun
    <2>4. ASSUME NEW t \in Streams, ch'[t] = ch[t] PROVE Parts(t)'
      <3>1. Held(t)' = Held(t)
        BY <2>1, <2>4 DEF Held
      <3>2. Parts(t)
        BY <1>0
      <3>3. QED
        BY <2>1, <2>3, <2>4, <3>1, <3>2 DEF Parts
    <2>5. CASE ch' = ch
      <3>1. EventTypes'
        BY <1>0, <2>1, <2>2, <2>5 DEF EventTypes
      <3>2. QED
        BY <1>0, <2>4, <2>5, <3>1 DEF OrderInv
    <2>6. CASE ch' = [ch EXCEPT ![s] = Append(ch[s], x)]
      <3>1. \A y \in Held(s) : Before(y, x)
        <4>1. ASSUME NEW y \in Held(s) PROVE Before(y, x)
          <5>1. Begun(s, y)
            BY <1>0, <2>2 DEF Parts
          <5>2. QED
            BY <2>1, <2>2, <5>1 DEF Begun, Before
        <4>2. QED
          BY <4>1
      <3>2. ch[s] \in Seq(Msgs) /\ Ordered(ch[s]) /\ Range(ch[s]) \subseteq Held(s)
        BY <1>0, <2>2, HeldTyped DEF Parts, Held
      <3>3. /\ Ordered(Append(ch[s], x)) /\ Append(ch[s], x) \in Seq(Msgs)
            /\ Range(Append(ch[s], x)) = Range(ch[s]) \cup {x}
        <4>1. \A y \in Range(ch[s]) : Before(y, x)
          BY <3>1, <3>2
        <4>2. QED
          BY <2>2, <3>2, <4>1, OrderedAppend
      <3>4. ch'[s] = Append(ch[s], x) /\ \A t \in Streams \ {s} : ch'[t] = ch[t]
        BY <1>0, <2>2, <2>6 DEF EventTypes
      <3>5. EventTypes'
        BY <1>0, <2>1, <2>2, <2>6, <3>3 DEF EventTypes
      <3>6. Held(s)' = Held(s) \cup {x}
        <4>1. x # NoEvent
          BY <2>2 DEF Msgs
        <4>2. QED
          BY <2>1, <3>3, <3>4 DEF Held
      <3>7. Begun(s, x)'
        <4>1. s \notin left'[p] /\ sent'[p] = sent[p] /\ sent[p] \in Nat
          BY <2>1, <2>2
        <4>2. QED
          BY <2>2, <4>1 DEF Begun
      <3>8. Parts(s)'
        <4>1. \A y \in Held(s)' : Begun(s, y)'
          BY <2>2, <2>3, <3>6, <3>7
        <4>2. \A y \in Range(written[s]) : Before(y, x)
          BY <3>1 DEF Held
        <4>3. event[s] # NoEvent => Before(event[s], x)
          BY <3>1 DEF Held
        <4>4. Parts(s)
          BY <1>0, <2>2
        <4>5. QED
          BY <2>1, <3>3, <3>4, <4>1, <4>2, <4>3, <4>4 DEF Parts
      <3>9. QED
        BY <1>0, <2>4, <3>4, <3>5, <3>8 DEF OrderInv
    <2>7. QED
      BY <2>0, <2>1, <2>5, <2>6 DEF Offered
  <1>9. ASSUME NEW s \in Streams, Disconnect(s) \/ Watch(s) \/ Ticks(s) \/ Beat(s) PROVE OrderInv'
    BY <1>2, <1>9 DEF Disconnect, Watch, WatcherSees, WatcherCloses, WatcherEnds, Ticks, Beat,
       CommentWritten, CommentFails, HeartbeatEnds, hub, producers, response
  <1>10. ASSUME NEW p \in Producers, BroadcastEnds(p) PROVE OrderInv'
    BY <1>2, <1>10 DEF BroadcastEnds, hub, response
  <1>11. CASE UNCHANGED vars
    BY <1>2, <1>11 DEF vars, hub, producers, response
  <1>12. QED
    BY <1>3, <1>4, <1>5, <1>6, <1>7, <1>8, <1>9, <1>10, <1>11 DEF Next, Attach, Broadcast

(* The parts of a stream make one sequence in order.                       *)
LEMMA PartsInOrder == OrderInv => InOrder
  <1> SUFFICES ASSUME OrderInv, NEW s \in Streams PROVE Ordered(Pending(s))
    BY DEF InOrder, Ordered, Before
  <1> DEFINE m == IF event[s] = NoEvent THEN <<>> ELSE <<event[s]>>
             w == written[s]
             c == ch[s]
  <1>1. w \in Seq(Msgs) /\ c \in Seq(Msgs) /\ event[s] \in Msgs \cup {NoEvent} /\ Parts(s)
    BY DEF OrderInv, EventTypes
  <1>2. m \in Seq(Msgs) /\ Ordered(m) /\ Range(m) = {event[s]} \ {NoEvent}
    <2>1. CASE event[s] = NoEvent
      BY <2>1 DEF Ordered, Range
    <2>2. CASE event[s] # NoEvent
      BY <1>1, <2>2 DEF Ordered, Range
    <2>3. QED
      BY <2>1, <2>2
  <1>3. /\ Ordered(w) /\ Ordered(c)
        /\ \A x \in Range(w), y \in Range(m) : Before(x, y)
        /\ \A x \in Range(w) \cup Range(m), y \in Range(c) : Before(x, y)
    BY <1>1, <1>2 DEF Parts
  <1> HIDE DEF m, w, c
  <1>4. Ordered(w \o m) /\ w \o m \in Seq(Msgs) /\ Range(w \o m) \subseteq Range(w) \cup Range(m)
    BY <1>1, <1>2, <1>3, OrderedConcat
  <1>5. Ordered((w \o m) \o c)
    BY <1>1, <1>3, <1>4, OrderedConcat
  <1>6. QED
    BY <1>5 DEF Pending, w, m, c

(* What a client receives of one producer comes in the order in which it   *)
(* was broadcast and nothing comes twice (hub.go:40-51, 61-76).            *)
THEOREM EventsInOrder == Spec => []InOrder
  BY OrderInit, OrderStep, PartsInOrder, PTL DEF Spec

(* And so it is in a server that may use WebSockets instead.               *)
THEOREM StreamsKeepPromises == RealtimeSpec => [](NoWriteAfterReturn /\ InOrder)
  <1>1. RealtimeInit => Init
    BY DEF RealtimeInit
  <1>2. [RealtimeNext]_<<protocol, vars, ws>> => [Next]_vars
    BY DEF RealtimeNext
  <1>3. RealtimeSpec => Spec
    BY <1>1, <1>2, PTL DEF RealtimeSpec, Spec
  <1>4. QED
    BY <1>3, ReturnedIsOver, EventsInOrder, PTL

=============================================================================
