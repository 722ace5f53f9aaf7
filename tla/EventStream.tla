---------------------------- MODULE EventStream ----------------------------
(***************************************************************************)
(* irmik/sse: streams of Server-Sent Events and the hub that fans events   *)
(* out to them.  A stream is one request: its handler goroutine runs       *)
(* Hub.Attach, a second goroutine watches the request's context, a third   *)
(* writes heartbeats.  They meet on Stream.mu, held while a frame is       *)
(* written to the response, and on the stream's context.  Producers call   *)
(* Hub.Broadcast, which holds the read lock of Hub.mu while it goes over   *)
(* the subscribers; a critical section of the write lock is one step.      *)
(***************************************************************************)
EXTENDS Naturals, Sequences, Functions

CONSTANTS
    Streams,        \* requests for a stream
    Producers,      \* goroutines that broadcast, one event after the other
    Buf,            \* the buffer of a subscription (32 in Attach)
    MaxEvents,      \* bound: events in all
    Inject,         \* is the overlay of "irmik dev" in the chain?
    Nobody,         \* Stream.mu is free
    NoEvent         \* no event taken from the channel

ASSUME StreamAssumption ==
    /\ Buf \in Nat \ {0} /\ MaxEvents \in Nat /\ Inject \in BOOLEAN
    /\ Nobody \notin {"handler", "heartbeat"} /\ NoEvent \notin [by : Producers, no : Nat]

VARIABLES
    subs,       \* Hub.subs, a channel being named by its stream
    ch,         \* the events in each channel
    chClosed,   \* has the channel been closed?
    sent,       \* the events each producer has begun to broadcast
    left,       \* the subscribers its Broadcast has still to serve
    holds,      \* does it hold the read lock of Hub.mu?
    handler,    \* control state of the handler goroutine
    event,      \* the event the handler took from its channel
    watcher, heartbeat,     \* control states of the other goroutines
    mu,         \* which goroutine holds Stream.mu to write
    gone,       \* is the request's context done?
    cancelled,  \* is the stream's context done?
    closed,     \* Stream.closed
    written,    \* history: the events written to each response
    wire        \* history: those that were sent to the client

hub == <<subs, ch, chClosed>>
producers == <<sent, left, holds>>
context == <<gone, cancelled>>
response == <<written, wire>>
vars == <<hub, producers, handler, event, watcher, heartbeat, mu, context, closed, response>>

Events == [by : Producers, no : 1 .. MaxEvents]

Init ==
    /\ subs = {} /\ ch = [s \in Streams |-> <<>>] /\ chClosed = [s \in Streams |-> FALSE]
    /\ sent = [p \in Producers |-> 0] /\ left = [p \in Producers |-> {}]
    /\ holds = [p \in Producers |-> FALSE]
    /\ handler = [s \in Streams |-> "none"] /\ event = [s \in Streams |-> NoEvent]
    /\ watcher = [s \in Streams |-> "none"] /\ heartbeat = [s \in Streams |-> "none"]
    /\ mu = [s \in Streams |-> Nobody]
    /\ gone = [s \in Streams |-> FALSE] /\ cancelled = [s \in Streams |-> FALSE]
    /\ closed = [s \in Streams |-> FALSE] /\ written = [s \in Streams |-> <<>>] /\ wire = written

Goto(pc, s, at, next) == pc[s] = at /\ pc' = [pc EXCEPT ![s] = next]

-----------------------------------------------------------------------------
(* The request and the stream's contexts.                                  *)

Cancelled(s) == cancelled' = [cancelled EXCEPT ![s] = TRUE]

(* New succeeds; with a heartbeat it starts a goroutine for it.            *)
Open(s) ==
    /\ Goto(handler, s, "none", "subscribe")
    /\ watcher' = [watcher EXCEPT ![s] = "select"]
    /\ \E beat \in {"select", "ended"} : heartbeat' = [heartbeat EXCEPT ![s] = beat]
    /\ UNCHANGED <<hub, producers, event, mu, context, closed, response>>

(* The client disconnects: the request's context and the one made from it. *)
Disconnect(s) ==
    /\ handler[s] \notin {"none", "returned"} /\ ~gone[s]
    /\ gone' = [gone EXCEPT ![s] = TRUE]
    /\ Cancelled(s)
    /\ UNCHANGED <<hub, producers, handler, event, watcher, heartbeat, mu, closed, response>>

(* Close needs the mutex.                                                  *)
FaultyCloses(s) == closed' = [closed EXCEPT ![s] = TRUE] /\ Cancelled(s)    \* variant: no lock

Closes(s) ==
    /\ mu[s] = Nobody
    /\ closed' = [closed EXCEPT ![s] = TRUE]
    /\ Cancelled(s)

-----------------------------------------------------------------------------
(* The goroutine New starts to watch the request.                          *)

WatcherSees(s) ==
    /\ Goto(watcher, s, "select", "close")
    /\ gone[s]
    /\ UNCHANGED <<hub, producers, handler, event, heartbeat, mu, context, closed, response>>

WatcherCloses(s) ==
    /\ Goto(watcher, s, "close", "ended")
    /\ Closes(s)
    /\ UNCHANGED <<hub, producers, handler, event, heartbeat, mu, gone, response>>

WatcherEnds(s) ==
    /\ Goto(watcher, s, "select", "ended")
    /\ cancelled[s]
    /\ UNCHANGED <<hub, producers, handler, event, heartbeat, mu, context, closed, response>>

-----------------------------------------------------------------------------
(* Writing: Write in the handler, Comment in the heartbeat goroutine.  The *)
(* mutex is taken when the stream is not closed, and held for the write.   *)

Begins(s, who) ==
    /\ mu[s] = Nobody /\ ~closed[s]
    /\ mu' = [mu EXCEPT ![s] = who]

Ends(s, who) ==
    /\ mu[s] = who
    /\ mu' = [mu EXCEPT ![s] = Nobody]

Ticks(s) ==
    /\ heartbeat[s] = "select"
    /\ Begins(s, "heartbeat")
    /\ heartbeat' = [heartbeat EXCEPT ![s] = "comment"]
    /\ UNCHANGED <<hub, producers, handler, event, watcher, context, closed, response>>

CommentWritten(s) ==
    /\ Goto(heartbeat, s, "comment", "select")
    /\ Ends(s, "heartbeat")
    /\ UNCHANGED <<hub, producers, handler, event, watcher, context, closed, response>>

CommentFails(s) ==
    /\ Goto(heartbeat, s, "comment", "ended")
    /\ Ends(s, "heartbeat")
    /\ Cancelled(s)
    /\ UNCHANGED <<hub, producers, handler, event, watcher, gone, closed, response>>

(* The context is done, or a tick finds the stream closed.                 *)
HeartbeatEnds(s) ==
    /\ Goto(heartbeat, s, "select", "ended")
    /\ cancelled[s] \/ closed[s]
    /\ UNCHANGED <<hub, producers, handler, event, watcher, mu, context, closed, response>>

-----------------------------------------------------------------------------
(* Hub.Attach in the handler goroutine.  To wait for the write lock is a   *)
(* state of its own: it keeps new readers out.                             *)

WaitsForLock(s) ==
    /\ \/ Goto(handler, s, "subscribe", "subscribing")
       \/ Goto(handler, s, "unsubscribe", "unsubscribing")
    /\ UNCHANGED <<hub, producers, event, watcher, heartbeat, mu, context, closed, response>>

WriterWaits == \E s \in Streams : handler[s] \in {"subscribing", "unsubscribing"}

Exclusive == \A p \in Producers : ~holds[p]

Subscribe(s) ==
    /\ Goto(handler, s, "subscribing", "select")
    /\ Exclusive
    /\ subs' = subs \cup {s}
    /\ UNCHANGED <<ch, chClosed, producers, event, watcher, heartbeat, mu, context, closed, response>>

Receives(s) ==
    /\ ch[s] # <<>>
    /\ Goto(handler, s, "select", "write")
    /\ event' = [event EXCEPT ![s] = Head(ch[s])]
    /\ ch' = [ch EXCEPT ![s] = Tail(@)]
    /\ UNCHANGED <<subs, chClosed, producers, watcher, heartbeat, mu, context, closed, response>>

Writes(s) ==
    /\ Goto(handler, s, "write", "writing")
    /\ Begins(s, "handler")
    /\ UNCHANGED <<hub, producers, event, watcher, heartbeat, context, closed, response>>

(* The frame is written and flushed.  The overlay's bodyWriter keeps what  *)
(* is written, up to 4 MiB, and passes only the Flush on.                  *)
Written(s) ==
    /\ Goto(handler, s, "writing", "select")
    /\ Ends(s, "handler")
    /\ written' = [written EXCEPT ![s] = Append(@, event[s])]
    /\ wire' = IF Inject THEN wire ELSE [wire EXCEPT ![s] = written'[s]]
    /\ event' = [event EXCEPT ![s] = NoEvent]
    /\ UNCHANGED <<hub, producers, watcher, heartbeat, context, closed>>

WriteFails(s) ==
    /\ Goto(handler, s, "writing", "unsubscribe")
    /\ Ends(s, "handler")
    /\ Cancelled(s)
    /\ event' = [event EXCEPT ![s] = NoEvent]
    /\ UNCHANGED <<hub, producers, watcher, heartbeat, gone, closed, response>>

(* Write on a closed stream returns context.Canceled.                      *)
WriteRefused(s) ==
    /\ Goto(handler, s, "write", "unsubscribe")
    /\ closed[s] /\ mu[s] = Nobody
    /\ event' = [event EXCEPT ![s] = NoEvent]
    /\ UNCHANGED <<hub, producers, watcher, heartbeat, mu, context, closed, response>>

FaultySeesDone(s) == FALSE          \* variant: Attach selects on the channel only

SeesDone(s) ==
    /\ cancelled[s]
    /\ Goto(handler, s, "select", "unsubscribe")
    /\ UNCHANGED <<hub, producers, event, watcher, heartbeat, mu, context, closed, response>>

Unsubscribe(s) ==
    /\ Goto(handler, s, "unsubscribing", "close")
    /\ Exclusive
    /\ subs' = subs \ {s}
    /\ chClosed' = [chClosed EXCEPT ![s] = TRUE]
    /\ UNCHANGED <<ch, producers, event, watcher, heartbeat, mu, context, closed, response>>

(* The deferred Close of Handler; the overlay writes out what it kept, and *)
(* net/http then cancels the request.                                      *)
Return(s) ==
    /\ Goto(handler, s, "close", "returned")
    /\ Closes(s)
    /\ gone' = [gone EXCEPT ![s] = TRUE]
    /\ wire' = [wire EXCEPT ![s] = written[s]]
    /\ UNCHANGED <<hub, producers, event, watcher, heartbeat, mu, written>>

-----------------------------------------------------------------------------
(* Hub.Broadcast                                                           *)

BroadcastStarts(p) ==
    /\ ~holds[p] /\ ~WriterWaits /\ SumFunction(sent) < MaxEvents
    /\ holds' = [holds EXCEPT ![p] = TRUE]
    /\ left' = [left EXCEPT ![p] = subs]
    /\ sent' = [sent EXCEPT ![p] = @ + 1]
    /\ UNCHANGED <<hub, handler, event, watcher, heartbeat, mu, context, closed, response>>

FaultyServed(p, s) == left[p]       \* variant: a subscriber may be served again

Served(p, s) == left[p] \ {s}

Offered(p, s) ==
    IF Len(ch[s]) < Buf THEN ch' = [ch EXCEPT ![s] = Append(@, [by |-> p, no |-> sent[p]])]
    ELSE UNCHANGED ch

Sends(p) ==
    \E s \in left[p] :
        /\ Offered(p, s)
        /\ left' = [left EXCEPT ![p] = Served(p, s)]
        /\ UNCHANGED <<subs, chClosed, sent, holds, handler, event, watcher, heartbeat, mu,
                       context, closed, response>>

BroadcastEnds(p) ==
    /\ holds[p] /\ left[p] = {}
    /\ holds' = [holds EXCEPT ![p] = FALSE]
    /\ UNCHANGED <<hub, sent, left, handler, event, watcher, heartbeat, mu, context, closed, response>>

-----------------------------------------------------------------------------
Watch(s) == WatcherSees(s) \/ WatcherCloses(s) \/ WatcherEnds(s)

Beat(s) == CommentWritten(s) \/ CommentFails(s) \/ HeartbeatEnds(s)

Attach(s) ==
    \/ WaitsForLock(s) \/ Subscribe(s) \/ Receives(s) \/ SeesDone(s)
    \/ Writes(s) \/ Written(s) \/ WriteFails(s) \/ WriteRefused(s)
    \/ Unsubscribe(s) \/ Return(s)

Broadcast(p) == Sends(p) \/ BroadcastEnds(p)

Next ==
    \/ \E s \in Streams :
           Open(s) \/ Disconnect(s) \/ Watch(s) \/ Ticks(s) \/ Beat(s) \/ Attach(s)
    \/ \E p \in Producers : BroadcastStarts(p) \/ Broadcast(p)

Spec == Init /\ [][Next]_vars

-----------------------------------------------------------------------------
TypeOK ==
    /\ subs \subseteq Streams
    /\ \A s \in Streams : ch[s] \in Seq(Events) /\ Len(ch[s]) <= Buf
    /\ DOMAIN ch = Streams /\ chClosed \in [Streams -> BOOLEAN]
    /\ sent \in [Producers -> 0 .. MaxEvents] /\ left \in [Producers -> SUBSET Streams]
    /\ holds \in [Producers -> BOOLEAN]
    /\ handler \in [Streams -> {"none", "subscribe", "subscribing", "select", "write", "writing",
                                "unsubscribe", "unsubscribing", "close", "returned"}]
    /\ event \in [Streams -> Events \cup {NoEvent}]
    /\ watcher \in [Streams -> {"none", "select", "close", "ended"}]
    /\ heartbeat \in [Streams -> {"none", "select", "comment", "ended"}]
    /\ mu \in [Streams -> {Nobody, "handler", "heartbeat"}]
    /\ gone \in [Streams -> BOOLEAN] /\ cancelled \in [Streams -> BOOLEAN]
    /\ closed \in [Streams -> BOOLEAN]
    /\ DOMAIN written = Streams /\ DOMAIN wire = Streams
    /\ \A s \in Streams : written[s] \in Seq(Events) /\ wire[s] \in Seq(Events)

(* Nothing is written to a response whose handler has returned: net/http   *)
(* may have given it to another request (sse.go:97-106, 146-176, 187).     *)
NoWriteAfterReturn == \A s \in Streams : handler[s] = "returned" => mu[s] = Nobody

\* What the client got, what the handler holds and what the channel holds.
Pending(s) ==
    written[s] \o (IF event[s] = NoEvent THEN <<>> ELSE <<event[s]>>) \o ch[s]

(* What a client receives of one producer comes in the order in which it   *)
(* was broadcast and nothing comes twice, whatever was dropped for want of *)
(* room (hub.go:40-51, 61-76).                                             *)
InOrder ==
    \A s \in Streams :
        LET q == Pending(s) IN
        \A i, j \in 1 .. Len(q) : i < j /\ q[i].by = q[j].by => q[i].no < q[j].no

(* A request that is gone leaves nothing behind: the handler returns, the  *)
(* hub forgets the channel and the other goroutines end (sse.go:79-85,     *)
(* 163-176, hub.go:60-77).                                                 *)
StreamEnds ==
    \A s \in Streams :
        gone[s] ~> /\ handler[s] = "returned" /\ s \notin subs
                   /\ watcher[s] = "ended" /\ heartbeat[s] = "ended"

(* "Write frames and flushes one SSE event." (sse.go:111): once a Write    *)
(* has returned, the client has been sent what was written.                *)
WriteFlushes == \A s \in Streams : handler[s] = "select" => wire[s] = written[s]

=============================================================================
