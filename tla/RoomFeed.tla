------------------------------ MODULE RoomFeed ------------------------------
(***************************************************************************)
(* What a hub with rooms promises to its subscribers, without goroutines,  *)
(* channels or connections: there is one order of all messages; a          *)
(* subscriber receives some of the messages meant for it, each at most     *)
(* once and in that order.  Which ones it misses (a slow consumer, a lost  *)
(* connection) is left open.                                               *)
(***************************************************************************)
EXTENDS Naturals, Sequences

CONSTANTS Subscribers, Rooms, NoRoom

VARIABLES
    log,        \* the room, or NoRoom, of every message accepted so far
    joined,     \* the rooms of each subscriber
    got         \* the positions in log of what each subscriber received

feedVars == <<log, joined, got>>

LastOf(s) == IF s = <<>> THEN 0 ELSE s[Len(s)]

Addressed(m, s) == log[m] = NoRoom \/ log[m] \in joined[s]

Init ==
    /\ log = <<>>
    /\ joined = [s \in Subscribers |-> {}]
    /\ got = [s \in Subscribers |-> <<>>]

Accept(r) ==
    /\ log' = Append(log, r)
    /\ UNCHANGED <<joined, got>>

(* Rooms are joined before anything is received.                           *)
Join(s, r) ==
    /\ joined[s] = {} /\ got[s] = <<>>
    /\ joined' = [joined EXCEPT ![s] = {r}]
    /\ UNCHANGED <<log, got>>

Deliver(s) ==
    \E m \in LastOf(got[s]) + 1 .. Len(log) :
        /\ Addressed(m, s)
        /\ got' = [got EXCEPT ![s] = Append(@, m)]
        /\ UNCHANGED <<log, joined>>

Next ==
    \/ \E r \in Rooms \cup {NoRoom} : Accept(r)
    \/ \E s \in Subscribers : Deliver(s) \/ \E r \in Rooms : Join(s, r)

Spec == Init /\ [][Next]_feedVars

=============================================================================
