---------------------------- MODULE RateLimiter ----------------------------
(***************************************************************************)
(* middleware.RateLimit: a token bucket per client key.  Allow reads the   *)
(* clock before it takes the mutex, so requests may come to the bucket in  *)
(* another order than their clock readings; buckets idle for a while are   *)
(* dropped when there are many.  Time runs in ticks in which a bucket      *)
(* gains a whole number of tokens.                                         *)
(***************************************************************************)
EXTENDS Integers, FiniteSets

CONSTANTS
    Keys,           \* client keys
    Requests,       \* request goroutines
    RPS,            \* tokens a bucket gains in a tick
    Burst,          \* its size
    Many,           \* more buckets than these are collected (10_000)
    Idle,           \* ticks after which a bucket may be collected (10 minutes)
    Lag,            \* bound: ticks a request waits for the mutex
    MaxTime,        \* bound of the clock
    None            \* no bucket, no call of Allow

Times == 0 .. MaxTime

Buckets == [tokens : Int, last : Times]

Calls == [key : Keys, now : Times]

ASSUME RateAssumption ==
    /\ RPS \in Nat \ {0} /\ Burst \in Nat \ {0} /\ Many \in Nat
    /\ Idle \in Nat /\ Lag \in Nat /\ MaxTime \in Nat
    /\ None \notin Buckets \cup Calls

VARIABLES
    time,       \* the clock
    buckets,    \* tokenLimiter.m
    calls,      \* the call of Allow each request is in: its key, its reading
    seen,       \* history: any key and any window of time
    admitted,   \* history: the requests of that key admitted in that window
    forgiven    \* history: what that key was spared by collections

vars == <<time, buckets, calls, seen, admitted, forgiven>>

Windows == {w \in [key : Keys, from : Times, to : Times] : w.from <= w.to}

Init ==
    /\ time = 0 /\ buckets = [k \in Keys |-> None]
    /\ calls = [r \in Requests |-> None]
    /\ seen \in Windows /\ admitted = 0 /\ forgiven = 0

Tick ==
    /\ time < MaxTime
    /\ \A r \in Requests : calls[r] # None => time - calls[r].now < Lag
    /\ time' = time + 1
    /\ UNCHANGED <<buckets, calls, seen, admitted, forgiven>>

(* A request arrives, and Allow reads the clock.                           *)
Arrive(r, k) ==
    /\ calls[r] = None
    /\ calls' = [calls EXCEPT ![r] = [key |-> k, now |-> time]]
    /\ UNCHANGED <<time, buckets, seen, admitted, forgiven>>

Returns(r) ==
    /\ calls' = [calls EXCEPT ![r] = None]
    /\ UNCHANGED <<time, seen>>

Counted(c) ==
    admitted' = IF c.key = seen.key /\ c.now \in seen.from .. seen.to
                THEN admitted + 1 ELSE admitted

NewBucket(t) == [tokens |-> Burst - 1, last |-> t]

FaultyIsIdle(b, t) == t >= b.last           \* variant: 10, and not ten minutes

IsIdle(b, t) == t - b.last > Idle

(* gcLocked, when the map has grown too large.                             *)
Collected(m, t) ==
    IF Cardinality({k \in Keys : m[k] # None}) > Many
    THEN [k \in Keys |-> IF m[k] = None THEN None
                         ELSE IF IsIdle(m[k], t) THEN None ELSE m[k]]
    ELSE m

(* What a bucket that is collected may still lack: it has gained for Idle  *)
(* ticks, but for those the requests waited for the mutex.  Nothing, when  *)
(* that time fills it; RateLimit does not check that it does.              *)
Shortfall ==
    IF Burst <= RPS * (Idle - 2 * Lag) THEN 0 ELSE Burst - RPS * (Idle - 2 * Lag)

Forgives ==
    forgiven' = IF buckets[seen.key] # None /\ buckets'[seen.key] = None
                THEN forgiven + Shortfall ELSE forgiven

AllowNew(r) ==
    LET c == calls[r] IN
    /\ c # None
    /\ buckets[c.key] = None
    /\ buckets' = Collected([buckets EXCEPT ![c.key] = NewBucket(c.now)], c.now)
    /\ Forgives /\ Counted(c) /\ Returns(r)

Capped(n) == IF n > Burst THEN Burst ELSE n

(* The reading may lie before the last one: the bucket loses tokens then.  *)
Refilled(b, t) == Capped(b.tokens + (t - b.last) * RPS)

Allow(r) ==
    LET c == calls[r]  b == buckets[c.key] IN
    /\ c # None
    /\ b # None
    /\ Refilled(b, c.now) >= 1
    /\ buckets' = [buckets EXCEPT ![c.key] = [tokens |-> Refilled(b, c.now) - 1, last |-> c.now]]
    /\ Counted(c) /\ Returns(r) /\ UNCHANGED forgiven

FaultyRest(b, t) == Refilled(b, t) - 1      \* variant: who is denied pays as well

Rest(b, t) == Refilled(b, t)

Deny(r) ==
    LET c == calls[r]  b == buckets[c.key] IN
    /\ c # None
    /\ b # None
    /\ Refilled(b, c.now) < 1
    /\ buckets' = [buckets EXCEPT ![c.key] = [tokens |-> Rest(b, c.now), last |-> c.now]]
    /\ Returns(r) /\ UNCHANGED <<admitted, forgiven>>

Next ==
    \/ Tick
    \/ \E r \in Requests : AllowNew(r) \/ Allow(r) \/ Deny(r) \/ \E k \in Keys : Arrive(r, k)

Spec == Init /\ [][Next]_vars

-----------------------------------------------------------------------------
TypeOK ==
    /\ time \in Times
    /\ buckets \in [Keys -> Buckets \cup {None}]
    /\ \A k \in Keys : buckets[k] # None => buckets[k].tokens <= Burst
    /\ calls \in [Requests -> Calls \cup {None}]
    /\ seen \in Windows /\ admitted \in Nat /\ forgiven \in Nat

(* In no window of time are more requests of a key admitted than its       *)
(* bucket holds and gains in it, whatever the order in which they reach    *)
(* the bucket, and what each collection of the bucket spares it: nothing,  *)
(* where a bucket that is idle for ten minutes is full by then             *)
(* (ratelimit.go:113-145).                                                 *)
RateBound == admitted <= Burst + forgiven + RPS * (seen.to - seen.from)

(* Allow denies a request only if another one of its key came less than a  *)
(* tick ago, or within the time a request may wait for the mutex: readings *)
(* out of order, and denied requests, shut a client out for no longer.     *)
DeniedOnlyRecently ==
    [][\A r \in Requests : Deny(r) => calls[r].now - buckets[calls[r].key].last <= Lag]_vars

=============================================================================
