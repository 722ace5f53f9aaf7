---------------------------- MODULE IntakeProofs ---------------------------
(***************************************************************************)
(* Proofs about what a request may bring into a server, for any clients,   *)
(* keys, files, rates and page sizes: the limiter, the objects and uploads, *)
(* and the items of the admin application.                                 *)
(***************************************************************************)
EXTENDS Intake, TLAPS

(***************************************************************************)
(* The rate limiter.                                                       *)
(***************************************************************************)
(* A request read the clock at most Lag ago.                               *)
CallInv ==
    \A r \in Requests : calls[r] # None =>
        calls[r].now <= time /\ time <= calls[r].now + Lag

(* The debt of a bucket is at most what it gains while a request waits,    *)
(* and it is paid by now.                                                  *)
DebtInv ==
    \A k \in Keys : buckets[k] # None =>
        /\ buckets[k].last <= time
        /\ 0 <= buckets[k].tokens + RPS * (time - buckets[k].last)
        /\ 0 <= buckets[k].tokens + RPS * Lag

(* Once a request of the window was admitted, what was admitted and what   *)
(* is left were all gained since the window began, or forgiven by a        *)
(* collection: a bucket that was collected had been idle, and lacked at    *)
(* most the shortfall.                                                     *)
BoundInv ==
    admitted > 0 =>
        LET b == buckets[seen.key] IN
        /\ b = None => admitted <= forgiven + RPS * (time - Lag - seen.from)
        /\ b # None => admitted + b.tokens <= Burst + forgiven + RPS * (b.last - seen.from)

(* Where ten minutes fill a bucket, no collection forgives anything.       *)
Forgiveness == Shortfall = 0 => forgiven = 0

RateInv == TypeOK /\ CallInv /\ DebtInv /\ BoundInv /\ RateBound /\ Forgiveness

(* The shortfall is a number, and no less than what an idle bucket lacks.  *)
LEMMA ShortfallTyped == Shortfall \in Nat /\ Burst - RPS * (Idle - 2 * Lag) <= Shortfall
<1>1. RPS * (Idle - 2 * Lag) \in Int
  BY RateAssumption
<1> QED
  BY <1>1, RateAssumption DEF Shortfall

(* What a bucket gains in a number of ticks is a number.                   *)
LEMMA Gain == ASSUME NEW x \in Nat PROVE RPS * x \in Nat
BY RateAssumption

(* The same of a difference of times.                                      *)
LEMMA GainTyped == ASSUME NEW x \in Int PROVE RPS * x \in Int
BY RateAssumption

(* What the refilled bucket holds, without the cap.                        *)
LEMMA RefilledTyped ==
    ASSUME NEW b \in Buckets, NEW t \in Times
    PROVE  /\ Refilled(b, t) \in Int
           /\ Refilled(b, t) <= Burst
           /\ Refilled(b, t) <= b.tokens + RPS * (t - b.last)
           /\ Refilled(b, t) = Burst \/ Refilled(b, t) = b.tokens + RPS * (t - b.last)
BY RateAssumption DEF Refilled, Capped, Buckets, Times

(* The sum over a window of time is a number.                              *)
LEMMA WindowTyped ==
    ASSUME NEW w \in Windows
    PROVE  w.key \in Keys /\ w.from \in Nat /\ w.to \in Nat /\ w.from <= w.to
BY RateAssumption DEF Windows, Times

(* No client has a bucket at first.                                        *)
LEMMA RateInit == Init => RateInv
<1>1. SUFFICES ASSUME Init PROVE RateInv
  OBVIOUS
<1>2. seen \in Windows
  BY <1>1 DEF Init
<1>3. seen.to - seen.from \in Nat
  BY <1>2, WindowTyped
<1>4. RPS * (seen.to - seen.from) \in Nat
  BY <1>3, Gain
<1>5. RateBound
  BY <1>1, <1>4, RateAssumption DEF Init, RateBound
<1>6. TypeOK
  BY <1>1, RateAssumption DEF Init, TypeOK, Times
<1>7. CallInv /\ DebtInv /\ BoundInv /\ Forgiveness
  BY <1>1 DEF Init, CallInv, DebtInv, BoundInv, Forgiveness
<1> QED
  BY <1>5, <1>6, <1>7 DEF RateInv

-----------------------------------------------------------------------------
(* Time passes: what may be admitted grows by the rate.                    *)
LEMMA TickStep == RateInv /\ Tick => RateInv'
<1>1. SUFFICES ASSUME RateInv, Tick PROVE RateInv'
  OBVIOUS
<1> USE <1>1 DEF RateInv
<1>2. time \in Nat /\ time' = time + 1 /\ time' \in Times
  BY RateAssumption DEF TypeOK, Tick, Times
<1>3. UNCHANGED <<buckets, calls, seen, admitted, forgiven>>
  BY DEF Tick
<1>4. TypeOK'
  BY <1>2, <1>3 DEF TypeOK
<1>5. RateBound' /\ Forgiveness'
  BY <1>3 DEF RateBound, Forgiveness
<1>6. CallInv'
  <2>1. SUFFICES ASSUME NEW r \in Requests, calls[r] # None
                 PROVE  calls[r].now <= time + 1 /\ time + 1 <= calls[r].now + Lag
    BY <1>2, <1>3 DEF CallInv
  <2>2. calls[r].now \in Int
    BY <2>1 DEF TypeOK, Calls, Times
  <2>3. time - calls[r].now < Lag /\ calls[r].now <= time
    BY <2>1 DEF Tick, CallInv
  <2> QED
    BY <1>2, <2>2, <2>3, RateAssumption
<1>7. DebtInv'
  <2>1. SUFFICES ASSUME NEW k \in Keys, buckets[k] # None
                 PROVE  /\ buckets[k].last <= time'
                        /\ 0 <= buckets[k].tokens + RPS * (time' - buckets[k].last)
                        /\ 0 <= buckets[k].tokens + RPS * Lag
    BY <1>3 DEF DebtInv
  <2>2. buckets[k].last \in Int /\ buckets[k].tokens \in Int
    BY <2>1 DEF TypeOK, Buckets, Times
  <2> QED
    BY <1>2, <2>1, <2>2, RateAssumption DEF DebtInv
<1>8. BoundInv'
  <2>1. CASE admitted > 0 /\ buckets[seen.key] = None
    <3>1. seen.from \in Int /\ admitted \in Nat /\ forgiven \in Nat
      BY WindowTyped DEF TypeOK
    <3>2. admitted <= forgiven + RPS * (time - Lag - seen.from)
      BY <2>1 DEF BoundInv
    <3>3. RPS * (time + 1 - Lag - seen.from) = RPS * (time - Lag - seen.from) + RPS
      BY <3>1, <1>2, RateAssumption
    <3>4. RPS * (time - Lag - seen.from) \in Int
      BY <3>1, <1>2, RateAssumption, GainTyped
    <3>5. admitted <= forgiven + RPS * (time' - Lag - seen.from)
      BY <1>2, <3>1, <3>2, <3>3, <3>4, RateAssumption
    <3> QED
      BY <1>3, <2>1, <3>5 DEF BoundInv
  <2>2. CASE ~(admitted > 0 /\ buckets[seen.key] = None)
    BY <1>3, <2>2 DEF BoundInv
  <2> QED
    BY <2>1, <2>2
<1> QED
  BY <1>4, <1>5, <1>6, <1>7, <1>8

(* A request arrives and takes the time before the mutex.                  *)
LEMMA ArriveStep ==
    ASSUME NEW r \in Requests, NEW k \in Keys
    PROVE  RateInv /\ Arrive(r, k) => RateInv'
<1>1. SUFFICES ASSUME RateInv, Arrive(r, k) PROVE RateInv'
  OBVIOUS
<1> USE <1>1 DEF RateInv
<1> DEFINE c == [key |-> k, now |-> time]
<1>2. c \in Calls /\ c.now = time
  BY DEF TypeOK, Calls
<1>3. calls' = [calls EXCEPT ![r] = c] /\ UNCHANGED <<time, buckets, seen, admitted, forgiven>>
  BY DEF Arrive
<1> HIDE DEF c
<1>4. TypeOK'
  BY <1>2, <1>3 DEF TypeOK
<1>5. CallInv'
  BY <1>2, <1>3, RateAssumption DEF CallInv, TypeOK, Times
<1>6. DebtInv' /\ BoundInv' /\ RateBound' /\ Forgiveness'
  BY <1>3 DEF DebtInv, BoundInv, RateBound, Forgiveness
<1> QED
  BY <1>4, <1>5, <1>6

(* What every call that returns leaves alone.                              *)
LEMMA ReturnsStep ==
    ASSUME NEW r \in Requests, CallInv, calls \in [Requests -> Calls \cup {None}], Returns(r)
    PROVE  CallInv' /\ calls' \in [Requests -> Calls \cup {None}]
BY DEF CallInv, Returns

(* A bucket that was just charged owes no more than it gains until now.    *)
LEMMA FreshDebt ==
    ASSUME NEW n \in Buckets, time \in Times, n.last <= time, time <= n.last + Lag,
           0 <= n.tokens + RPS * (time - n.last)
    PROVE  0 <= n.tokens + RPS * Lag
<1>1. n.last \in Int /\ n.tokens \in Int /\ time \in Int /\ Lag + n.last - time \in Nat
  BY RateAssumption DEF Buckets, Times
<1>2. RPS * (Lag + n.last - time) >= 0
  BY <1>1, Gain
<1>3. RPS * (Lag + n.last - time) = RPS * Lag - RPS * (time - n.last)
  BY <1>1, RateAssumption
<1>4. RPS * Lag \in Int /\ RPS * (time - n.last) \in Int
  BY <1>1, GainTyped, RateAssumption
<1> QED
  BY <1>1, <1>2, <1>3, <1>4

(* The call of a request that holds the mutex.                             *)
LEMMA CallTyped ==
    ASSUME TypeOK, CallInv, NEW r \in Requests, calls[r] # None
    PROVE  /\ calls[r].key \in Keys /\ calls[r].now \in Times
           /\ calls[r].now <= time /\ time <= calls[r].now + Lag
BY DEF TypeOK, CallInv, Calls

(* Charging the bucket of a key keeps the debts small.                     *)
LEMMA DebtStep ==
    ASSUME TypeOK, DebtInv, UNCHANGED time,
           NEW k \in Keys, NEW n \in Buckets,
           n.last <= time, time <= n.last + Lag, 0 <= n.tokens + RPS * (time - n.last),
           \A j \in Keys : buckets'[j] \in {None, buckets[j], IF j = k THEN n ELSE buckets[j]}
    PROVE  DebtInv'
<1>1. SUFFICES ASSUME NEW j \in Keys, buckets'[j] # None
               PROVE  /\ buckets'[j].last <= time
                      /\ 0 <= buckets'[j].tokens + RPS * (time - buckets'[j].last)
                      /\ 0 <= buckets'[j].tokens + RPS * Lag
  BY DEF DebtInv
<1>2. 0 <= n.tokens + RPS * Lag
  BY FreshDebt DEF TypeOK
<1>3. CASE buckets'[j] = buckets[j]
  BY <1>1, <1>3 DEF DebtInv
<1>4. CASE buckets'[j] = n
  BY <1>2, <1>4
<1> QED
  BY <1>1, <1>3, <1>4

(* Refilling adds no more than the time since the last request is worth.   *)
LEMMA RefillBound ==
    ASSUME TypeOK, BoundInv, NEW t \in Times, buckets[seen.key] # None,
           admitted > 0 \/ seen.from <= t
    PROVE  admitted + Refilled(buckets[seen.key], t) <= Burst + forgiven + RPS * (t - seen.from)
<1> DEFINE b == buckets[seen.key]
<1>1. b \in Buckets /\ seen.from \in Nat /\ admitted \in Nat /\ forgiven \in Nat
  BY WindowTyped DEF TypeOK
<1>2. b.tokens \in Int /\ b.last \in Nat /\ t \in Nat
  BY <1>1, RateAssumption DEF Buckets, Times
<1>3. /\ Refilled(b, t) \in Int
      /\ Refilled(b, t) <= Burst
      /\ Refilled(b, t) <= b.tokens + RPS * (t - b.last)
  BY <1>1, RefilledTyped
<1>4. CASE admitted > 0
  <2>1. admitted + b.tokens <= Burst + forgiven + RPS * (b.last - seen.from)
    BY <1>4 DEF BoundInv
  <2>2. RPS * (t - seen.from) = RPS * (t - b.last) + RPS * (b.last - seen.from)
    BY <1>1, <1>2, RateAssumption
  <2>3. /\ RPS * (t - b.last) \in Int
        /\ RPS * (b.last - seen.from) \in Int
    BY <1>1, <1>2, GainTyped
  <2> HIDE DEF b
  <2> QED
    BY <1>1, <1>2, <1>3, <2>1, <2>2, <2>3, RateAssumption DEF b
<1>5. CASE admitted = 0 /\ seen.from <= t
  <2>1. RPS * (t - seen.from) \in Nat
    BY <1>1, <1>2, <1>5, Gain
  <2> QED
    BY <1>1, <1>3, <1>5, <2>1, RateAssumption
<1> QED
  BY <1>1, <1>4, <1>5

(* A request that is denied takes nothing.                                 *)
LEMMA DenyStep ==
    ASSUME NEW r \in Requests
    PROVE  RateInv /\ Deny(r) => RateInv'
<1>1. SUFFICES ASSUME RateInv, Deny(r) PROVE RateInv'
  OBVIOUS
<1> USE <1>1 DEF RateInv
<1> DEFINE c == calls[r]
           b == buckets[c.key]
           n == [tokens |-> Refilled(b, c.now), last |-> c.now]
<1>2. c # None /\ b # None /\ Refilled(b, c.now) < 1 /\ Returns(r)
  BY DEF Deny
<1>3. /\ c.key \in Keys /\ c.now \in Times
      /\ c.now <= time /\ time <= c.now + Lag
  BY <1>2, CallTyped
<1>4. b \in Buckets
  BY <1>2, <1>3 DEF TypeOK
<1>5. Refilled(b, c.now) \in Int /\ Refilled(b, c.now) <= Burst
  BY <1>3, <1>4, RefilledTyped
<1>6. n \in Buckets /\ n # None /\ n.last = c.now /\ n.tokens = Refilled(b, c.now)
  BY <1>3, <1>5, RateAssumption DEF Buckets
<1>7. buckets' = [buckets EXCEPT ![c.key] = n] /\ UNCHANGED <<time, seen, admitted, forgiven>>
  BY DEF Deny, Rest, Returns
<1> HIDE DEF n, b
<1>8. CallInv' /\ calls' \in [Requests -> Calls \cup {None}]
  BY <1>2, ReturnsStep DEF TypeOK
<1>9. TypeOK'
  BY <1>3, <1>5, <1>6, <1>7, <1>8 DEF TypeOK
<1>10. DebtInv'
  <2>1. Refilled(b, c.now) = b.tokens + RPS * (c.now - b.last)
    BY <1>2, <1>3, <1>4, <1>5, RefilledTyped, RateAssumption
  <2>2. b.tokens \in Int /\ b.last \in Int /\ c.now \in Int /\ time \in Int
    BY <1>3, <1>4 DEF Buckets, Times, TypeOK
  <2>3. 0 <= b.tokens + RPS * (time - b.last)
    BY <1>2, <1>3 DEF DebtInv, b
  <2>4. RPS * (c.now - b.last) + RPS * (time - c.now) = RPS * (time - b.last)
    BY <2>2, RateAssumption
  <2>5. /\ RPS * (c.now - b.last) \in Int /\ RPS * (time - c.now) \in Int
        /\ RPS * (time - b.last) \in Int
    BY <2>2, GainTyped
  <2>6. 0 <= n.tokens + RPS * (time - n.last)
    BY <1>6, <2>1, <2>2, <2>3, <2>4, <2>5
  <2>7. \A j \in Keys : buckets'[j] \in {None, buckets[j], IF j = c.key THEN n ELSE buckets[j]}
    BY <1>7 DEF TypeOK
  <2> QED
    BY <1>3, <1>6, <1>7, <2>6, <2>7, DebtStep
<1>11. BoundInv'
  <2>1. CASE seen.key = c.key /\ admitted > 0
    <3>1. admitted + n.tokens <= Burst + forgiven + RPS * (n.last - seen.from)
      BY <1>2, <1>3, <1>6, <2>1, RefillBound DEF b
    <3>2. buckets'[seen.key] = n
      BY <1>3, <1>7, <2>1 DEF TypeOK
    <3> QED
      BY <1>6, <1>7, <3>1, <3>2 DEF BoundInv
  <2>2. CASE seen.key # c.key
    BY <1>7, <2>2 DEF BoundInv, TypeOK
  <2>3. CASE ~(admitted > 0)
    BY <1>7, <2>3 DEF BoundInv
  <2> QED
    BY <2>1, <2>2, <2>3
<1>12. RateBound' /\ Forgiveness'
  BY <1>7 DEF RateBound, Forgiveness
<1> QED
  BY <1>8, <1>9, <1>10, <1>11, <1>12

(* Admitting a request of the key that is watched.                         *)
LEMMA CountStep ==
    ASSUME TypeOK, RateBound, NEW c \in Calls, Counted(c), UNCHANGED <<seen, forgiven>>,
           NEW n \in Buckets, n # None, n.last = c.now, 0 <= n.tokens,
           c.key = seen.key, buckets'[seen.key] = n,
           admitted > 0 \/ seen.from <= c.now =>
              admitted + n.tokens + 1 <= Burst + forgiven + RPS * (n.last - seen.from)
    PROVE  admitted' \in Nat /\ BoundInv' /\ RateBound'
<1>1. /\ admitted \in Nat /\ forgiven \in Nat /\ seen.from \in Nat /\ seen.to \in Nat
      /\ c.now \in Nat /\ n.tokens \in Int
  BY WindowTyped, RateAssumption DEF TypeOK, Calls, Buckets, Times
<1> DEFINE in == c.now \in seen.from .. seen.to
<1>2. admitted' = IF in THEN admitted + 1 ELSE admitted
  BY DEF Counted
<1>3. RPS * (n.last - seen.from) \in Int /\ RPS * (seen.to - seen.from) \in Int
  BY <1>1, GainTyped
<1>4. CASE in
  <2>1. seen.from <= c.now /\ seen.to - c.now \in Nat
    BY <1>1, <1>4
  <2>2. RPS * (seen.to - c.now) \in Nat
    BY <2>1, Gain
  <2>3. RPS * (seen.to - seen.from) = RPS * (n.last - seen.from) + RPS * (seen.to - c.now)
    BY <1>1, RateAssumption
  <2>4. admitted + n.tokens + 1 <= Burst + forgiven + RPS * (n.last - seen.from)
    BY <2>1
  <2>5. RateBound'
    BY <1>1, <1>2, <1>3, <1>4, <2>2, <2>3, <2>4, RateAssumption DEF RateBound
  <2>6. admitted' + n.tokens <= Burst + forgiven + RPS * (n.last - seen.from)
    BY <1>1, <1>2, <1>3, <1>4, <2>4, RateAssumption
  <2> QED
    BY <1>1, <1>2, <1>4, <2>5, <2>6 DEF BoundInv
<1>5. CASE ~in
  <2>1. admitted' = admitted
    BY <1>2, <1>5
  <2>2. admitted > 0 => admitted + n.tokens <= Burst + forgiven + RPS * (n.last - seen.from)
    BY <1>1, <1>3, RateAssumption
  <2> QED
    BY <1>1, <2>1, <2>2 DEF BoundInv, RateBound
<1> QED
  BY <1>4, <1>5

(* A request that is allowed takes one from a bucket that has one.         *)
LEMMA AllowStep ==
    ASSUME NEW r \in Requests
    PROVE  RateInv /\ Allow(r) => RateInv'
<1>1. SUFFICES ASSUME RateInv, Allow(r) PROVE RateInv'
  OBVIOUS
<1> USE <1>1 DEF RateInv
<1> DEFINE c == calls[r]
           b == buckets[c.key]
           n == [tokens |-> Refilled(b, c.now) - 1, last |-> c.now]
<1>2. c # None /\ b # None /\ Refilled(b, c.now) >= 1 /\ Returns(r) /\ Counted(c)
  BY DEF Allow
<1>3. /\ c.key \in Keys /\ c.now \in Times /\ c \in Calls
      /\ c.now <= time /\ time <= c.now + Lag
  BY <1>2, CallTyped DEF TypeOK
<1>4. b \in Buckets
  BY <1>2, <1>3 DEF TypeOK
<1>5. Refilled(b, c.now) \in Int /\ Refilled(b, c.now) <= Burst
  BY <1>3, <1>4, RefilledTyped
<1>6. /\ n \in Buckets /\ n # None /\ n.last = c.now
      /\ n.tokens = Refilled(b, c.now) - 1 /\ 0 <= n.tokens /\ n.tokens <= Burst
  BY <1>2, <1>3, <1>5, RateAssumption DEF Buckets
<1>7. buckets' = [buckets EXCEPT ![c.key] = n] /\ UNCHANGED <<time, seen, forgiven>>
  BY DEF Allow, Returns
<1> HIDE DEF n, b
<1>8. CallInv' /\ calls' \in [Requests -> Calls \cup {None}]
  BY <1>2, ReturnsStep DEF TypeOK
<1>9. DebtInv'
  <2>1. time - c.now \in Nat /\ n.tokens \in Int
    BY <1>3, <1>6, RateAssumption DEF Times, TypeOK, Buckets
  <2>2. RPS * (time - c.now) \in Nat
    BY <2>1, Gain
  <2>3. 0 <= n.tokens + RPS * (time - n.last)
    BY <1>6, <2>1, <2>2
  <2>4. \A j \in Keys : buckets'[j] \in {None, buckets[j], IF j = c.key THEN n ELSE buckets[j]}
    BY <1>7 DEF TypeOK
  <2> QED
    BY <1>3, <1>6, <1>7, <2>3, <2>4, DebtStep
<1>10. admitted' \in Nat /\ BoundInv' /\ RateBound'
  <2>1. CASE seen.key = c.key
    <3>1. admitted > 0 \/ seen.from <= c.now =>
             admitted + Refilled(b, c.now) <= Burst + forgiven + RPS * (c.now - seen.from)
      BY <1>2, <1>3, <2>1, RefillBound DEF b
    <3>2. admitted + n.tokens + 1 = admitted + Refilled(b, c.now)
      BY <1>5, <1>6 DEF TypeOK
    <3>3. buckets'[seen.key] = n
      BY <1>3, <1>7, <2>1 DEF TypeOK
    <3> QED
      BY <1>2, <1>3, <1>6, <1>7, <2>1, <3>1, <3>2, <3>3, CountStep
  <2>2. CASE seen.key # c.key
    <3>1. admitted' = admitted /\ buckets'[seen.key] = buckets[seen.key]
      BY <1>2, <1>7, <2>2 DEF Counted, TypeOK
    <3> QED
      BY <1>7, <3>1 DEF BoundInv, RateBound, TypeOK
  <2> QED
    BY <2>1, <2>2
<1>11. TypeOK' /\ Forgiveness'
  BY <1>3, <1>6, <1>7, <1>8, <1>10 DEF TypeOK, Forgiveness
<1> QED
  BY <1>8, <1>9, <1>10, <1>11

(* A collection drops buckets idle for longer than Idle and nothing else.  *)
LEMMA CollectedTyped ==
    ASSUME NEW m \in [Keys -> Buckets \cup {None}], NEW t \in Times
    PROVE  /\ Collected(m, t) \in [Keys -> Buckets \cup {None}]
           /\ \A k \in Keys : \/ Collected(m, t)[k] = m[k]
                              \/ Collected(m, t)[k] = None /\ m[k] # None /\ t - m[k].last > Idle
<1> DEFINE kept == [k \in Keys |-> IF m[k] = None THEN None
                                  ELSE IF IsIdle(m[k], t) THEN None ELSE m[k]]
<1>1. Collected(m, t) = kept \/ Collected(m, t) = m
  BY DEF Collected
<1>2. kept \in [Keys -> Buckets \cup {None}]
  OBVIOUS
<1>3. ASSUME NEW k \in Keys
      PROVE  \/ kept[k] = m[k]
             \/ kept[k] = None /\ m[k] # None /\ t - m[k].last > Idle
  <2>1. CASE m[k] # None /\ IsIdle(m[k], t)
    BY <2>1 DEF IsIdle
  <2>2. CASE ~(m[k] # None /\ IsIdle(m[k], t))
    <3> HIDE DEF IsIdle
    <3> QED
      BY <2>2
  <2> QED
    BY <2>1, <2>2
<1> HIDE DEF kept
<1> QED
  BY <1>1, <1>2, <1>3

(* The first request of a client takes one from a full bucket.             *)
LEMMA AllowNewStep ==
    ASSUME NEW r \in Requests
    PROVE  RateInv /\ AllowNew(r) => RateInv'
<1>1. SUFFICES ASSUME RateInv, AllowNew(r) PROVE RateInv'
  OBVIOUS
<1> USE <1>1 DEF RateInv
<1> DEFINE c == calls[r]
           n == NewBucket(c.now)
           m == [buckets EXCEPT ![c.key] = n]
<1>2. c # None /\ buckets[c.key] = None /\ Returns(r) /\ Counted(c)
  BY DEF AllowNew
<1>3. /\ c.key \in Keys /\ c.now \in Times /\ c \in Calls
      /\ c.now <= time /\ time <= c.now + Lag
      /\ c.now \in Nat /\ time \in Nat
  BY <1>2, CallTyped, RateAssumption DEF TypeOK, Times
<1>4. /\ n \in Buckets /\ n # None /\ n.last = c.now
      /\ n.tokens = Burst - 1 /\ 0 <= n.tokens /\ n.tokens <= Burst
  BY <1>3, RateAssumption DEF Buckets, NewBucket
<1>5. buckets' = Collected(m, c.now) /\ UNCHANGED <<time, seen>>
  BY DEF AllowNew, Returns
<1> HIDE DEF n
<1>6. m \in [Keys -> Buckets \cup {None}] /\ m[c.key] = n
  BY <1>3, <1>4 DEF TypeOK
<1>7. \A j \in Keys : j # c.key => m[j] = buckets[j]
  BY DEF TypeOK
<1> HIDE DEF m
<1>8. /\ buckets' \in [Keys -> Buckets \cup {None}]
      /\ \A k \in Keys : \/ buckets'[k] = m[k]
                         \/ buckets'[k] = None /\ m[k] # None /\ c.now - m[k].last > Idle
  BY <1>3, <1>5, <1>6, CollectedTyped
<1>9. buckets'[c.key] = n
  BY <1>3, <1>4, <1>6, <1>8, RateAssumption
<1>10. \A j \in Keys : buckets'[j] \in {None, buckets[j], IF j = c.key THEN n ELSE buckets[j]}
  BY <1>7, <1>8, <1>9
<1>11. CallInv' /\ calls' \in [Requests -> Calls \cup {None}]
  BY <1>2, ReturnsStep DEF TypeOK
<1>12. DebtInv'
  <2>1. time - c.now \in Nat /\ n.tokens \in Int
    BY <1>3, <1>4 DEF Buckets
  <2>2. RPS * (time - c.now) \in Nat
    BY <2>1, Gain
  <2>3. 0 <= n.tokens + RPS * (time - n.last)
    BY <1>4, <2>1, <2>2
  <2> QED
    BY <1>3, <1>4, <1>5, <1>10, <2>3, DebtStep
<1>f. /\ forgiven' = IF buckets[seen.key] # None /\ buckets'[seen.key] = None
                     THEN forgiven + Shortfall ELSE forgiven
      /\ forgiven \in Nat /\ forgiven' \in Nat /\ forgiven <= forgiven'
  BY ShortfallTyped DEF AllowNew, Forgives, TypeOK
<1>g. Forgiveness'
  BY <1>f DEF Forgiveness
<1>13. admitted' \in Nat /\ BoundInv' /\ RateBound'
  <2>1. seen.key \in Keys /\ seen.from \in Nat /\ admitted \in Nat /\ seen.to - seen.from \in Nat
    BY WindowTyped DEF TypeOK
  <2>2. CASE seen.key = c.key
    <3>0. forgiven' = forgiven
      BY <1>2, <1>f, <2>2
    <3>1. admitted > 0 => admitted <= forgiven + RPS * (time - Lag - seen.from)
      BY <1>2, <2>2 DEF BoundInv
    <3>2. c.now - (time - Lag) \in Nat
      BY <1>3, RateAssumption
    <3>3. RPS * (c.now - (time - Lag)) \in Nat
      BY <3>2, Gain
    <3>4. RPS * (c.now - seen.from) = RPS * (c.now - (time - Lag)) + RPS * (time - Lag - seen.from)
      BY <1>3, <2>1, RateAssumption
    <3>5. RPS * (time - Lag - seen.from) \in Int /\ RPS * (c.now - seen.from) \in Int
      BY <1>3, <2>1, GainTyped, RateAssumption
    <3>6. seen.from <= c.now => RPS * (c.now - seen.from) \in Nat
      BY <1>3, <2>1, Gain
    <3>7. CASE admitted > 0
      BY <1>4, <1>f, <2>1, <3>0, <3>1, <3>3, <3>4, <3>5, <3>7, CountStep, <1>2, <1>3, <1>5, <1>9, <2>2,
         RateAssumption
    <3>8. CASE admitted = 0
      BY <1>4, <1>f, <2>1, <3>0, <3>5, <3>6, <3>8, CountStep, <1>2, <1>3, <1>5, <1>9, <2>2, RateAssumption
    <3> QED
      BY <2>1, <3>7, <3>8
  <2>3. CASE seen.key # c.key
    <3>1. admitted' = admitted
      BY <1>2, <2>3 DEF Counted
    <3>2. RateBound' /\ admitted' \in Nat
      <4>1. RPS * (seen.to - seen.from) \in Int
        BY <2>1, Gain
      <4>2. QED
        BY <1>5, <1>f, <2>1, <3>1, <4>1, RateAssumption DEF RateBound
    <3>3. CASE buckets'[seen.key] = buckets[seen.key]
      <4>1. forgiven' = forgiven
        BY <1>f, <3>3
      <4>2. QED
        BY <1>5, <3>1, <3>2, <3>3, <4>1 DEF BoundInv
    <3>4. CASE buckets'[seen.key] # buckets[seen.key]
      <4> DEFINE b == buckets[seen.key]
      <4>1. buckets'[seen.key] = None /\ b # None /\ c.now - b.last > Idle
        BY <1>7, <1>8, <2>1, <2>3, <3>4
      <4>2. b.last \in Nat /\ b.tokens \in Int /\ 0 <= b.tokens + RPS * Lag
        BY <2>1, <4>1, RateAssumption DEF TypeOK, DebtInv, Buckets, Times
      <4>3. admitted > 0 => admitted + b.tokens <= Burst + forgiven + RPS * (b.last - seen.from)
        BY <4>1 DEF BoundInv
      <4> HIDE DEF b
      <4>4. time - b.last - Idle \in Nat
        BY <1>3, <4>1, <4>2, RateAssumption
      <4>5. RPS * (time - b.last - Idle) \in Nat
        BY <4>4, Gain
      <4>6. RPS * (time - Lag - seen.from)
              = RPS * (time - b.last - Idle) + RPS * (Idle - 2 * Lag) + RPS * Lag
                + RPS * (b.last - seen.from)
        BY <1>3, <2>1, <4>2, RateAssumption
      <4>7. /\ RPS * (Idle - 2 * Lag) \in Int /\ RPS * Lag \in Int
            /\ RPS * (b.last - seen.from) \in Int
        BY <2>1, <4>2, GainTyped, RateAssumption
      <4>8. forgiven' = forgiven + Shortfall
        BY <1>f, <4>1 DEF b
      <4>9. admitted > 0 => admitted <= forgiven' + RPS * (time - Lag - seen.from)
        BY <1>f, <2>1, <4>2, <4>3, <4>5, <4>6, <4>7, <4>8, ShortfallTyped, RateAssumption
      <4> QED
        BY <1>5, <3>1, <3>2, <4>1, <4>9 DEF BoundInv
    <3> QED
      BY <3>2, <3>3, <3>4
  <2> QED
    BY <2>2, <2>3
<1>14. TypeOK'
  BY <1>3, <1>4, <1>5, <1>8, <1>10, <1>11, <1>13, <1>f DEF TypeOK
<1> QED
  BY <1>11, <1>12, <1>13, <1>14, <1>g

-----------------------------------------------------------------------------
(* Every step keeps the invariant of the limiter.                          *)
LEMMA RateStep == RateInv /\ [Next]_vars => RateInv'
<1>1. SUFFICES ASSUME RateInv, [Next]_vars PROVE RateInv'
  OBVIOUS
<1>2. CASE Tick
  BY <1>1, <1>2, TickStep
<1>3. CASE \E r \in Requests : AllowNew(r)
  BY <1>1, <1>3, AllowNewStep
<1>4. CASE \E r \in Requests : Allow(r)
  BY <1>1, <1>4, AllowStep
<1>5. CASE \E r \in Requests : Deny(r)
  BY <1>1, <1>5, DenyStep
<1>6. CASE \E r \in Requests, k \in Keys : Arrive(r, k)
  BY <1>1, <1>6, ArriveStep
<1>7. CASE UNCHANGED vars
  BY <1>1, <1>7 DEF vars, RateInv, TypeOK, CallInv, DebtInv, BoundInv, RateBound,
     Forgiveness
<1> QED
  BY <1>1, <1>2, <1>3, <1>4, <1>5, <1>6, <1>7 DEF Next

(* The inductive invariant of the limiter.                                 *)
LEMMA RateInvariant == Spec => []RateInv
  BY RateInit, RateStep, PTL DEF Spec

(* The types hold, and a bucket never holds more than Burst tokens.        *)
THEOREM TypeCorrect == Spec => []TypeOK
<1>1. RateInv => TypeOK
  BY DEF RateInv
<1> QED
  BY <1>1, RateInvariant, PTL

(* For any rate, burst, number of clients and requests: no window of time  *)
(* admits more of a key than Burst, what the window is worth and what      *)
(* collections of the key's bucket forgave (ratelimit.go:113-145).         *)
THEOREM RateBounded == Spec => []RateBound
<1>1. RateInv => RateBound
  BY DEF RateInv
<1> QED
  BY <1>1, RateInvariant, PTL

(* They forgive nothing when the time a bucket may be idle fills it, less  *)
(* twice the wait for the mutex: then Burst and the window are the bound.  *)
THEOREM NothingForgiven ==
    ASSUME Burst <= RPS * (Idle - 2 * Lag)
    PROVE  Spec => [](admitted <= Burst + RPS * (seen.to - seen.from))
<1>1. Shortfall = 0
  BY DEF Shortfall
<1>2. RateInv => admitted <= Burst + RPS * (seen.to - seen.from)
  <2>1. SUFFICES ASSUME RateInv PROVE admitted <= Burst + RPS * (seen.to - seen.from)
    OBVIOUS
  <2>2. forgiven = 0 /\ seen.to - seen.from \in Nat
    BY <1>1, <2>1, WindowTyped DEF RateInv, Forgiveness, TypeOK
  <2>3. RPS * (seen.to - seen.from) \in Nat
    BY <2>2, Gain
  <2> QED
    BY <2>1, <2>2, <2>3, RateAssumption DEF RateInv, RateBound
<1> QED
  BY <1>2, RateInvariant, PTL

(* A request is denied only when another one of its client came less than  *)
(* a tick, or a wait for the mutex, before it.                             *)
THEOREM DeniedForAReason == Spec => DeniedOnlyRecently
<1> DEFINE Recently == \A r \in Requests : Deny(r) =>
                          calls[r].now - buckets[calls[r].key].last <= Lag
<1>1. RateInv /\ [Next]_vars => [Recently]_vars
  <2>1. SUFFICES ASSUME RateInv, NEW r \in Requests, Deny(r)
                 PROVE  calls[r].now - buckets[calls[r].key].last <= Lag
    OBVIOUS
  <2> DEFINE c == calls[r]  b == buckets[c.key]
  <2>2. c # None /\ b # None /\ Refilled(b, c.now) < 1
    BY <2>1 DEF Deny
  <2>3. c.key \in Keys /\ c.now \in Times
    BY <2>1, <2>2, CallTyped DEF RateInv
  <2>4. b \in Buckets /\ 0 <= b.tokens + RPS * Lag
    BY <2>1, <2>2, <2>3 DEF RateInv, TypeOK, DebtInv
  <2>5. b.tokens + RPS * (c.now - b.last) < 1
    BY <2>2, <2>3, <2>4, RefilledTyped, RateAssumption
  <2>6. c.now - b.last \in Int /\ b.tokens \in Int /\ b.last \in Int /\ c.now \in Int
    BY <2>3, <2>4 DEF Buckets, Times
  <2> HIDE DEF b
  <2>7. SUFFICES ASSUME c.now - b.last - Lag - 1 \in Nat PROVE FALSE
    BY <2>6, RateAssumption DEF b
  <2>8. RPS * (c.now - b.last - Lag - 1) \in Nat
    BY <2>7, Gain
  <2>9. RPS * (c.now - b.last) = RPS * (c.now - b.last - Lag - 1) + RPS * Lag + RPS
    BY <2>6, RateAssumption
  <2>10. RPS * Lag \in Int /\ RPS * (c.now - b.last) \in Int
    BY <2>6, GainTyped, RateAssumption
  <2> QED
    BY <2>4, <2>5, <2>6, <2>8, <2>9, <2>10, RateAssumption
<1> QED
  BY <1>1, RateInvariant, PTL DEF Spec, DeniedOnlyRecently

-----------------------------------------------------------------------------
(***************************************************************************)
(* The object stores and the uploads.                                      *)
(***************************************************************************)
(* What a call may claim, and the states in which it claims it.            *)
Claims == [data : Writers \cup {Absent, Unknown}, type : Writers \cup {Absent, Unknown}]

Leaving == {"sidecar", "unlink", "failed", "head", "deleted"}

Claimed(c, from, claim) ==
    \/ claim = Nothing
    \/ from = "sidecar" /\ claim \in {Claim(c, c), Claim(c, Unknown)}
    \/ from = "unlink" /\ claim \in {Claim(Absent, Absent), Claim(Absent, Unknown)}
    \/ from = "head" /\ claim = Claim(c, c)
    \/ from = "deleted" /\ claim = Claim(Absent, Absent)

(* Two calls on one key have met; a key with a promise has no call, and a  *)
(* promise of a type is one of the data too.                               *)
Met ==
    /\ \A c \in Writers : writer[c].at = "idle" <=> writer[c].key = Absent
    /\ \A c, d \in Writers : c # d /\ writer[c].key = writer[d].key /\ writer[c].key # Absent => ~fresh[c]
    /\ \A c \in Writers, k \in Blobs : promised[k] # Nothing => writer[c].key # k
    /\ \A k \in Blobs : promised[k].data = Unknown => promised[k] = Nothing

(* What a call that met no other has done so far is there.                 *)
Progress ==
    \A c \in Writers : fresh[c] =>
        LET k == writer[c].key
        IN  /\ writer[c].at = "copy" => bytes[k] = Mixed
            /\ writer[c].at = "sidecar" => bytes[k] = c
            /\ writer[c].at = "unlink" => bytes[k] = Absent
            /\ writer[c].at = "head" => bytes[k] = c /\ ctype[k] = c
            /\ writer[c].at = "deleted" => bytes[k] = Absent /\ ctype[k] = Absent

\* A writer is a record of where it is and its key.
Shape == writer \in [Writers -> [at : {"idle", "copy"} \cup Leaving,
                                 key : Blobs \cup {Absent}]]

BlobInv == BlobTypes /\ Shape /\ Met /\ Progress /\ LastCallHolds

-----------------------------------------------------------------------------
(* A store that is empty and idle.                                         *)
LEMMA BlobInitInv == BlobInit => BlobInv
  BY BlobAssumption
  DEF BlobInit, BlobInv, BlobTypes, Shape, Met, Progress, LastCallHolds, AtRest, Stat, Claim,
      Nothing, Leaving

(* A call that begins: nobody on its key is alone any more.                *)
LEMMA EnterMeets ==
    ASSUME BlobInv, NEW c \in Writers, NEW k \in Blobs,
           NEW at \in {"copy", "unlink", "failed", "head", "deleted"}, Enter(c, k, at)
    PROVE  /\ Shape' /\ Met'
           /\ \A d \in Writers \ {c} : writer'[d] = writer[d] /\ (fresh'[d] => fresh[d] /\ writer[d].key # k)
           /\ writer'[c] = [at |-> at, key |-> k]
           /\ promised'[k] = Nothing /\ \A j \in Blobs \ {k} : promised'[j] = promised[j]
           /\ fresh' \in [Writers -> BOOLEAN] /\ promised' \in [Blobs -> Claims]
  BY BlobAssumption
  DEF Enter, BlobInv, BlobTypes, Shape, Met, Busy, Claims, Claim, Nothing, Leaving

(* What the call does at once to its key is what Progress says of it.      *)
LEMMA BeginStep ==
    ASSUME BlobInv, NEW c \in Writers, NEW k \in Blobs, NEW b \in Writers \cup {Absent, Mixed},
           NEW t \in Writers \cup {Absent, Mixed},
           NEW at \in {"copy", "unlink", "failed", "head", "deleted"}, Enter(c, k, at),
           bytes' = [bytes EXCEPT ![k] = b], ctype' = [ctype EXCEPT ![k] = t], medium' = medium,
           \/ at = "copy" /\ b = Mixed
           \/ at = "unlink" /\ b = Absent
           \/ at = "failed" /\ b = bytes[k]
           \/ at = "head" /\ b = c /\ t = c
           \/ at = "deleted" /\ b = Absent /\ t = Absent
    PROVE  BlobInv'
  <1>1. /\ Shape' /\ Met'
        /\ \A d \in Writers \ {c} : writer'[d] = writer[d] /\ (fresh'[d] => fresh[d] /\ writer[d].key # k)
        /\ writer'[c] = [at |-> at, key |-> k]
        /\ promised'[k] = Nothing /\ \A j \in Blobs \ {k} : promised'[j] = promised[j]
        /\ fresh' \in [Writers -> BOOLEAN] /\ promised' \in [Blobs -> Claims]
    BY EnterMeets
  <1>2. BlobTypes'
    BY <1>1 DEF BlobInv, BlobTypes, Shape, Claims, Leaving
  <1>3. Progress'
    BY <1>1 DEF BlobInv, BlobTypes, Shape, Progress
  <1>4. LastCallHolds'
    <2>1. promised'[k].data = Unknown /\ promised'[k].type = Unknown
      BY <1>1 DEF Nothing, Claim
    <2>2. \A j \in Blobs \ {k} : bytes'[j] = bytes[j] /\ ctype'[j] = ctype[j]
      BY DEF BlobInv, BlobTypes
    <2>3. ASSUME NEW j \in Blobs
          PROVE  /\ promised'[j].data \in {bytes'[j], Unknown}
                 /\ promised'[j].type \in {ctype'[j], Unknown}
      BY <1>1, <2>1, <2>2 DEF BlobInv, LastCallHolds, Stat
    <2>4. QED
      BY <2>3 DEF LastCallHolds, Stat
  <1>5. QED
    BY <1>1, <1>2, <1>3, <1>4 DEF BlobInv

(* A call that returns: what it promises holds if it was alone.            *)
LEMMA LeaveKeeps ==
    ASSUME BlobInv, NEW c \in Writers, NEW from \in Leaving,
           NEW claim, Claimed(c, from, claim), Leave(c, from, claim)
    PROVE  LET k == writer[c].key
           IN  /\ k \in Blobs /\ Shape' /\ Met'
               /\ \A d \in Writers \ {c} : writer'[d] = writer[d] /\ (fresh[c] => writer[d].key # k)
               /\ \A d \in Writers \ {c} : fresh[d] => writer[d].key # k
               /\ writer'[c] = AtRest /\ fresh' = fresh /\ claim \in Claims
               /\ promised' = [promised EXCEPT ![k] = IF fresh[c] THEN claim ELSE Nothing]
               /\ medium' = medium
  <1> DEFINE k == writer[c].key
  <1>1. writer[c].at = from /\ k \in Blobs
    BY BlobAssumption DEF Leave, BlobInv, Shape, Met, Leaving
  <1>2. claim \in Claims /\ (claim.data = Unknown => claim = Nothing)
    BY BlobAssumption DEF Claimed, Claims, Claim, Nothing
  <1>3. Shape' /\ writer'[c] = AtRest /\ \A d \in Writers \ {c} : writer'[d] = writer[d]
    BY DEF Leave, BlobInv, Shape, AtRest
  <1>4. \A d \in Writers \ {c} : (fresh[c] => writer[d].key # k) /\ (fresh[d] => writer[d].key # k)
    BY <1>1, BlobAssumption DEF BlobInv, Met
  <1>5. promised' = [promised EXCEPT ![k] = IF fresh[c] THEN claim ELSE Nothing]
        /\ fresh' = fresh /\ medium' = medium
    BY DEF Leave
  <1>6. Met'
    <2>1. \A d \in Writers : writer'[d].at = "idle" <=> writer'[d].key = Absent
      BY <1>3 DEF BlobInv, Met, AtRest
    <2>2. \A d \in Writers : writer'[d].key # Absent => d # c /\ writer'[d].key = writer[d].key
      BY <1>3 DEF AtRest
    <2>3. \A d \in Writers, j \in Blobs :
             promised'[j] # Nothing /\ writer'[d].key = j => promised[j] = Nothing /\ j = k /\ fresh[c]
      BY <1>1, <1>5, <2>2, BlobAssumption DEF BlobInv, BlobTypes, Met
    <2>4. \A d \in Writers, j \in Blobs : promised'[j] # Nothing => writer'[d].key # j
      BY <1>4, <2>2, <2>3, BlobAssumption
    <2>5. \A j \in Blobs : promised'[j].data = Unknown => promised'[j] = Nothing
      BY <1>1, <1>2, <1>5 DEF BlobInv, BlobTypes, Met
    <2> QED
      BY <1>5, <2>1, <2>2, <2>4, <2>5 DEF Met, BlobInv
  <1> QED
    BY <1>1, <1>2, <1>3, <1>4, <1>5, <1>6

(* The other steps of a call stay on its key.                              *)
LEMMA GoesKeeps ==
    ASSUME BlobInv, NEW c \in Writers, NEW from \in {"copy"}, NEW to \in {"sidecar"}, Goes(c, from, to)
    PROVE  LET k == writer[c].key
           IN  /\ k \in Blobs /\ Shape' /\ Met'
               /\ \A d \in Writers \ {c} : writer'[d] = writer[d]
               /\ \A d \in Writers \ {c} : fresh[d] => writer[d].key # k
               /\ writer'[c] = [at |-> to, key |-> k]
               /\ promised[k] = Nothing
               /\ UNCHANGED <<medium, fresh, promised>>
  BY BlobAssumption DEF Goes, BlobInv, BlobTypes, Shape, Met, Leaving

(* Every step keeps the invariant.                                         *)
LEMMA BlobStep == BlobInv /\ [BlobNext]_blobVars => BlobInv'
  <1> SUFFICES ASSUME BlobInv, [BlobNext]_blobVars PROVE BlobInv'
    OBVIOUS
  <1> USE BlobAssumption
  <1>1. ASSUME NEW c \in Writers, NEW k \in Blobs, PutOpens(c, k) \/ DeleteData(c, k) \/ DeleteFails(c, k)
                                                        \/ S3Put(c, k) \/ S3Delete(c, k)
        PROVE  BlobInv'
    <2>1. CASE PutOpens(c, k)
      <3>1. ctype' = [ctype EXCEPT ![k] = ctype[k]] /\ ctype[k] \in Writers \cup {Absent, Mixed}
        BY <2>1 DEF PutOpens, BlobInv, BlobTypes
      <3>2. QED
        BY <2>1, <3>1, BeginStep DEF PutOpens
    <2>2. CASE DeleteData(c, k)
      <3>1. ctype' = [ctype EXCEPT ![k] = ctype[k]] /\ ctype[k] \in Writers \cup {Absent, Mixed}
        BY <2>2 DEF DeleteData, BlobInv, BlobTypes
      <3>2. QED
        BY <2>2, <3>1, BeginStep DEF DeleteData
    <2>3. CASE S3Put(c, k)
      BY <2>3, BeginStep DEF S3Put
    <2>4. CASE S3Delete(c, k)
      BY <2>4, BeginStep DEF S3Delete
    <2>5. CASE DeleteFails(c, k)
      <3>1. /\ ctype' = [ctype EXCEPT ![k] = ctype[k]] /\ ctype[k] \in Writers \cup {Absent, Mixed}
            /\ bytes' = [bytes EXCEPT ![k] = bytes[k]] /\ bytes[k] \in Writers \cup {Absent, Mixed}
        BY <2>5 DEF DeleteFails, BlobInv, BlobTypes
      <3>2. QED
        BY <2>5, <3>1, BeginStep DEF DeleteFails
    <2>6. QED
      BY <1>1, <2>1, <2>2, <2>3, <2>4, <2>5
  <1>2. ASSUME NEW c \in Writers, \/ PutSidecar(c) \/ SidecarFails(c) \/ DeleteSidecar(c)
                                 \/ SidecarStays(c) \/ S3Head(c) \/ S3Deleted(c)
        PROVE  BlobInv'
    <2> DEFINE k == writer[c].key
    <2>1. PICK from, claim :
             /\ from \in Leaving /\ Leave(c, from, claim) /\ Claimed(c, from, claim)
             /\ bytes' = bytes
             /\ \/ PutSidecar(c) /\ claim = Claim(c, c)
                \/ SidecarFails(c) /\ claim = Claim(c, Unknown)
                \/ DeleteSidecar(c) /\ claim \in {Claim(Absent, Absent), Nothing}
                \/ ctype' = ctype /\ claim \in {Claim(Absent, Unknown), Nothing}
                \/ ctype' = ctype /\ from = "head" /\ claim = Claim(c, c)
                \/ ctype' = ctype /\ from = "deleted" /\ claim = Claim(Absent, Absent)
      <3>1. CASE PutSidecar(c)
        BY <3>1 DEF PutSidecar, Claimed, Leaving
      <3>2. CASE SidecarFails(c)
        BY <3>2 DEF SidecarFails, Claimed, Leaving
      <3>3. CASE DeleteSidecar(c)
        BY <3>3 DEF DeleteSidecar, Claimed, Leaving
      <3>4. CASE SidecarStays(c)
        BY <3>4 DEF SidecarStays, Claimed, Leaving
      <3>5. CASE S3Head(c)
        BY <3>5 DEF S3Head, Claimed, Leaving
      <3>6. CASE S3Deleted(c)
        BY <3>6 DEF S3Deleted, Claimed, Leaving
      <3>7. QED
        BY <1>2, <3>1, <3>2, <3>3, <3>4, <3>5, <3>6
    <2>2. /\ k \in Blobs /\ Shape' /\ Met'
          /\ \A d \in Writers \ {c} : writer'[d] = writer[d] /\ (fresh[c] => writer[d].key # k)
          /\ \A d \in Writers \ {c} : fresh[d] => writer[d].key # k
          /\ writer'[c] = AtRest /\ fresh' = fresh /\ claim \in Claims
          /\ promised' = [promised EXCEPT ![k] = IF fresh[c] THEN claim ELSE Nothing]
          /\ medium' = medium
      BY <2>1, LeaveKeeps
    <2>3. writer[c].at = from
      BY <2>1 DEF Leave
    <2> HIDE DEF k
    <2>4. \E t \in Writers \cup {Absent, Mixed} :
             /\ ctype' = [ctype EXCEPT ![k] = t]
             /\ fresh[c] => claim.type \in {t, Unknown}
      <3> DEFINE Types == Writers \cup {Absent, Mixed}
      <3>a. Nothing.type = Unknown /\ \A d, t : Claim(d, t).type = t
        BY DEF Nothing, Claim
      <3>b. ctype[k] \in Types /\ ctype = [ctype EXCEPT ![k] = ctype[k]]
        BY <2>2 DEF BlobInv, BlobTypes
      <3>1. CASE PutSidecar(c) /\ claim = Claim(c, c)
        BY <3>1, <3>a DEF PutSidecar, k
      <3>2. CASE SidecarFails(c) /\ claim = Claim(c, Unknown)
        <4>1. claim.type = Unknown
          BY <3>2, <3>a
        <4>2. CASE ctype' = ctype
          BY <4>1, <4>2, <3>b
        <4>3. CASE ctype' = [ctype EXCEPT ![k] = Mixed]
          BY <4>1, <4>3
        <4>4. QED
          BY <3>2, <4>2, <4>3 DEF SidecarFails, k
      <3>3. CASE DeleteSidecar(c) /\ claim \in {Claim(Absent, Absent), Nothing}
        <4>1. claim.type \in {Absent, Unknown}
          BY <3>3, <3>a
        <4>2. ctype' = [ctype EXCEPT ![k] = Absent]
          BY <3>3 DEF DeleteSidecar, Unlinked, k
        <4>3. QED
          BY <4>1, <4>2
      <3>4. CASE ctype' = ctype /\ claim \in {Claim(Absent, Unknown), Nothing}
        <4>1. claim.type = Unknown
          BY <3>4, <3>a
        <4>2. QED
          BY <3>4, <4>1, <3>b
      <3>5. CASE ctype' = ctype /\ from = "head" /\ claim = Claim(c, c)
        <4>1. claim.type = c /\ (fresh[c] => ctype[k] = c)
          BY <3>5, <3>a, <2>3 DEF BlobInv, Progress, k
        <4>2. QED
          BY <3>5, <4>1, <3>b
      <3>6. CASE ctype' = ctype /\ from = "deleted" /\ claim = Claim(Absent, Absent)
        <4>1. claim.type = Absent /\ (fresh[c] => ctype[k] = Absent)
          BY <3>6, <3>a, <2>3 DEF BlobInv, Progress, k
        <4>2. QED
          BY <3>6, <4>1, <3>b
      <3> HIDE DEF Types
      <3>7. QED
        BY <2>1, <3>1, <3>2, <3>3, <3>4, <3>5, <3>6 DEF Types
    <2>5. BlobTypes'
      BY <2>1, <2>2, <2>4 DEF BlobInv, BlobTypes, Shape, Claims, Nothing, Claim, Leaving
    <2>6. Progress'
      BY <2>1, <2>2, <2>4 DEF BlobInv, BlobTypes, Shape, Met, Progress, AtRest, k
    <2>7. fresh[c] /\ claim # Nothing => claim.data = bytes[k]
      BY <2>1, <2>3 DEF BlobInv, Progress, Claimed, Claim, k
    <2>8. LastCallHolds'
      <3> SUFFICES ASSUME NEW j \in Blobs
                   PROVE  /\ promised'[j].data \in {bytes'[j], Unknown}
                          /\ promised'[j].type \in {ctype'[j], Unknown}
        BY DEF LastCallHolds, Stat
      <3>1. CASE j = k
        BY <3>1, <2>1, <2>2, <2>4, <2>7 DEF BlobInv, BlobTypes, Nothing, Claim
      <3>2. CASE j # k
        <4>1. promised'[j] = promised[j] /\ bytes'[j] = bytes[j] /\ ctype'[j] = ctype[j]
          BY <3>2, <2>1, <2>2, <2>4 DEF BlobInv, BlobTypes
        <4>2. promised[j].data \in {bytes[j], Unknown} /\ promised[j].type \in {ctype[j], Unknown}
          BY <4>1 DEF BlobInv, LastCallHolds, Stat
        <4>3. QED
          BY <4>1, <4>2
      <3>3. QED
        BY <3>1, <3>2
    <2>9. QED
      BY <2>2, <2>5, <2>6, <2>8 DEF BlobInv
  <1>3. ASSUME NEW c \in Writers, PutCopies(c)
        PROVE  BlobInv'
    <2> DEFINE k == writer[c].key
    <2>1. /\ k \in Blobs /\ Shape' /\ Met'
          /\ \A d \in Writers \ {c} : writer'[d] = writer[d]
          /\ \A d \in Writers \ {c} : fresh[d] => writer[d].key # k
          /\ writer'[c] = [at |-> "sidecar", key |-> k]
          /\ promised[k] = Nothing
          /\ UNCHANGED <<medium, fresh, promised>>
      BY <1>3, GoesKeeps DEF PutCopies
    <2>2. BlobTypes'
      BY <1>3, <2>1 DEF BlobInv, BlobTypes, Shape, PutCopies, Leaving
    <2>3. Progress'
      BY <1>3, <2>1 DEF BlobInv, BlobTypes, Shape, Progress, PutCopies, Goes
    <2>4. LastCallHolds'
      BY <1>3, <2>1 DEF BlobInv, BlobTypes, LastCallHolds, Stat, PutCopies, Nothing, Claim
    <2>5. QED
      BY <2>1, <2>2, <2>3, <2>4 DEF BlobInv
  <1>4. ASSUME NEW c \in Writers, GivesUp(c)
        PROVE  BlobInv'
    BY <1>4 DEF GivesUp, AtRest, Leaving, BlobInv, BlobTypes, Shape, Met, Progress, LastCallHolds, Stat
  <1>5. CASE UNCHANGED blobVars
    BY <1>5 DEF blobVars, BlobInv, BlobTypes, Shape, Met, Progress, LastCallHolds, Stat
  <1>6. QED
    BY <1>1, <1>2, <1>3, <1>4, <1>5 DEF BlobNext

(* When the last call on a key met no other and returned nil, Stat and Get *)
(* find its object or none, and the type it gave unless its own step on    *)
(* the sidecar failed, whatever failed, stopped or raced before            *)
(* (storage.go:62-141, s3x.go:73-131).                                     *)
THEOREM LastCallCorrect == BlobSpec => []LastCallHolds
  <1>1. BlobInv => LastCallHolds
    BY DEF BlobInv
  <1>2. QED
    BY <1>1, BlobInitInv, BlobStep, PTL DEF BlobSpec

-----------------------------------------------------------------------------
(* A file being written has one writer, and a saved one its owner.         *)
WriterAlone ==
    /\ \A u \in Uploaders : upload[u].at \in {"copy", "saved"} => upload[u].name \in FileNames
    /\ \A u \in Uploaders : upload[u].at = "copy" => folder[upload[u].name] = Cut
    /\ \A u, v \in Uploaders :
          upload[u].at = "copy" /\ upload[v].at = "copy" /\ upload[u].name = upload[v].name => u = v

UploadInv == UploadTypes /\ WriterAlone /\ UploadsKept

(* Every step keeps the invariant.                                         *)
LEMMA UploadStep == UploadInv /\ [UploadNext]_uploadVars => UploadInv'
  <1> SUFFICES ASSUME UploadInv, [UploadNext]_uploadVars PROVE UploadInv'
    OBVIOUS
  <1> USE UploadAssumption DEF UploadInv, UploadTypes, WriterAlone, UploadsKept
  <1>1. ASSUME NEW u \in Uploaders, Refused(u) \/ (\E n \in FileNames : CreateFails(u, n))
        PROVE  UploadInv'
    <2>1. upload[u].at = "parse" /\ upload' = [upload EXCEPT ![u].at = "failed"] /\ folder' = folder
      BY <1>1 DEF Refused, CreateFails, Moves
    <2>2. QED
      BY <2>1
  <1>2. ASSUME NEW u \in Uploaders, NEW n \in FileNames, Creates(u, n)
        PROVE  UploadInv'
    BY <1>2 DEF Creates, MayCreate
  <1>3. ASSUME NEW u \in Uploaders, Saved(u)
        PROVE  UploadInv'
    BY <1>3 DEF Saved, Moves
  <1>4. ASSUME NEW u \in Uploaders, CopyFails(u) \/ Abandons(u)
        PROVE  UploadInv'
    <2>1. UploadTypes' /\ WriterAlone'
      BY <1>4 DEF CopyFails, Abandons, Moves
    <2>2. CASE CopyFails(u)
      BY <2>2 DEF CopyFails, Moves
    <2>3. CASE Abandons(u)
      BY <2>3 DEF Abandons, Moves
    <2>4. QED
      BY <1>4, <2>1, <2>2, <2>3
  <1>5. CASE UNCHANGED uploadVars
    BY <1>5 DEF uploadVars
  <1>6. QED
    BY <1>1, <1>2, <1>3, <1>4, <1>5 DEF UploadNext

(* Whoever was told that a file is saved finds it whole, and only files    *)
(* being written are cut (upload.go:98-137).                               *)
THEOREM UploadsCorrect == UploadSpec => []UploadsKept
  <1>1. UploadInit => UploadInv
    BY UploadAssumption DEF UploadInit, UploadInv, UploadTypes, WriterAlone, UploadsKept
  <1>2. UploadInv => UploadsKept
    BY DEF UploadInv
  <1>3. QED
    BY <1>1, <1>2, UploadStep, PTL DEF UploadSpec

-----------------------------------------------------------------------------
(***************************************************************************)
(* The admin application: an id above the sequence has neither a row nor a *)
(* viewer, so the item an INSERT makes is one nobody has seen under that id. *)
(***************************************************************************)
FreshAbove ==
    \A n \in RowIds : n > sequence => rows[n] = 0 /\ \A a \in Agents : views[a][n] = 0

SeenIsThere ==
    \A a \in Agents, n \in RowIds : views[a][n] # 0 /\ rows[n] # 0 => views[a][n] = rows[n]

AdminInv == AdminTypes /\ (OnDisk => FreshAbove /\ SeenIsThere)

(* The sequence grows to an id that was above it, and the row there is new. *)
Adds(n, item) ==
    /\ n \in RowIds /\ n = sequence + 1 /\ sequence' = n
    /\ item \in Nat /\ rows' = [rows EXCEPT ![n] = item]

-----------------------------------------------------------------------------
(* The seeded items have ids of their own.                                 *)
LEMMA AdminInitInv ==
    ASSUME AdminAssumption, AdminInit
    PROVE  AdminInv
<1>1. 1 \in RowIds /\ 2 \in RowIds /\ MaxRows \in Nat
  BY DEF AdminAssumption, RowIds
<1>2. /\ rows = [[Empty EXCEPT ![1] = 1] EXCEPT ![2] = 2]
      /\ sequence = 2 /\ inserts = 2
  BY DEF AdminInit, Opened, NextId, Put
<1>3. rows \in [RowIds -> Nat] /\ \A n \in RowIds : n > 2 => rows[n] = 0
  BY <1>1, <1>2 DEF Empty
<1>4. views = [a \in Agents |-> Empty] /\ views \in [Agents -> [RowIds -> Nat]]
  BY DEF AdminInit, Empty
<1>5. AdminTypes
  <2>1. sequence \in 0..MaxRows /\ inserts \in Nat
    BY <1>1, <1>2 DEF AdminAssumption
  <2>2. request \in [Agents -> [at : {"idle", "get", "list"}, id : RowIds \cup {0}]]
    BY DEF AdminInit, NotAsking
  <2> QED BY <2>1, <2>2, <1>3, <1>4 DEF AdminTypes, AdminInit
<1>6. FreshAbove /\ SeenIsThere
  BY <1>2, <1>3, <1>4 DEF FreshAbove, SeenIsThere, Empty
<1> QED BY <1>5, <1>6 DEF AdminInv

(* A step that leaves the table and what agents have seen alone.           *)
LEMMA QuietStep ==
    ASSUME AdminInv, AdminTypes', UNCHANGED <<rows, sequence, views>>
    PROVE  AdminInv'
BY DEF AdminInv, FreshAbove, SeenIsThere

(* A step that shows an agent rows as they are.                            *)
LEMMA ShowStep ==
    ASSUME AdminInv, AdminTypes', UNCHANGED <<rows, sequence>>,
           \A a \in Agents, n \in RowIds : views'[a][n] \in {views[a][n], rows[n]}
    PROVE  AdminInv'
BY DEF AdminInv, FreshAbove, SeenIsThere

(* A step that removes a row.                                              *)
LEMMA RemoveStep ==
    ASSUME AdminInv, AdminTypes', UNCHANGED <<sequence, views>>,
           NEW n \in RowIds, rows' = [rows EXCEPT ![n] = 0]
    PROVE  AdminInv'
<1>1. \A m \in RowIds : rows'[m] = IF m = n THEN 0 ELSE rows[m]
  BY DEF AdminInv, AdminTypes
<1> QED BY <1>1 DEF AdminInv, FreshAbove, SeenIsThere

(* A step that adds a row next to the sequence.                            *)
LEMMA AddStep ==
    ASSUME AdminInv, AdminTypes', UNCHANGED views, MaxRows \in Nat,
           NEW n, NEW item, Adds(n, item)
    PROVE  AdminInv'
<1>1. \A m \in RowIds : rows'[m] = IF m = n THEN item ELSE rows[m]
  BY DEF AdminInv, AdminTypes, Adds
<1>2. sequence \in Nat /\ n > sequence /\ sequence' = sequence + 1 /\ n \in RowIds
  BY DEF AdminInv, AdminTypes, Adds
<1>3. ASSUME OnDisk PROVE FreshAbove' /\ SeenIsThere'
  <2>1. \A a \in Agents : views[a][n] = 0
    BY <1>2, <1>3 DEF AdminInv, FreshAbove
  <2>2. FreshAbove'
    BY <1>1, <1>2, <1>3 DEF AdminInv, FreshAbove, RowIds, Adds
  <2>3. SeenIsThere'
    BY <1>1, <1>3, <2>1 DEF AdminInv, SeenIsThere
  <2> QED BY <2>2, <2>3
<1> QED BY <1>3 DEF AdminInv

(* A restart keeps what a database on disk holds.                          *)
LEMMA RebootTypes ==
    ASSUME AdminTypes, Reboot
    PROVE  /\ via' = via /\ access' \in [Agents -> Staff \cup {Nobody}]
           /\ request' \in [Agents -> [at : {"idle", "get", "list"}, id : RowIds \cup {0}]]
           /\ boots' \in Nat
BY DEF AdminTypes, Reboot, NotAsking

(* A restart: the table of a database on disk is there again, and two rows *)
(* are added next to the sequence if it was empty.                         *)
LEMMA RebootStep ==
    ASSUME AdminInv, AdminAssumption, Reboot
    PROVE  AdminInv'
<1> DEFINE last == IF OnDisk THEN sequence ELSE 0
           old == IF OnDisk THEN rows ELSE Empty
<1>1. /\ MaxRows \in Nat /\ sequence \in Nat /\ sequence <= MaxRows /\ inserts \in Nat
      /\ rows \in [RowIds -> Nat] /\ Empty \in [RowIds -> Nat]
  BY DEF AdminInv, AdminTypes, AdminAssumption, Empty
<1>2. last \in Nat /\ last <= MaxRows /\ old \in [RowIds -> Nat]
  BY <1>1
<1>3. views' = views /\ sequence' <= MaxRows
  BY DEF Reboot
<1>4. CASE old # Empty
  <2>1. OnDisk /\ rows' = rows /\ sequence' = sequence /\ inserts' = inserts
    BY <1>4 DEF Reboot, Opened
  <2>2. AdminTypes'
    BY <2>1, <1>3, RebootTypes DEF AdminInv, AdminTypes
  <2> QED BY <2>1, <2>2, <1>3, QuietStep
<1>5. CASE old = Empty
  <2> DEFINE n == last + 1
  <2>1. /\ rows' = [[Empty EXCEPT ![n] = inserts + 1] EXCEPT ![n + 1] = inserts + 2]
        /\ sequence' = n + 1 /\ inserts' = inserts + 2
    BY <1>5 DEF Reboot, Opened, NextId, Put
  <2>2. n \in RowIds /\ n + 1 \in RowIds
    BY <2>1, <1>1, <1>2, <1>3 DEF RowIds
  <2>3. /\ rows' \in [RowIds -> Nat]
        /\ \A m \in RowIds : m \notin {n, n + 1} => rows'[m] = 0
    BY <2>1, <2>2, <1>1 DEF Empty
  <2>4. AdminTypes'
    <3>1. sequence' \in 0..MaxRows /\ inserts' \in Nat
      BY <2>1, <1>1, <1>2, <1>3
    <3> QED BY <3>1, <2>3, <1>3, RebootTypes DEF AdminInv, AdminTypes
  <2>5. ASSUME OnDisk PROVE FreshAbove' /\ SeenIsThere'
    <3>1. \A a \in Agents : views[a][n] = 0 /\ views[a][n + 1] = 0
      BY <2>2, <2>5, <1>1 DEF AdminInv, FreshAbove
    <3>2. FreshAbove'
      BY <2>1, <2>2, <2>3, <2>5, <1>1, <1>3 DEF AdminInv, FreshAbove, RowIds
    <3>3. SeenIsThere'
      BY <2>3, <3>1, <1>3 DEF SeenIsThere
    <3> QED BY <3>2, <3>3
  <2> QED BY <2>4, <2>5 DEF AdminInv
<1> QED BY <1>4, <1>5

-----------------------------------------------------------------------------
(* The statements of the store, in whichever handler.                      *)

(* A new item gets an id that was never given.                             *)
LEMMA InsertInv ==
    ASSUME AdminInv, AdminAssumption, NEW a \in Agents, Insert(a), UNCHANGED <<via, access, boots>>
    PROVE  AdminInv'
<1> DEFINE n == sequence + 1
<1>1. /\ sequence \in Nat /\ inserts \in Nat /\ MaxRows \in Nat /\ n <= MaxRows
      /\ rows \in [RowIds -> Nat]
  BY DEF AdminInv, AdminTypes, AdminAssumption, Insert, NextId
<1>2. n \in RowIds /\ sequence' = n
  BY <1>1 DEF RowIds, Insert, NextId
<1>3. /\ rows' = [rows EXCEPT ![n] = inserts + 1] /\ inserts' = inserts + 1 /\ views' = views
      /\ request' = [request EXCEPT ![a] = [at |-> "get", id |-> n]]
  BY DEF Insert, NextId, Put, Becomes
<1>4. rows' \in [RowIds -> Nat] /\ inserts' \in Nat /\ sequence' \in 0..MaxRows
  BY <1>1, <1>2, <1>3
<1>5. AdminTypes'
  BY <1>2, <1>3, <1>4 DEF AdminInv, AdminTypes
<1>6. Adds(n, inserts + 1)
  BY <1>1, <1>2, <1>3 DEF Adds
<1> QED BY <1>1, <1>3, <1>5, <1>6, AddStep

(* An id that is removed stays given.                                      *)
LEMMA RemoveInv ==
    ASSUME AdminInv, NEW a \in Agents, NEW n \in RowIds, Remove(a, n),
           UNCHANGED <<via, access, boots>>,
           request' \in [Agents -> [at : {"idle", "get", "list"}, id : RowIds \cup {0}]]
    PROVE  AdminInv'
<1>1. rows' = [rows EXCEPT ![n] = 0] /\ UNCHANGED <<sequence, inserts, views>>
  BY DEF Remove, Put
<1>2. AdminTypes'
  BY <1>1 DEF AdminInv, AdminTypes
<1> QED BY <1>1, <1>2, RemoveStep

(* Get and List show rows; what is shown is a row or what was seen before. *)
LEMMA ListShows ==
    ASSUME AdminTypes, NEW a \in Agents, List(a)
    PROVE  /\ views' \in [Agents -> [RowIds -> Nat]] /\ UNCHANGED store
           /\ \A b \in Agents, n \in RowIds : views'[b][n] \in {views[b][n], rows[n]}
<1>1. PICK page \in 1..MaxRows, perPage \in PageSizes :
          views' = [views EXCEPT ![a] =
                       [n \in RowIds |-> IF n \in OnPage(page, perPage) THEN rows[n] ELSE @[n]]]
  BY DEF List
<1> QED BY <1>1 DEF AdminTypes, List

(* An agent sees a row as it is, or as it was shown before.                *)
LEMMA ShownRow ==
    ASSUME AdminTypes, NEW a \in Agents, NEW n \in RowIds,
           views' = [views EXCEPT ![a][n] = rows[n]]
    PROVE  /\ views' \in [Agents -> [RowIds -> Nat]]
           /\ \A b \in Agents, m \in RowIds : views'[b][m] \in {views[b][m], rows[m]}
BY DEF AdminTypes

(* An agent is shown the items there are.                                  *)
LEMMA ListInv ==
    ASSUME AdminInv, NEW a \in Agents, List(a), UNCHANGED <<via, access, boots>>,
           request' \in [Agents -> [at : {"idle", "get", "list"}, id : RowIds \cup {0}]]
    PROVE  AdminInv'
<1>1. AdminTypes
  BY DEF AdminInv
<1>2. AdminTypes'
  BY <1>1, ListShows DEF AdminTypes, store
<1> QED BY <1>1, <1>2, ListShows, ShowStep DEF store

(* An agent is shown one item.                                             *)
LEMMA GetInv ==
    ASSUME AdminInv, NEW a \in Agents, NEW n \in RowIds,
           views' = [views EXCEPT ![a][n] = rows[n]],
           UNCHANGED <<store, via, access, boots>>,
           request' \in [Agents -> [at : {"idle", "get", "list"}, id : RowIds \cup {0}]]
    PROVE  AdminInv'
<1>1. AdminTypes
  BY DEF AdminInv
<1>2. AdminTypes'
  BY <1>1, ShownRow DEF AdminTypes, store
<1> QED BY <1>1, <1>2, ShownRow, ShowStep DEF store

(* An agent goes on.                                                       *)
LEMMA BecomesType ==
    ASSUME AdminTypes, NEW a \in Agents, NEW at \in {"idle", "get", "list"},
           NEW n \in RowIds \cup {0}, Becomes(a, at, n)
    PROVE  request' \in [Agents -> [at : {"idle", "get", "list"}, id : RowIds \cup {0}]]
BY DEF AdminTypes, Becomes

-----------------------------------------------------------------------------
(* Every step of an agent keeps the invariant.                             *)
LEMMA AgentStep ==
    ASSUME AdminInv, AdminAssumption, NEW a \in Agents,
           \/ HandleLogout(a) \/ TokenExpires(a) \/ StatementFails(a)
           \/ HandleItemsList(a) \/ HandleItemCreate(a) \/ Redirected(a) \/ ListRendered(a)
           \/ ApiListItems(a) \/ ApiCreateItem(a) \/ ApiAnswers(a)
    PROVE  AdminInv'
<1>1. AdminTypes /\ request[a].id \in RowIds \cup {0} /\ 0 \notin RowIds
  BY DEF AdminInv, AdminTypes, RowIds
<1>2. CASE HandleLogout(a) \/ TokenExpires(a)
  <2>1. UNCHANGED <<store, via, request, views, boots>> /\ access' = [access EXCEPT ![a] = Nobody]
    BY <1>2 DEF HandleLogout, TokenExpires, Grants
  <2>2. AdminTypes'
    BY <2>1, <1>1 DEF AdminTypes, store
  <2> QED BY <2>1, <2>2, QuietStep DEF store
<1>3. CASE StatementFails(a)
  <2>1. AdminTypes'
    BY <1>1, <1>3 DEF AdminTypes, StatementFails, NotAsking, store
  <2> QED BY <1>3, <2>1, QuietStep DEF StatementFails, store
<1>4. CASE Redirected(a)
  <2>1. request' \in [Agents -> [at : {"idle", "get", "list"}, id : RowIds \cup {0}]]
    BY <1>1, <1>4, BecomesType DEF Redirected, RenderOrRedirect
  <2>2. AdminTypes'
    BY <1>1, <1>4, <2>1 DEF AdminTypes, Redirected, store
  <2> QED BY <1>4, <2>2, QuietStep DEF Redirected, store
<1>5. CASE HandleItemsList(a) \/ ApiListItems(a)
  <2>1. List(a) /\ UNCHANGED <<via, access, boots, request>>
    BY <1>5 DEF HandleItemsList, ApiListItems, Page, Api, Asks
  <2> QED BY <2>1, <1>1, ListInv DEF AdminTypes
<1>6. CASE ListRendered(a)
  <2>1. request' \in [Agents -> [at : {"idle", "get", "list"}, id : RowIds \cup {0}]]
    BY <1>1, <1>6, BecomesType DEF ListRendered
  <2> QED BY <1>6, <2>1, ListInv DEF ListRendered
<1>7. CASE HandleItemCreate(a) \/ ApiCreateItem(a)
  BY <1>7, InsertInv DEF HandleItemCreate, ApiCreateItem, Page, Api, Asks
<1>8. CASE ApiAnswers(a)
  <2> DEFINE n == request[a].id
  <2>1. CASE n \in RowIds
    <3>1. request' \in [Agents -> [at : {"idle", "get", "list"}, id : RowIds \cup {0}]]
      BY <1>1, <1>8, BecomesType DEF ApiAnswers
    <3> QED BY <1>8, <2>1, <3>1, GetInv DEF ApiAnswers
  <2>2. CASE n = 0
    <3>1. views' = [views EXCEPT ![a] = [views[a] EXCEPT ![n] = rows[n]]] /\ n \notin DOMAIN views[a]
      BY <1>1, <1>8, <2>2 DEF ApiAnswers, AdminTypes
    <3>2. views' = views
      BY <1>1, <3>1 DEF AdminTypes
    <3>3. request' \in [Agents -> [at : {"idle", "get", "list"}, id : RowIds \cup {0}]]
      BY <1>1, <1>8, BecomesType DEF ApiAnswers
    <3>4. AdminTypes'
      BY <1>1, <1>8, <3>2, <3>3 DEF AdminTypes, ApiAnswers, store
    <3> QED BY <1>8, <3>2, <3>4, QuietStep DEF ApiAnswers, store
  <2> QED BY <1>1, <2>1, <2>2
<1> QED BY <1>2, <1>3, <1>4, <1>5, <1>6, <1>7, <1>8

(* Every change of an item keeps the invariant.                            *)
LEMMA ItemStep ==
    ASSUME AdminInv, AdminAssumption, NEW a \in Agents, NEW n \in RowIds,
           \/ Edits(a, n) \/ Deletes(a, n) \/ ApiGetItem(a, n)
           \/ HandleItemEdit(a, n) \/ HandleItemDeleteConfirm(a, n)
    PROVE  AdminInv'
<1>1. AdminTypes
  BY DEF AdminInv
<1>2. CASE Edits(a, n)
  <2>1. Update(a, n) /\ UNCHANGED <<via, access, boots>>
    BY <1>2 DEF Edits, HandleItemUpdate, ApiUpdateItem, Page, Api, Asks
  <2>2. request' \in [Agents -> [at : {"idle", "get", "list"}, id : RowIds \cup {0}]]
    BY <1>1, <2>1, BecomesType DEF Update
  <2>3. AdminTypes'
    BY <1>1, <2>1, <2>2 DEF AdminTypes, Update, store
  <2> QED BY <2>1, <2>3, QuietStep DEF Update, store
<1>3. CASE HandleItemDelete(a, n)
  <2>1. request' \in [Agents -> [at : {"idle", "get", "list"}, id : RowIds \cup {0}]]
    BY <1>1, <1>3, BecomesType DEF HandleItemDelete, RenderOrRedirect
  <2> QED BY <1>3, <2>1, RemoveInv DEF HandleItemDelete, Page, Asks
<1>4. CASE ApiDeleteItem(a, n)
  BY <1>1, <1>4, RemoveInv DEF ApiDeleteItem, Api, Asks, AdminTypes
<1>5. CASE ApiGetItem(a, n) \/ HandleItemEdit(a, n) \/ HandleItemDeleteConfirm(a, n)
  <2>1. Get(a, n) /\ UNCHANGED <<via, access, boots>>
    BY <1>5 DEF ApiGetItem, HandleItemEdit, HandleItemDeleteConfirm, Page, Api, Asks
  <2> QED BY <1>1, <2>1, GetInv DEF Get, AdminTypes
<1> QED BY <1>2, <1>3, <1>4, <1>5 DEF Deletes

(* Every step of the example keeps the invariant.                          *)
LEMMA AdminStep ==
    ASSUME AdminInv, AdminAssumption, [AdminNext]_adminVars
    PROVE  AdminInv'
<1>1. CASE Reboot
  BY <1>1, RebootStep
<1>2. ASSUME NEW a \in Agents, NEW u \in Staff, HandleLoginPost(a, u) \/ IssueAccessToken(a, u)
      PROVE  AdminInv'
  <2>1. UNCHANGED <<store, via, request, views, boots>> /\ access' = [access EXCEPT ![a] = u]
    BY <1>2 DEF HandleLoginPost, IssueAccessToken, Grants
  <2>2. AdminTypes'
    BY <2>1 DEF AdminInv, AdminTypes, store
  <2> QED BY <2>1, <2>2, QuietStep DEF store
<1>3. CASE UNCHANGED adminVars
  <2>1. AdminTypes'
    BY <1>3 DEF AdminInv, AdminTypes, adminVars, store
  <2> QED BY <1>3, <2>1, QuietStep DEF adminVars, store
<1> QED BY <1>1, <1>2, <1>3, AgentStep, ItemStep DEF AdminNext

(* Every reachable state has the types, and an id is never given twice.    *)
THEOREM AdminInvariant == AdminSpec => []AdminInv
<1>1. AdminInit => AdminInv
  BY AdminInitInv, AdminAssumption
<1>2. AdminInv /\ [AdminNext]_adminVars => AdminInv'
  BY AdminStep, AdminAssumption
<1> QED BY <1>1, <1>2, PTL DEF AdminSpec

(* With a database on disk, an edit or a deletion changes the item its     *)
(* sender was shown, or nothing (store.go:35-58, 110-154).                 *)
THEOREM EditsHit == AdminSpec => EditsHitTheirItem
<1> DEFINE Hits == OnDisk => \A a \in Agents, n \in RowIds :
                      Edits(a, n) \/ Deletes(a, n) => rows[n] = views[a][n]
<1>1. AdminInv => [Hits]_adminVars
  <2> SUFFICES ASSUME AdminInv, OnDisk, NEW a \in Agents, NEW n \in RowIds,
                      Edits(a, n) \/ Deletes(a, n)
               PROVE  rows[n] = views[a][n]
    OBVIOUS
  <2>1. views[a][n] # 0 /\ rows[n] # 0
    BY DEF Edits, Deletes, HandleItemUpdate, ApiUpdateItem, HandleItemDelete, ApiDeleteItem,
           Shown, Update, Remove
  <2> QED BY <2>1 DEF AdminInv, SeenIsThere
<1> QED BY <1>1, AdminInvariant, PTL DEF EditsHitTheirItem

-----------------------------------------------------------------------------
(***************************************************************************)
(* Intake uses its parts one at a time, and each keeps its promises.       *)
(***************************************************************************)
(* What the four specifications promise holds of a server's intake.        *)
THEOREM IntakeKeepsPromises ==
    IntakeSpec => /\ [](RateBound /\ LastCallHolds /\ UploadsKept)
                  /\ DeniedOnlyRecently /\ EditsHitTheirItem
<1> DEFINE all == <<part, vars, blobVars, uploadVars, adminVars>>
<1>1. IntakeInit => Init /\ BlobInit /\ UploadInit /\ AdminInit
  BY DEF IntakeInit
<1>2. [IntakeNext]_all => /\ [Next]_vars /\ [BlobNext]_blobVars
                         /\ [UploadNext]_uploadVars /\ [AdminNext]_adminVars
  BY DEF IntakeNext
<1>3. IntakeSpec => Spec /\ BlobSpec /\ UploadSpec /\ AdminSpec
  BY <1>1, <1>2, PTL DEF IntakeSpec, Spec, BlobSpec, UploadSpec, AdminSpec
<1>4. Spec /\ BlobSpec /\ UploadSpec /\ AdminSpec
        => /\ [](RateBound /\ LastCallHolds /\ UploadsKept)
           /\ DeniedOnlyRecently /\ EditsHitTheirItem
  BY RateBounded, LastCallCorrect, UploadsCorrect, DeniedForAReason, EditsHit, PTL
<1> QED BY <1>3, <1>4

=============================================================================
