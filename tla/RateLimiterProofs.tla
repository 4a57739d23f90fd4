------------------------- MODULE RateLimiterProofs -------------------------
(***************************************************************************)
(* What holds of the per-domain limiter for any domains, rates, bursts and *)
(* timings that LimiterAssumption and RefilledBeforeSwept allow.  The      *)
(* argument is one fact about the sweep: an entry it deletes was last used *)
(* so long ago that its bucket is full again, so that what a domain can    *)
(* get through is the same with the entry as without.                      *)
(***************************************************************************)
EXTENDS RateLimiter, TLAPS

\* Times are ordered, and the sweep has never been further behind than Lag.
Timely ==
  /\ now <= nextTick + Lag
  /\ nextTick <= now + SweepInterval
  /\ mu # None => now <= limiters[mu].lastSeen + Pause
  /\ \A d \in Domain : limiters[d] # None =>
       /\ limiters[d].last <= now
       /\ limiters[d].lastSeen <= now
       /\ limiters[d].last <= limiters[d].lastSeen + Pause
       /\ nextTick <= limiters[d].lastSeen + TTL + SweepInterval

\* What has been let through and what could be at once are within the rate.
Accounted ==
  \A d \in Domain : Level[d] + taken[d] <= Burst + Rate * (now - since)

IInv == TypeOK /\ Timely /\ Accounted

-----------------------------------------------------------------------------
(* Arithmetic *)

LEMMA RateStep ==
  ASSUME NEW x \in Int
  PROVE  Rate * (x + 1) = Rate * x + Rate
BY LimiterAssumption, SMT

LEMMA RateMonotone ==
  ASSUME NEW x \in Int, NEW y \in Int, x <= y
  PROVE  Rate * x <= Rate * y
<1>1. Rate * (y - x) >= 0
  BY LimiterAssumption, SMT
<1>2. Rate * (y - x) = Rate * y - Rate * x
  BY LimiterAssumption, SMT
<1> QED
  BY <1>1, <1>2, LimiterAssumption, SMT

\* What is in an entry's bucket is between nothing and the burst.
LEMMA AdvanceBounded ==
  ASSUME IInv, NEW d \in Domain, limiters[d] # None
  PROVE  /\ limiters[d] \in Entry
         /\ now - limiters[d].last \in Nat
         /\ Rate * (now - limiters[d].last) \in Nat
         /\ Advance(limiters[d]) \in 0 .. Burst
<1>1. limiters[d] \in Entry
  BY DEF IInv, TypeOK
<1>2. now - limiters[d].last \in Nat
  BY <1>1 DEF IInv, TypeOK, Timely, Entry
<1>3. Rate * (now - limiters[d].last) \in Nat
  BY <1>2, LimiterAssumption, SMT
<1>4. Advance(limiters[d]) \in 0 .. Burst
  <2> DEFINE more == Rate * (now - limiters[d].last)
  <2>1. more \in Nat /\ limiters[d].tokens \in 0 .. Burst
    BY <1>1, <1>3 DEF Entry
  <2>2. Advance(limiters[d]) = IF limiters[d].tokens + more < Burst
                               THEN limiters[d].tokens + more ELSE Burst
    BY DEF Advance, Capped
  <2> HIDE DEF more
  <2> QED
    BY <2>1, <2>2, LimiterAssumption
<1> QED
  BY <1>1, <1>2, <1>3, <1>4

LEMMA LevelBounded ==
  ASSUME IInv, NEW d \in Domain
  PROVE  Level[d] \in 0 .. Burst
<1>1. CASE limiters[d] = None
  BY <1>1, LimiterAssumption DEF Level
<1>2. CASE limiters[d] # None
  BY <1>2, AdvanceBounded DEF Level
<1> QED
  BY <1>1, <1>2

\* A bucket used at this moment holds what it was left with.
LEMMA JustUsed ==
  ASSUME NEW e, e.tokens \in 0 .. Burst, e.last \in Int
  PROVE  Capped(e.tokens + Rate * (e.last - e.last)) = e.tokens
<1>1. e.last - e.last = 0
  OBVIOUS
<1>2. Rate * 0 = 0
  BY LimiterAssumption, SMT
<1> QED
  BY <1>1, <1>2, LimiterAssumption DEF Capped

\* A bucket that the sweep would delete is full.
LEMMA IdleIsFull ==
  ASSUME IInv, NEW d \in Domain, limiters[d] # None, limiters[d].lastSeen < now - TTL
  PROVE  Advance(limiters[d]) = Burst
<1> DEFINE idle == now - limiters[d].last
<1>1. limiters[d].tokens \in 0 .. Burst /\ idle \in Nat /\ Rate * idle \in Nat
  BY AdvanceBounded DEF Entry
<1>2. TTL + 1 - Pause <= idle
  BY LimiterAssumption, AdvanceBounded DEF IInv, TypeOK, Timely, Entry
<1>3. Rate * (TTL + 1 - Pause) <= Rate * idle
  BY <1>1, <1>2, RateMonotone, LimiterAssumption
<1>4. Advance(limiters[d]) = IF limiters[d].tokens + Rate * idle < Burst
                             THEN limiters[d].tokens + Rate * idle ELSE Burst
  BY DEF Advance, Capped
<1>5. Rate * (TTL + 1 - Pause) \in Int
  BY LimiterAssumption, SMT
<1> HIDE DEF idle
<1> DEFINE gained == Rate * idle
           needed == Rate * (TTL + 1 - Pause)
<1>6. gained \in Nat /\ needed \in Int /\ needed <= gained /\ Burst <= needed
  BY <1>1, <1>3, <1>5, RefilledBeforeSwept
<1>7. Advance(limiters[d]) = IF limiters[d].tokens + gained < Burst
                             THEN limiters[d].tokens + gained ELSE Burst
  BY <1>4
<1> HIDE DEF gained, needed
<1> QED
  BY <1>1, <1>6, <1>7, LimiterAssumption

-----------------------------------------------------------------------------
(* What each step does to the buckets *)

LEMMA LookLevel ==
  ASSUME IInv, NEW d \in Domain, Look(d)
  PROVE  Level' = Level
<1> SUFFICES ASSUME NEW c \in Domain PROVE Level'[c] = Level[c]
  BY DEF Level
<1> USE LimiterAssumption
<1>1. CASE c = d /\ limiters[d] = None
  <2>1. limiters'[d] = Fresh /\ now' = now
    BY <1>1 DEF Look, IInv, TypeOK
  <2>2. /\ Fresh.tokens = Burst /\ Fresh.last = now
        /\ Fresh.tokens \in 0 .. Burst /\ Fresh.last \in Int
    BY DEF Fresh, IInv, TypeOK
  <2>3. Fresh # None
    BY <2>2 DEF Fresh, Entry, IInv, TypeOK
  <2>4. Capped(Fresh.tokens + Rate * (Fresh.last - Fresh.last)) = Burst
    BY <2>2, JustUsed
  <2> QED
    BY <1>1, <2>1, <2>2, <2>3, <2>4 DEF Level, Advance, Capped
<1>2. CASE c = d /\ limiters[d] # None
  <2>1. /\ limiters'[d] = [limiters[d] EXCEPT !.lastSeen = now]
        /\ limiters[d] \in Entry /\ now' = now
    BY <1>2 DEF Look, IInv, TypeOK
  <2>2. /\ limiters'[d].tokens = limiters[d].tokens
        /\ limiters'[d].last = limiters[d].last
    BY <2>1 DEF Entry
  <2>3. limiters'[d] # None
    BY <2>1 DEF Entry, IInv, TypeOK
  <2> QED
    BY <1>2, <2>1, <2>2, <2>3 DEF Level, Advance, Capped
<1>3. CASE c # d
  BY <1>3 DEF Look, Level, Advance, Capped, IInv, TypeOK
<1> QED
  BY <1>1, <1>2, <1>3

\* Time adds what accrues in a unit, up to the burst.
LEMMA TickLevel ==
  ASSUME IInv, Tick
  PROVE  Level' = [d \in Domain |-> Capped(Level[d] + Rate)]
<1> SUFFICES ASSUME NEW d \in Domain PROVE Level'[d] = Capped(Level[d] + Rate)
  BY DEF Level
<1>1. now' = now + 1 /\ limiters' = limiters
  BY DEF Tick
<1>2. CASE limiters[d] = None
  BY <1>1, <1>2, LimiterAssumption DEF Level, Capped
<1>3. CASE limiters[d] # None
  <2> DEFINE idle == now - limiters[d].last
             more == Rate * idle
  <2>1. idle \in Nat /\ more \in Nat /\ limiters[d].tokens \in 0 .. Burst
    BY <1>3, AdvanceBounded DEF Entry
  <2>2. now' - limiters'[d].last = idle + 1
    BY <1>1, <1>3, AdvanceBounded DEF IInv, TypeOK, Entry
  <2>3. Rate * (idle + 1) = more + Rate
    BY <2>1, RateStep
  <2>4. Level'[d] = Capped(limiters[d].tokens + (more + Rate))
    BY <1>1, <1>3, <2>2, <2>3 DEF Level, Advance, Capped
  <2>5. Level[d] = Capped(limiters[d].tokens + more)
    BY <1>3 DEF Level, Advance
  <2> HIDE DEF more
  <2> QED
    BY <2>1, <2>4, <2>5, LimiterAssumption DEF Capped
<1> QED
  BY <1>2, <1>3

LEMMA AdmitLevel ==
  ASSUME IInv, NEW d \in Domain, Admit(d)
  PROVE  Level[d] > 0 /\ Level' = [Level EXCEPT ![d] = @ - 1]
<1>1. limiters[d] # None
  BY LimiterAssumption DEF Admit, IInv, TypeOK
<1>2. Level[d] = Advance(limiters[d]) /\ Level[d] > 0 /\ Level[d] \in 0 .. Burst
  BY <1>1, LevelBounded DEF Level, Admit
<1> DEFINE left == Level[d] - 1
<1>3. /\ limiters'[d].tokens = left /\ limiters'[d].last = now
      /\ limiters'[d] # None /\ now' = now
  <2>1. limiters'[d] = [limiters[d] EXCEPT !.tokens = left, !.last = now]
    BY <1>2 DEF Admit, IInv, TypeOK
  <2>2. left \in 0 .. Burst /\ limiters[d] \in Entry
    BY <1>1, <1>2, LimiterAssumption, AdvanceBounded
  <2>3. limiters'[d] \in Entry
    BY <2>1, <2>2 DEF Entry, IInv, TypeOK
  <2> QED
    BY <2>1, <2>2, <2>3, LimiterAssumption DEF Admit, Answer, Entry
<1>4. Level'[d] = left
  <2>1. Level'[d] = Capped(limiters'[d].tokens + Rate * (limiters'[d].last - limiters'[d].last))
    BY <1>3 DEF Level, Advance, Capped
  <2>2. limiters'[d].tokens \in 0 .. Burst /\ limiters'[d].last \in Int
    BY <1>2, <1>3, LimiterAssumption DEF IInv, TypeOK
  <2> QED
    BY <2>1, <2>2, <1>3, JustUsed
<1>5. ASSUME NEW c \in Domain, c # d PROVE Level'[c] = Level[c]
  BY <1>5 DEF Admit, Answer, Level, Advance, Capped, IInv, TypeOK
<1> QED
  BY <1>2, <1>4, <1>5 DEF Level

\* The sweep takes nothing from anybody: what it deletes is full.
LEMMA SweepLevel ==
  ASSUME IInv, Sweep
  PROVE  Level' = Level
<1> SUFFICES ASSUME NEW d \in Domain PROVE Level'[d] = Level[d]
  BY DEF Level
<1>1. CASE limiters[d] # None /\ limiters[d].lastSeen < now - TTL
  <2>1. limiters'[d] = None
    BY <1>1 DEF Sweep
  <2> QED
    BY <1>1, <2>1, IdleIsFull DEF Level
<1>2. CASE ~(limiters[d] # None /\ limiters[d].lastSeen < now - TTL)
  <2>1. limiters'[d] = limiters[d] /\ now' = now
    BY <1>2 DEF Sweep
  <2> QED
    BY <2>1 DEF Level, Advance, Capped
<1> QED
  BY <1>1, <1>2

LEMMA RestartLevel ==
  ASSUME Restart
  PROVE  Level' = [d \in Domain |-> Burst]
BY DEF Restart, Level

LEMMA SameLevel ==
  ASSUME UNCHANGED <<limiters, now>>
  PROVE  Level' = Level
BY DEF Level, Advance, Capped

-----------------------------------------------------------------------------
(* The invariant *)

LEMMA InitInv == Init => IInv
<1> SUFFICES ASSUME Init PROVE IInv
  OBVIOUS
<1> USE LimiterAssumption
<1>1. TypeOK
  BY DEF Init, TypeOK
<1>2. Timely
  BY DEF Init, Timely
<1>3. Accounted
  <2>1. Rate * (now - since) = 0
    BY SMT DEF Init
  <2>2. ASSUME NEW d \in Domain PROVE Level[d] + taken[d] = Burst
    <3>1. Level[d] = Burst
      BY DEF Init, Level
    <3>2. taken[d] = 0
      BY DEF Init
    <3> QED
      BY <3>1, <3>2
  <2>3. Burst <= Burst + Rate * (now - since)
    BY <2>1
  <2> QED
    BY <2>2, <2>3 DEF Accounted
<1> QED
  BY <1>1, <1>2, <1>3 DEF IInv

LEMMA TypeNext == ASSUME IInv, [Next]_vars PROVE TypeOK'
<1> USE LimiterAssumption DEF IInv, TypeOK
<1>1. ASSUME NEW d \in Domain, Look(d) PROVE TypeOK'
  BY <1>1 DEF Look, Fresh, Entry
<1>2. ASSUME NEW d \in Domain, Admit(d) PROVE TypeOK'
  <2>1. limiters[d] \in Entry /\ Advance(limiters[d]) - 1 \in 0 .. Burst
    BY <1>2, AdvanceBounded DEF Admit
  <2>2. [limiters[d] EXCEPT !.tokens = Advance(limiters[d]) - 1, !.last = now] \in Entry
    BY <2>1 DEF Entry
  <2> QED
    BY <1>2, <2>1, <2>2 DEF Admit, Answer
<1>3. ASSUME NEW d \in Domain, Refuse(d) PROVE TypeOK'
  BY <1>3 DEF Refuse, Answer
<1>4. CASE Sweep
  BY <1>4 DEF Sweep
<1>5. CASE Tick
  BY <1>5 DEF Tick
<1>6. CASE Restart
  BY <1>6 DEF Restart
<1>7. CASE Watch
  BY <1>7 DEF Watch
<1>8. CASE UNCHANGED vars
  BY <1>8 DEF vars
<1> QED
  BY <1>1, <1>2, <1>3, <1>4, <1>5, <1>6, <1>7, <1>8 DEF Next

LEMMA TimelyNext == ASSUME IInv, [Next]_vars PROVE Timely'
<1> USE LimiterAssumption DEF IInv, TypeOK, Timely, Entry
<1>1. ASSUME NEW d \in Domain, Look(d) PROVE Timely'
  BY <1>1 DEF Look, Fresh
<1>2. ASSUME NEW d \in Domain, Admit(d) PROVE Timely'
  BY <1>2 DEF Admit, Answer
<1>3. ASSUME NEW d \in Domain, Refuse(d) PROVE Timely'
  BY <1>3 DEF Refuse, Answer
<1>4. CASE Sweep
  BY <1>4 DEF Sweep
<1>5. CASE Tick
  BY <1>5 DEF Tick
<1>6. CASE Restart
  BY <1>6 DEF Restart
<1>7. CASE Watch
  BY <1>7 DEF Watch
<1>8. CASE UNCHANGED vars
  BY <1>8 DEF vars
<1> QED
  BY <1>1, <1>2, <1>3, <1>4, <1>5, <1>6, <1>7, <1>8 DEF Next

LEMMA AccountedNext == ASSUME IInv, [Next]_vars PROVE Accounted'
<1> USE LimiterAssumption
<1>0. /\ \A d \in Domain : Level[d] \in 0 .. Burst /\ taken[d] \in Nat
      /\ now - since \in Nat /\ Rate * (now - since) \in Nat
  <2>1. now - since \in Nat
    BY DEF IInv, TypeOK
  <2>2. Rate * (now - since) \in Nat
    BY <2>1, SMT
  <2> QED
    BY <2>1, <2>2, LevelBounded DEF IInv, TypeOK
<1>1. CASE UNCHANGED <<now, since, taken>> /\ Level' = Level
  BY <1>1 DEF IInv, Accounted
<1>2. ASSUME NEW d \in Domain, Look(d) PROVE Accounted'
  BY <1>1, <1>2, LookLevel DEF Look
<1>3. ASSUME NEW d \in Domain, Admit(d) PROVE Accounted'
  <2> DEFINE room == Burst + Rate * (now - since)
  <2>1. /\ Level' = [Level EXCEPT ![d] = @ - 1]
        /\ taken' = [taken EXCEPT ![d] = @ + 1]
        /\ now' = now /\ since' = since
    BY <1>3, AdmitLevel DEF Admit, Answer
  <2>2. ASSUME NEW c \in Domain PROVE Level'[c] + taken'[c] = Level[c] + taken[c]
    <3>1. Level'[c] = IF c = d THEN Level[c] - 1 ELSE Level[c]
      BY <2>1 DEF Level
    <3>2. taken'[c] = IF c = d THEN taken[c] + 1 ELSE taken[c]
      BY <2>1 DEF IInv, TypeOK
    <3> QED
      BY <3>1, <3>2, <1>0
  <2> QED
    BY <2>1, <2>2 DEF IInv, Accounted
<1>4. ASSUME NEW d \in Domain, Refuse(d) PROVE Accounted'
  BY <1>1, <1>4, SameLevel DEF Refuse, Answer
<1>5. CASE Sweep
  BY <1>1, <1>5, SweepLevel DEF Sweep
<1>6. CASE Tick
  <2> DEFINE earned == Rate * (now - since)
  <2>1. Rate * (now' - since') = earned + Rate
    <3>1. now' - since' = (now - since) + 1
      BY <1>6 DEF Tick, IInv, TypeOK
    <3> QED
      BY <3>1, <1>0, RateStep
  <2>2. ASSUME NEW d \in Domain PROVE Level'[d] <= Level[d] + Rate
    BY <1>0, <1>6, TickLevel DEF Capped
  <2>3. taken' = taken
    BY <1>6 DEF Tick
  <2>4. \A d \in Domain : Level'[d] \in Int
    BY <1>0, <1>6, TickLevel DEF Capped
  <2>5. \A d \in Domain : Level[d] + taken[d] <= Burst + earned
    BY DEF IInv, Accounted
  <2>6. earned \in Nat
    BY <1>0
  <2> HIDE DEF earned
  <2>7. ASSUME NEW d \in Domain PROVE Level'[d] + taken'[d] <= Burst + (earned + Rate)
    BY <1>0, <2>2, <2>3, <2>4, <2>5, <2>6
  <2> QED
    BY <2>1, <2>7 DEF Accounted
<1>7. ASSUME since' = now', taken' = [d \in Domain |-> 0], now' = now,
             \A d \in Domain : Level'[d] \in 0 .. Burst
      PROVE  Accounted'
  <2>1. now' - since' = 0
    BY <1>7 DEF IInv, TypeOK
  <2>2. Rate * (now' - since') = 0
    BY <2>1, SMT
  <2> QED
    BY <1>7, <2>2 DEF Accounted
<1>8. CASE Restart
  BY <1>7, <1>8, RestartLevel DEF Restart
<1>9. CASE Watch
  BY <1>0, <1>7, <1>9, SameLevel DEF Watch
<1>10. CASE UNCHANGED vars
  BY <1>1, <1>10, SameLevel DEF vars
<1> QED
  BY <1>2, <1>3, <1>4, <1>5, <1>6, <1>8, <1>9, <1>10 DEF Next

\* Types, times and accounts hold in every reachable state.
THEOREM LimiterInv == Spec => []IInv
<1>1. IInv /\ [Next]_vars => IInv'
  BY TypeNext, TimelyNext, AccountedNext DEF IInv
<1> QED
  BY InitInv, <1>1, PTL DEF Spec

-----------------------------------------------------------------------------
(* What follows *)

\* The limiter's state is well typed; in particular no bucket holds more than the
\* burst, and a call that holds the lock always finds its entry there.
THEOREM LimiterTyped == Spec => []TypeOK
<1>1. IInv => TypeOK
  BY DEF IInv
<1> QED
  BY LimiterInv, <1>1, PTL

\* No domain gets more through POST /deliver, over any stretch without a restart,
\* than its burst and its rate allow, although entries are deleted and made anew.
THEOREM LimiterWithinRate == Spec => []WithinRate
<1>1. IInv => WithinRate
  <2> SUFFICES ASSUME IInv, NEW d \in Domain
               PROVE  taken[d] <= Burst + Rate * (now - since)
    BY DEF WithinRate
  <2>1. Level[d] \in Nat /\ taken[d] \in Nat /\ Burst \in Nat
    BY LevelBounded, LimiterAssumption DEF IInv, TypeOK
  <2>2. Rate * (now - since) \in Int
    BY LimiterAssumption, SMT DEF IInv, TypeOK
  <2> QED
    BY <2>1, <2>2 DEF IInv, Accounted
<1> QED
  BY LimiterInv, <1>1, PTL

\* The map forgets every domain within a bounded time of its last request.
THEOREM LimiterForgets == Spec => []IdleEntriesExpire
<1>1. IInv => IdleEntriesExpire
  BY LimiterAssumption DEF IInv, TypeOK, Timely, IdleEntriesExpire, Entry
<1> QED
  BY LimiterInv, <1>1, PTL

-----------------------------------------------------------------------------
(* The refinement *)

LEMMA BucketsInit == Init => Buckets!Init
BY DEF Init, Buckets!Init, Level

\* Every step of the limiter is a step of the buckets or leaves them as they are.
LEMMA BucketsNext ==
  ASSUME IInv, [Next]_vars
  PROVE  [Buckets!Next]_<<Level, answer>>
<1> USE DEF Buckets!Next, Buckets!Says
<1>1. ASSUME NEW d \in Domain, Look(d) PROVE UNCHANGED <<Level, answer>>
  BY <1>1, LookLevel DEF Look
<1>2. ASSUME NEW d \in Domain, Admit(d) PROVE Buckets!Admit(d)
  BY <1>2, AdmitLevel DEF Admit, Answer, Buckets!Admit
<1>3. ASSUME NEW d \in Domain, Refuse(d) PROVE Buckets!Refuse(d)
  <2>1. Level' = Level
    BY <1>3, SameLevel DEF Refuse, Answer
  <2>2. limiters[d] # None
    BY <1>3, LimiterAssumption DEF Refuse, IInv, TypeOK
  <2> QED
    BY <1>3, <2>1, <2>2 DEF Refuse, Answer, Level, Buckets!Refuse
<1>4. CASE Sweep
  BY <1>4, SweepLevel DEF Sweep
<1>5. CASE Tick
  BY <1>5, TickLevel DEF Tick, Buckets!Refill, Buckets!Capped, Capped
<1>6. CASE Restart
  BY <1>6, RestartLevel DEF Restart, Buckets!Reset
<1>7. CASE Watch
  BY <1>7, SameLevel DEF Watch
<1>8. CASE UNCHANGED vars
  BY <1>8, SameLevel DEF vars
<1> QED
  BY <1>1, <1>2, <1>3, <1>4, <1>5, <1>6, <1>7, <1>8 DEF Next

\* Buckets made on demand, refilled when looked at and deleted when idle answer
\* every request as buckets kept for every domain for ever would.
THEOREM LimiterIsTokenBucket == Spec => ImplementsTokenBucket
<1>1. IInv /\ [Next]_vars => [Buckets!Next]_<<Level, answer>>
  BY BucketsNext
<1> QED
  BY BucketsInit, <1>1, LimiterInv, PTL DEF Spec, ImplementsTokenBucket, Buckets!Spec
=============================================================================
