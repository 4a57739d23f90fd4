---------------------------- MODULE RateLimiter ----------------------------
(***************************************************************************)
(* DomainLimiters: one token bucket per sender domain, made when the       *)
(* domain is first seen and deleted by a background sweep when it has not  *)
(* been seen for TTL.  A new bucket starts full, so deleting one is only   *)
(* harmless if it would be full by then.                                   *)
(*                                                                         *)
(* The clock counts units in which whole tokens accrue.  Allow reads it    *)
(* twice, once for lastSeen and once inside the bucket; the lock is held   *)
(* from the one to the other.                                              *)
(***************************************************************************)
EXTENDS Integers

CONSTANTS
  Domain,         \* sender domains
  Rate, Burst,    \* rate_limit.per_domain_rps and .burst
  TTL,            \* domainLimiterTTL
  SweepInterval,  \* domainLimiterSweepInterval
  Pause,          \* the most that passes between Allow's two readings
  Lag,            \* the most a sweep comes after its tick
  MaxTime,        \* the clock's bound
  None

Entry == [tokens : 0 .. Burst, last : Nat, lastSeen : Nat]

ASSUME LimiterAssumption ==
  /\ Rate \in Nat \ {0} /\ Burst \in Nat
  /\ TTL \in Nat /\ SweepInterval \in Nat /\ Pause \in Nat /\ Lag \in Nat
  /\ MaxTime \in Nat
  /\ None \notin Domain \cup Entry

\* A bucket nobody has used for longer than TTL is full again.  20 tokens at 5 a
\* second, against ten minutes; other configured values are not checked.
ASSUME RefilledBeforeSwept == Pause <= TTL /\ Burst <= Rate * (TTL + 1 - Pause)

VARIABLES
  limiters,  \* domain to entry, or None
  mu,        \* the domain whose Allow holds the lock, or None
  now,
  nextTick,  \* when the sweep's ticker fires next
  \* history: the latest answer, and what has been let through since a moment
  answer, since, taken

vars == <<limiters, mu, now, nextTick, answer, since, taken>>

TypeOK ==
  /\ limiters \in [Domain -> Entry \cup {None}]
  /\ mu \in Domain \cup {None}
  /\ mu # None => limiters[mu] # None
  /\ now \in Nat /\ nextTick \in Nat
  /\ answer \in [to : Domain \cup {"nobody"}, ok : BOOLEAN, turn : {0, 1}]
  /\ since \in 0 .. now
  /\ taken \in [Domain -> Nat]

Capped(n) == IF n < Burst THEN n ELSE Burst

\* rate.Limiter's lazy refill: what is in the bucket now.
Advance(e) == Capped(e.tokens + Rate * (now - e.last))

Fresh == [tokens |-> Burst, last |-> now, lastSeen |-> now]

Init ==
  /\ limiters = [d \in Domain |-> None] /\ mu = None
  /\ now = 0 /\ nextTick = SweepInterval
  /\ answer = [to |-> "nobody", ok |-> FALSE, turn |-> 0]
  /\ since = 0 /\ taken = [d \in Domain |-> 0]

-----------------------------------------------------------------------------
(* Allow *)

\* Mutant: a known domain's lastSeen is left as it was.
Look_SeenOnce(d) ==
  /\ mu = None
  /\ mu' = d
  /\ limiters' = [limiters EXCEPT ![d] = IF @ = None THEN Fresh ELSE @]
  /\ UNCHANGED <<now, nextTick, answer, since, taken>>

\* The lock is taken, the entry made if there is none, and lastSeen set.
Look(d) ==
  /\ mu = None
  /\ mu' = d
  /\ limiters' = [limiters EXCEPT ![d] = IF @ = None THEN Fresh ELSE [@ EXCEPT !.lastSeen = now]]
  /\ UNCHANGED <<now, nextTick, answer, since, taken>>

Answer(d, ok) ==
  /\ answer' = [to |-> d, ok |-> ok, turn |-> 1 - answer.turn]
  /\ taken' = IF ok THEN [taken EXCEPT ![d] = @ + 1] ELSE taken
  /\ mu' = None
  /\ UNCHANGED <<now, nextTick, since>>

\* Mutant: the refill is not capped at the burst.
Admit_Uncapped(d) ==
  /\ mu = d
  /\ limiters[d].tokens + Rate * (now - limiters[d].last) > 0
  /\ limiters' = [limiters EXCEPT ![d].tokens = @ + Rate * (now - limiters[d].last) - 1,
                                  ![d].last = now]
  /\ Answer(d, TRUE)

\* rate.Limiter.Allow: a whole token is there and is used.
Admit(d) ==
  /\ mu = d
  /\ Advance(limiters[d]) > 0
  /\ limiters' = [limiters EXCEPT ![d].tokens = Advance(limiters[d]) - 1, ![d].last = now]
  /\ Answer(d, TRUE)

\* There is none; the bucket is left as it was.
Refuse(d) ==
  /\ mu = d
  /\ Advance(limiters[d]) = 0
  /\ Answer(d, FALSE)
  /\ UNCHANGED limiters

-----------------------------------------------------------------------------
(* The sweep, time and restarts *)

\* Mutant: the cutoff is now, and whatever is not being used goes.
Sweep_NoTTL ==
  /\ mu = None
  /\ now >= nextTick
  /\ nextTick' = nextTick + SweepInterval
  /\ limiters' = [d \in Domain |->
       IF limiters[d] # None /\ limiters[d].lastSeen < now THEN None ELSE limiters[d]]
  /\ UNCHANGED <<mu, now, answer, since, taken>>

\* Mutant: a sweep deletes one entry.
Sweep_DeletesOne ==
  /\ mu = None
  /\ now >= nextTick
  /\ nextTick' = nextTick + SweepInterval
  /\ \E d \in Domain :
       limiters' = [limiters EXCEPT ![d] =
         IF @ # None /\ @.lastSeen < now - TTL THEN None ELSE @]
  /\ UNCHANGED <<mu, now, answer, since, taken>>

\* Run's ticker fires: every entry last seen before the cutoff is deleted.
Sweep ==
  /\ mu = None
  /\ now >= nextTick
  /\ nextTick' = nextTick + SweepInterval
  /\ limiters' = [d \in Domain |->
       IF limiters[d] # None /\ limiters[d].lastSeen < now - TTL THEN None ELSE limiters[d]]
  /\ UNCHANGED <<mu, now, answer, since, taken>>

\* Time passes, but a call under way and a sweep that is due are not held up for
\* longer than the bounds say.
Tick ==
  /\ now < MaxTime
  /\ mu # None => now < limiters[mu].lastSeen + Pause
  /\ now < nextTick + Lag
  /\ now' = now + 1
  /\ UNCHANGED <<limiters, mu, nextTick, answer, since, taken>>

\* The process dies and starts again: the buckets are in memory only.
Restart ==
  /\ limiters' = [d \in Domain |-> None] /\ mu' = None
  /\ nextTick' = now + SweepInterval
  /\ since' = now /\ taken' = [d \in Domain |-> 0]
  /\ UNCHANGED <<now, answer>>

\* The history starts counting afresh, at any moment.
Watch ==
  /\ since' = now /\ taken' = [d \in Domain |-> 0]
  /\ UNCHANGED <<limiters, mu, now, nextTick, answer>>

Next ==
  \/ \E d \in Domain : Look(d) \/ Admit(d) \/ Refuse(d)
  \/ Sweep
  \/ Tick
  \/ Restart
  \/ Watch

Spec == Init /\ [][Next]_vars

-----------------------------------------------------------------------------
(* Safety *)

\* In any stretch of time without a restart a domain gets at most Burst requests
\* and Rate for each unit of it through, whatever the sweep deletes meanwhile.
WithinRate ==
  \A d \in Domain : taken[d] <= Burst + Rate * (now - since)

\* No entry outlives its last use by more than TTL, one sweep interval and the
\* sweep's lag, so the map holds no more than the domains seen in that time.
IdleEntriesExpire ==
  \A d \in Domain : limiters[d] # None =>
    now <= limiters[d].lastSeen + TTL + SweepInterval + Lag

\* What is in a domain's bucket now; one that does not exist would be made full.
Level == [d \in Domain |-> IF limiters[d] = None THEN Burst ELSE Advance(limiters[d])]

Buckets == INSTANCE TokenBucket WITH level <- Level

\* The lazily made, lazily refilled and swept buckets answer every request as
\* buckets would that are kept for ever.
ImplementsTokenBucket == Buckets!Spec
=============================================================================
