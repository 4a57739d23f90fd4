---------------------------- MODULE OutboxProofs ----------------------------
(***************************************************************************)
(* Proofs that the safety properties of Outbox hold for every set of       *)
(* messages and workers, every retry schedule, every choice of lifetimes   *)
(* and every combination of faults.                                        *)
(***************************************************************************)
EXTENDS Outbox, TLAPS

\* What pc says about the rest of a worker's state.
WorkerInv ==
  \A w \in Worker :
    /\ pc[w] = "idle" => batch[w] = {}
    /\ pc[w] \in {"resolve", "deliver", "markDelivered", "markFailed"} => cur[w] \in batch[w]
    /\ pc[w] = "markDelivered" => cur[w] \in accepted

\* What recordFailure has decided agrees with the row MarkFailed will write.
VerdictInv ==
  \A w \in Worker : pc[w] = "markFailed" =>
    LET m == cur[w]
        v == verdict[w]
    IN  /\ v \in Verdict
        /\ v.retryAt = None /\ expiresAt[m] = None => attempts[m] = Len(Schedule)
        /\ v.retryAt # None =>
             /\ attempts[m] < Len(Schedule)
             /\ v.retryAt = failedAt[m] + Schedule[attempts[m] + 1]
             /\ expiresAt[m] # None => v.retryAt <= expiresAt[m]

\* The row's own books: tries recorded, POSTs made, schedule left, backoff due.
RowInv ==
  \A m \in Msg :
    /\ status[m] = "absent" => attempts[m] = 0 /\ posts[m] = 0
    /\ posts[m] <= attempts[m] + 1
    /\ status[m] \in {"pending", "failed"} => posts[m] <= attempts[m]
    /\ attempts[m] <= Len(Schedule) + 1
    /\ status[m] # "failed" => attempts[m] <= Len(Schedule)
    /\ status[m] = "failed" /\ expiresAt[m] = None => attempts[m] = Len(Schedule) + 1
    /\ status[m] = "pending" =>
         /\ nextAttempt[m] # None
         /\ attempts[m] > 0 => nextAttempt[m] = failedAt[m] + Schedule[attempts[m]]
         /\ attempts[m] > 0 /\ expiresAt[m] # None => nextAttempt[m] <= expiresAt[m]

\* The message is with w and w has not come to its Mark call yet.
InHand(w, m) ==
  /\ m \in batch[w]
  /\ ~(cur[w] = m /\ pc[w] \in {"markDelivered", "markFailed"})

\* Until its Mark call a message in hand owes nothing and its backoff is over.
HandInv ==
  \A w \in Worker, m \in Msg : InHand(w, m) =>
    /\ posts[m] <= attempts[m]
    /\ attempts[m] > 0 => now >= failedAt[m] + Schedule[attempts[m]]

IInv == TypeOK /\ ClaimsExclusive /\ WorkerInv /\ VerdictInv /\ RowInv /\ HandInv

-----------------------------------------------------------------------------
\* Each entry of the schedule is a number of seconds.
LEMMA ScheduleTyped ==
  /\ Len(Schedule) \in Nat
  /\ \A n \in 1..Len(Schedule) : Schedule[n] \in Nat
BY OutboxAssumption

LEMMA BackoffTyped ==
  ASSUME TypeOK, RowInv, NEW m \in Msg, status[m] # "failed", attempts[m] > 0
  PROVE  failedAt[m] + Schedule[attempts[m]] \in Nat
<1>1. attempts[m] \in 1..Len(Schedule)
  BY ScheduleTyped DEF TypeOK, RowInv
<1>2. Schedule[attempts[m]] \in Nat
  BY <1>1, ScheduleTyped
<1> QED BY <1>2 DEF TypeOK

\* recordFailure's three outcomes: it gives up a message with no expiry only
\* when the schedule is used up, and a retry keeps the schedule's distance and
\* falls within the expiry.
LEMMA JudgeSound ==
  ASSUME TypeOK, NEW m \in Msg, NEW n \in Nat, n <= Len(Schedule)
  PROVE  /\ Judge(m, n) \in Verdict
         /\ Judge(m, n).retryAt = None /\ expiresAt[m] = None => n = Len(Schedule)
         /\ Judge(m, n).retryAt # None =>
              /\ n < Len(Schedule)
              /\ Judge(m, n).retryAt = now + Schedule[n + 1]
              /\ expiresAt[m] # None => Judge(m, n).retryAt <= expiresAt[m]
<1> DEFINE candidate == now + Schedule[n + 1]
<1>1. CASE n < Len(Schedule)
  <2>1. candidate \in Nat /\ candidate # None
    BY <1>1, ScheduleTyped, OutboxAssumption DEF TypeOK
  <2>2. CASE expiresAt[m] # None /\ candidate > expiresAt[m]
    BY <1>1, <2>1, <2>2 DEF Judge, Verdict
  <2>3. CASE ~(expiresAt[m] # None /\ candidate > expiresAt[m])
    <3>1. Judge(m, n) = [retryAt |-> candidate, reason |-> "error"]
      BY <1>1, <2>3 DEF Judge
    <3>2. expiresAt[m] # None => candidate <= expiresAt[m]
      BY <2>1, <2>3 DEF TypeOK
    <3> QED BY <1>1, <2>1, <3>1, <3>2 DEF Verdict
  <2> QED BY <2>2, <2>3
<1>2. CASE ~(n < Len(Schedule))
  BY <1>2, ScheduleTyped DEF Judge, Verdict
<1> QED BY <1>1, <1>2

\* A fresh row starts with empty books.
LEMMA SendMessageStep ==
  ASSUME IInv, NEW m \in Msg, NEW life \in Lifetimes, SendMessage(m, life)
  PROVE  IInv'
<1> USE OutboxAssumption DEF IInv, SendMessage, worker, outside
<1>1. TypeOK'
  BY DEF TypeOK, Step, Status, Verdict, WorkerInv
<1>2. ClaimsExclusive'
  BY DEF TypeOK, ClaimsExclusive, WorkerInv
<1>3. WorkerInv'
  BY DEF TypeOK, Step, WorkerInv, ClaimsExclusive
<1>4. VerdictInv'
  BY DEF TypeOK, VerdictInv, ClaimsExclusive, WorkerInv
<1>5. RowInv'
  BY DEF TypeOK, RowInv, WorkerInv, ClaimsExclusive, VerdictInv
<1>6. HandInv'
  BY DEF TypeOK, HandInv, RowInv, InHand, WorkerInv, ClaimsExclusive
<1> QED BY <1>1, <1>2, <1>3, <1>4, <1>5, <1>6

\* A claim takes only pending rows, which nobody holds.
LEMMA ClaimPendingStep ==
  ASSUME IInv, NEW w \in Worker, NEW S \in SUBSET Msg, ClaimPending(w, S)
  PROVE  IInv'
<1> USE OutboxAssumption DEF IInv, ClaimPending, outside, Claimable, Due, Marked
<1>1. TypeOK'
  BY DEF TypeOK, Step, Status, Verdict, WorkerInv
<1>2. ClaimsExclusive'
  BY DEF TypeOK, ClaimsExclusive, WorkerInv
<1>3. WorkerInv'
  BY DEF TypeOK, Step, WorkerInv, ClaimsExclusive
<1>4. VerdictInv'
  BY DEF TypeOK, VerdictInv, ClaimsExclusive, WorkerInv
<1>5. RowInv'
  BY DEF TypeOK, RowInv, WorkerInv, ClaimsExclusive, VerdictInv
<1>6. HandInv'
  <2>1. \A m \in S : /\ status[m] = "pending"
                     /\ nextAttempt[m] \in Nat /\ nextAttempt[m] <= now
    BY DEF TypeOK, RowInv
  <2>2. ASSUME NEW m \in S
        PROVE  /\ posts[m] <= attempts[m]
               /\ attempts[m] > 0 => now >= failedAt[m] + Schedule[attempts[m]]
    <3>1. /\ m \in Msg /\ posts[m] <= attempts[m] /\ now \in Nat
          /\ attempts[m] > 0 => nextAttempt[m] = failedAt[m] + Schedule[attempts[m]]
      BY <2>1 DEF TypeOK, RowInv
    <3> QED BY <2>1, <3>1
  <2>3. \A v \in Worker, m \in Msg : InHand(v, m)' => (v = w /\ m \in S) \/ InHand(v, m)
    BY DEF TypeOK, InHand
  <2>4. UNCHANGED <<posts, attempts, failedAt, now>>
    OBVIOUS
  <2> QED BY <2>2, <2>3, <2>4 DEF HandInv
<1> QED BY <1>1, <1>2, <1>3, <1>4, <1>5, <1>6

\* process() starts on a message of the batch.
LEMMA BeginStep ==
  ASSUME IInv, NEW w \in Worker, NEW m \in Msg, Begin(w, m)
  PROVE  IInv'
<1> USE OutboxAssumption DEF IInv, Begin, row, outside, Expired
<1>1. TypeOK'
  <2>1. m \in Msg /\ [retryAt |-> None, reason |-> "expired"] \in Verdict
    BY DEF Verdict
  <2>2. CASE Expired(m)
    <3>1. /\ pc' = [pc EXCEPT ![w] = "markFailed"]
          /\ verdict' = [verdict EXCEPT ![w] = [retryAt |-> None, reason |-> "expired"]]
      BY <2>2
    <3>2. pc' \in [Worker -> Step] /\ verdict' \in [Worker -> Verdict \cup {None}]
      BY <2>1, <3>1 DEF TypeOK, Step
    <3> QED BY <2>1, <3>2 DEF TypeOK
  <2>3. CASE ~Expired(m)
    BY <2>1, <2>3 DEF TypeOK, Step
  <2> QED BY <2>2, <2>3
<1>2. ClaimsExclusive'
  BY DEF TypeOK, ClaimsExclusive, WorkerInv
<1>3. WorkerInv'
  BY DEF TypeOK, Step, WorkerInv, ClaimsExclusive
<1>4. VerdictInv'
  <2>1. CASE Expired(m)
    <3>1. /\ cur' = [cur EXCEPT ![w] = m]
          /\ verdict' = [verdict EXCEPT ![w] = [retryAt |-> None, reason |-> "expired"]]
          /\ pc' = [pc EXCEPT ![w] = "markFailed"]
      BY <2>1
    <3>2. [retryAt |-> None, reason |-> "expired"] \in Verdict
      BY DEF Verdict
    <3>3. expiresAt[m] # None
      BY <2>1
    <3> QED BY <3>1, <3>2, <3>3 DEF TypeOK, VerdictInv
  <2>2. CASE ~Expired(m)
    BY <2>2 DEF TypeOK, VerdictInv
  <2> QED BY <2>1, <2>2
<1>5. RowInv'
  BY DEF TypeOK, RowInv, WorkerInv, ClaimsExclusive, VerdictInv
<1>6. HandInv'
  <2>1. \A v \in Worker, k \in Msg : InHand(v, k)' => InHand(v, k)
    BY DEF TypeOK, InHand
  <2> QED BY <2>1 DEF HandInv
<1> QED BY <1>1, <1>2, <1>3, <1>4, <1>5, <1>6

\* Common to both steps that end in recordFailure: the verdict it leaves is
\* sound for the row, and nobody's message is newly in hand.
LEMMA RecordFailureSound ==
  ASSUME IInv, NEW w \in Worker, pc[w] \in {"resolve", "deliver"}, recordFailure(w),
         UNCHANGED <<row, daemon, now, batch, seen, cur>>
  PROVE  /\ cur[w] \in Msg
         /\ verdict' \in [Worker -> Verdict \cup {None}]
         /\ failedAt' \in [Msg -> Nat]
         /\ pc' \in [Worker -> Step]
         /\ VerdictInv'
         /\ \A v \in Worker, m \in Msg : InHand(v, m)' =>
              InHand(v, m) /\ failedAt'[m] = failedAt[m] /\ m # cur[w]
         /\ \A m \in Msg : status[m] = "pending" => failedAt'[m] = failedAt[m]
<1> USE DEF IInv, row
<1> DEFINE m == cur[w]
<1>1. /\ m \in batch[w] /\ m \in Msg
      /\ status[m] = "claimed" /\ seen[w][m] = attempts[m]
      /\ attempts[m] \in Nat /\ attempts[m] <= Len(Schedule)
  BY DEF TypeOK, WorkerInv, ClaimsExclusive, RowInv
<1> DEFINE v == Judge(m, attempts[m])
<1>2. /\ v \in Verdict
      /\ v.retryAt = None /\ expiresAt[m] = None => attempts[m] = Len(Schedule)
      /\ v.retryAt # None =>
           /\ attempts[m] < Len(Schedule)
           /\ v.retryAt = now + Schedule[attempts[m] + 1]
           /\ expiresAt[m] # None => v.retryAt <= expiresAt[m]
  BY <1>1, JudgeSound
<1>3. /\ verdict' = [verdict EXCEPT ![w] = v]
      /\ failedAt' = [failedAt EXCEPT ![m] = now]
      /\ pc' = [pc EXCEPT ![w] = "markFailed"]
  BY <1>1 DEF recordFailure
<1> HIDE DEF v
<1>4. \A u \in Worker \ {w} : m \notin batch[u]
  BY <1>1 DEF ClaimsExclusive
<1>5. VerdictInv'
  <2> SUFFICES ASSUME NEW u \in Worker, pc'[u] = "markFailed"
               PROVE  LET k == cur'[u]
                          x == verdict'[u]
                      IN  /\ x \in Verdict
                          /\ x.retryAt = None /\ expiresAt'[k] = None => attempts'[k] = Len(Schedule)
                          /\ x.retryAt # None =>
                               /\ attempts'[k] < Len(Schedule)
                               /\ x.retryAt = failedAt'[k] + Schedule[attempts'[k] + 1]
                               /\ expiresAt'[k] # None => x.retryAt <= expiresAt'[k]
    BY DEF VerdictInv
  <2>1. CASE u = w
    BY <1>1, <1>2, <1>3, <2>1 DEF TypeOK
  <2>2. CASE u # w
    <3>1. pc[u] = "markFailed" /\ verdict'[u] = verdict[u] /\ cur[u] \in batch[u] /\ cur[u] \in Msg
      BY <1>3, <2>2 DEF TypeOK, WorkerInv
    <3>2. cur[u] # m
      BY <1>4, <2>2, <3>1
    <3> QED BY <1>3, <3>1, <3>2 DEF TypeOK, VerdictInv
  <2> QED BY <2>1, <2>2
<1>6. \A u \in Worker, k \in Msg : InHand(u, k)' =>
        InHand(u, k) /\ failedAt'[k] = failedAt[k] /\ k # m
  BY <1>1, <1>3, <1>4 DEF TypeOK, InHand
<1>7. \A k \in Msg : status[k] = "pending" => failedAt'[k] = failedAt[k]
  BY <1>1, <1>3 DEF TypeOK
<1>8. /\ verdict' \in [Worker -> Verdict \cup {None}]
      /\ failedAt' \in [Msg -> Nat]
      /\ pc' \in [Worker -> Step]
  BY <1>1, <1>2, <1>3 DEF TypeOK, Step
<1> QED BY <1>1, <1>5, <1>6, <1>7, <1>8

\* The recipient resolves, or the attempt is judged a failure.
LEMMA ResolveStep ==
  ASSUME IInv, NEW w \in Worker, Resolve(w)
  PROVE  IInv'
<1> USE DEF IInv, Resolve, row
<1>1. CASE recordFailure(w)
  <2>1. UNCHANGED <<row, daemon, now, batch, seen, cur, accepted, posts>>
    OBVIOUS
  <2>2. TypeOK'
    BY <1>1, <2>1, RecordFailureSound DEF TypeOK
  <2>3. ClaimsExclusive'
    BY <2>1 DEF ClaimsExclusive
  <2>4. WorkerInv'
    BY <1>1, <2>1 DEF TypeOK, WorkerInv, recordFailure
  <2>5. VerdictInv'
    BY <1>1, <2>1, RecordFailureSound
  <2>6. RowInv'
    BY <1>1, <2>1, RecordFailureSound DEF RowInv
  <2>7. HandInv'
    BY <1>1, <2>1, RecordFailureSound DEF HandInv
  <2> QED BY <2>2, <2>3, <2>4, <2>5, <2>6, <2>7
<1>2. CASE pc' = [pc EXCEPT ![w] = "deliver"] /\ UNCHANGED <<verdict, failedAt>>
  <2>1. TypeOK'
    BY <1>2 DEF TypeOK, Step
  <2>2. ClaimsExclusive' /\ WorkerInv'
    BY <1>2 DEF TypeOK, ClaimsExclusive, WorkerInv
  <2>3. VerdictInv' /\ RowInv'
    BY <1>2 DEF TypeOK, VerdictInv, RowInv
  <2>4. HandInv'
    BY <1>2 DEF TypeOK, HandInv, InHand
  <2> QED BY <2>1, <2>2, <2>3, <2>4
<1> QED BY <1>1, <1>2

\* The peer answers 200.
LEMMA DeliverSucceedsStep ==
  ASSUME IInv, NEW w \in Worker, DeliverSucceeds(w)
  PROVE  IInv'
<1> USE OutboxAssumption DEF IInv, DeliverSucceeds, row
<1>1. TypeOK'
  BY DEF TypeOK, Step, Status, Verdict, WorkerInv
<1>2. ClaimsExclusive'
  BY DEF TypeOK, ClaimsExclusive, WorkerInv
<1>3. WorkerInv'
  BY DEF TypeOK, Step, WorkerInv, ClaimsExclusive
<1>4. VerdictInv'
  BY DEF TypeOK, VerdictInv, ClaimsExclusive, WorkerInv
<1>5. RowInv'
  <2>1. InHand(w, cur[w])
    BY DEF TypeOK, WorkerInv, InHand
  <2>2. posts[cur[w]] <= attempts[cur[w]] /\ status[cur[w]] = "claimed"
    BY <2>1 DEF TypeOK, HandInv, InHand, ClaimsExclusive
  <2>3. posts[cur[w]] \in Nat /\ attempts[cur[w]] \in Nat /\ cur[w] \in Msg
    BY DEF TypeOK, WorkerInv
  <2>4. /\ posts'[cur[w]] = posts[cur[w]] + 1
        /\ \A k \in Msg : k # cur[w] => posts'[k] = posts[k]
        /\ UNCHANGED <<status, nextAttempt, attempts, expiresAt, failedAt>>
    BY <2>3 DEF TypeOK
  <2>5. \A k \in Msg : posts'[k] <= attempts[k] + 1
    BY <2>2, <2>4, <2>3 DEF RowInv
  <2> QED BY <2>2, <2>4, <2>5 DEF RowInv
<1>6. HandInv'
  <2>1. \A v \in Worker, k \in Msg : InHand(v, k)' => InHand(v, k) /\ posts'[k] = posts[k]
    BY DEF TypeOK, InHand, WorkerInv, ClaimsExclusive
  <2> QED BY <2>1 DEF HandInv
<1> QED BY <1>1, <1>2, <1>3, <1>4, <1>5, <1>6

\* The POST ends any other way.
LEMMA DeliverFailsStep ==
  ASSUME IInv, NEW w \in Worker, NEW fate, DeliverFails(w, fate)
  PROVE  IInv'
<1> USE DEF IInv, DeliverFails
<1>1. /\ recordFailure(w) /\ pc[w] = "deliver"
      /\ UNCHANGED <<row, daemon, now, batch, seen, cur>>
  OBVIOUS
<1>2. /\ cur[w] \in Msg /\ status[cur[w]] = "claimed"
      /\ posts[cur[w]] <= attempts[cur[w]]
  BY DEF TypeOK, WorkerInv, ClaimsExclusive, HandInv, InHand
<1>3. /\ posts' \in [Msg -> Nat]
      /\ posts'[cur[w]] <= attempts[cur[w]] + 1
      /\ \A m \in Msg \ {cur[w]} : posts'[m] = posts[m]
      /\ accepted \subseteq accepted' /\ accepted' \in SUBSET Msg
  BY <1>2 DEF TypeOK
<1>4. TypeOK'
  BY <1>1, <1>3, RecordFailureSound DEF TypeOK, row
<1>5. ClaimsExclusive'
  BY <1>1 DEF ClaimsExclusive, row
<1>6. WorkerInv'
  BY <1>1, <1>3 DEF TypeOK, WorkerInv, recordFailure
<1>7. VerdictInv'
  BY <1>1, RecordFailureSound
<1>8. RowInv'
  <2>1. ASSUME NEW m \in Msg
        PROVE  /\ posts'[m] <= attempts[m] + 1
               /\ status[m] # "claimed" => posts'[m] = posts[m]
               /\ status[m] = "pending" => failedAt'[m] = failedAt[m]
    <3>1. status[m] = "pending" => failedAt'[m] = failedAt[m]
      BY <1>1, RecordFailureSound
    <3>2. CASE m = cur[w]
      BY <1>2, <1>3, <3>1, <3>2
    <3>3. CASE m # cur[w]
      BY <1>3, <3>1, <3>3 DEF RowInv
    <3> QED BY <3>2, <3>3
  <2>2. UNCHANGED row
    OBVIOUS
  <2> QED BY <2>1, <2>2 DEF RowInv, row
<1>9. HandInv'
  BY <1>1, <1>3, RecordFailureSound DEF HandInv, row
<1> QED BY <1>4, <1>5, <1>6, <1>7, <1>8, <1>9

\* When a worker finishes with a message no one has it in hand, and what others
\* have in hand is as before.
LEMMA FinishLetsGo ==
  ASSUME IInv, NEW w \in Worker, pc[w] \in {"markDelivered", "markFailed"}, Finish(w)
  PROVE  /\ cur[w] \in Msg
         /\ status[cur[w]] = "claimed"
         /\ \A v \in Worker, k \in Msg : InHand(v, k)' => InHand(v, k) /\ k # cur[w]
<1> USE DEF IInv
<1>1. cur[w] \in batch[w] /\ cur[w] \in Msg /\ status[cur[w]] = "claimed"
  BY DEF TypeOK, WorkerInv, ClaimsExclusive
<1>2. /\ batch'[w] = batch[w] \ {cur[w]}
      /\ \A v \in Worker \ {w} : batch'[v] = batch[v] /\ cur'[v] = cur[v] /\ pc'[v] = pc[v]
  BY DEF TypeOK, Finish
<1>3. ASSUME NEW v \in Worker, NEW k \in Msg, InHand(v, k)'
      PROVE  InHand(v, k) /\ k # cur[w]
  <2>1. CASE v = w
    BY <1>2, <1>3, <2>1 DEF InHand
  <2>2. CASE v # w
    <3>1. k \in batch[v] /\ InHand(v, k)
      BY <1>2, <1>3, <2>2 DEF InHand
    <3>2. k # cur[w]
      BY <1>1, <2>2, <3>1 DEF ClaimsExclusive
    <3> QED BY <3>1, <3>2
  <2> QED BY <2>1, <2>2
<1> QED BY <1>1, <1>3

\* The outcome 'delivered' is recorded.
LEMMA MarkDeliveredStep ==
  ASSUME IInv, NEW w \in Worker, MarkDelivered(w)
  PROVE  IInv'
<1> USE OutboxAssumption DEF IInv, MarkDelivered, outside, Finish
<1>1. TypeOK'
  <2>1. cur[w] \in Msg
    BY FinishLetsGo
  <2>2. status' \in [Msg -> Status]
    BY <2>1 DEF TypeOK, Status
  <2>3. /\ pc' \in [Worker -> Step]
        /\ batch' \in [Worker -> SUBSET Msg]
        /\ seen' \in [Worker -> [Msg -> Nat]]
        /\ cur' \in [Worker -> Msg \cup {None}]
        /\ verdict' \in [Worker -> Verdict \cup {None}]
    BY <2>1 DEF TypeOK, Step
  <2> QED BY <2>2, <2>3 DEF TypeOK
<1>2. ClaimsExclusive'
  BY DEF TypeOK, ClaimsExclusive, WorkerInv
<1>3. WorkerInv'
  BY DEF TypeOK, Step, WorkerInv, ClaimsExclusive
<1>4. VerdictInv'
  <2>1. \A v \in Worker : pc'[v] = "markFailed" =>
          pc[v] = "markFailed" /\ cur'[v] = cur[v] /\ verdict'[v] = verdict[v]
    BY DEF TypeOK
  <2> QED BY <2>1 DEF VerdictInv
<1>5. RowInv'
  <2>1. cur[w] \in Msg /\ status[cur[w]] = "claimed"
    BY FinishLetsGo
  <2>2. /\ status'[cur[w]] = "delivered"
        /\ \A k \in Msg : k # cur[w] => status'[k] = status[k]
        /\ UNCHANGED <<nextAttempt, attempts, expiresAt, posts, failedAt>>
    BY <2>1 DEF TypeOK
  <2> QED BY <2>1, <2>2 DEF RowInv
<1>6. HandInv'
  <2>1. \A v \in Worker, k \in Msg : InHand(v, k)' => InHand(v, k)
    BY FinishLetsGo
  <2>2. UNCHANGED <<attempts, posts, failedAt, now>>
    OBVIOUS
  <2> QED BY <2>1, <2>2 DEF HandInv
<1> QED BY <1>1, <1>2, <1>3, <1>4, <1>5, <1>6

\* The failure is recorded and the row is retried or given up.
LEMMA MarkFailedStep ==
  ASSUME IInv, NEW w \in Worker, MarkFailed(w)
  PROVE  IInv'
<1> USE OutboxAssumption DEF IInv, MarkFailed, outside, Finish, FailedStatus
<1>1. TypeOK'
  <2>1. cur[w] \in Msg /\ verdict[w] \in Verdict
    BY DEF TypeOK, WorkerInv, VerdictInv
  <2>2. /\ FailedStatus(verdict[w].retryAt) \in Status
        /\ verdict[w].retryAt \in Nat \cup {None}
    BY <2>1 DEF Status, Verdict
  <2>3. /\ status' \in [Msg -> Status]
        /\ nextAttempt' \in [Msg -> Nat \cup {None}]
        /\ attempts' \in [Msg -> Nat]
    BY <2>1, <2>2 DEF TypeOK
  <2>4. /\ pc' \in [Worker -> Step]
        /\ batch' \in [Worker -> SUBSET Msg]
        /\ seen' \in [Worker -> [Msg -> Nat]]
        /\ cur' \in [Worker -> Msg \cup {None}]
        /\ verdict' \in [Worker -> Verdict \cup {None}]
    BY <2>1 DEF TypeOK, Step
  <2> QED BY <2>3, <2>4 DEF TypeOK
<1>2. ClaimsExclusive'
  BY DEF TypeOK, ClaimsExclusive, WorkerInv
<1>3. WorkerInv'
  BY DEF TypeOK, Step, WorkerInv, ClaimsExclusive
<1>4. VerdictInv'
  <2>1. ASSUME NEW v \in Worker, pc'[v] = "markFailed"
        PROVE  /\ v # w /\ pc[v] = "markFailed"
               /\ cur'[v] = cur[v] /\ verdict'[v] = verdict[v]
               /\ cur[v] \in Msg
    BY <2>1 DEF TypeOK, WorkerInv
  <2>2. \A v \in Worker \ {w} : pc[v] = "markFailed" => cur[v] # cur[w]
    BY DEF WorkerInv, ClaimsExclusive
  <2>3. /\ \A k \in Msg : k # cur[w] => attempts'[k] = attempts[k]
        /\ UNCHANGED <<expiresAt, failedAt>>
    BY DEF TypeOK
  <2> QED BY <2>1, <2>2, <2>3 DEF VerdictInv
<1>5. RowInv'
  <2> DEFINE m == cur[w]
  <2>1. /\ m \in Msg /\ status[m] = "claimed"
        /\ verdict[w] \in Verdict
    BY DEF TypeOK, WorkerInv, ClaimsExclusive, VerdictInv
  <2>2. /\ status'[m] = FailedStatus(verdict[w].retryAt)
        /\ nextAttempt'[m] = verdict[w].retryAt
        /\ attempts'[m] = attempts[m] + 1
        /\ UNCHANGED <<expiresAt, posts, failedAt, now>>
    BY <2>1 DEF TypeOK
  <2>3. \A k \in Msg \ {m} : /\ status'[k] = status[k]
                             /\ nextAttempt'[k] = nextAttempt[k]
                             /\ attempts'[k] = attempts[k]
    BY <2>1 DEF TypeOK
  <2>4. /\ attempts[m] \in Nat /\ posts[m] \in Nat
        /\ posts[m] <= attempts[m] + 1 /\ attempts[m] <= Len(Schedule)
    BY <2>1 DEF TypeOK, RowInv
  <2>5. ASSUME NEW k \in Msg, k # m
        PROVE  /\ UNCHANGED <<status[k], nextAttempt[k], attempts[k], expiresAt[k], posts[k], failedAt[k]>>
    BY <2>2, <2>3, <2>5
  <2>6. /\ status'[m] = "failed" /\ expiresAt[m] = None => attempts[m] = Len(Schedule)
        /\ status'[m] = "pending" =>
             /\ attempts[m] < Len(Schedule)
             /\ nextAttempt'[m] # None
             /\ nextAttempt'[m] = failedAt[m] + Schedule[attempts[m] + 1]
             /\ expiresAt[m] # None => nextAttempt'[m] <= expiresAt[m]
        /\ status'[m] \in {"failed", "pending"}
    BY <2>1, <2>2 DEF VerdictInv
  <2>7. /\ posts'[m] <= attempts'[m]
        /\ attempts'[m] <= Len(Schedule) + 1
        /\ attempts'[m] > 0
        /\ status'[m] = "pending" => attempts'[m] <= Len(Schedule)
        /\ status'[m] = "failed" /\ expiresAt'[m] = None => attempts'[m] = Len(Schedule) + 1
    BY <2>2, <2>4, <2>6, ScheduleTyped
  <2>8. posts'[m] <= attempts'[m] + 1
    BY <2>2, <2>4
  <2> HIDE DEF m
  <2>9. ASSUME NEW k \in Msg
        PROVE  /\ status'[k] = "absent" => attempts'[k] = 0 /\ posts'[k] = 0
               /\ posts'[k] <= attempts'[k] + 1
               /\ status'[k] \in {"pending", "failed"} => posts'[k] <= attempts'[k]
               /\ attempts'[k] <= Len(Schedule) + 1
               /\ status'[k] # "failed" => attempts'[k] <= Len(Schedule)
               /\ status'[k] = "failed" /\ expiresAt'[k] = None => attempts'[k] = Len(Schedule) + 1
               /\ status'[k] = "pending" =>
                    /\ nextAttempt'[k] # None
                    /\ attempts'[k] > 0 => nextAttempt'[k] = failedAt'[k] + Schedule[attempts'[k]]
                    /\ attempts'[k] > 0 /\ expiresAt'[k] # None => nextAttempt'[k] <= expiresAt'[k]
    <3>1. CASE k = m
      BY <2>2, <2>6, <2>7, <2>8, <3>1
    <3>2. CASE k # m
      BY <2>5, <3>2 DEF RowInv
    <3> QED BY <3>1, <3>2
  <2> QED BY <2>9 DEF RowInv
<1>6. HandInv'
  <2>1. \A v \in Worker, k \in Msg : InHand(v, k)' => InHand(v, k) /\ k # cur[w]
    BY FinishLetsGo
  <2>2. /\ \A k \in Msg : k # cur[w] => attempts'[k] = attempts[k]
        /\ UNCHANGED <<posts, failedAt, now>>
    BY DEF TypeOK
  <2> QED BY <2>1, <2>2 DEF HandInv
<1> QED BY <1>1, <1>2, <1>3, <1>4, <1>5, <1>6

\* The outcome could not be recorded.
LEMMA MarkErrsStep ==
  ASSUME IInv, NEW w \in Worker, MarkErrs(w)
  PROVE  IInv'
<1> USE OutboxAssumption DEF IInv, MarkErrs, row, outside, Finish
<1>1. TypeOK'
  BY DEF TypeOK, Step, Status, Verdict, WorkerInv
<1>2. ClaimsExclusive'
  BY DEF TypeOK, ClaimsExclusive, WorkerInv
<1>3. WorkerInv'
  BY DEF TypeOK, Step, WorkerInv, ClaimsExclusive
<1>4. VerdictInv'
  BY DEF TypeOK, VerdictInv, ClaimsExclusive, WorkerInv
<1>5. RowInv'
  BY DEF TypeOK, RowInv, WorkerInv, ClaimsExclusive, VerdictInv
<1>6. HandInv'
  <2>1. \A v \in Worker, k \in Msg : InHand(v, k)' => InHand(v, k)
    BY FinishLetsGo
  <2>2. UNCHANGED <<attempts, posts, failedAt, now>>
    OBVIOUS
  <2> QED BY <2>1, <2>2 DEF HandInv
<1> QED BY <1>1, <1>2, <1>3, <1>4, <1>5, <1>6

\* The process ends and every worker with it.
LEMMA ExitStep ==
  ASSUME IInv, Exit
  PROVE  IInv'
<1> USE OutboxAssumption DEF IInv, Exit, row, outside
<1>1. TypeOK'
  BY DEF TypeOK, Step, Status, Verdict, WorkerInv
<1>2. ClaimsExclusive'
  BY DEF TypeOK, ClaimsExclusive, WorkerInv
<1>3. WorkerInv'
  BY DEF TypeOK, Step, WorkerInv, ClaimsExclusive
<1>4. VerdictInv'
  BY DEF TypeOK, VerdictInv, ClaimsExclusive, WorkerInv
<1>5. RowInv'
  BY DEF TypeOK, RowInv, WorkerInv, ClaimsExclusive, VerdictInv
<1>6. HandInv'
  BY DEF TypeOK, HandInv, RowInv, InHand, WorkerInv, ClaimsExclusive
<1> QED BY <1>1, <1>2, <1>3, <1>4, <1>5, <1>6

\* Steps that touch neither a row nor a worker.
LEMMA QuietStep ==
  ASSUME IInv, Shutdown \/ Restart \/ Tick \/ UNCHANGED vars
  PROVE  IInv'
<1> USE OutboxAssumption DEF IInv, Shutdown, Restart, Tick, vars, row, worker, outside
<1>1. TypeOK'
  BY DEF TypeOK, Step, Status, Verdict, WorkerInv
<1>2. ClaimsExclusive'
  BY DEF TypeOK, ClaimsExclusive, WorkerInv
<1>3. WorkerInv'
  BY DEF TypeOK, Step, WorkerInv, ClaimsExclusive
<1>4. VerdictInv'
  BY DEF TypeOK, VerdictInv, ClaimsExclusive, WorkerInv
<1>5. RowInv'
  BY DEF TypeOK, RowInv, WorkerInv, ClaimsExclusive, VerdictInv
<1>6. HandInv'
  <2>1. \A v \in Worker, m \in Msg : InHand(v, m)' <=> InHand(v, m)
    BY DEF InHand
  <2>2. \A v \in Worker, m \in Msg : InHand(v, m) /\ attempts[m] > 0
          => failedAt[m] + Schedule[attempts[m]] \in Nat
    BY BackoffTyped DEF InHand, ClaimsExclusive
  <2>3. now' \in Nat /\ now' >= now /\ UNCHANGED <<posts, attempts, failedAt>>
    BY DEF TypeOK
  <2> QED BY <2>1, <2>2, <2>3 DEF TypeOK, HandInv
<1> QED BY <1>1, <1>2, <1>3, <1>4, <1>5, <1>6

-----------------------------------------------------------------------------
LEMMA InitEstablishes == Init => IInv
BY OutboxAssumption, ScheduleTyped
   DEF Init, WorkersAtRest, IInv, TypeOK, Status, Step, ClaimsExclusive, WorkerInv,
       VerdictInv, RowInv, HandInv, InHand

LEMMA NextPreserves == IInv /\ [Next]_vars => IInv'
<1> SUFFICES ASSUME IInv, [Next]_vars
             PROVE  IInv'
  OBVIOUS
<1>1. ASSUME NEW m \in Msg, NEW life \in Lifetimes, SendMessage(m, life)
      PROVE  IInv'
  BY <1>1, SendMessageStep
<1>2. ASSUME NEW w \in Worker, runOnce(w)
      PROVE  IInv'
  BY <1>2, ClaimPendingStep, BeginStep, ResolveStep, DeliverSucceedsStep,
     DeliverFailsStep, MarkDeliveredStep, MarkFailedStep, MarkErrsStep
     DEF runOnce, process
<1>3. CASE Exit
  BY <1>3, ExitStep
<1>4. CASE Shutdown \/ Restart \/ Tick \/ UNCHANGED vars
  BY <1>4, QuietStep
<1> QED BY <1>1, <1>2, <1>3, <1>4 DEF Next

\* The inductive invariant behind every theorem of this module.
THEOREM Invariance == Spec => []IInv
<1> QED BY InitEstablishes, NextPreserves, PTL DEF Spec

\* Every variable keeps its type.
THEOREM TypeCorrect == Spec => []TypeOK
<1>1. IInv => TypeOK
  BY DEF IInv
<1> QED BY <1>1, Invariance, PTL

\* No two claims overlap and no worker acts on a stale copy of a row, however
\* many workers share the store.
THEOREM ClaimsAreExclusive == Spec => []ClaimsExclusive
<1>1. IInv => ClaimsExclusive
  BY DEF IInv
<1> QED BY <1>1, Invariance, PTL

\* No message reaches a peer more than once per schedule entry plus one.
THEOREM PostsAreAccounted == Spec => []PostsAccounted
<1>1. IInv => PostsAccounted
  <2> SUFFICES ASSUME IInv, NEW m \in Msg
               PROVE  /\ posts[m] <= attempts[m] + 1
                      /\ posts[m] <= Len(Schedule) + 1
                      /\ status[m] \in {"pending", "failed"} => posts[m] <= attempts[m]
    BY DEF PostsAccounted
  <2>1. posts[m] \in Nat /\ attempts[m] \in Nat /\ Len(Schedule) \in Nat
    BY ScheduleTyped DEF IInv, TypeOK
  <2> QED BY <2>1 DEF IInv, RowInv
<1> QED BY <1>1, Invariance, PTL

\* A message is given up only when its schedule or its lifetime is used up.
THEOREM RetriesFit == Spec => []RetriesFitSchedule
<1>1. IInv => RetriesFitSchedule
  BY DEF IInv, RowInv, RetriesFitSchedule
<1> QED BY <1>1, Invariance, PTL

\* Only the two ends of a POST move posts, and only for the message in hand.
LEMMA PostsMove ==
  ASSUME IInv, [Next]_vars, NEW m \in Msg, posts'[m] # posts[m]
  PROVE  \E w \in Worker :
           /\ pc[w] = "deliver" /\ cur[w] = m /\ InHand(w, m)
           /\ posts'[m] = posts[m] + 1
           /\ posts' = [posts EXCEPT ![m] = @ + 1]
           /\ accepted' \in {accepted, accepted \cup {m}}
           /\ UNCHANGED row
<1>1. PICK w \in Worker : DeliverSucceeds(w) \/ \E fate : DeliverFails(w, fate)
  BY DEF Next, SendMessage, runOnce, process, ClaimPending, Begin, Resolve, MarkDelivered,
         MarkFailed, MarkErrs, Shutdown, Exit, Restart, Tick, vars, outside
<1>2. pc[w] = "deliver" /\ cur[w] \in Msg /\ InHand(w, cur[w]) /\ UNCHANGED row
  BY <1>1 DEF IInv, TypeOK, WorkerInv, InHand, DeliverSucceeds, DeliverFails
<1>3. /\ posts' = posts \/ posts' = [posts EXCEPT ![cur[w]] = @ + 1]
      /\ accepted' \in {accepted, accepted \cup {cur[w]}}
  BY <1>1 DEF DeliverSucceeds, DeliverFails
<1>4. cur[w] = m /\ posts' = [posts EXCEPT ![m] = @ + 1] /\ posts'[m] = posts[m] + 1
  BY <1>2, <1>3 DEF IInv, TypeOK
<1> QED BY <1>2, <1>3, <1>4

\* A retry never comes early.
THEOREM BackoffIsRespected == Spec => BackoffRespected
<1>1. IInv /\ [Next]_vars =>
        [\A m \in Msg : posts'[m] > posts[m] /\ attempts[m] > 0
           => now >= failedAt[m] + Schedule[attempts[m]]]_vars
  <2> SUFFICES ASSUME IInv, [Next]_vars, NEW m \in Msg, posts'[m] > posts[m], attempts[m] > 0
               PROVE  now >= failedAt[m] + Schedule[attempts[m]]
    OBVIOUS
  <2>1. posts'[m] # posts[m]
    BY DEF IInv, TypeOK
  <2>2. PICK w \in Worker : InHand(w, m)
    BY <2>1, PostsMove
  <2> QED BY <2>2 DEF IInv, HandInv
<1> QED BY <1>1, Invariance, PTL DEF Spec, BackoffRespected

-----------------------------------------------------------------------------
\* Standing does not move when status keeps every message's standing.
LEMMA StandingKept ==
  ASSUME \A m \in Msg : status'[m] = status[m]
  PROVE  Standing' = Standing
BY DEF Standing

\* A step that changes the row of m alone changes the standing of m alone.
LEMMA StandingMoved ==
  ASSUME TypeOK, NEW m \in Msg, NEW s \in Status,
         status' = [status EXCEPT ![m] = s]
  PROVE  /\ s = "pending" => Standing' = [Standing EXCEPT ![m] = "waiting"]
         /\ s \in {"delivered", "failed"} => Standing' = [Standing EXCEPT ![m] = s]
BY DEF Standing, TypeOK, Status

\* A message a worker holds is waiting, as far as its sender can tell.
LEMMA HeldIsWaiting ==
  ASSUME IInv, NEW w \in Worker,
         pc[w] \in {"resolve", "deliver", "markDelivered", "markFailed"}
  PROVE  cur[w] \in Msg /\ status[cur[w]] = "claimed" /\ Standing[cur[w]] = "waiting"
BY DEF IInv, TypeOK, WorkerInv, ClaimsExclusive, Standing

\* Each step of Outbox is one of Dispatch, or leaves everything Dispatch sees.
LEMMA StepSimulates == IInv /\ [Next]_vars => [Contract!Next]_(Contract!vars)
<1> SUFFICES ASSUME IInv, [Next]_vars
             PROVE  Contract!Next \/ UNCHANGED <<Standing, posts, accepted>>
  BY DEF Contract!vars
<1> USE DEF IInv
<1>1. ASSUME NEW m \in Msg, NEW life \in Lifetimes, SendMessage(m, life)
      PROVE  Contract!Accept(m)
  <2>1. Standing' = [Standing EXCEPT ![m] = "waiting"]
    BY <1>1, StandingMoved DEF SendMessage, Status
  <2> QED BY <1>1, <2>1 DEF SendMessage, outside, Standing, Contract!Accept
<1>2. ASSUME NEW w \in Worker, NEW S \in SUBSET Msg, ClaimPending(w, S)
      PROVE  UNCHANGED <<Standing, posts, accepted>>
  <2>1. \A m \in Msg : \/ status'[m] = status[m]
                       \/ status[m] = "pending" /\ status'[m] = "claimed"
    BY <1>2 DEF ClaimPending, Claimable, Due, Marked
  <2>2. Standing' = Standing
    BY <2>1 DEF Standing
  <2> QED BY <1>2, <2>2 DEF ClaimPending, outside
<1>3. ASSUME NEW w \in Worker, DeliverSucceeds(w) \/ \E fate : DeliverFails(w, fate)
      PROVE  Contract!Next \/ UNCHANGED <<Standing, posts, accepted>>
  <2> DEFINE m == cur[w]
  <2>1. /\ pc[w] = "deliver" /\ UNCHANGED row
        /\ \/ UNCHANGED <<posts, accepted>>
           \/ /\ posts' = [posts EXCEPT ![m] = @ + 1]
              /\ accepted' \in {accepted, accepted \cup {m}}
    BY <1>3 DEF DeliverSucceeds, DeliverFails
  <2>2. m \in Msg /\ status[m] = "claimed" /\ Standing[m] = "waiting"
    BY <2>1, HeldIsWaiting
  <2>3. posts[m] < Len(Schedule) + 1
    <3>1. InHand(w, m)
      BY <2>1, <2>2 DEF InHand, WorkerInv
    <3>2. posts[m] <= attempts[m] /\ attempts[m] <= Len(Schedule)
      BY <2>2, <3>1 DEF HandInv, RowInv
    <3> QED BY <2>2, <3>2, ScheduleTyped DEF TypeOK
  <2>4. Standing' = Standing
    BY <2>1, StandingKept DEF row
  <2>5. CASE UNCHANGED <<posts, accepted>>
    BY <2>4, <2>5
  <2>6. CASE /\ posts' = [posts EXCEPT ![m] = @ + 1]
             /\ accepted' \in {accepted, accepted \cup {m}}
    <3>1. Contract!Try(m)
      BY <2>2, <2>3, <2>4, <2>6 DEF Contract!Try
    <3> QED BY <2>2, <3>1 DEF Contract!Next
  <2> QED BY <2>1, <2>5, <2>6
<1>4. ASSUME NEW w \in Worker, MarkDelivered(w)
      PROVE  Contract!Settle(cur[w], "delivered") /\ cur[w] \in Msg
  <2>1. cur[w] \in Msg /\ Standing[cur[w]] = "waiting" /\ cur[w] \in accepted
    BY <1>4, HeldIsWaiting DEF MarkDelivered, WorkerInv
  <2>2. Standing' = [Standing EXCEPT ![cur[w]] = "delivered"]
    BY <1>4, <2>1, StandingMoved DEF MarkDelivered, Status
  <2> QED BY <1>4, <2>1, <2>2 DEF MarkDelivered, outside, Contract!Settle
<1>5. ASSUME NEW w \in Worker, MarkFailed(w)
      PROVE  Contract!Next \/ UNCHANGED <<Standing, posts, accepted>>
  <2>1. /\ pc[w] = "markFailed" /\ UNCHANGED <<posts, accepted>>
        /\ status' = [status EXCEPT ![cur[w]] = FailedStatus(verdict[w].retryAt)]
    BY <1>5 DEF MarkFailed, outside
  <2>2. cur[w] \in Msg /\ status[cur[w]] = "claimed" /\ Standing[cur[w]] = "waiting"
    BY <2>1, HeldIsWaiting
  <2>3. CASE FailedStatus(verdict[w].retryAt) = "pending"
    <3>1. Standing' = [Standing EXCEPT ![cur[w]] = "waiting"]
      BY <2>1, <2>2, <2>3, StandingMoved DEF Status
    <3>2. Standing' = Standing
      BY <2>2, <3>1 DEF Standing
    <3> QED BY <2>1, <3>2
  <2>4. CASE FailedStatus(verdict[w].retryAt) = "failed"
    <3>1. Standing' = [Standing EXCEPT ![cur[w]] = "failed"]
      BY <2>1, <2>2, <2>4, StandingMoved DEF Status
    <3>2. Contract!Settle(cur[w], "failed")
      BY <2>1, <2>2, <3>1 DEF Contract!Settle
    <3> QED BY <2>2, <3>2 DEF Contract!Next
  <2> QED BY <2>3, <2>4 DEF FailedStatus
<1>6. ASSUME UNCHANGED <<status, posts, accepted>>
      PROVE  UNCHANGED <<Standing, posts, accepted>>
  BY <1>6, StandingKept
<1>7. ASSUME NEW w \in Worker,
             \/ \E m \in Msg : Begin(w, m)
             \/ Resolve(w) \/ MarkErrs(w)
      PROVE  UNCHANGED <<status, posts, accepted>>
  BY <1>7 DEF Begin, Resolve, MarkErrs, row, outside
<1>8. ASSUME Shutdown \/ Exit \/ Restart \/ Tick \/ UNCHANGED vars
      PROVE  UNCHANGED <<status, posts, accepted>>
  BY <1>8 DEF Shutdown, Exit, Restart, Tick, vars, row, outside
<1> QED BY <1>1, <1>2, <1>3, <1>4, <1>5, <1>6, <1>7, <1>8
        DEF Next, runOnce, process, Contract!Next

\* Outbox implements Dispatch: the initial states map to its initial state and
\* every step maps to one of its steps or to none.
THEOREM Refinement == Spec => ImplementsDispatch
<1>1. Init => Contract!Init
  BY DEF Init, Standing, Contract!Init
<1> QED BY <1>1, Invariance, StepSimulates, PTL DEF Spec, ImplementsDispatch, Contract!Spec
-----------------------------------------------------------------------------
\* Only a Mark call that fails and the end of the process let go of a claim and
\* leave its row behind.
LEMMA ClaimsKept ==
  ASSUME IInv, [Next]_vars, ClaimedIsHeld, ~Exit, \A w \in Worker : ~MarkErrs(w)
  PROVE  ClaimedIsHeld'
<1> USE DEF IInv
<1>1. ASSUME UNCHANGED <<status, batch>>
      PROVE  ClaimedIsHeld'
  BY <1>1 DEF ClaimedIsHeld
<1>2. ASSUME NEW m \in Msg, NEW life \in Lifetimes, SendMessage(m, life)
      PROVE  ClaimedIsHeld'
  BY <1>2 DEF SendMessage, worker, TypeOK, ClaimedIsHeld
<1>3. ASSUME NEW w \in Worker, NEW S \in SUBSET Msg, ClaimPending(w, S)
      PROVE  ClaimedIsHeld'
  <2>1. /\ batch[w] = {} /\ batch' = [batch EXCEPT ![w] = S]
        /\ \A m \in Msg : status'[m] = IF m \in S THEN "claimed" ELSE status[m]
    BY <1>3 DEF ClaimPending, Marked, WorkerInv
  <2>2. batch'[w] = S /\ \A v \in Worker : batch[v] \subseteq batch'[v]
    BY <2>1 DEF TypeOK
  <2> QED BY <2>1, <2>2 DEF ClaimedIsHeld
<1>4. ASSUME NEW w \in Worker, MarkDelivered(w) \/ MarkFailed(w)
      PROVE  ClaimedIsHeld'
  <2>1. /\ batch' = [batch EXCEPT ![w] = @ \ {cur[w]}]
        /\ \E s \in {"delivered", "failed", "pending"} : status' = [status EXCEPT ![cur[w]] = s]
    BY <1>4 DEF MarkDelivered, MarkFailed, Finish, FailedStatus
  <2>2. \A m \in Msg : status'[m] = "claimed" => status[m] = "claimed" /\ m # cur[w]
    BY <2>1 DEF TypeOK
  <2>3. \A v \in Worker, m \in Msg : m \in batch[v] /\ m # cur[w] => m \in batch'[v]
    BY <2>1 DEF TypeOK
  <2> QED BY <2>2, <2>3 DEF ClaimedIsHeld
<1>5. ASSUME NEW w \in Worker,
             \/ \E m \in Msg : Begin(w, m)
             \/ Resolve(w) \/ DeliverSucceeds(w) \/ \E fate : DeliverFails(w, fate)
      PROVE  UNCHANGED <<status, batch>>
  BY <1>5 DEF Begin, Resolve, DeliverSucceeds, DeliverFails, row
<1>6. ASSUME Shutdown \/ Restart \/ Tick \/ UNCHANGED vars
      PROVE  UNCHANGED <<status, batch>>
  BY <1>6 DEF Shutdown, Restart, Tick, vars, row, worker
<1> QED BY <1>1, <1>2, <1>3, <1>4, <1>5, <1>6 DEF Next, runOnce, process

\* Under every fault, a row is left 'claimed' with no worker only by a Mark call
\* that fails or by the end of the process (worker.go, process; main.go, run).
THEOREM OnlyFaultsStrand ==
  Spec => [][ClaimedIsHeld /\ ~Exit /\ (\A w \in Worker : ~MarkErrs(w)) => ClaimedIsHeld']_vars
<1>1. IInv /\ [Next]_vars =>
        [ClaimedIsHeld /\ ~Exit /\ (\A w \in Worker : ~MarkErrs(w)) => ClaimedIsHeld']_vars
  BY ClaimsKept
<1> QED BY <1>1, Invariance, PTL DEF Spec

\* While the store and the process hold, a row marked 'claimed' is in the hands of a
\* worker (ClaimedIsHeld; store.go: "'claimed' is a transient in-process status").
THEOREM ClaimsAreHeld == Faults = {} => (Spec => []ClaimedIsHeld)
<1> SUFFICES ASSUME Faults = {} PROVE Spec => []ClaimedIsHeld
  OBVIOUS
<1>1. Init => ClaimedIsHeld /\ daemon = "up"
  BY DEF Init, ClaimedIsHeld
<1>2. IInv /\ ClaimedIsHeld /\ daemon = "up" /\ [Next]_vars => (ClaimedIsHeld /\ daemon = "up")'
  <2> SUFFICES ASSUME IInv, ClaimedIsHeld, daemon = "up", [Next]_vars
               PROVE  ClaimedIsHeld' /\ daemon' = "up"
    OBVIOUS
  <2>1. ~Exit /\ ~Shutdown /\ \A w \in Worker : ~MarkErrs(w)
    BY DEF Exit, Shutdown, MarkErrs
  <2>2. daemon' = "up"
    BY <2>1 DEF Next, SendMessage, runOnce, process, ClaimPending, Begin, Resolve,
      DeliverSucceeds, DeliverFails, MarkDelivered, MarkFailed, Restart, Tick, vars
  <2> QED BY <2>1, <2>2, ClaimsKept
<1> QED BY <1>1, <1>2, Invariance, PTL DEF Spec
=============================================================================
