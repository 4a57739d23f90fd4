------------------------------- MODULE Outbox -------------------------------
(***************************************************************************)
(* The outbound half of one cdampd instance: agents submit mail through    *)
(* SendMessage, rows wait in the messages table, and delivery workers      *)
(* claim due rows, POST them to the recipient's instance and record the    *)
(* outcome.  Rows survive the process; what a worker holds does not.       *)
(*                                                                         *)
(* A unit of time is one second: the store truncates every timestamp it    *)
(* writes and compares to Unix seconds.  Thread ids, idempotency keys and  *)
(* the text of a message play no part in the life of a row here.           *)
(***************************************************************************)
EXTENDS Integers, FiniteSets, Sequences

CONSTANTS
  Msg,         \* ids newMessageID may assign
  Worker,      \* delivery workers sharing the store (run() starts one)
  Schedule,    \* retry_schedule: seconds to wait after each failure
  Lifetimes,   \* seconds until expires_at, or None for no expires_at
  ClaimLimit,  \* claimLimit: rows one tick may claim
  Faults,      \* which faults this instance may suffer
  MaxTime,     \* bound: the clock runs freely up to here (see Tick)
  None         \* a nil pointer, a NULL column

ASSUME OutboxAssumption ==
  /\ IsFiniteSet(Msg)
  /\ Schedule \in Seq(Nat)
  /\ Lifetimes \subseteq Nat \cup {None}
  /\ ClaimLimit \in Nat \ {0}
  /\ Faults \subseteq {"store", "shutdown", "crash"}
  /\ MaxTime \in Nat
  /\ None \notin Nat
  /\ None \notin Msg

VARIABLES
  \* the columns of an outbound row of the messages table
  status, sentAt, expiresAt, nextAttempt, attempts,
  \* the process and its clock
  daemon, now,
  \* each worker: where it is in runOnce and process, the claimed messages it
  \* has yet to finish, the Attempts each had when claimed, the one in
  \* process(), and the MarkFailed arguments recordFailure has decided on
  pc, batch, seen, cur, verdict,
  \* the recipients' instances, and history: POSTs that reached one, and the
  \* time of the last recordFailure
  accepted, posts, failedAt

row     == <<status, sentAt, expiresAt, nextAttempt, attempts>>
worker  == <<pc, batch, seen, cur, verdict>>
outside == <<accepted, posts, failedAt>>
vars    == <<row, daemon, now, worker, outside>>

Status  == {"absent", "pending", "claimed", "delivered", "failed"}
Step    == {"idle", "next", "resolve", "deliver", "markDelivered", "markFailed"}
Verdict == [retryAt : Nat \cup {None}, reason : {"expired", "error"}]

TypeOK ==
  /\ status \in [Msg -> Status]
  /\ sentAt \in [Msg -> Nat]
  /\ expiresAt \in [Msg -> Nat \cup {None}]
  /\ nextAttempt \in [Msg -> Nat \cup {None}]
  /\ attempts \in [Msg -> Nat]
  /\ daemon \in {"up", "draining", "down"}
  /\ now \in Nat
  /\ pc \in [Worker -> Step]
  /\ batch \in [Worker -> SUBSET Msg]
  /\ seen \in [Worker -> [Msg -> Nat]]
  /\ cur \in [Worker -> Msg \cup {None}]
  /\ verdict \in [Worker -> Verdict \cup {None}]
  /\ accepted \in SUBSET Msg
  /\ posts \in [Msg -> Nat]
  /\ failedAt \in [Msg -> Nat]

WorkersAtRest ==
  /\ pc = [w \in Worker |-> "idle"]
  /\ batch = [w \in Worker |-> {}]
  /\ seen = [w \in Worker |-> [m \in Msg |-> 0]]
  /\ cur = [w \in Worker |-> None]
  /\ verdict = [w \in Worker |-> None]

Init ==
  /\ status = [m \in Msg |-> "absent"]
  /\ sentAt = [m \in Msg |-> 0]
  /\ expiresAt = [m \in Msg |-> None]
  /\ nextAttempt = [m \in Msg |-> None]
  /\ attempts = [m \in Msg |-> 0]
  /\ daemon = "up"
  /\ now = 0
  /\ WorkersAtRest
  /\ accepted = {}
  /\ posts = [m \in Msg |-> 0]
  /\ failedAt = [m \in Msg |-> 0]

(***************************************************************************)
(* POST /send.  A request that fails validation or whose insert fails      *)
(* changes nothing.  A row is due at once.  SendMessage itself leaves      *)
(* expires_at NULL; the worker honours whatever the column holds.          *)
(***************************************************************************)
SendMessage(m, life) ==
  /\ daemon # "down"
  /\ status[m] = "absent"
  /\ status' = [status EXCEPT ![m] = "pending"]
  /\ sentAt' = [sentAt EXCEPT ![m] = now]
  /\ expiresAt' = [expiresAt EXCEPT ![m] = IF life = None THEN None ELSE now + life]
  /\ nextAttempt' = [nextAttempt EXCEPT ![m] = now]
  /\ UNCHANGED <<attempts, daemon, now, worker, outside>>

\* Mutant: a claim that forgets next_attempt.
Due_Always(m) == status[m] = "pending"

Due(m) ==
  /\ status[m] = "pending"
  /\ nextAttempt[m] = None \/ nextAttempt[m] <= now

\* The rows ORDER BY sent_at LIMIT may return: as many as are due, oldest
\* first, ties broken arbitrarily.
Claimable(S) ==
  LET due == {m \in Msg : Due(m)}
  IN  /\ S \subseteq due
      /\ Cardinality(S) <= ClaimLimit
      /\ S = due \/ Cardinality(S) = ClaimLimit
      /\ \A m \in S, k \in due \ S : sentAt[m] <= sentAt[k]

\* Mutant: a claim that selects the due rows and marks none.
Marked_None(S) == status

Marked(S) == [m \in Msg |-> IF m \in S THEN "claimed" ELSE status[m]]

\* One immediate transaction: select the due rows, mark them, read them back.
ClaimPending(w, S) ==
  /\ daemon = "up"
  /\ pc[w] = "idle"
  /\ S # {}
  /\ Claimable(S)
  /\ status' = Marked(S)
  /\ batch' = [batch EXCEPT ![w] = S]
  /\ seen' = [seen EXCEPT ![w] = [m \in Msg |-> IF m \in S THEN attempts[m] ELSE 0]]
  /\ pc' = [pc EXCEPT ![w] = "next"]
  /\ UNCHANGED <<sentAt, expiresAt, nextAttempt, attempts, daemon, now, cur,
                 verdict, outside>>

Expired(m) == expiresAt[m] # None /\ expiresAt[m] <= now

\* runOnce takes the batch in sent_at order; process() drops an expired
\* message before it looks for the recipient.
Begin(w, m) ==
  /\ pc[w] = "next"
  /\ m \in batch[w]
  /\ \A k \in batch[w] : sentAt[m] <= sentAt[k]
  /\ cur' = [cur EXCEPT ![w] = m]
  /\ IF Expired(m)
     THEN /\ pc' = [pc EXCEPT ![w] = "markFailed"]
          /\ verdict' = [verdict EXCEPT ![w] = [retryAt |-> None, reason |-> "expired"]]
     ELSE /\ pc' = [pc EXCEPT ![w] = "resolve"]
          /\ UNCHANGED verdict
  /\ UNCHANGED <<row, daemon, now, batch, seen, outside>>

\* Mutant: a retry scheduled without looking at expires_at.
Judge_NoExpiry(m, n) ==
  IF n < Len(Schedule)
  THEN [retryAt |-> now + Schedule[n + 1], reason |-> "error"]
  ELSE [retryAt |-> None, reason |-> "error"]

\* What recordFailure asks of MarkFailed when m, claimed with n attempts
\* behind it, has failed once more.
Judge(m, n) ==
  IF n < Len(Schedule)
  THEN LET candidate == now + Schedule[n + 1]
       IN  IF expiresAt[m] # None /\ candidate > expiresAt[m]
           THEN [retryAt |-> None, reason |-> "expired"]
           ELSE [retryAt |-> candidate, reason |-> "error"]
  ELSE [retryAt |-> None, reason |-> "error"]

recordFailure(w) ==
  /\ verdict' = [verdict EXCEPT ![w] = Judge(cur[w], seen[w][cur[w]])]
  /\ failedAt' = [failedAt EXCEPT ![cur[w]] = now]
  /\ pc' = [pc EXCEPT ![w] = "markFailed"]

Resolve(w) ==
  /\ pc[w] = "resolve"
  /\ \/ /\ pc' = [pc EXCEPT ![w] = "deliver"]
        /\ UNCHANGED <<verdict, failedAt>>
     \/ recordFailure(w)
  /\ UNCHANGED <<row, daemon, now, batch, seen, cur, accepted, posts>>

\* The POST came back 200, which takes a live request context.
DeliverSucceeds(w) ==
  /\ pc[w] = "deliver"
  /\ daemon = "up"
  /\ pc' = [pc EXCEPT ![w] = "markDelivered"]
  /\ posts' = [posts EXCEPT ![cur[w]] = @ + 1]
  /\ accepted' = accepted \cup {cur[w]}
  /\ UNCHANGED <<row, daemon, now, batch, seen, cur, verdict, failedAt>>

\* Mutant: any answer from the peer counts as delivery.
DeliverFails_AnyAnswer(w, fate) ==
  /\ pc[w] = "deliver"
  /\ posts' = IF fate = "unsent" THEN posts ELSE [posts EXCEPT ![cur[w]] = @ + 1]
  /\ accepted' = IF fate = "taken" THEN accepted \cup {cur[w]} ELSE accepted
  /\ IF fate = "unsent"
     THEN recordFailure(w)
     ELSE pc' = [pc EXCEPT ![w] = "markDelivered"] /\ UNCHANGED <<verdict, failedAt>>
  /\ UNCHANGED <<row, daemon, now, batch, seen, cur>>

\* Any other end of the POST: never sent, refused by the peer, or taken by
\* the peer with the answer lost, late or cancelled.
DeliverFails(w, fate) ==
  /\ pc[w] = "deliver"
  /\ posts' = IF fate = "unsent" THEN posts ELSE [posts EXCEPT ![cur[w]] = @ + 1]
  /\ accepted' = IF fate = "taken" THEN accepted \cup {cur[w]} ELSE accepted
  /\ recordFailure(w)
  /\ UNCHANGED <<row, daemon, now, batch, seen, cur>>

\* Mutant: runOnce returns after the first message of its batch.
Finish_DropsBatch(w) ==
  /\ batch' = [batch EXCEPT ![w] = {}]
  /\ seen' = [seen EXCEPT ![w] = [m \in Msg |-> 0]]
  /\ cur' = [cur EXCEPT ![w] = None]
  /\ verdict' = [verdict EXCEPT ![w] = None]
  /\ pc' = [pc EXCEPT ![w] = "idle"]

\* process() returns and runOnce goes on with what is left of its batch.
Finish(w) ==
  /\ batch' = [batch EXCEPT ![w] = @ \ {cur[w]}]
  /\ seen' = [seen EXCEPT ![w][cur[w]] = 0]
  /\ cur' = [cur EXCEPT ![w] = None]
  /\ verdict' = [verdict EXCEPT ![w] = None]
  /\ pc' = [pc EXCEPT ![w] = IF batch[w] = {cur[w]} THEN "idle" ELSE "next"]

\* Mutant: a status the schema does not know; no CHECK guards the column.
MarkDelivered_Sent(w) ==
  /\ pc[w] = "markDelivered"
  /\ daemon = "up"
  /\ status' = [status EXCEPT ![cur[w]] = "sent"]
  /\ Finish(w)
  /\ UNCHANGED <<sentAt, expiresAt, nextAttempt, attempts, daemon, now, outside>>

MarkDelivered(w) ==
  /\ pc[w] = "markDelivered"
  /\ daemon = "up"
  /\ status' = [status EXCEPT ![cur[w]] = "delivered"]
  /\ Finish(w)
  /\ UNCHANGED <<sentAt, expiresAt, nextAttempt, attempts, daemon, now, outside>>

\* Mutant: a scheduled retry leaves the row 'claimed'.
FailedStatus_StaysClaimed(retryAt) == IF retryAt = None THEN "failed" ELSE "claimed"

\* Going back to 'pending' is the only way a row is ever claimed again.
FailedStatus(retryAt) == IF retryAt = None THEN "failed" ELSE "pending"

MarkFailed(w) ==
  /\ pc[w] = "markFailed"
  /\ daemon = "up"
  /\ status' = [status EXCEPT ![cur[w]] = FailedStatus(verdict[w].retryAt)]
  /\ nextAttempt' = [nextAttempt EXCEPT ![cur[w]] = verdict[w].retryAt]
  /\ attempts' = [attempts EXCEPT ![cur[w]] = @ + 1]
  /\ Finish(w)
  /\ UNCHANGED <<sentAt, expiresAt, daemon, now, outside>>

\* Either Mark call returns an error, as it must once the context is
\* cancelled: process() logs it and moves on, and the row stays as it was.
MarkErrs(w) ==
  /\ pc[w] \in {"markDelivered", "markFailed"}
  /\ daemon = "draining" \/ "store" \in Faults
  /\ Finish(w)
  /\ UNCHANGED <<row, daemon, now, outside>>

\* SIGTERM cancels the workers' context; run() drains the HTTP servers, not
\* the workers, and closes the store.
Shutdown ==
  /\ "shutdown" \in Faults
  /\ daemon = "up"
  /\ daemon' = "draining"
  /\ UNCHANGED <<row, now, worker, outside>>

Exit ==
  /\ \/ daemon = "draining"
     \/ daemon = "up" /\ "crash" \in Faults
  /\ daemon' = "down"
  /\ pc' = [w \in Worker |-> "idle"]
  /\ batch' = [w \in Worker |-> {}]
  /\ seen' = [w \in Worker |-> [m \in Msg |-> 0]]
  /\ cur' = [w \in Worker |-> None]
  /\ verdict' = [w \in Worker |-> None]
  /\ UNCHANGED <<row, now, outside>>

\* Mutant: start-up puts every claimed row back to 'pending'.
Restart_Requeues ==
  /\ daemon = "down"
  /\ daemon' = "up"
  /\ status' = [m \in Msg |-> IF status[m] = "claimed" THEN "pending" ELSE status[m]]
  /\ UNCHANGED <<sentAt, expiresAt, nextAttempt, attempts, now, worker, outside>>

\* Opening the store again changes no row.
Restart ==
  /\ daemon = "down"
  /\ daemon' = "up"
  /\ UNCHANGED <<row, now, worker, outside>>

\* Bound: past MaxTime the clock moves only while a retry waits for it, so
\* no retry is ever cut off by the bound.
Tick ==
  /\ \/ now < MaxTime
     \/ \E m \in Msg : status[m] = "pending" /\ ~Due(m)
  /\ now' = now + 1
  /\ UNCHANGED <<row, daemon, worker, outside>>

process(w) ==
  \/ \E m \in Msg : Begin(w, m)
  \/ Resolve(w)
  \/ DeliverSucceeds(w)
  \/ \E fate \in {"unsent", "refused", "taken"} : DeliverFails(w, fate)
  \/ MarkDelivered(w)
  \/ MarkFailed(w)
  \/ MarkErrs(w)

runOnce(w) ==
  \/ \E S \in SUBSET Msg : ClaimPending(w, S)
  \/ process(w)

Next ==
  \/ \E m \in Msg, life \in Lifetimes : SendMessage(m, life)
  \/ \E w \in Worker : runOnce(w)
  \/ Shutdown
  \/ Exit
  \/ Restart
  \/ Tick

Spec == Init /\ [][Next]_vars

\* Each worker's goroutine keeps running its loop, time passes, and whoever
\* runs the daemon starts it again.  Faults and submissions need not happen.
FairSpec ==
  /\ Spec
  /\ \A w \in Worker : WF_vars(runOnce(w))
  /\ WF_vars(Tick)
  /\ WF_vars(Restart)

-----------------------------------------------------------------------------
(* Safety *)

\* Two claims never overlap, and what a worker holds is what the row says: the
\* row is still 'claimed' and has the Attempts the worker read when it claimed.
\* recordFailure indexes the schedule with that copy, never with the row.
ClaimsExclusive ==
  \A w \in Worker : \A m \in batch[w] :
    /\ status[m] = "claimed"
    /\ seen[w][m] = attempts[m]
    /\ \A v \in Worker \ {w} : m \notin batch[v]

\* Every POST that reached a peer is paid for by a recorded failure, save at
\* most the last one: so no message reaches a peer more than once per schedule
\* entry plus one, whatever is lost, cancelled, crashed or restarted.
PostsAccounted ==
  \A m \in Msg :
    /\ posts[m] <= attempts[m] + 1
    /\ posts[m] <= Len(Schedule) + 1
    /\ status[m] \in {"pending", "failed"} => posts[m] <= attempts[m]

\* A message is given up only after the first try and one per schedule entry,
\* unless it has an expiry; one that still waits always has a schedule entry
\* left, and its retry is due no later than its expiry.
RetriesFitSchedule ==
  \A m \in Msg :
    /\ attempts[m] <= Len(Schedule) + 1
    /\ status[m] = "failed" /\ expiresAt[m] = None => attempts[m] = Len(Schedule) + 1
    /\ status[m] \in {"pending", "claimed"} => attempts[m] <= Len(Schedule)
    /\ status[m] = "pending" /\ attempts[m] > 0 /\ expiresAt[m] # None
         => nextAttempt[m] <= expiresAt[m]

\* A message that has failed n times is not POSTed again before the n-th entry
\* of the schedule has passed since its last failure.
BackoffRespected ==
  [][\A m \in Msg : posts'[m] > posts[m] /\ attempts[m] > 0
       => now >= failedAt[m] + Schedule[attempts[m]]]_vars

\* A row marked 'claimed' is in the hands of a worker that will resolve it
\* (store.go: "'claimed' is a transient in-process status").
ClaimedIsHeld ==
  \A m \in Msg : status[m] = "claimed" => \E w \in Worker : m \in batch[w]

\* Outbox implements Dispatch: a row in a terminal status never leaves it and
\* its message is never POSTed again, though MarkDelivered and MarkFailed carry
\* no guard on the status they find; 'delivered' is never a guess, the peer
\* answered for it; and only a waiting message reaches a peer, a bounded number
\* of times, across every loss, cancellation, crash and restart.
Standing == [m \in Msg |->
  CASE status[m] = "absent" -> "new"
    [] status[m] \in {"pending", "claimed"} -> "waiting"
    [] OTHER -> status[m]]

Contract == INSTANCE Dispatch WITH
  Tries <- Len(Schedule) + 1, state <- Standing, tried <- posts, taken <- accepted

ImplementsDispatch == Contract!Spec

(* Liveness *)

\* Every message /send accepted ends delivered or visibly failed.
EventuallySettled ==
  \A m \in Msg : status[m] # "absent" ~> status[m] \in {"delivered", "failed"}
=============================================================================
