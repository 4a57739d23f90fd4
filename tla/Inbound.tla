------------------------------ MODULE Inbound -------------------------------
(***************************************************************************)
(* The inbound half of one cdampd instance: concurrent POST /deliver       *)
(* handlers over the messages table.  Each handler is a goroutine of its   *)
(* own; the table is all they share, and each query or transaction on it   *)
(* is one step.  The table also holds the instance's own outbound rows:    *)
(* ids and idempotency keys are unique across both directions.             *)
(*                                                                         *)
(* An envelope is a record [id, key, from, to, signed]: key is None when   *)
(* it carries no idempotency_key, from is the sender's domain, to the      *)
(* local part of the recipient's address.  Bodies, subjects and threads    *)
(* ride along and decide nothing.                                          *)
(***************************************************************************)
EXTENDS Naturals

CONSTANTS
  Handler,    \* concurrent requests
  Envelope,   \* the envelopes peers may POST, each any number of times
  Malformed,  \* those that fail version or required field validation
  Outgoing,   \* envelopes of the mail local agents may submit
  Agent,      \* names registered here
  Self,       \* this instance's own domain
  Faults,     \* "store": a query may fail; "crash": the process may die
  None

ASSUME InboundAssumption ==
  /\ Malformed \subseteq Envelope
  /\ \A e \in Outgoing : e.from = Self
  /\ Faults \subseteq {"store", "crash"}
  /\ None \notin Nat

VARIABLES
  table,    \* rows of messages: an envelope's record with direction and trust
  blocked,  \* the domain blocklist
  pc,       \* each handler's position in handleDeliver and ReceiveMessage
  env,      \* the envelope it decoded
  trust,    \* the label assignTrust gave it
  reply,    \* the status code it has answered
  arrived,  \* history: whether sender was blocked and message known on arrival
  overtaken \* history: handlers whose id or key was taken since their dedupe query

vars == <<table, blocked, pc, env, trust, reply, arrived, overtaken>>

Domain == {e.from : e \in Envelope \cup Outgoing}
Trust  == {"verified", "external", "untrusted"}
Row(e, direction, label) == [envelope |-> e, direction |-> direction, trust |-> label]
Rows   == {Row(e, d, t) : e \in Envelope \cup Outgoing, d \in {"in", "out"}, t \in Trust}

TypeOK ==
  /\ table \subseteq Rows
  /\ blocked \subseteq Domain
  /\ pc \in [Handler -> {"idle", "blocklist", "dedupe", "recipient", "trust", "save", "answered"}]
  /\ env \in [Handler -> Envelope \cup {None}]
  /\ trust \in [Handler -> Trust \cup {None}]
  /\ reply \in [Handler -> {None, 200, 400, 403, 429, 500}]
  /\ arrived \in [Handler -> [blocked : BOOLEAN, known : BOOLEAN]]
  /\ overtaken \subseteq Handler

Nothing == [blocked |-> FALSE, known |-> FALSE]

Init ==
  /\ table = {}
  /\ blocked = {}
  /\ pc = [h \in Handler |-> "idle"]
  /\ env = [h \in Handler |-> None]
  /\ trust = [h \in Handler |-> None]
  /\ reply = [h \in Handler |-> None]
  /\ arrived = [h \in Handler |-> Nothing]
  /\ overtaken = {}

Answer(h, code) ==
  /\ reply' = [reply EXCEPT ![h] = code]
  /\ pc' = [pc EXCEPT ![h] = "answered"]

Goto(h, step) ==
  /\ pc' = [pc EXCEPT ![h] = step]
  /\ UNCHANGED reply

\* Dedupe: on the idempotency key when there is one, else on sender and id.
Known(e) == \E r \in table :
  IF e.key # None THEN r.envelope.key = e.key
  ELSE r.envelope.id = e.id /\ r.envelope.from = e.from

\* An instance's own mail reaches its /deliver only once it has been submitted.
Arrive(h, e) ==
  /\ pc[h] = "idle"
  /\ e.from = Self => \E r \in table : r.envelope = e /\ r.direction = "out"
  /\ env' = [env EXCEPT ![h] = e]
  /\ arrived' = [arrived EXCEPT ![h] = [blocked |-> e.from \in blocked, known |-> Known(e)]]
  /\ \/ Answer(h, 429)                  \* DomainLimiters.Allow said no
     \/ Goto(h, "blocklist")
  /\ UNCHANGED <<table, blocked, trust, overtaken>>

\* Mutant: validation alone decides.
CheckBlocklist_Skipped(h) ==
  /\ pc[h] = "blocklist"
  /\ IF env[h] \in Malformed THEN Answer(h, 400) ELSE Goto(h, "dedupe")
  /\ UNCHANGED <<table, blocked, env, trust, arrived, overtaken>>

CheckBlocklist(h) ==
  /\ pc[h] = "blocklist"
  /\ IF env[h].from \in blocked THEN Answer(h, 403)
     ELSE IF env[h] \in Malformed THEN Answer(h, 400)
     ELSE Goto(h, "dedupe")
  /\ UNCHANGED <<table, blocked, env, trust, arrived, overtaken>>

\* Mutant: dedupe on sender and id alone, whatever key came along.
Dedupe_IdOnly(h) ==
  /\ pc[h] = "dedupe"
  /\ IF \E r \in table : r.envelope.id = env[h].id /\ r.envelope.from = env[h].from
     THEN Answer(h, 200) ELSE Goto(h, "recipient")
  /\ UNCHANGED <<table, blocked, env, trust, arrived, overtaken>>

Dedupe(h) ==
  /\ pc[h] = "dedupe"
  /\ IF Known(env[h]) THEN Answer(h, 200) ELSE Goto(h, "recipient")
  /\ UNCHANGED <<table, blocked, env, trust, arrived, overtaken>>

FindRecipient(h) ==
  /\ pc[h] = "recipient"
  /\ IF env[h].to \in Agent THEN Goto(h, "trust") ELSE Answer(h, 400)
  /\ UNCHANGED <<table, blocked, env, trust, arrived, overtaken>>

\* Mutant: unsigned mail is left without a label.
AssignTrust_Unlabelled(h) ==
  /\ pc[h] = "trust"
  /\ trust' = [trust EXCEPT ![h] = IF env[h].signed THEN "untrusted" ELSE None]
  /\ Goto(h, "save")
  /\ UNCHANGED <<table, blocked, env, arrived, overtaken>>

\* Any outcome of the directory lookups and the two verifications; no outcome
\* turns the message away.
AssignTrust(h) ==
  /\ pc[h] = "trust"
  /\ \E label \in (IF env[h].signed THEN {"verified", "untrusted"} ELSE {"external"}) :
       trust' = [trust EXCEPT ![h] = label]
  /\ Goto(h, "save")
  /\ UNCHANGED <<table, blocked, env, arrived, overtaken>>

\* Mutant: the index does not skip the rows with no key.
Clash_NoneIsKey(e, f) == e.id = f.id \/ e.key = f.key

\* Two messages the table cannot hold both: the primary key is the id, and the
\* unique index on idempotency_key skips rows with none.
Clash(e, f) == e.id = f.id \/ (e.key # None /\ e.key = f.key)

Violates(e) == \E r \in table : Clash(e, r.envelope)

\* Past its dedupe query and not yet at its insert.
Between == {h \in Handler : pc[h] \in {"recipient", "trust", "save"}}

Insert(e, direction, label) ==
  /\ table' = table \cup {Row(e, direction, label)}
  /\ overtaken' = overtaken \cup {g \in Between' : Clash(env[g], e)}

\* Mutant: any constraint the insert trips over is taken for a duplicate.
SaveMessage_ConflictIsNoop(h) ==
  /\ pc[h] = "save"
  /\ Answer(h, 200)
  /\ IF Violates(env[h]) THEN UNCHANGED <<table, overtaken>>
                         ELSE Insert(env[h], "in", trust[h])
  /\ UNCHANGED <<blocked, env, trust, arrived>>

SaveMessage(h) ==
  /\ pc[h] = "save"
  /\ IF Violates(env[h])
     THEN Answer(h, 500) /\ UNCHANGED <<table, overtaken>>
     ELSE Answer(h, 200) /\ Insert(env[h], "in", trust[h])
  /\ UNCHANGED <<blocked, env, trust, arrived>>

\* A query fails, for instance because the client has gone and its request
\* context with it.
StoreErrs(h) ==
  /\ "store" \in Faults
  /\ pc[h] \in {"blocklist", "dedupe", "recipient", "save"}
  /\ Answer(h, 500)
  /\ UNCHANGED <<table, blocked, env, trust, arrived, overtaken>>

\* The response is on the wire; the goroutine is gone.
Return(h) ==
  /\ pc[h] = "answered"
  /\ pc' = [pc EXCEPT ![h] = "idle"]
  /\ env' = [env EXCEPT ![h] = None]
  /\ trust' = [trust EXCEPT ![h] = None]
  /\ reply' = [reply EXCEPT ![h] = None]
  /\ arrived' = [arrived EXCEPT ![h] = Nothing]
  /\ overtaken' = overtaken \ {h}
  /\ UNCHANGED <<table, blocked>>

\* POST /send, as far as the shared table can tell.
SendMessage(e) ==
  /\ ~Violates(e)
  /\ UNCHANGED <<blocked, pc, env, trust, reply, arrived>>
  /\ Insert(e, "out", "verified")

CreateBlocklistEntry(d) ==
  /\ blocked' = blocked \cup {d}
  /\ UNCHANGED <<table, pc, env, trust, reply, arrived, overtaken>>

\* The process dies and is started again on the same table.
Crash ==
  /\ "crash" \in Faults
  /\ pc' = [h \in Handler |-> "idle"]
  /\ env' = [h \in Handler |-> None]
  /\ trust' = [h \in Handler |-> None]
  /\ reply' = [h \in Handler |-> None]
  /\ arrived' = [h \in Handler |-> Nothing]
  /\ overtaken' = {}
  /\ UNCHANGED <<table, blocked>>

handleDeliver(h) ==
  \/ \E e \in Envelope : Arrive(h, e)
  \/ CheckBlocklist(h)
  \/ Dedupe(h)
  \/ FindRecipient(h)
  \/ AssignTrust(h)
  \/ SaveMessage(h)
  \/ StoreErrs(h)
  \/ Return(h)

Next ==
  \/ \E h \in Handler : handleDeliver(h)
  \/ \E e \in Outgoing : SendMessage(e)
  \/ \E d \in Domain : CreateBlocklistEntry(d)
  \/ Crash

Spec == Init /\ [][Next]_vars

-----------------------------------------------------------------------------
(* Safety *)

\* Mail another message stands in the way of for ever: ids are unique across
\* senders, though mail is known by its key or by sender and id.
IdTaken(e) == \E r \in table :
  /\ r.envelope.id = e.id
  /\ IF e.key # None THEN r.envelope.key # e.key ELSE r.envelope.from # e.from

\* A delivery that found no duplicate is answered 500 by its insert only if it
\* was overtaken since, by a copy of itself or a message with its key, so that
\* its retry finds it known; or if its id belongs to a different message.
ConflictsAreRaces ==
  [][\A h \in Handler : SaveMessage(h) /\ reply'[h] = 500 =>
       \/ h \in overtaken /\ Known(env[h])
       \/ IdTaken(env[h])]_vars

\* A 200 is only ever given for a message the table knows, by its key or, when
\* it has none, by its sender's domain and id.
AcceptedIsKnown ==
  \A h \in Handler : reply[h] = 200 => Known(env[h])

\* A redelivery that arrives after the first copy was stored never reaches the
\* recipient lookup, the directory or the insert.
RedeliveryIsNoop ==
  \A h \in Handler : arrived[h].known =>
    pc[h] \notin {"recipient", "trust", "save"}

\* The inbox holds mail for registered agents only, labelled 'external' exactly
\* when it came unsigned; and whoever was blocked when a request arrived gets
\* nothing stored or accepted by it, though the entry is read only later.
InboxIsSound ==
  /\ \A r \in table : r.direction = "in" =>
       /\ r.envelope.to \in Agent
       /\ r.envelope \notin Malformed
       /\ r.trust = "external" <=> ~r.envelope.signed
  /\ \A h \in Handler : arrived[h].blocked =>
       /\ pc[h] \notin {"dedupe", "recipient", "trust", "save"}
       /\ reply[h] # 200

\* An accepted message is in its recipient's inbox (README.md, "Verification":
\* "The message is stored and tagged in every case").
StoredInEveryCase ==
  \A h \in Handler : reply[h] = 200 =>
    \E r \in table : r.direction = "in" /\ r.envelope = env[h]
=============================================================================
