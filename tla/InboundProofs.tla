--------------------------- MODULE InboundProofs ---------------------------
(***************************************************************************)
(* Proofs that the safety properties of Inbound hold for any number of     *)
(* concurrent deliveries, any envelopes, any agents and any faults.        *)
(***************************************************************************)
EXTENDS Inbound, TLAPS

\* What pc says about the rest of a handler's state.
HandlerInv ==
  \A h \in Handler :
    /\ pc[h] # "idle" => env[h] \in Envelope
    /\ reply[h] # None <=> pc[h] = "answered"
    /\ pc[h] = "save" =>
         trust[h] \in Trust /\ (trust[h] = "external" <=> ~env[h].signed)

\* The checks a handler has passed by the time it is past them.
PassedInv ==
  \A h \in Handler :
    /\ pc[h] \in {"dedupe", "recipient", "trust", "save"} => env[h] \notin Malformed
    /\ pc[h] \in {"trust", "save"} => env[h].to \in Agent

\* What was true when a request arrived is still true: no row and no blocklist
\* entry ever goes away.
ArrivalInv ==
  \A h \in Handler :
    /\ arrived[h].blocked => pc[h] # "idle" /\ env[h].from \in blocked
    /\ arrived[h].known => pc[h] # "idle" /\ Known(env[h])

IInv ==
  /\ TypeOK /\ HandlerInv /\ PassedInv /\ ArrivalInv
  /\ AcceptedIsKnown /\ RedeliveryIsNoop /\ InboxIsSound

\* A delivery past its dedupe query whose message is known by now was overtaken.
DedupeInv ==
  \A h \in Between : Known(env[h]) => h \in overtaken

-----------------------------------------------------------------------------
\* A row once stored is never taken for unknown again.
LEMMA KnownForever ==
  ASSUME table \subseteq table', NEW e, Known(e)
  PROVE  Known(e)'
BY DEF Known

\* Dedupe looks at less than the unique constraints do: a row it stored itself
\* makes an envelope known.
LEMMA StoredIsKnown ==
  ASSUME NEW e, NEW r \in table', r.envelope = e
  PROVE  Known(e)'
BY DEF Known

\* A row an envelope trips over makes it known, unless it is another message's.
LEMMA ViolatesOrTaken ==
  ASSUME NEW e, Violates(e)
  PROVE  Known(e) \/ IdTaken(e)
BY DEF Violates, Clash, Known, IdTaken

LEMMA Initially == Init => IInv
<1> SUFFICES ASSUME Init PROVE IInv
  OBVIOUS
<1>1. TypeOK
  BY DEF Init, TypeOK, Nothing
<1>2. HandlerInv /\ PassedInv /\ ArrivalInv
  BY DEF Init, HandlerInv, PassedInv, ArrivalInv, Nothing
<1>3. AcceptedIsKnown /\ RedeliveryIsNoop /\ InboxIsSound
  BY InboundAssumption DEF Init, AcceptedIsKnown, RedeliveryIsNoop, InboxIsSound, Nothing
<1> QED BY <1>1, <1>2, <1>3 DEF IInv

-----------------------------------------------------------------------------
\* One handler moves to another step and answers nothing: all that is left to
\* show is what that step needs.
LEMMA MoveKeeps ==
  ASSUME IInv, NEW h \in Handler, NEW step \in {"dedupe", "recipient", "trust"},
         pc[h] \in {"blocklist", "dedupe", "recipient"},
         pc' = [pc EXCEPT ![h] = step],
         UNCHANGED <<table, blocked, env, trust, reply, arrived, overtaken>>,
         env[h] \notin Malformed,
         step = "dedupe" => ~arrived[h].blocked,
         step \in {"recipient", "trust"} => ~arrived[h].known,
         step \in {"recipient", "trust"} => ~arrived[h].blocked,
         step = "trust" => env[h].to \in Agent
  PROVE  IInv'
<1> USE DEF IInv
<1>1. TypeOK' /\ HandlerInv' /\ PassedInv'
  BY DEF TypeOK, HandlerInv, PassedInv
<1>2. ArrivalInv'
  BY DEF TypeOK, ArrivalInv, Known
<1>3. AcceptedIsKnown'
  BY DEF AcceptedIsKnown, Known
<1>4. RedeliveryIsNoop' /\ InboxIsSound'
  BY DEF TypeOK, RedeliveryIsNoop, InboxIsSound
<1> QED BY <1>1, <1>2, <1>3, <1>4

\* One handler answers without storing anything: a 200 only for what is known
\* and never to a sender blocked on arrival.
LEMMA AnswerKeeps ==
  ASSUME IInv, NEW h \in Handler, NEW code \in {200, 400, 403, 429, 500},
         pc[h] \in {"blocklist", "dedupe", "recipient", "save"},
         Answer(h, code), UNCHANGED <<table, blocked, env, trust, arrived, overtaken>>,
         code = 200 => Known(env[h]) /\ ~arrived[h].blocked
  PROVE  IInv'
<1> USE InboundAssumption DEF IInv
<1>0. pc' = [pc EXCEPT ![h] = "answered"] /\ reply' = [reply EXCEPT ![h] = code]
  BY DEF Answer
<1>1. TypeOK' /\ HandlerInv' /\ PassedInv'
  BY <1>0 DEF TypeOK, HandlerInv, PassedInv
<1>2. ArrivalInv'
  BY <1>0 DEF TypeOK, ArrivalInv, Known
<1>3. AcceptedIsKnown'
  BY <1>0 DEF TypeOK, AcceptedIsKnown, Known
<1>4. RedeliveryIsNoop' /\ InboxIsSound'
  BY <1>0 DEF TypeOK, RedeliveryIsNoop, InboxIsSound
<1> QED BY <1>1, <1>2, <1>3, <1>4

LEMMA ArriveKeeps ==
  ASSUME IInv, NEW h \in Handler, NEW e \in Envelope, Arrive(h, e)
  PROVE  IInv'
<1> USE InboundAssumption DEF IInv
<1> DEFINE flags == [blocked |-> e.from \in blocked, known |-> Known(e)]
<1>0. /\ pc[h] = "idle" /\ env' = [env EXCEPT ![h] = e]
      /\ arrived' = [arrived EXCEPT ![h] = flags]
      /\ UNCHANGED <<table, blocked, trust, overtaken>>
  BY DEF Arrive
<1>1. \/ pc' = [pc EXCEPT ![h] = "answered"] /\ reply' = [reply EXCEPT ![h] = 429]
      \/ pc' = [pc EXCEPT ![h] = "blocklist"] /\ reply' = reply
  BY DEF Arrive, Answer, Goto
<1>2. flags \in [blocked : BOOLEAN, known : BOOLEAN]
  BY DEF Known
<1> HIDE DEF flags
<1>3. TypeOK'
  <2>1. arrived' \in [Handler -> [blocked : BOOLEAN, known : BOOLEAN]]
    BY <1>0, <1>2 DEF TypeOK
  <2>2. /\ table' \subseteq Rows /\ blocked' \subseteq Domain
        /\ env' \in [Handler -> Envelope \cup {None}] /\ trust' \in [Handler -> Trust \cup {None}]
    BY <1>0 DEF TypeOK
  <2>3. pc' \in [Handler -> {"idle", "blocklist", "dedupe", "recipient", "trust", "save", "answered"}]
    BY <1>1 DEF TypeOK
  <2>4. reply' \in [Handler -> {None, 200, 400, 403, 429, 500}]
    BY <1>1 DEF TypeOK
  <2>5. overtaken' \subseteq Handler
    BY <1>0 DEF TypeOK
  <2> QED BY <2>1, <2>2, <2>3, <2>4, <2>5 DEF TypeOK
<1>4. HandlerInv' /\ PassedInv'
  BY <1>0, <1>1 DEF TypeOK, HandlerInv, PassedInv
<1>5. (flags.blocked => e.from \in blocked) /\ (flags.known => Known(e))
  BY DEF flags
<1>6. Known(e)' <=> Known(e)
  BY <1>0 DEF Known
<1>7. ArrivalInv'
  <2> SUFFICES ASSUME NEW g \in Handler
               PROVE  /\ arrived'[g].blocked => pc'[g] # "idle" /\ env'[g].from \in blocked'
                      /\ arrived'[g].known => pc'[g] # "idle" /\ Known(env[g])'
    BY DEF ArrivalInv
  <2>1. CASE g = h
    BY <1>0, <1>1, <1>5, <1>6, <2>1 DEF TypeOK
  <2>2. CASE g # h
    BY <1>0, <1>1, <2>2 DEF TypeOK, ArrivalInv, Known
  <2> QED BY <2>1, <2>2
<1>9. AcceptedIsKnown'
  BY <1>0, <1>1 DEF TypeOK, AcceptedIsKnown, HandlerInv, Known
<1>10. RedeliveryIsNoop' /\ InboxIsSound'
  <2>1. reply'[h] # 200 /\ pc'[h] \in {"answered", "blocklist"}
    BY <1>0, <1>1 DEF TypeOK, HandlerInv
  <2>2. \A g \in Handler \ {h} : /\ pc'[g] = pc[g] /\ reply'[g] = reply[g]
                                /\ arrived'[g] = arrived[g]
    BY <1>0, <1>1 DEF TypeOK
  <2> QED BY <1>0, <2>1, <2>2 DEF RedeliveryIsNoop, InboxIsSound
<1> QED BY <1>3, <1>4, <1>7, <1>9, <1>10

LEMMA ChecksKeep ==
  ASSUME IInv, NEW h \in Handler, CheckBlocklist(h) \/ Dedupe(h) \/ FindRecipient(h)
  PROVE  IInv'
<1> USE DEF IInv
<1>1. CASE CheckBlocklist(h)
  <2>1. pc[h] = "blocklist" /\ UNCHANGED <<table, blocked, env, trust, arrived, overtaken>>
    BY <1>1 DEF CheckBlocklist
  <2>2. CASE env[h].from \in blocked \/ env[h] \in Malformed
    BY <1>1, <2>1, <2>2, AnswerKeeps DEF CheckBlocklist
  <2>3. CASE env[h].from \notin blocked /\ env[h] \notin Malformed
    BY <1>1, <2>1, <2>3, MoveKeeps DEF CheckBlocklist, Goto, ArrivalInv
  <2> QED BY <2>2, <2>3
<1>2. CASE Dedupe(h)
  <2>1. /\ pc[h] = "dedupe" /\ UNCHANGED <<table, blocked, env, trust, arrived, overtaken>>
        /\ ~arrived[h].blocked /\ env[h] \notin Malformed
    BY <1>2 DEF Dedupe, InboxIsSound, PassedInv
  <2>2. CASE Known(env[h])
    BY <1>2, <2>1, <2>2, AnswerKeeps DEF Dedupe
  <2>3. CASE ~Known(env[h])
    BY <1>2, <2>1, <2>3, MoveKeeps DEF Dedupe, Goto, ArrivalInv
  <2> QED BY <2>2, <2>3
<1>3. CASE FindRecipient(h)
  <2>1. /\ pc[h] = "recipient" /\ UNCHANGED <<table, blocked, env, trust, arrived, overtaken>>
        /\ ~arrived[h].blocked /\ ~arrived[h].known /\ env[h] \notin Malformed
    BY <1>3 DEF FindRecipient, InboxIsSound, RedeliveryIsNoop, PassedInv
  <2>2. CASE env[h].to \in Agent
    BY <1>3, <2>1, <2>2, MoveKeeps DEF FindRecipient, Goto
  <2>3. CASE env[h].to \notin Agent
    BY <1>3, <2>1, <2>3, AnswerKeeps DEF FindRecipient
  <2> QED BY <2>2, <2>3
<1> QED BY <1>1, <1>2, <1>3

LEMMA TrustKeeps ==
  ASSUME IInv, NEW h \in Handler, AssignTrust(h)
  PROVE  IInv'
<1> USE DEF IInv
<1>0. /\ pc[h] = "trust" /\ pc' = [pc EXCEPT ![h] = "save"]
      /\ UNCHANGED <<table, blocked, env, reply, arrived, overtaken>>
  BY DEF AssignTrust, Goto
<1>1. PICK label \in Trust :
        /\ trust' = [trust EXCEPT ![h] = label]
        /\ label = "external" <=> ~env[h].signed
  BY DEF AssignTrust, Trust
<1>2. TypeOK'
  BY <1>0, <1>1 DEF TypeOK
<1>3. HandlerInv' /\ PassedInv'
  BY <1>0, <1>1 DEF TypeOK, HandlerInv, PassedInv
<1>4. ArrivalInv'
  BY <1>0 DEF TypeOK, ArrivalInv, Known
<1>5. AcceptedIsKnown'
  BY <1>0 DEF AcceptedIsKnown, Known
<1>6. RedeliveryIsNoop' /\ InboxIsSound'
  BY <1>0 DEF TypeOK, RedeliveryIsNoop, InboxIsSound
<1> QED BY <1>2, <1>3, <1>4, <1>5, <1>6

\* What a growing table leaves as it was.
LEMMA GrowthKeeps ==
  ASSUME IInv, table \subseteq table',
         UNCHANGED <<blocked, env, arrived>>,
         \A g \in Handler : arrived[g].known \/ arrived[g].blocked => pc'[g] # "idle"
  PROVE  ArrivalInv'
BY KnownForever DEF IInv, ArrivalInv

LEMMA SaveKeeps ==
  ASSUME IInv, NEW h \in Handler, SaveMessage(h)
  PROVE  IInv'
<1> USE InboundAssumption DEF IInv
<1>0. /\ pc[h] = "save" /\ UNCHANGED <<blocked, env, trust, arrived>>
      /\ env[h] \in Envelope /\ env[h] \notin Malformed /\ env[h].to \in Agent
      /\ trust[h] \in Trust /\ (trust[h] = "external" <=> ~env[h].signed)
      /\ ~arrived[h].blocked /\ ~arrived[h].known
  BY DEF SaveMessage, HandlerInv, PassedInv, InboxIsSound, RedeliveryIsNoop
<1>1. CASE Violates(env[h])
  BY <1>0, <1>1, AnswerKeeps DEF SaveMessage
<1>2. CASE ~Violates(env[h])
  <2> DEFINE r == Row(env[h], "in", trust[h])
  <2>1. /\ table' = table \cup {r} /\ overtaken' \subseteq overtaken \cup Handler
        /\ pc' = [pc EXCEPT ![h] = "answered"] /\ reply' = [reply EXCEPT ![h] = 200]
    BY <1>2 DEF SaveMessage, Answer, Insert, Between
  <2>2. /\ r.envelope = env[h] /\ r.direction = "in" /\ r.trust = trust[h] /\ r \in Rows
    BY <1>0 DEF Row, Rows
  <2> HIDE DEF r
  <2>3. TypeOK'
    BY <1>0, <2>1, <2>2 DEF TypeOK
  <2>4. HandlerInv' /\ PassedInv'
    BY <1>0, <2>1 DEF TypeOK, HandlerInv, PassedInv
  <2>5. table \subseteq table' /\ r \in table'
    BY <2>1
  <2>6. \A g \in Handler : arrived[g].known \/ arrived[g].blocked => pc'[g] # "idle"
    BY <1>0, <2>1 DEF TypeOK, ArrivalInv
  <2>7. ArrivalInv'
    BY <1>0, <2>5, <2>6, GrowthKeeps
  <2>9. AcceptedIsKnown'
    <3> SUFFICES ASSUME NEW g \in Handler, reply'[g] = 200
                 PROVE  Known(env[g])'
      BY DEF AcceptedIsKnown
    <3>1. CASE g = h
      <4>1. Known(env[h])'
        BY <1>0, <2>2, <2>5 DEF Known
      <4> QED BY <3>1, <4>1
    <3>2. CASE g # h
      <4>1. Known(env[g])
        BY <2>1, <3>2 DEF TypeOK, AcceptedIsKnown
      <4>2. env'[g] = env[g]
        BY <1>0
      <4> QED BY <2>5, <4>1, <4>2, KnownForever DEF Known
    <3> QED BY <3>1, <3>2
  <2>10. RedeliveryIsNoop' /\ InboxIsSound'
    BY <1>0, <2>1, <2>2 DEF TypeOK, RedeliveryIsNoop, InboxIsSound
  <2> QED BY <2>3, <2>4, <2>7, <2>9, <2>10
<1> QED BY <1>1, <1>2

LEMMA ErrKeeps ==
  ASSUME IInv, NEW h \in Handler, StoreErrs(h)
  PROVE  IInv'
BY AnswerKeeps DEF StoreErrs

LEMMA ReturnKeeps ==
  ASSUME IInv, NEW h \in Handler, Return(h)
  PROVE  IInv'
<1> USE InboundAssumption DEF IInv
<1>0. /\ pc' = [pc EXCEPT ![h] = "idle"] /\ env' = [env EXCEPT ![h] = None]
      /\ trust' = [trust EXCEPT ![h] = None] /\ reply' = [reply EXCEPT ![h] = None]
      /\ arrived' = [arrived EXCEPT ![h] = Nothing] /\ UNCHANGED <<table, blocked>>
      /\ overtaken' = overtaken \ {h}
  BY DEF Return
<1>1. /\ Nothing \in [blocked : BOOLEAN, known : BOOLEAN]
      /\ Nothing.blocked = FALSE /\ Nothing.known = FALSE
  BY DEF Nothing
<1>2. TypeOK' /\ HandlerInv' /\ PassedInv'
  BY <1>0, <1>1 DEF TypeOK, HandlerInv, PassedInv
<1>3. ArrivalInv'
  BY <1>0, <1>1 DEF TypeOK, ArrivalInv, Known
<1>4. AcceptedIsKnown'
  BY <1>0 DEF TypeOK, AcceptedIsKnown, Known
<1>5. RedeliveryIsNoop' /\ InboxIsSound'
  BY <1>0, <1>1 DEF TypeOK, RedeliveryIsNoop, InboxIsSound
<1> QED BY <1>2, <1>3, <1>4, <1>5

LEMMA SendKeeps ==
  ASSUME IInv, NEW e \in Outgoing, SendMessage(e)
  PROVE  IInv'
<1> USE DEF IInv
<1> DEFINE r == Row(e, "out", "verified")
<1>0. /\ table' = table \cup {r} /\ ~Violates(e) /\ overtaken' \subseteq overtaken \cup Handler
      /\ UNCHANGED <<blocked, pc, env, trust, reply, arrived>>
  BY DEF SendMessage, Insert, Between
<1>1. r.envelope = e /\ r.direction = "out" /\ r \in Rows
  BY DEF Row, Rows, Trust
<1> HIDE DEF r
<1>2. TypeOK' /\ HandlerInv' /\ PassedInv'
  BY <1>0, <1>1 DEF TypeOK, HandlerInv, PassedInv
<1>3. ArrivalInv'
  BY <1>0, GrowthKeeps DEF ArrivalInv
<1>5. AcceptedIsKnown'
  <2> SUFFICES ASSUME NEW g \in Handler, reply'[g] = 200
               PROVE  Known(env[g])'
    BY DEF AcceptedIsKnown
  <2>1. Known(env[g]) /\ env'[g] = env[g]
    BY <1>0 DEF AcceptedIsKnown
  <2> QED BY <1>0, <2>1, KnownForever DEF Known
<1>6. RedeliveryIsNoop' /\ InboxIsSound'
  BY <1>0, <1>1 DEF RedeliveryIsNoop, InboxIsSound
<1> QED BY <1>2, <1>3, <1>5, <1>6

LEMMA BlockKeeps ==
  ASSUME IInv, NEW d \in Domain, CreateBlocklistEntry(d)
  PROVE  IInv'
<1> USE DEF IInv
<1>0. blocked' = blocked \cup {d} /\ UNCHANGED <<table, pc, env, trust, reply, arrived, overtaken>>
  BY DEF CreateBlocklistEntry
<1>1. TypeOK' /\ HandlerInv' /\ PassedInv'
  BY <1>0 DEF TypeOK, HandlerInv, PassedInv
<1>2. ArrivalInv' /\ AcceptedIsKnown'
  BY <1>0 DEF ArrivalInv, AcceptedIsKnown, Known
<1>3. RedeliveryIsNoop' /\ InboxIsSound'
  BY <1>0 DEF RedeliveryIsNoop, InboxIsSound
<1> QED BY <1>1, <1>2, <1>3

LEMMA CrashKeeps ==
  ASSUME IInv, Crash
  PROVE  IInv'
<1> USE InboundAssumption DEF IInv
<1>0. /\ pc' = [h \in Handler |-> "idle"] /\ env' = [h \in Handler |-> None]
      /\ trust' = [h \in Handler |-> None] /\ reply' = [h \in Handler |-> None]
      /\ arrived' = [h \in Handler |-> Nothing] /\ UNCHANGED <<table, blocked>>
      /\ overtaken' = {}
  BY DEF Crash
<1>1. TypeOK' /\ HandlerInv' /\ PassedInv' /\ ArrivalInv'
  BY <1>0 DEF TypeOK, HandlerInv, PassedInv, ArrivalInv, Nothing
<1>2. AcceptedIsKnown' /\ RedeliveryIsNoop' /\ InboxIsSound'
  BY <1>0 DEF AcceptedIsKnown, RedeliveryIsNoop, InboxIsSound, Nothing
<1> QED BY <1>1, <1>2

LEMMA StutterKeeps ==
  ASSUME IInv, UNCHANGED vars
  PROVE  IInv'
BY DEF vars, IInv, TypeOK, HandlerInv, PassedInv, ArrivalInv,
       AcceptedIsKnown, RedeliveryIsNoop, InboxIsSound, Known

LEMMA StepKeeps ==
  ASSUME IInv, [Next]_vars
  PROVE  IInv'
<1>1. ASSUME NEW h \in Handler, handleDeliver(h) PROVE IInv'
  BY <1>1, ArriveKeeps, ChecksKeep, TrustKeeps, SaveKeeps, ErrKeeps, ReturnKeeps
     DEF handleDeliver
<1> QED BY <1>1, SendKeeps, BlockKeeps, CrashKeeps, StutterKeeps DEF Next

\* Whatever is inserted, the deliveries past their dedupe query that it makes
\* known are overtaken by it.
LEMMA InsertOvertakes ==
  ASSUME DedupeInv, NEW e, NEW direction, NEW label, Insert(e, direction, label),
         UNCHANGED env, Between' \subseteq Between
  PROVE  DedupeInv'
<1> SUFFICES ASSUME NEW g \in Between', Known(env[g])'
             PROVE  g \in overtaken'
  BY DEF DedupeInv
<1>1. CASE Known(env[g])
  BY <1>1 DEF DedupeInv, Insert
<1>2. CASE ~Known(env[g])
  <2> DEFINE r == Row(e, direction, label)
  <2>1. table' = table \cup {r} /\ r.envelope = e
    BY DEF Insert, Row
  <2>2. env'[g] = env[g]
    OBVIOUS
  <2> HIDE DEF r
  <2>3. \E s \in table' : IF env[g].key # None THEN s.envelope.key = env[g].key
                          ELSE s.envelope.id = env[g].id /\ s.envelope.from = env[g].from
    BY <2>2 DEF Known
  <2>4. Clash(env[g], e)
    BY <1>2, <2>1, <2>3 DEF Known, Clash
  <2> QED BY <2>2, <2>4 DEF Insert
<1> QED BY <1>1, <1>2

LEMMA DedupeKept ==
  ASSUME IInv, DedupeInv, [Next]_vars
  PROVE  DedupeInv'
<1> USE DEF IInv
\* Steps that leave table and history alone, and let no handler past its query
\* but one whose message the table does not know.
<1>1. ASSUME UNCHANGED <<table, overtaken>>,
             \A g \in Between' : env'[g] = env[g] /\ (g \in Between \/ ~Known(env[g]))
      PROVE  DedupeInv'
  <2>1. ASSUME NEW g \in Between', Known(env[g])' PROVE g \in overtaken'
    BY <1>1, <2>1 DEF DedupeInv, Known
  <2> QED BY <2>1 DEF DedupeInv
<1>2. ASSUME NEW h \in Handler, NEW e \in Envelope, Arrive(h, e) PROVE DedupeInv'
  <2>1. \A g \in Between' : g \in Between /\ env'[g] = env[g]
    BY <1>2 DEF Arrive, Answer, Goto, Between, TypeOK
  <2> QED BY <1>1, <1>2, <2>1 DEF Arrive
<1>3. ASSUME NEW h \in Handler,
             CheckBlocklist(h) \/ FindRecipient(h) \/ AssignTrust(h) \/ StoreErrs(h)
      PROVE  DedupeInv'
  <2>1. UNCHANGED <<table, overtaken, env>>
    BY <1>3 DEF CheckBlocklist, FindRecipient, AssignTrust, StoreErrs
  <2>2. Between' \subseteq Between
    BY <1>3 DEF CheckBlocklist, FindRecipient, AssignTrust, StoreErrs, Answer, Goto, Between, TypeOK
  <2> QED BY <1>1, <2>1, <2>2
<1>4. ASSUME NEW h \in Handler, Dedupe(h) PROVE DedupeInv'
  <2>1. \A g \in Between' : g \in Between \/ ~Known(env[g])
    BY <1>4 DEF Dedupe, Answer, Goto, Between, TypeOK
  <2> QED BY <1>1, <1>4, <2>1 DEF Dedupe
<1>5. ASSUME NEW h \in Handler, SaveMessage(h) PROVE DedupeInv'
  <2>1. Between' \subseteq Between /\ UNCHANGED env
    BY <1>5 DEF SaveMessage, Answer, Between, TypeOK
  <2>2. CASE Violates(env[h])
    BY <1>1, <1>5, <2>1, <2>2 DEF SaveMessage
  <2>3. CASE ~Violates(env[h])
    BY <1>5, <2>1, <2>3, InsertOvertakes DEF SaveMessage
  <2> QED BY <2>2, <2>3
<1>6. ASSUME NEW h \in Handler, Return(h) PROVE DedupeInv'
  <2>1. \A g \in Between' : g \in Between /\ g # h /\ env'[g] = env[g]
    BY <1>6 DEF Return, Between, TypeOK
  <2>2. ASSUME NEW g \in Between', Known(env[g])' PROVE g \in overtaken'
    BY <1>6, <2>1, <2>2 DEF Return, DedupeInv, Known
  <2> QED BY <2>2 DEF DedupeInv
<1>7. ASSUME NEW e \in Outgoing, SendMessage(e) PROVE DedupeInv'
  BY <1>7, InsertOvertakes DEF SendMessage, Between
<1>8. ASSUME NEW d \in Domain, CreateBlocklistEntry(d) PROVE DedupeInv'
  BY <1>1, <1>8 DEF CreateBlocklistEntry, Between
<1>9. CASE Crash
  BY <1>9 DEF Crash, DedupeInv, Between
<1>10. CASE UNCHANGED vars
  BY <1>1, <1>10 DEF vars, Between
<1> QED BY <1>2, <1>3, <1>4, <1>5, <1>6, <1>7, <1>8, <1>9, <1>10 DEF Next, handleDeliver

\* IInv and DedupeInv hold in every reachable state of Inbound.
THEOREM Invariance == Spec => [](IInv /\ DedupeInv)
<1>1. Init => IInv /\ DedupeInv
  BY Initially DEF Init, DedupeInv, Between
<1>2. IInv /\ DedupeInv /\ [Next]_vars => (IInv /\ DedupeInv)'
  BY StepKeeps, DedupeKept
<1> QED BY <1>1, <1>2, PTL DEF Spec

\* The table, the blocklist and every handler keep their types.
THEOREM TypeCorrect == Spec => []TypeOK
<1>1. IInv => TypeOK
  BY DEF IInv
<1> QED BY <1>1, Invariance, PTL

\* Whatever races it, a delivery past its dedupe query is refused by a constraint
\* only if it was overtaken, and its retry is a no-op, or if its id is another's.
THEOREM OnlyRacesConflict == Spec => ConflictsAreRaces
<1>1. ASSUME IInv, DedupeInv, NEW h \in Handler, SaveMessage(h), reply'[h] = 500
      PROVE  (h \in overtaken /\ Known(env[h])) \/ IdTaken(env[h])
  <2>1. h \in Between
    BY <1>1 DEF SaveMessage, Between
  <2>2. Violates(env[h])
    BY <1>1 DEF SaveMessage, Answer, IInv, TypeOK
  <2> QED BY <1>1, <2>1, <2>2, ViolatesOrTaken DEF DedupeInv
<1>2. IInv /\ DedupeInv /\ [Next]_vars =>
        [\A h \in Handler : SaveMessage(h) /\ reply'[h] = 500 =>
           \/ h \in overtaken /\ Known(env[h])
           \/ IdTaken(env[h])]_vars
  BY <1>1
<1> QED BY <1>2, Invariance, PTL DEF Spec, ConflictsAreRaces

\* A 200 is backed by a row, whatever fails or dies around it.
THEOREM AcceptedMailIsKnown == Spec => []AcceptedIsKnown
<1>1. IInv => AcceptedIsKnown
  BY DEF IInv
<1> QED BY <1>1, Invariance, PTL

\* A redelivery of stored mail stops at the dedupe query.
THEOREM RedeliveriesAreNoops == Spec => []RedeliveryIsNoop
<1>1. IInv => RedeliveryIsNoop
  BY DEF IInv
<1> QED BY <1>1, Invariance, PTL

\* Only well-formed mail for registered agents, correctly labelled, is in the
\* inbox, and a sender blocked on arrival gets nothing in.
THEOREM InboxStaysSound == Spec => []InboxIsSound
<1>1. IInv => InboxIsSound
  BY DEF IInv
<1> QED BY <1>1, Invariance, PTL
=============================================================================
