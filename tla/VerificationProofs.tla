------------------------- MODULE VerificationProofs -------------------------
(***************************************************************************)
(* Proofs that, for any number of keys, handlers and rotations, any        *)
(* faults, any cache lifetime and any timeout, a key stops verifying less  *)
(* than one lifetime and one timeout after it was last published; that     *)
(* mail verifies once the sender's keys have stood still for that long;    *)
(* and that mail in the grace period of the first rotation does.           *)
(***************************************************************************)
EXTENDS Verification, TLAPS

Keys == INSTANCE KeyRotationProofs

\* Nothing in the history lies in the future.
ClockInv ==
  /\ now \in Nat
  /\ \A k \in Key : shownAt[k] # None => shownAt[k] <= now

\* A cached key was published no longer before it was stored than one request
\* takes.
CacheInv ==
  \A s \in Slot : cache[s] # None =>
    /\ shownAt[cache[s].key] # None
    /\ cache[s].fetchedAt <= shownAt[cache[s].key] + Timeout

\* A request under way is within its timeout, and the key it was answered with
\* was published no earlier than the request was made.
RequestInv ==
  \A h \in Handler : request[h] # "none" =>
    /\ lookup[h] # "none"
    /\ asked[h] <= now /\ now <= asked[h] + Timeout
    /\ request[h] = "answered" /\ reply[h] # None =>
         shownAt[reply[h]] # None /\ asked[h] <= shownAt[reply[h]]

IInv == ReceiverTypeOK /\ ClockInv /\ CacheInv /\ RequestInv

-----------------------------------------------------------------------------
\* The sender's clock stands still or moves on by one.
LEMMA SenderClock ==
  ASSUME ClockInv, Sender!Next
  PROVE  now' \in Nat /\ now <= now'
BY DEF ClockInv, Sender!Next, Sender!NewSigner, Sender!Rotate, Sender!LoadCurrent,
  Sender!SaveSigningKey, Sender!SetActiveKey, Sender!RetireSigningKey,
  Sender!StoreErrs, Sender!Crash, Sender!Tick

\* On any step shownAt only grows, and never beyond the clock.
LEMMA ShownGrows ==
  ASSUME IInv, Record, now' \in Nat, now <= now'
  PROVE  /\ shownAt' \in [Key -> Nat \cup {None}]
         /\ \A k \in Key :
              /\ shownAt[k] # None => shownAt'[k] # None /\ shownAt[k] <= shownAt'[k]
              /\ shownAt'[k] # None => shownAt'[k] <= now'
         /\ changedAt' \in Nat
<1> USE VerificationAssumption DEF IInv, ReceiverTypeOK, ClockInv, Record
<1>1. \A k \in Key : shownAt'[k] = now' \/ shownAt'[k] = shownAt[k]
  OBVIOUS
<1>2. shownAt' \in [Key -> Nat \cup {None}] /\ changedAt' \in Nat
  OBVIOUS
<1>3. ASSUME NEW k \in Key
      PROVE  /\ shownAt[k] # None => shownAt'[k] # None /\ shownAt[k] <= shownAt'[k]
             /\ shownAt'[k] # None => shownAt'[k] <= now'
  <2>1. shownAt[k] \in Nat \cup {None}
    OBVIOUS
  <2> QED BY <1>1, <2>1
<1> QED BY <1>2, <1>3

LEMMA Initially == Init => IInv
BY VerificationAssumption DEF Init, Sender!Init, IInv, ReceiverTypeOK, ClockInv,
  CacheInv, RequestInv, Slot

\* The receiver's variables keep their types when a lookup is concluded.
LEMMA ConcludeTyped ==
  ASSUME ReceiverTypeOK, NEW h \in Handler, NEW found, lookup[h] # "none", Conclude(h, found)
  PROVE  /\ mail' \in [Handler -> Mail \cup {None}]
         /\ lookup' \in [Handler -> {"none", "current", "previous"}]
         /\ request' \in [Handler -> {"none", "sent", "answered"}]
         /\ asked' \in [Handler -> Nat]
         /\ reply' \in [Handler -> Key \cup {None}]
         /\ label' \in [Handler -> {"none", "verified", "external", "untrusted"}]
         /\ \A g \in Handler : lookup'[g] # "none" => mail'[g] \in Mail
         /\ request'[h] = "none"
         /\ \A g \in Handler \ {h} : /\ lookup'[g] = lookup[g]
                                     /\ request'[g] = request[g]
                                     /\ asked'[g] = asked[g]
                                     /\ reply'[g] = reply[g]
<1>1. CASE found = mail[h].kid
  BY <1>1 DEF ReceiverTypeOK, Conclude, Label
<1>2. CASE found # mail[h].kid /\ lookup[h] = "previous"
  BY <1>2 DEF ReceiverTypeOK, Conclude, Label
<1>3. CASE found # mail[h].kid /\ lookup[h] = "current"
  BY <1>3 DEF ReceiverTypeOK, Conclude, Label
<1> QED BY <1>1, <1>2, <1>3 DEF ReceiverTypeOK

\* A lookup's slot is one of the cache's.
LEMMA SlotTyped ==
  ASSUME ReceiverTypeOK, NEW h \in Handler, lookup[h] # "none"
  PROVE  SlotOf(h) \in Slot /\ mail[h] \in Mail
BY DEF ReceiverTypeOK, SlotOf, Slot, Mail

-----------------------------------------------------------------------------
\* The sender moves, and with it perhaps the clock.
LEMMA SenderKeeps ==
  ASSUME IInv, Sender!Next, UNCHANGED <<cache, handlers>>, InTime', Record
  PROVE  IInv'
<1> USE VerificationAssumption
<1>1. /\ now' \in Nat /\ now <= now'
      /\ UNCHANGED <<cache, mail, lookup, request, asked, reply, label, unsure>>
  BY SenderClock DEF IInv, handlers
<1>2. /\ shownAt' \in [Key -> Nat \cup {None}]
      /\ \A k \in Key :
           /\ shownAt[k] # None => shownAt'[k] # None /\ shownAt[k] <= shownAt'[k]
           /\ shownAt'[k] # None => shownAt'[k] <= now'
      /\ changedAt' \in Nat
  BY <1>1, ShownGrows
<1>3. ReceiverTypeOK'
  BY <1>1, <1>2 DEF IInv, ReceiverTypeOK
<1>4. ClockInv'
  BY <1>1, <1>2 DEF ClockInv
<1>5. CacheInv'
  <2> SUFFICES ASSUME NEW s \in Slot, cache[s] # None
               PROVE  /\ shownAt'[cache[s].key] # None
                      /\ cache[s].fetchedAt <= shownAt'[cache[s].key] + Timeout
    BY <1>1 DEF CacheInv
  <2>1. cache[s].key \in Key /\ cache[s].fetchedAt \in Nat
    BY DEF IInv, ReceiverTypeOK, Entry
  <2>2. /\ shownAt[cache[s].key] # None
        /\ cache[s].fetchedAt <= shownAt[cache[s].key] + Timeout
    BY DEF IInv, CacheInv
  <2> QED BY <1>2, <2>1, <2>2 DEF IInv, ReceiverTypeOK
<1>6. RequestInv'
  <2> SUFFICES ASSUME NEW h \in Handler, request[h] # "none"
               PROVE  /\ lookup[h] # "none"
                      /\ asked[h] <= now' /\ now' <= asked[h] + Timeout
                      /\ request[h] = "answered" /\ reply[h] # None =>
                           shownAt'[reply[h]] # None /\ asked[h] <= shownAt'[reply[h]]
    BY <1>1 DEF RequestInv
  <2>1. asked[h] \in Nat /\ reply[h] \in Key \cup {None}
    BY DEF IInv, ReceiverTypeOK
  <2>2. lookup[h] # "none" /\ asked[h] <= now'
    BY <1>1, <2>1 DEF IInv, RequestInv, ClockInv
  <2>3. now' <= asked[h] + Timeout
    BY <1>1 DEF InTime
  <2>4. ASSUME request[h] = "answered", reply[h] # None
        PROVE  shownAt'[reply[h]] # None /\ asked[h] <= shownAt'[reply[h]]
    <3>1. shownAt[reply[h]] # None /\ asked[h] <= shownAt[reply[h]] /\ reply[h] \in Key
      BY <2>1, <2>4 DEF IInv, RequestInv
    <3> QED BY <1>2, <2>1, <3>1 DEF IInv, ReceiverTypeOK
  <2> QED BY <2>2, <2>3, <2>4
<1> QED BY <1>3, <1>4, <1>5, <1>6 DEF IInv

\* A handler moves: the clock and the sender's table stand still.
LEMMA HandlerKeeps ==
  ASSUME IInv, NEW h \in Handler, Handle(h), UNCHANGED sender, Record
  PROVE  IInv'
<1> USE VerificationAssumption
<1>1. now' = now /\ now \in Nat /\ UNCHANGED <<state, created, retireAt>>
  BY DEF IInv, ClockInv, sender
<1>2. /\ shownAt' \in [Key -> Nat \cup {None}]
      /\ \A k \in Key :
           /\ shownAt[k] # None => shownAt'[k] # None /\ shownAt[k] <= shownAt'[k]
           /\ shownAt'[k] # None => shownAt'[k] <= now'
      /\ changedAt' \in Nat
  BY <1>1, ShownGrows
<1>3. ClockInv'
  BY <1>1, <1>2 DEF ClockInv
<1>4. ASSUME NEW c, c \in Entry, shownAt[c.key] # None,
             c.fetchedAt <= shownAt[c.key] + Timeout
      PROVE  shownAt'[c.key] # None /\ c.fetchedAt <= shownAt'[c.key] + Timeout
  BY <1>2, <1>4 DEF Entry, IInv, ReceiverTypeOK
<1>5. ASSUME UNCHANGED cache PROVE CacheInv'
  BY <1>4, <1>5 DEF IInv, CacheInv, ReceiverTypeOK
<1>6. ASSUME NEW g \in Handler, request[g] # "none",
             request'[g] = request[g], asked'[g] = asked[g],
             reply'[g] = reply[g], lookup'[g] = lookup[g]
      PROVE  request'[g] # "none" =>
               /\ lookup'[g] # "none"
               /\ asked'[g] <= now' /\ now' <= asked'[g] + Timeout
               /\ request'[g] = "answered" /\ reply'[g] # None =>
                    shownAt'[reply'[g]] # None /\ asked'[g] <= shownAt'[reply'[g]]
  <2>1. asked[g] \in Nat /\ reply[g] \in Key \cup {None}
    BY DEF IInv, ReceiverTypeOK
  <2>2. ASSUME request[g] = "answered", reply[g] # None
        PROVE  shownAt'[reply[g]] # None /\ asked[g] <= shownAt'[reply[g]]
    <3>1. shownAt[reply[g]] # None /\ asked[g] <= shownAt[reply[g]] /\ reply[g] \in Key
      BY <2>1, <2>2 DEF IInv, RequestInv
    <3> QED BY <1>2, <2>1, <3>1 DEF IInv, ReceiverTypeOK
  <2> QED BY <1>1, <1>6, <2>2 DEF IInv, RequestInv
<1>7. ASSUME ReceiverTypeOK', lookup[h] # "none", NEW found, Conclude(h, found)
      PROVE  RequestInv'
  BY <1>6, <1>7, ConcludeTyped DEF IInv, RequestInv
<1>8. CASE ReceiveUnsigned(h)
  <2>1. ReceiverTypeOK' /\ UNCHANGED <<cache, lookup, request, asked, reply>>
    BY <1>2, <1>8 DEF IInv, ReceiverTypeOK, ReceiveUnsigned
  <2>2. RequestInv'
    BY <1>6, <2>1 DEF IInv, RequestInv
  <2> QED BY <1>3, <1>5, <2>1, <2>2 DEF IInv
<1>14. ASSUME NEW a \in Agent, NEW k \in Key, ReceiveSigned(h, a, k)
       PROVE  IInv'
  <2> DEFINE m == [from |-> a, kid |-> k, came |-> now, as |-> PublishedAs(k)]
  <2>1. m \in Mail
    BY <1>1 DEF Mail, PublishedAs
  <2>2. /\ lookup[h] = "none" /\ UNCHANGED <<cache, request, asked, reply>>
        /\ mail' = [mail EXCEPT ![h] = m]
        /\ lookup' = [lookup EXCEPT ![h] = "current"]
        /\ label' = [label EXCEPT ![h] = "none"]
        /\ unsure' = [unsure EXCEPT ![h] = FALSE]
    BY <1>14 DEF ReceiveSigned
  <2> HIDE DEF m
  <2>3. ReceiverTypeOK'
    BY <1>2, <2>1, <2>2 DEF IInv, ReceiverTypeOK
  <2>4. RequestInv'
    BY <1>6, <2>2 DEF IInv, RequestInv, ReceiverTypeOK
  <2> QED BY <1>3, <1>5, <2>2, <2>3, <2>4 DEF IInv
<1>9. CASE Hit(h)
  <2>1. ReceiverTypeOK'
    BY <1>2, <1>9, ConcludeTyped DEF IInv, ReceiverTypeOK, Hit
  <2> QED BY <1>3, <1>5, <1>7, <1>9, <2>1 DEF IInv, Hit
<1>10. CASE Fetch(h)
  <2>1. /\ ReceiverTypeOK' /\ UNCHANGED <<cache, lookup, reply>>
        /\ lookup[h] # "none" /\ request'[h] = "sent" /\ asked'[h] = now
        /\ \A g \in Handler \ {h} : request'[g] = request[g] /\ asked'[g] = asked[g]
    BY <1>1, <1>2, <1>10 DEF IInv, ReceiverTypeOK, Fetch
  <2>2. RequestInv'
    BY <1>1, <1>6, <2>1 DEF IInv, RequestInv
  <2> QED BY <1>3, <1>5, <2>1, <2>2 DEF IInv
<1>11. ASSUME NEW k \in Key \cup {None}, WellKnown(h, k)
       PROVE  IInv'
  <2>1. /\ ReceiverTypeOK' /\ UNCHANGED <<cache, lookup, asked>>
        /\ request[h] = "sent" /\ reply'[h] = k
        /\ \A g \in Handler \ {h} : request'[g] = request[g] /\ reply'[g] = reply[g]
    BY <1>2, <1>11 DEF IInv, ReceiverTypeOK, WellKnown
  <2>2. ASSUME k # None PROVE shownAt'[k] = now
    <3>1. k \in Sender!Published /\ k \in Key
      BY <1>11, <2>2 DEF WellKnown, Current, Previous, Sender!Published
    <3>2. k \in (Sender!Published)'
      BY <1>1, <3>1 DEF Sender!Published, Sender!GetActiveSigningKey,
        Sender!GetPreviousSigningKey, Sender!Newest
    <3> QED BY <1>1, <3>1, <3>2 DEF Record
  <2>3. RequestInv'
    BY <1>1, <1>6, <2>1, <2>2 DEF IInv, RequestInv
  <2> QED BY <1>3, <1>5, <2>1, <2>3 DEF IInv
<1>12. CASE FetchFails(h)
  <2>1. lookup[h] # "none" /\ Conclude(h, None) /\ UNCHANGED cache
    BY <1>12 DEF IInv, FetchFails, RequestInv
  <2>2. unsure' \in [Handler -> BOOLEAN]
    BY <1>12 DEF IInv, ReceiverTypeOK, FetchFails
  <2>3. ReceiverTypeOK'
    BY <1>2, <2>1, <2>2, ConcludeTyped DEF IInv, ReceiverTypeOK
  <2> QED BY <1>3, <1>5, <1>7, <2>1, <2>3 DEF IInv
<1>13. CASE Store(h)
  <2>1. /\ lookup[h] # "none" /\ Conclude(h, reply[h]) /\ UNCHANGED unsure
        /\ request[h] = "answered"
    BY <1>13 DEF IInv, Store, RequestInv
  <2>2. SlotOf(h) \in Slot /\ reply[h] \in Key \cup {None}
    BY <2>1, SlotTyped DEF IInv, ReceiverTypeOK
  <2>3. ASSUME reply[h] # None
        PROVE  /\ cache' = [cache EXCEPT ![SlotOf(h)] = [key |-> reply[h], fetchedAt |-> now]]
               /\ [key |-> reply[h], fetchedAt |-> now] \in Entry
               /\ shownAt[reply[h]] # None /\ now <= shownAt[reply[h]] + Timeout
    <3>1. /\ reply[h] \in Key /\ asked[h] \in Nat /\ shownAt[reply[h]] \in Nat
          /\ asked[h] <= shownAt[reply[h]] /\ now <= asked[h] + Timeout
      BY <2>1, <2>2, <2>3 DEF IInv, RequestInv, ReceiverTypeOK
    <3> QED BY <1>1, <1>13, <2>3, <3>1 DEF Store, Entry
  <2>4. ReceiverTypeOK'
    <3>1. cache' \in [Slot -> Entry \cup {None}]
      BY <1>13, <2>2, <2>3 DEF Store, IInv, ReceiverTypeOK
    <3> QED BY <1>2, <2>1, <3>1, ConcludeTyped DEF IInv, ReceiverTypeOK
  <2>5. CacheInv'
    <3>1. CASE reply[h] = None
      BY <1>5, <1>13, <3>1 DEF Store
    <3>2. CASE reply[h] # None
      <4> SUFFICES ASSUME NEW s \in Slot, cache'[s] # None
                   PROVE  /\ shownAt'[cache'[s].key] # None
                          /\ cache'[s].fetchedAt <= shownAt'[cache'[s].key] + Timeout
        BY DEF CacheInv
      <4>1. CASE s = SlotOf(h)
        BY <1>4, <2>3, <3>2, <4>1 DEF IInv, ReceiverTypeOK
      <4>2. CASE s # SlotOf(h)
        BY <1>4, <2>3, <3>2, <4>2 DEF IInv, ReceiverTypeOK, CacheInv
      <4> QED BY <4>1, <4>2
    <3> QED BY <3>1, <3>2
  <2> QED BY <1>3, <1>7, <2>1, <2>4, <2>5 DEF IInv
<1> QED BY <1>8, <1>9, <1>10, <1>11, <1>12, <1>13, <1>14 DEF Handle

LEMMA Keeps == IInv /\ [Next]_vars => IInv'
<1> SUFFICES ASSUME IInv, [Next]_vars PROVE IInv'
  OBVIOUS
<1>1. CASE Next
  BY <1>1, SenderKeeps, HandlerKeeps DEF Next
<1>2. CASE UNCHANGED vars
  BY <1>2 DEF vars, sender, handlers, IInv, ReceiverTypeOK, ClockInv, CacheInv, RequestInv
<1> QED BY <1>1, <1>2

\* The invariant the rest follows from, in every reachable state.
THEOREM Invariance == Spec => []IInv
<1>1. Init => IInv
  BY Initially
<1>2. IInv /\ [Next]_vars => IInv'
  BY Keeps
<1> QED BY <1>1, <1>2, PTL DEF Spec

-----------------------------------------------------------------------------
\* A key that verifies a message was published less than one cache lifetime and
\* one request ago (assignTrust over Resolve and ResolvePrevious).
LEMMA VerifiedStep ==
  ASSUME IInv, Next, NEW h \in Handler, Labels(h, "verified")
  PROVE  /\ shownAt[mail[h].kid] # None
         /\ now < shownAt[mail[h].kid] + TTL + Timeout
<1> USE VerificationAssumption
<1>1. PICK g \in Handler : Handle(g)
  BY DEF Next, Labels, handlers
<1>2. label[h] = "none" /\ label'[h] = "verified"
      /\ label \in [Handler -> {"none", "verified", "external", "untrusted"}]
  BY DEF Labels, IInv, ReceiverTypeOK
<1>3. ASSUME NEW found, Conclude(g, found), lookup[g] # "none"
      PROVE  g = h /\ found = mail[h].kid /\ mail[h] \in Mail
  <2>1. g = h /\ found = mail[h].kid
    BY <1>2, <1>3 DEF Conclude, Label, IInv, ReceiverTypeOK
  <2> QED BY <1>3, <2>1, SlotTyped DEF IInv
<1>4. \A s \in Slot : cache[s] # None =>
        /\ cache[s].fetchedAt \in Nat /\ cache[s].key \in Key
        /\ shownAt[cache[s].key] \in Nat \cup {None}
  BY DEF IInv, ReceiverTypeOK, Entry
<1>5. CASE Hit(g)
  <2>1. lookup[g] # "none" /\ Conclude(g, cache[SlotOf(g)].key) /\ Cached(SlotOf(g))
    BY <1>5 DEF Hit
  <2>2. SlotOf(g) \in Slot /\ cache[SlotOf(g)].key = mail[h].kid
    BY <1>3, <2>1, SlotTyped DEF IInv
  <2>3. /\ cache[SlotOf(g)] # None /\ now < cache[SlotOf(g)].fetchedAt + TTL
    BY <2>1 DEF Cached
  <2> QED BY <1>4, <2>2, <2>3 DEF IInv, CacheInv, ClockInv
<1>6. CASE Store(g)
  <2>1. lookup[g] # "none" /\ Conclude(g, reply[g]) /\ request[g] = "answered"
    BY <1>6 DEF Store, IInv, RequestInv
  <2>2. g = h /\ reply[g] = mail[h].kid /\ mail[h].kid \in Key /\ reply[g] # None
    BY <1>3, <2>1 DEF Mail
  <2>3. /\ shownAt[reply[g]] # None /\ asked[g] <= shownAt[reply[g]]
        /\ now <= asked[g] + Timeout
        /\ asked[g] \in Nat /\ now \in Nat /\ shownAt[reply[g]] \in Nat
    BY <2>1, <2>2 DEF IInv, RequestInv, ClockInv, ReceiverTypeOK
  <2> QED BY <2>2, <2>3
<1>7. CASE FetchFails(g)
  <2>1. lookup[g] # "none" /\ Conclude(g, None)
    BY <1>7 DEF FetchFails, IInv, RequestInv
  <2> QED BY <1>3, <2>1 DEF Mail
<1>8. CASE \/ ReceiveUnsigned(g) \/ Fetch(g)
           \/ \E a \in Agent, k \in Key : ReceiveSigned(g, a, k)
           \/ \E k \in Key \cup {None} : WellKnown(g, k)
  BY <1>2, <1>8 DEF ReceiveUnsigned, ReceiveSigned, Fetch, WellKnown, IInv, ReceiverTypeOK
<1> QED BY <1>1, <1>5, <1>6, <1>7, <1>8 DEF Handle

\* No key verifies longer than a cache lifetime and a request after its last
\* publication, however rotations, lookups and late replies interleave
\* (VerifiedIsTimely; directory.go, receive_message.go).
THEOREM VerificationIsTimely == Spec => VerifiedIsTimely
<1>1. IInv /\ [Next]_vars =>
        [\A h \in Handler : Labels(h, "verified") =>
           /\ shownAt[mail[h].kid] # None
           /\ now < shownAt[mail[h].kid] + TTL + Timeout]_vars
  BY VerifiedStep
<1> QED BY <1>1, Invariance, PTL DEF Spec, VerifiedIsTimely

\* The receiver's variables keep their types (ReceiverTypeOK).
THEOREM ReceiverTyped == Spec => []ReceiverTypeOK
<1>1. IInv => ReceiverTypeOK
  BY DEF IInv
<1> QED BY <1>1, Invariance, PTL
-----------------------------------------------------------------------------
(* What is proved of the sender by itself *)

\* The assumption under which KeyRotation is proved about.
LEMMA KeysAssumed == Keys!KeyAssumption
BY VerificationAssumption DEF Keys!KeyAssumption

\* The sender is KeyRotation.
LEMMA SenderIsKeys ==
  /\ Sender!TypeOK <=> Keys!TypeOK
  /\ Sender!Init <=> Keys!Init
  /\ Sender!Next <=> Keys!Next
  /\ Sender!GetActiveSigningKey = Keys!GetActiveSigningKey
  /\ Sender!GetPreviousSigningKey = Keys!GetPreviousSigningKey
<1>1. Sender!TypeOK <=> Keys!TypeOK
  BY DEF Sender!TypeOK, Keys!TypeOK
<1>2. Sender!Init <=> Keys!Init
  BY DEF Sender!Init, Keys!Init
<1>3. /\ Sender!GetActiveSigningKey = Keys!GetActiveSigningKey
      /\ Sender!GetPreviousSigningKey = Keys!GetPreviousSigningKey
  BY DEF Sender!GetActiveSigningKey, Keys!GetActiveSigningKey, Sender!Newest, Keys!Newest,
    Sender!GetPreviousSigningKey, Keys!GetPreviousSigningKey
<1>4. \A k \in Key : Sender!NewSigner(k) <=> Keys!NewSigner(k)
  BY <1>3 DEF Sender!NewSigner, Keys!NewSigner, Sender!Inserted, Keys!Inserted,
    Sender!table, Keys!table, Sender!call, Keys!call, Sender!history, Keys!history
<1>5. \A r \in Rotation : Sender!Rotate(r) <=> Keys!Rotate(r)
  <2> SUFFICES ASSUME NEW r \in Rotation PROVE Sender!Rotate(r) <=> Keys!Rotate(r)
    OBVIOUS
  <2>1. \A k \in Key : Sender!LoadCurrent(r, k) <=> Keys!LoadCurrent(r, k)
    BY <1>3 DEF Sender!LoadCurrent, Keys!LoadCurrent, Sender!table, Keys!table
  <2>2. \A k \in Key : Sender!SaveSigningKey(r, k) <=> Keys!SaveSigningKey(r, k)
    BY DEF Sender!SaveSigningKey, Keys!SaveSigningKey, Sender!Inserted, Keys!Inserted,
      Sender!history, Keys!history
  <2>3. Sender!SetActiveKey(r) <=> Keys!SetActiveKey(r)
    BY DEF Sender!SetActiveKey, Keys!SetActiveKey, Sender!table, Keys!table
  <2>4. Sender!RetireSigningKey(r) <=> Keys!RetireSigningKey(r)
    BY DEF Sender!RetireSigningKey, Keys!RetireSigningKey, Sender!Return, Keys!Return,
      Sender!history, Keys!history
  <2>5. Sender!StoreErrs(r) <=> Keys!StoreErrs(r)
    BY DEF Sender!StoreErrs, Keys!StoreErrs, Sender!Return, Keys!Return, Sender!table,
      Keys!table, Sender!history, Keys!history
  <2> QED BY <2>1, <2>2, <2>3, <2>4, <2>5 DEF Sender!Rotate, Keys!Rotate
<1>6. Sender!Crash <=> Keys!Crash
  BY DEF Sender!Crash, Keys!Crash, Sender!table, Keys!table
<1>7. Sender!Tick <=> Keys!Tick
  BY DEF Sender!Tick, Keys!Tick, Sender!table, Keys!table, Sender!call, Keys!call,
    Sender!history, Keys!history
<1>8. Sender!Next <=> Keys!Next
  BY <1>4, <1>5, <1>6, <1>7 DEF Sender!Next, Keys!Next
<1> QED BY <1>1, <1>2, <1>3, <1>8

\* A step of the whole is a step of the sender or leaves it as it is.
LEMMA SenderSteps ==
  [Next]_vars => [Keys!Next]_Keys!vars
<1>1. UNCHANGED sender => UNCHANGED Keys!vars
  BY DEF sender, Keys!vars, Keys!table, Keys!call, Keys!history
<1> QED BY <1>1, SenderIsKeys DEF Next, vars

\* What is proved of every execution of KeyRotation holds of the sender here.
LEMMA SenderHolds == Spec => [](Keys!IInv /\ Keys!RetireOrder)
<1>1. Init => Keys!Init
  BY SenderIsKeys DEF Init
<1>2. Spec => Keys!Spec
  BY <1>1, SenderSteps, PTL DEF Spec, Keys!Spec
<1>3. Keys!Spec => [](Keys!IInv /\ Keys!RetireOrder)
  BY KeysAssumed, Keys!OrderHolds DEF Keys!KeyAssumption
<1> QED BY <1>2, <1>3, PTL

\* The sender's columns, calls and signer, the receiver's cache and every
\* lookup keep their types.
THEOREM TypeCorrect == Spec => []TypeOK
<1>1. Keys!IInv => Sender!TypeOK
  BY SenderIsKeys DEF Keys!IInv
<1> QED BY <1>1, SenderHolds, ReceiverTyped, PTL DEF TypeOK
-----------------------------------------------------------------------------
(* What cached and late answers still say of the sender's table *)

\* The retired keys whose grace period lasts.
InGrace == {j \in Key : state[j] = "retired" /\ retireAt[j] > now}

\* No key in its grace period is newer than k: k was the previous key, or would
\* be if it had not expired.
Stands(k) == \A j \in InGrace : created[j] <= created[k]

\* An entry stored more than a request after the table changed is still true.
CacheAnswers ==
  \A s \in Slot : cache[s] # None =>
    /\ cache[s].fetchedAt <= now
    /\ s = Domain => state[cache[s].key] = "retired"
    /\ cache[s].fetchedAt > changedAt + Timeout =>
         IF s = Domain THEN Stands(cache[s].key) ELSE cache[s].key \in Current

\* A reply to a request made after the table changed is still true.
ReplyAnswers ==
  \A h \in Handler : request[h] = "answered" =>
    /\ lookup[h] = "previous" /\ reply[h] # None => state[reply[h]] = "retired"
    /\ lookup[h] = "current" /\ asked[h] > changedAt => reply[h] \in Current
    /\ lookup[h] = "previous" /\ asked[h] > changedAt =>
         IF reply[h] = None THEN InGrace = {} ELSE Stands(reply[h])

\* A message whose key was not the current one, though the table had settled, is
\* not signed with the only current key; and if the sender has no previous key
\* to give, the message's key has expired or has a retired key beside it.
MailInv ==
  \A h \in Handler : lookup[h] # "none" =>
    /\ mail[h].came <= now
    /\ request[h] # "none" => mail[h].came <= asked[h]
    /\ lookup[h] = "previous" /\ ~unsure[h] /\ mail[h].came >= changedAt + TTL + Timeout =>
         Current # {mail[h].kid}
    /\ mail[h].as = "previous" => state[mail[h].kid] = "retired"
    /\ request[h] = "answered" /\ lookup[h] = "previous" /\ reply[h] = None
       /\ mail[h].as = "previous" /\ ~overlapped =>
         retireAt[mail[h].kid] <= now \/ \E k \in Key \ {mail[h].kid} : state[k] = "retired"

SenderInv == Keys!IInv /\ Keys!RetireOrder
AInv == CacheAnswers /\ ReplyAnswers /\ MailInv

\* The sender's columns have their types, and its clock runs on from them.
LEMMA SenderTyped ==
  ASSUME SenderInv
  PROVE  /\ now \in Nat /\ created \in [Key -> Nat]
         /\ state \in [Key -> {"absent", "active", "retired"}]
         /\ \A k \in Key : state[k] = "retired" => retireAt[k] \in Nat
         /\ Current = Keys!Newest({k \in Key : state[k] = "active"})
         /\ Previous = Keys!Newest(InGrace)
<1>1. Keys!TypeOK
  BY DEF SenderInv, Keys!IInv
<1> QED BY <1>1, SenderIsKeys DEF Keys!TypeOK, Current, Previous, InGrace,
      Keys!GetActiveSigningKey, Keys!GetPreviousSigningKey

\* A step of the sender: either its rows or its clock stand still, and a retired
\* key stays retired.
LEMMA SenderMoves ==
  ASSUME SenderInv, Sender!Next
  PROVE  /\ now \in Nat /\ now' \in Nat /\ now <= now'
         /\ overlapped => overlapped'
         /\ UNCHANGED <<state, created, retireAt>> \/ now' = now
         /\ \A k \in Key : state[k] = "retired" =>
              state'[k] = "retired" /\ (~overlapped => retireAt'[k] = retireAt[k])
<1>1. Keys!IInv /\ Keys!RetireOrder /\ Keys!Next
  BY SenderIsKeys DEF SenderInv
<1> QED BY <1>1, KeysAssumed, Keys!RowsMove DEF Keys!KeyAssumption

\* There is no previous key only when no key is in its grace period.
LEMMA NoneInGrace ==
  ASSUME SenderInv, Previous = {}
  PROVE  InGrace = {}
<1>1. Keys!IInv /\ InGrace \in SUBSET Key
  BY DEF SenderInv, InGrace
<1>2. InGrace # {} => Keys!Newest(InGrace) # {}
  BY <1>1, KeysAssumed, Keys!NewestExists DEF Keys!KeyAssumption
<1> QED BY <1>2, SenderTyped

\* While the rows stand still, answers stay true.
LEMMA AnswersLast ==
  ASSUME UNCHANGED <<state, created, retireAt>>, now \in Nat, now' \in Nat, now <= now',
         \A k \in Key : state[k] = "retired" => retireAt[k] \in Nat
  PROVE  /\ Current' = Current
         /\ InGrace = {} => InGrace' = {}
         /\ \A k : Stands(k) => Stands(k)'
<1>1. Current' = Current
  BY DEF Current, Sender!GetActiveSigningKey, Sender!Newest
<1>2. InGrace' \subseteq InGrace
  BY DEF InGrace
<1> QED BY <1>1, <1>2 DEF Stands
LEMMA SenderKeepsAnswers ==
  ASSUME IInv, SenderInv, AInv, Sender!Next, UNCHANGED <<cache, handlers>>, Record
  PROVE  AInv'
<1> USE VerificationAssumption
<1>1. /\ now \in Nat /\ now' \in Nat /\ now <= now' /\ changedAt \in Nat
      /\ UNCHANGED <<cache, mail, lookup, request, asked, reply, unsure>>
      /\ overlapped => overlapped'
      /\ \A k \in Key : state[k] = "retired" =>
           state'[k] = "retired" /\ (~overlapped => retireAt'[k] = retireAt[k])
  BY SenderMoves DEF IInv, ReceiverTypeOK, handlers
<1>2. \/ /\ UNCHANGED <<state, created, retireAt>> /\ changedAt' = changedAt
      \/ changedAt' = now /\ now' = now
  <2>1. CASE UNCHANGED <<state, created, retireAt>>
    BY <2>1 DEF Record
  <2>2. CASE ~UNCHANGED <<state, created, retireAt>>
    BY <2>2, SenderMoves DEF Record
  <2> QED BY <2>1, <2>2
<1>3. \A k \in Key : state[k] = "retired" => retireAt[k] \in Nat
  BY SenderTyped
<1>4. ASSUME changedAt' # now
      PROVE  /\ changedAt' = changedAt /\ Current' = Current
             /\ InGrace = {} => InGrace' = {}
             /\ \A k : Stands(k) => Stands(k)'
  BY <1>1, <1>2, <1>3, <1>4, AnswersLast
<1>5. CacheAnswers'
  <2> SUFFICES ASSUME NEW s \in Slot, cache[s] # None
               PROVE  /\ cache[s].fetchedAt <= now'
                      /\ s = Domain => state'[cache[s].key] = "retired"
                      /\ cache[s].fetchedAt > changedAt' + Timeout =>
                           IF s = Domain THEN Stands(cache[s].key)' ELSE cache[s].key \in Current'
    BY <1>1 DEF CacheAnswers
  <2>1. cache[s].key \in Key /\ cache[s].fetchedAt \in Nat
    BY DEF IInv, ReceiverTypeOK, Entry
  <2>2. /\ cache[s].fetchedAt <= now
        /\ s = Domain => state[cache[s].key] = "retired"
        /\ cache[s].fetchedAt > changedAt + Timeout =>
             IF s = Domain THEN Stands(cache[s].key) ELSE cache[s].key \in Current
    BY DEF AInv, CacheAnswers
  <2>3. ASSUME cache[s].fetchedAt > changedAt' + Timeout
        PROVE  IF s = Domain THEN Stands(cache[s].key)' ELSE cache[s].key \in Current'
    <3>1. changedAt' # now
      BY <1>1, <2>1, <2>2, <2>3
    <3> QED BY <1>1, <1>4, <2>2, <2>3, <3>1
  <2> QED BY <1>1, <2>1, <2>2, <2>3
<1>6. ReplyAnswers'
  <2> SUFFICES ASSUME NEW h \in Handler, request[h] = "answered"
               PROVE  /\ lookup[h] = "previous" /\ reply[h] # None => state'[reply[h]] = "retired"
                      /\ lookup[h] = "current" /\ asked[h] > changedAt' => reply[h] \in Current'
                      /\ lookup[h] = "previous" /\ asked[h] > changedAt' =>
                           IF reply[h] = None THEN InGrace' = {} ELSE Stands(reply[h])'
    BY <1>1 DEF ReplyAnswers
  <2>1. reply[h] \in Key \cup {None} /\ asked[h] \in Nat /\ asked[h] <= now
    BY DEF IInv, ReceiverTypeOK, RequestInv
  <2>2. /\ lookup[h] = "previous" /\ reply[h] # None => state[reply[h]] = "retired"
        /\ lookup[h] = "current" /\ asked[h] > changedAt => reply[h] \in Current
        /\ lookup[h] = "previous" /\ asked[h] > changedAt =>
             IF reply[h] = None THEN InGrace = {} ELSE Stands(reply[h])
    BY DEF AInv, ReplyAnswers
  <2>3. asked[h] > changedAt' => changedAt' # now
    BY <1>1, <2>1
  <2> QED BY <1>1, <1>4, <2>1, <2>2, <2>3
<1>7. MailInv'
  <2> SUFFICES ASSUME NEW h \in Handler, lookup[h] # "none"
               PROVE  /\ mail[h].came <= now'
                      /\ request[h] # "none" => mail[h].came <= asked[h]
                      /\ lookup[h] = "previous" /\ ~unsure[h]
                         /\ mail[h].came >= changedAt' + TTL + Timeout => Current' # {mail[h].kid}
                      /\ mail[h].as = "previous" => state'[mail[h].kid] = "retired"
                      /\ request[h] = "answered" /\ lookup[h] = "previous" /\ reply[h] = None
                         /\ mail[h].as = "previous" /\ ~overlapped' =>
                           \/ retireAt'[mail[h].kid] <= now'
                           \/ \E k \in Key \ {mail[h].kid} : state'[k] = "retired"
    BY <1>1 DEF MailInv
  <2>1. mail[h].came \in Nat /\ mail[h].kid \in Key
    BY SlotTyped DEF IInv, Mail
  <2>2. /\ mail[h].came <= now
        /\ request[h] # "none" => mail[h].came <= asked[h]
        /\ lookup[h] = "previous" /\ ~unsure[h] /\ mail[h].came >= changedAt + TTL + Timeout =>
             Current # {mail[h].kid}
        /\ mail[h].as = "previous" => state[mail[h].kid] = "retired"
        /\ request[h] = "answered" /\ lookup[h] = "previous" /\ reply[h] = None
           /\ mail[h].as = "previous" /\ ~overlapped =>
             retireAt[mail[h].kid] <= now \/ \E k \in Key \ {mail[h].kid} : state[k] = "retired"
    BY DEF AInv, MailInv
  <2>3. mail[h].came >= changedAt' + TTL + Timeout => changedAt' # now
    BY <1>1, <2>1, <2>2
  <2>4. mail[h].as = "previous" => state'[mail[h].kid] = "retired"
    BY <1>1, <2>1, <2>2
  <2>5. ASSUME request[h] = "answered", lookup[h] = "previous", reply[h] = None,
               mail[h].as = "previous", ~overlapped'
        PROVE  \/ retireAt'[mail[h].kid] <= now'
               \/ \E k \in Key \ {mail[h].kid} : state'[k] = "retired"
    <3>1. retireAt[mail[h].kid] \in Nat /\ retireAt'[mail[h].kid] = retireAt[mail[h].kid]
      BY <1>1, <1>3, <2>1, <2>2, <2>5
    <3> QED BY <1>1, <2>2, <2>5, <3>1
  <2> QED BY <1>1, <1>4, <2>1, <2>2, <2>3, <2>4, <2>5
<1> QED BY <1>5, <1>6, <1>7 DEF AInv
\* A key looked up settles the lookup it is in; one that does not match moves the
\* lookup on to the previous key, or leaves the message untrusted.
LEMMA Concluded ==
  ASSUME ReceiverTypeOK, NEW h \in Handler, NEW found, lookup[h] # "none", Conclude(h, found)
  PROVE  /\ request'[h] = "none"
         /\ lookup'[h] # "none" =>
              /\ lookup[h] = "current" /\ lookup'[h] = "previous"
              /\ found # mail[h].kid /\ mail'[h] = mail[h]
         /\ \A g \in Handler \ {h} : /\ lookup'[g] = lookup[g]
                                     /\ request'[g] = request[g]
                                     /\ asked'[g] = asked[g]
                                     /\ reply'[g] = reply[g]
                                     /\ mail'[g] = mail[g]
<1>1. CASE found = mail[h].kid
  BY <1>1 DEF ReceiverTypeOK, Conclude, Label
<1>2. CASE found # mail[h].kid /\ lookup[h] = "previous"
  BY <1>2 DEF ReceiverTypeOK, Conclude, Label
<1>3. CASE found # mail[h].kid /\ lookup[h] = "current"
  BY <1>3 DEF ReceiverTypeOK, Conclude, Label
<1> QED BY <1>1, <1>2, <1>3 DEF ReceiverTypeOK

\* A step of a handler: a reply is as true as the table it was read from, and an
\* entry as the reply it was stored from.
LEMMA HandlerKeepsAnswers ==
  ASSUME IInv, SenderInv, AInv, NEW h \in Handler, Handle(h), UNCHANGED sender, Record
  PROVE  AInv'
<1> USE VerificationAssumption
<1>1. /\ UNCHANGED <<state, created, retireAt, now, changedAt, overlapped>>
      /\ Current' = Current /\ InGrace' = InGrace
      /\ \A k : Stands(k)' <=> Stands(k)
      /\ now \in Nat /\ changedAt \in Nat
  BY DEF sender, Record, Current, Sender!GetActiveSigningKey, Sender!Newest, InGrace, Stands,
    IInv, ClockInv, ReceiverTypeOK
<1>2. ASSUME UNCHANGED cache PROVE CacheAnswers'
  BY <1>1, <1>2, Zenon DEF AInv, CacheAnswers
<1> DEFINE Same(g) == /\ lookup'[g] = lookup[g] /\ request'[g] = request[g]
                      /\ asked'[g] = asked[g] /\ reply'[g] = reply[g]
           ReplyOf(g) == request'[g] = "answered" =>
             /\ lookup'[g] = "previous" /\ reply'[g] # None => state[reply'[g]] = "retired"
             /\ lookup'[g] = "current" /\ asked'[g] > changedAt => reply'[g] \in Current
             /\ lookup'[g] = "previous" /\ asked'[g] > changedAt =>
                  IF reply'[g] = None THEN InGrace = {} ELSE Stands(reply'[g])
           MailOf(g) == lookup'[g] # "none" =>
             /\ mail'[g].came <= now
             /\ request'[g] # "none" => mail'[g].came <= asked'[g]
             /\ lookup'[g] = "previous" /\ ~unsure'[g]
                /\ mail'[g].came >= changedAt + TTL + Timeout => Current # {mail'[g].kid}
             /\ mail'[g].as = "previous" => state[mail'[g].kid] = "retired"
             /\ request'[g] = "answered" /\ lookup'[g] = "previous" /\ reply'[g] = None
                /\ mail'[g].as = "previous" /\ ~overlapped =>
                  \/ retireAt[mail'[g].kid] <= now
                  \/ \E k \in Key \ {mail'[g].kid} : state[k] = "retired"
<1>3. ASSUME NEW g \in Handler, Same(g) PROVE ReplyOf(g)
  BY <1>3, Zenon DEF AInv, ReplyAnswers
<1>4. ASSUME NEW g \in Handler, Same(g), mail'[g] = mail[g], unsure'[g] = unsure[g]
      PROVE  MailOf(g)
  BY <1>4, Zenon DEF AInv, MailInv
<1>5. ASSUME \A g \in Handler : ReplyOf(g) PROVE ReplyAnswers'
  BY <1>1, <1>5, Zenon DEF ReplyAnswers
<1>6. ASSUME \A g \in Handler : MailOf(g) PROVE MailInv'
  BY <1>1, <1>6, Zenon DEF MailInv
<1> HIDE DEF Same, ReplyOf, MailOf
<1>7. ASSUME NEW found, Conclude(h, found), lookup[h] # "none",
             \A g \in Handler \ {h} : unsure'[g] = unsure[g],
             lookup[h] = "current" /\ found # mail[h].kid /\ ~unsure'[h]
               /\ mail[h].came >= changedAt + TTL + Timeout => Current # {mail[h].kid}
      PROVE  ReplyAnswers' /\ MailInv'
  <2>1. /\ request'[h] = "none"
        /\ lookup'[h] # "none" =>
             /\ lookup[h] = "current" /\ lookup'[h] = "previous"
             /\ found # mail[h].kid /\ mail'[h] = mail[h]
        /\ \A g \in Handler \ {h} : Same(g) /\ mail'[g] = mail[g]
    BY <1>7, Concluded DEF IInv, Same
  <2>2. ReplyOf(h)
    BY <2>1 DEF ReplyOf
  <2>3. MailOf(h)
    BY <1>7, <2>1 DEF MailOf, AInv, MailInv
  <2> QED BY <1>3, <1>4, <1>5, <1>6, <1>7, <2>1, <2>2, <2>3
<1>8. CASE ReceiveUnsigned(h)
  <2>1. /\ UNCHANGED <<cache, mail>> /\ lookup[h] = "none"
        /\ \A g \in Handler : Same(g) /\ (g # h => unsure'[g] = unsure[g])
    BY <1>8 DEF ReceiveUnsigned, Same, IInv, ReceiverTypeOK
  <2>2. MailOf(h)
    BY <2>1 DEF MailOf, Same
  <2> QED BY <1>2, <1>3, <1>4, <1>5, <1>6, <2>1, <2>2 DEF AInv
<1>9. ASSUME NEW a \in Agent, NEW k \in Key, ReceiveSigned(h, a, k)
      PROVE  AInv'
  <2>1. /\ UNCHANGED <<cache, request, asked, reply>> /\ request[h] = "none"
        /\ lookup'[h] = "current" /\ mail'[h].came = now
        /\ mail'[h].kid = k /\ mail'[h].as = PublishedAs(k)
        /\ \A g \in Handler \ {h} : Same(g) /\ mail'[g] = mail[g] /\ unsure'[g] = unsure[g]
    BY <1>9 DEF ReceiveSigned, Same, IInv, ReceiverTypeOK, RequestInv
  <2>2. ReplyOf(h)
    BY <2>1 DEF ReplyOf
  <2>3. PublishedAs(k) = "previous" => state[k] = "retired"
    <3>1. PublishedAs(k) = "previous" => k \in Previous
      BY DEF PublishedAs
    <3> QED BY <3>1 DEF Previous, Sender!GetPreviousSigningKey, Sender!Newest
  <2>4. MailOf(h)
    BY <1>1, <2>1, <2>3 DEF MailOf
  <2> QED BY <1>2, <1>3, <1>4, <1>5, <1>6, <2>1, <2>2, <2>4 DEF AInv
<1>10. CASE Hit(h)
  <2> DEFINE c == cache[SlotOf(h)]
  <2>1. /\ lookup[h] # "none" /\ Conclude(h, c.key) /\ UNCHANGED <<cache, unsure>>
        /\ c # None /\ now < c.fetchedAt + TTL
    BY <1>10 DEF Hit, Cached
  <2>2. /\ SlotOf(h) \in Slot /\ mail[h].came \in Nat /\ mail[h].came <= now
        /\ mail[h].from \in Agent /\ c.fetchedAt \in Nat
    BY <2>1, SlotTyped DEF IInv, AInv, MailInv, Mail, ReceiverTypeOK, Entry
  <2>3. ASSUME lookup[h] = "current", c.key # mail[h].kid,
               mail[h].came >= changedAt + TTL + Timeout
        PROVE  Current # {mail[h].kid}
    <3>1. c.fetchedAt > changedAt + Timeout
      BY <1>1, <2>1, <2>2, <2>3
    <3>2. SlotOf(h) # Domain
      BY <2>2, <2>3 DEF SlotOf
    <3> QED BY <2>1, <2>2, <2>3, <3>1, <3>2 DEF AInv, CacheAnswers
  <2> QED BY <1>2, <1>7, <2>1, <2>3 DEF AInv
<1>11. CASE Fetch(h)
  <2>1. /\ UNCHANGED <<cache, mail, lookup, reply, unsure>>
        /\ lookup[h] # "none" /\ request'[h] = "sent" /\ asked'[h] = now
        /\ \A g \in Handler \ {h} : Same(g)
    BY <1>11 DEF Fetch, Same, IInv, ReceiverTypeOK
  <2>2. ReplyOf(h)
    BY <2>1 DEF ReplyOf
  <2>3. MailOf(h)
    BY <1>1, <2>1 DEF MailOf, AInv, MailInv
  <2> QED BY <1>2, <1>3, <1>4, <1>5, <1>6, <2>1, <2>2, <2>3 DEF AInv
<1>12. ASSUME NEW k \in Key \cup {None}, WellKnown(h, k)
       PROVE  AInv'
  <2>1. /\ UNCHANGED <<cache, mail, lookup, asked, unsure>>
        /\ request[h] = "sent" /\ request'[h] = "answered" /\ reply'[h] = k
        /\ \A g \in Handler \ {h} : Same(g)
        /\ lookup[h] = "current" => k \in Current
        /\ lookup[h] = "previous" => k \in Previous \/ (Previous = {} /\ k = None)
    BY <1>12 DEF WellKnown, Same, IInv, ReceiverTypeOK
  <2>2. k \in Previous => k \in Key /\ k # None /\ state[k] = "retired" /\ Stands(k)
    BY DEF Previous, Sender!GetPreviousSigningKey, Sender!Newest, Stands, InGrace
  <2>3. k \notin Previous /\ lookup[h] = "previous" => k = None /\ InGrace = {}
    BY <2>1, NoneInGrace
  <2>4. ReplyOf(h)
    BY <2>1, <2>2, <2>3 DEF ReplyOf
  <2>5. MailOf(h)
    <3>1. mail[h] \in Mail /\ mail[h].kid \in Key
      BY <2>1, SlotTyped DEF IInv, RequestInv, Mail
    <3>2. InGrace = {} /\ state[mail[h].kid] = "retired" => retireAt[mail[h].kid] <= now
      BY <1>1, <3>1, SenderTyped DEF InGrace
    <3>3. lookup[h] # "none" /\ request[h] # "none"
      BY <2>1 DEF IInv, RequestInv
    <3> QED BY <2>1, <2>2, <2>3, <3>2, <3>3 DEF MailOf, AInv, MailInv
  <2> QED BY <1>2, <1>3, <1>4, <1>5, <1>6, <2>1, <2>4, <2>5 DEF AInv
<1>13. CASE FetchFails(h)
  <2>1. /\ lookup[h] # "none" /\ Conclude(h, None) /\ UNCHANGED cache /\ unsure'[h]
        /\ \A g \in Handler \ {h} : unsure'[g] = unsure[g]
    BY <1>13 DEF FetchFails, IInv, RequestInv, ReceiverTypeOK
  <2> QED BY <1>2, <1>7, <2>1 DEF AInv
<1>14. CASE Store(h)
  <2> DEFINE e == [key |-> reply[h], fetchedAt |-> now]
  <2>1. /\ lookup[h] # "none" /\ Conclude(h, reply[h]) /\ UNCHANGED unsure
        /\ request[h] = "answered"
        /\ cache' = IF reply[h] = None THEN cache ELSE [cache EXCEPT ![SlotOf(h)] = e]
    BY <1>14 DEF Store, IInv, RequestInv
  <2>2. /\ SlotOf(h) \in Slot /\ mail[h].from \in Agent /\ mail[h].came \in Nat
        /\ asked[h] \in Nat /\ now <= asked[h] + Timeout /\ mail[h].came <= asked[h]
    BY <2>1, SlotTyped DEF IInv, AInv, MailInv, Mail, ReceiverTypeOK, RequestInv
  <2>3. ASSUME lookup[h] = "current", reply[h] # mail[h].kid,
               mail[h].came >= changedAt + TTL + Timeout
        PROVE  Current # {mail[h].kid}
    <3>1. asked[h] > changedAt
      BY <1>1, <2>2, <2>3
    <3> QED BY <2>1, <2>3, <3>1 DEF AInv, ReplyAnswers
  <2>4. CacheAnswers'
    <3>1. CASE reply[h] = None
      BY <1>2, <2>1, <3>1
    <3>2. CASE reply[h] # None
      <4>1. /\ SlotOf(h) = Domain => state[reply[h]] = "retired"
            /\ now > changedAt + Timeout =>
                 IF SlotOf(h) = Domain THEN Stands(reply[h]) ELSE reply[h] \in Current
        <5>1. \/ lookup[h] = "current" /\ SlotOf(h) # Domain
              \/ lookup[h] = "previous" /\ SlotOf(h) = Domain
          BY <2>1, <2>2 DEF SlotOf, IInv, ReceiverTypeOK
        <5>2. now > changedAt + Timeout => asked[h] > changedAt
          BY <1>1, <2>2
        <5> QED BY <2>1, <3>2, <5>1, <5>2 DEF AInv, ReplyAnswers
      <4>2. cache' = [cache EXCEPT ![SlotOf(h)] = e] /\ e.key = reply[h] /\ e.fetchedAt = now
        BY <2>1, <3>2
      <4> HIDE DEF e
      <4> SUFFICES ASSUME NEW s \in Slot, cache'[s] # None
                   PROVE  /\ cache'[s].fetchedAt <= now
                          /\ s = Domain => state[cache'[s].key] = "retired"
                          /\ cache'[s].fetchedAt > changedAt + Timeout =>
                               IF s = Domain THEN Stands(cache'[s].key)
                                             ELSE cache'[s].key \in Current
        BY <1>1 DEF CacheAnswers
      <4>3. CASE s = SlotOf(h)
        <5>1. cache'[s] = e
          BY <4>2, <4>3 DEF IInv, ReceiverTypeOK
        <5> QED BY <1>1, <4>1, <4>2, <4>3, <5>1
      <4>4. CASE s # SlotOf(h)
        <5>1. cache'[s] = cache[s]
          BY <4>2, <4>4 DEF IInv, ReceiverTypeOK
        <5> QED BY <5>1 DEF AInv, CacheAnswers
      <4> QED BY <4>3, <4>4
    <3> QED BY <3>1, <3>2
  <2> QED BY <1>7, <2>1, <2>3, <2>4 DEF AInv
<1> QED BY <1>8, <1>9, <1>10, <1>11, <1>12, <1>13, <1>14 DEF Handle
\* The whole invariant, the sender's part included.
LEMMA AnswersHold == Spec => [](IInv /\ SenderInv /\ AInv)
<1>1. Init => AInv
  BY DEF Init, AInv, CacheAnswers, ReplyAnswers, MailInv
<1>2. IInv /\ SenderInv /\ AInv /\ [Next]_vars => AInv'
  <2> SUFFICES ASSUME IInv, SenderInv, AInv, [Next]_vars PROVE AInv'
    OBVIOUS
  <2>1. CASE Next
    BY <2>1, SenderKeepsAnswers, HandlerKeepsAnswers DEF Next
  <2>2. CASE UNCHANGED vars
    BY <2>2 DEF vars, sender, handlers, AInv, CacheAnswers, ReplyAnswers, MailInv, Stands,
      InGrace, Current, Sender!GetActiveSigningKey, Sender!Newest
  <2> QED BY <2>1, <2>2
<1>3. Spec => []SenderInv
  BY SenderHolds DEF SenderInv
<1> QED BY <1>1, <1>2, <1>3, Invariance, PTL DEF Spec

\* A message is left untrusted by a lookup of the previous key: by what the
\* cache or a reply gave, unless the lookup failed.
LEMMA UntrustedStep ==
  ASSUME IInv, Next, NEW h \in Handler, Labels(h, "untrusted"), ~unsure'[h]
  PROVE  /\ lookup[h] = "previous" /\ mail[h].kid \in Key /\ ~unsure[h]
         /\ \/ /\ cache[Domain] # None /\ cache[Domain].key \in Key
               /\ cache[Domain].key # mail[h].kid
               /\ cache[Domain].fetchedAt \in Nat /\ now < cache[Domain].fetchedAt + TTL
            \/ /\ request[h] = "answered" /\ reply[h] # mail[h].kid
               /\ reply[h] \in Key \cup {None}
<1> USE VerificationAssumption
<1>1. PICK g \in Handler : Handle(g)
  BY DEF Next, Labels, handlers
<1>2. label[h] = "none" /\ label'[h] = "untrusted"
      /\ label \in [Handler -> {"none", "verified", "external", "untrusted"}]
  BY DEF Labels, IInv, ReceiverTypeOK
<1>3. ASSUME NEW found, Conclude(g, found), lookup[g] # "none"
      PROVE  /\ g = h /\ found # mail[h].kid /\ lookup[h] = "previous"
             /\ mail[h].kid \in Key /\ SlotOf(h) = Domain
  <2>1. g = h /\ found # mail[h].kid /\ lookup[h] = "previous"
    BY <1>2, <1>3 DEF Conclude, Label, IInv, ReceiverTypeOK
  <2> QED BY <1>3, <2>1, SlotTyped DEF IInv, Mail, SlotOf
<1>4. CASE Hit(g)
  <2>1. /\ lookup[g] # "none" /\ Conclude(g, cache[SlotOf(g)].key) /\ Cached(SlotOf(g))
        /\ unsure' = unsure
    BY <1>4 DEF Hit
  <2>2. g = h /\ SlotOf(h) = Domain
    BY <1>3, <2>1
  <2>3. cache[Domain] # None => cache[Domain].key \in Key /\ cache[Domain].fetchedAt \in Nat
    BY DEF IInv, ReceiverTypeOK, Entry, Slot
  <2> QED BY <1>3, <2>1, <2>2, <2>3 DEF Cached
<1>5. CASE Store(g)
  <2>1. /\ lookup[g] # "none" /\ Conclude(g, reply[g]) /\ request[g] = "answered"
        /\ unsure' = unsure /\ reply[g] \in Key \cup {None}
    BY <1>5 DEF Store, IInv, RequestInv, ReceiverTypeOK
  <2> QED BY <1>3, <2>1
<1>6. CASE FetchFails(g)
  <2>1. lookup[g] # "none" /\ Conclude(g, None) /\ unsure'[g]
    BY <1>6 DEF FetchFails, IInv, RequestInv, ReceiverTypeOK
  <2> QED BY <1>3, <2>1
<1>7. CASE \/ ReceiveUnsigned(g) \/ Fetch(g)
           \/ \E a \in Agent, k \in Key : ReceiveSigned(g, a, k)
           \/ \E k \in Key \cup {None} : WellKnown(g, k)
  BY <1>2, <1>7 DEF ReceiveUnsigned, ReceiveSigned, Fetch, WellKnown, IInv, ReceiverTypeOK
<1> QED BY <1>1, <1>4, <1>5, <1>6, <1>7 DEF Handle
LEMMA SettledStep ==
  ASSUME IInv, SenderInv, AInv, Next, NEW h \in Handler, Labels(h, "untrusted"), ~unsure'[h],
         ~overlapped, PublishedAs(mail[h].kid) # "neither", Distinct(mail[h].kid)
  PROVE  mail[h].came < changedAt + TTL + Timeout
<1> USE VerificationAssumption
<1> DEFINE kid == mail[h].kid
<1>1. /\ lookup[h] = "previous" /\ kid \in Key /\ ~unsure[h]
      /\ \/ /\ cache[Domain] # None /\ cache[Domain].key \in Key /\ cache[Domain].key # kid
            /\ cache[Domain].fetchedAt \in Nat /\ now < cache[Domain].fetchedAt + TTL
         \/ request[h] = "answered" /\ reply[h] # kid /\ reply[h] \in Key \cup {None}
  BY UntrustedStep
<1>2. /\ now \in Nat /\ changedAt \in Nat /\ mail[h].came \in Nat /\ asked[h] \in Nat
      /\ mail[h].came <= now
      /\ request[h] # "none" => mail[h].came <= asked[h]
  BY <1>1, SlotTyped DEF IInv, ClockInv, ReceiverTypeOK, Mail, AInv, MailInv
<1> SUFFICES ASSUME mail[h].came >= changedAt + TTL + Timeout PROVE FALSE
  BY <1>2
<1>3. Previous = {kid}
  <2>1. Current # {kid}
    BY <1>1 DEF AInv, MailInv
  <2> QED BY <2>1 DEF PublishedAs
<1>4. kid \in InGrace /\ \A j \in InGrace : created[j] <= created[kid]
  BY <1>3 DEF Previous, Sender!GetPreviousSigningKey, Sender!Newest, InGrace
<1>5. \A k \in Key : created[k] \in Nat
  BY SenderTyped
\* A retired key that stands has a deadline no earlier than kid's.
<1>6. ASSUME NEW k \in Key, state[k] = "retired", k # kid, Stands(k) PROVE FALSE
  <2>1. created[kid] < created[k]
    BY <1>1, <1>4, <1>5, <1>6 DEF Stands, Distinct
  <2>2. retireAt[kid] <= retireAt[k] /\ state[kid] = "retired"
    BY <1>1, <1>4, <1>6, <2>1 DEF SenderInv, Keys!RetireOrder, InGrace
  <2>3. retireAt[kid] \in Nat /\ retireAt[k] \in Nat /\ retireAt[kid] > now
    BY <1>1, <1>4, <1>6, <2>2, SenderTyped DEF InGrace
  <2>4. k \in InGrace
    BY <1>2, <1>6, <2>2, <2>3 DEF InGrace
  <2> QED BY <1>1, <1>4, <1>5, <2>1, <2>4
<1>7. CASE /\ cache[Domain] # None /\ cache[Domain].key \in Key /\ cache[Domain].key # kid
           /\ cache[Domain].fetchedAt \in Nat /\ now < cache[Domain].fetchedAt + TTL
  <2>1. cache[Domain].fetchedAt > changedAt + Timeout
    BY <1>2, <1>7
  <2>2. state[cache[Domain].key] = "retired" /\ Stands(cache[Domain].key)
    BY <1>7, <2>1 DEF AInv, CacheAnswers, Slot
  <2> QED BY <1>6, <1>7, <2>2
<1>8. CASE request[h] = "answered" /\ reply[h] # kid /\ reply[h] \in Key \cup {None}
  <2>1. asked[h] > changedAt
    BY <1>2, <1>8
  <2>2. IF reply[h] = None THEN InGrace = {} ELSE state[reply[h]] = "retired" /\ Stands(reply[h])
    BY <1>1, <1>8, <2>1 DEF AInv, ReplyAnswers
  <2> QED BY <1>4, <1>6, <1>8, <2>2
<1> QED BY <1>1, <1>7, <1>8

LEMMA GraceStep ==
  ASSUME IInv, SenderInv, AInv, Next, NEW h \in Handler, Labels(h, "untrusted"), ~unsure'[h],
         ~overlapped, mail[h].as = "previous", mail[h].kid \in Previous
  PROVE  \E k \in Key \ {mail[h].kid} : state[k] = "retired"
<1> USE VerificationAssumption
<1> DEFINE kid == mail[h].kid
<1>1. /\ lookup[h] = "previous" /\ kid \in Key
      /\ \/ cache[Domain] # None /\ cache[Domain].key \in Key /\ cache[Domain].key # kid
         \/ request[h] = "answered" /\ reply[h] # kid /\ reply[h] \in Key \cup {None}
  BY UntrustedStep
<1>2. CASE cache[Domain] # None /\ cache[Domain].key \in Key /\ cache[Domain].key # kid
  BY <1>2 DEF AInv, CacheAnswers, Slot
<1>3. CASE request[h] = "answered" /\ reply[h] # kid /\ reply[h] \in Key \cup {None}
  <2>1. CASE reply[h] # None
    BY <1>1, <1>3, <2>1 DEF AInv, ReplyAnswers
  <2>2. CASE reply[h] = None
    <3>1. retireAt[kid] <= now \/ \E k \in Key \ {kid} : state[k] = "retired"
      BY <1>1, <1>3, <2>2 DEF AInv, MailInv
    <3>2. retireAt[kid] \in Nat /\ retireAt[kid] > now /\ now \in Nat
      BY SenderTyped DEF Previous, Sender!GetPreviousSigningKey, Sender!Newest
    <3> QED BY <3>1, <3>2
  <2> QED BY <2>1, <2>2
<1> QED BY <1>1, <1>2, <1>3

\* Once the sender's table has stood still for a cache lifetime and a request, mail
\* that comes verifies with the current and the previous key, whatever was cached or
\* on its way before (SettledMailVerifies; directory.go, keys.go, receive_message.go).
THEOREM SettledVerifies == Spec => SettledMailVerifies
<1>1. IInv /\ SenderInv /\ AInv /\ [Next]_vars =>
        [\A h \in Handler :
           Labels(h, "untrusted") /\ ~unsure'[h] /\ ~overlapped
           /\ PublishedAs(mail[h].kid) # "neither" /\ Distinct(mail[h].kid)
           => mail[h].came < changedAt + TTL + Timeout]_vars
  BY SettledStep
<1> QED BY <1>1, AnswersHold, PTL DEF Spec, SettledMailVerifies

\* Mail signed before the first rotation that comes after it, in the grace period,
\* verifies even when both of the receiver's caches are stale (GraceMailVerifies;
\* README.md, on rotation).
THEOREM GraceVerifies == Spec => GraceMailVerifies
<1>1. IInv /\ SenderInv /\ AInv /\ [Next]_vars =>
        [\A h \in Handler :
           Labels(h, "untrusted") /\ ~unsure'[h] /\ ~overlapped
           /\ mail[h].as = "previous" /\ mail[h].kid \in Previous
           => \E k \in Key \ {mail[h].kid} : state[k] = "retired"]_vars
  BY GraceStep
<1> QED BY <1>1, AnswersHold, PTL DEF Spec, GraceMailVerifies
=============================================================================
