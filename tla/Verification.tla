---------------------------- MODULE Verification ----------------------------
(***************************************************************************)
(* How one instance decides the trust label of mail signed by another: the *)
(* sender's keys (KeyRotation), the receiver's directory cache, and the    *)
(* /deliver handlers of the receiver, each in assignTrust for one message. *)
(*                                                                         *)
(* One clock serves both instances.  The receiver's clock is read when a   *)
(* reply is cached, not when it is asked for, so a reply can be older than *)
(* its cache entry by as much as the request took.                         *)
(***************************************************************************)
EXTENDS Naturals

CONSTANTS
  Key, Rotation, Grace, Faults, MaxTime, None,   \* see KeyRotation
  Agent,     \* addresses at the sender's domain
  Domain,    \* stands for that domain in the cache of previous keys
  Handler,   \* /deliver requests being handled at once
  TTL,       \* directory_cache_ttl
  Timeout    \* the directory's HTTP client gives up after this long

ASSUME VerificationAssumption ==
  /\ Grace \in Nat /\ MaxTime \in Nat
  /\ Faults \subseteq {"store", "crash"}
  /\ TTL \in Nat \ {0}
  /\ Timeout \in Nat
  /\ Domain \notin Agent
  /\ None \notin Key
  /\ None \notin Nat

VARIABLES
  \* the sending instance
  state, created, retireAt, daemon, now, signer, pc, current, fresh, until,
  usedUntil, overlapped,
  \* the receiver's cache: entries by address, and the previous key by domain
  cache,
  \* each handler: its message, the lookup it is in, its request and reply
  mail, lookup, request, asked, reply,
  \* the label it has given to its last message
  label,
  \* history: when each key was last published, when the table last changed,
  \* and whether a lookup for a handler's message failed
  shownAt, changedAt, unsure

sender   == <<state, created, retireAt, daemon, now, signer, pc, current, fresh,
              until, usedUntil, overlapped>>
handlers == <<mail, lookup, request, asked, reply, label, unsure>>
vars     == <<sender, cache, handlers, shownAt, changedAt>>

Sender == INSTANCE KeyRotation

Current  == Sender!GetActiveSigningKey
Previous == Sender!GetPreviousSigningKey

Slot  == Agent \cup {Domain}
Entry == [key : Key, fetchedAt : Nat]

\* What the sender gives k as in every answer now.
PublishedAs(k) ==
  IF Current = {k} THEN "current" ELSE IF Previous = {k} THEN "previous" ELSE "neither"

\* A signed message and, as history, when it came and what its key was then.
Mail == [from : Agent, kid : Key, came : Nat, as : {"current", "previous", "neither"}]

ReceiverTypeOK ==
  /\ cache \in [Slot -> Entry \cup {None}]
  /\ mail \in [Handler -> Mail \cup {None}]
  /\ lookup \in [Handler -> {"none", "current", "previous"}]
  /\ request \in [Handler -> {"none", "sent", "answered"}]
  /\ asked \in [Handler -> Nat]
  /\ reply \in [Handler -> Key \cup {None}]
  /\ label \in [Handler -> {"none", "verified", "external", "untrusted"}]
  /\ shownAt \in [Key -> Nat \cup {None}]
  /\ changedAt \in Nat
  /\ unsure \in [Handler -> BOOLEAN]
  /\ \A h \in Handler : lookup[h] # "none" => mail[h] \in Mail

TypeOK == Sender!TypeOK /\ ReceiverTypeOK

Init ==
  /\ Sender!Init
  /\ cache = [s \in Slot |-> None]
  /\ mail = [h \in Handler |-> None]
  /\ lookup = [h \in Handler |-> "none"]
  /\ request = [h \in Handler |-> "none"]
  /\ asked = [h \in Handler |-> 0]
  /\ reply = [h \in Handler |-> None]
  /\ label = [h \in Handler |-> "none"]
  /\ shownAt = [k \in Key |-> None]
  /\ changedAt = 0
  /\ unsure = [h \in Handler |-> FALSE]

-----------------------------------------------------------------------------
(* assignTrust *)

\* Unsigned mail: nothing is looked up.
ReceiveUnsigned(h) ==
  /\ lookup[h] = "none"
  /\ label' = [label EXCEPT ![h] = "external"]
  /\ unsure' = [unsure EXCEPT ![h] = FALSE]
  /\ UNCHANGED <<cache, mail, lookup, request, asked, reply>>

\* Mail signed with a key the sender uses or has used: it may have been under
\* way for as long as retries last.
ReceiveSigned(h, a, k) ==
  /\ lookup[h] = "none"
  /\ k = signer \/ usedUntil[k] # None
  /\ mail' = [mail EXCEPT ![h] =
       [from |-> a, kid |-> k, came |-> now, as |-> PublishedAs(k)]]
  /\ lookup' = [lookup EXCEPT ![h] = "current"]
  /\ label' = [label EXCEPT ![h] = "none"]
  /\ unsure' = [unsure EXCEPT ![h] = FALSE]
  /\ UNCHANGED <<cache, request, asked, reply>>

\* The label is decided.
Label(h, l) ==
  /\ label' = [label EXCEPT ![h] = l]
  /\ lookup' = [lookup EXCEPT ![h] = "none"]
  /\ mail' = [mail EXCEPT ![h] = None]

\* Mutant: the fallback to the previous key is missing.
Conclude_NoFallback(h, found) ==
  /\ Label(h, IF found = mail[h].kid THEN "verified" ELSE "untrusted")
  /\ request' = [request EXCEPT ![h] = "none"]
  /\ asked' = [asked EXCEPT ![h] = 0]
  /\ reply' = [reply EXCEPT ![h] = None]

\* A lookup returns a key, or None for an error: Verify succeeds for the key
\* the message was signed with, and the previous key is tried second.
Conclude(h, found) ==
  /\ \/ found = mail[h].kid /\ Label(h, "verified")
     \/ found # mail[h].kid /\ lookup[h] = "previous" /\ Label(h, "untrusted")
     \/ /\ found # mail[h].kid /\ lookup[h] = "current"
        /\ lookup' = [lookup EXCEPT ![h] = "previous"]
        /\ UNCHANGED <<mail, label>>
  /\ request' = [request EXCEPT ![h] = "none"]
  /\ asked' = [asked EXCEPT ![h] = 0]
  /\ reply' = [reply EXCEPT ![h] = None]

-----------------------------------------------------------------------------
(* Resolve and ResolvePrevious *)

\* Entries are by address, previousEntries by domain.
SlotOf(h) == IF lookup[h] = "current" THEN mail[h].from ELSE Domain

\* Mutant: an entry never expires.
Cached_ForEver(s) == cache[s] # None

Cached(s) == cache[s] # None /\ now < cache[s].fetchedAt + TTL

\* Answered from the cache.
Hit(h) ==
  /\ lookup[h] # "none" /\ request[h] = "none"
  /\ Cached(SlotOf(h))
  /\ Conclude(h, cache[SlotOf(h)].key)
  /\ UNCHANGED <<cache, unsure>>

\* Not in the cache: one GET, outside the lock.
Fetch(h) ==
  /\ lookup[h] # "none" /\ request[h] = "none"
  /\ ~Cached(SlotOf(h))
  /\ request' = [request EXCEPT ![h] = "sent"]
  /\ asked' = [asked EXCEPT ![h] = now]
  /\ UNCHANGED <<cache, mail, lookup, reply, label, unsure>>

\* The sender answers from its table as it is now; None: no previous key.
WellKnown(h, k) ==
  /\ request[h] = "sent"
  /\ daemon = "up"
  /\ \/ lookup[h] = "current" /\ k \in Current
     \/ lookup[h] = "previous" /\ k \in Previous
     \/ lookup[h] = "previous" /\ Previous = {} /\ k = None
  /\ request' = [request EXCEPT ![h] = "answered"]
  /\ reply' = [reply EXCEPT ![h] = k]
  /\ UNCHANGED <<cache, mail, lookup, asked, label, unsure>>

\* The request fails: refused, cut off, timed out, malformed, agent unknown.
FetchFails(h) ==
  /\ request[h] = "sent"
  /\ Conclude(h, None)
  /\ unsure' = [unsure EXCEPT ![h] = TRUE]
  /\ UNCHANGED cache

\* Mutant: a reply never replaces an entry, expired or not.
Store_KeepsOld(h) ==
  /\ request[h] = "answered"
  /\ cache' = IF reply[h] = None \/ cache[SlotOf(h)] # None THEN cache
              ELSE [cache EXCEPT ![SlotOf(h)] = [key |-> reply[h], fetchedAt |-> now]]
  /\ Conclude(h, IF reply[h] = None THEN None ELSE cache'[SlotOf(h)].key)
  /\ UNCHANGED unsure

\* Mutant: that there is no previous key is cached too.
Store_Negative(h) ==
  /\ request[h] = "answered"
  /\ cache' = [cache EXCEPT ![SlotOf(h)] = [key |-> reply[h], fetchedAt |-> now]]
  /\ Conclude(h, reply[h])
  /\ UNCHANGED unsure

\* A key found is cached, whatever another handler has stored meanwhile; that
\* there is none is not.
Store(h) ==
  /\ request[h] = "answered"
  /\ cache' = IF reply[h] = None THEN cache
              ELSE [cache EXCEPT ![SlotOf(h)] = [key |-> reply[h], fetchedAt |-> now]]
  /\ Conclude(h, reply[h])
  /\ UNCHANGED unsure

-----------------------------------------------------------------------------
Handle(h) ==
  \/ ReceiveUnsigned(h)
  \/ \E a \in Agent, k \in Key : ReceiveSigned(h, a, k)
  \/ Hit(h)
  \/ Fetch(h)
  \/ \E k \in Key \cup {None} : WellKnown(h, k)
  \/ FetchFails(h)
  \/ Store(h)

\* A request never outlasts the client's timeout.
InTime == \A h \in Handler : request[h] # "none" => now <= asked[h] + Timeout

\* History, recorded on every step.
Record ==
  /\ shownAt' = [k \in Key |-> IF k \in (Sender!Published)' THEN now' ELSE shownAt[k]]
  /\ changedAt' = IF <<state, created, retireAt>>' # <<state, created, retireAt>>
                  THEN now ELSE changedAt

Next ==
  /\ \/ Sender!Next /\ UNCHANGED <<cache, handlers>> /\ InTime'
     \/ \E h \in Handler : Handle(h) /\ UNCHANGED sender
  /\ Record

Spec == Init /\ [][Next]_vars

-----------------------------------------------------------------------------
(* Safety *)

Labels(h, l) == label[h] = "none" /\ label'[h] = l

\* A key stops verifying less than one cache lifetime and one request after it
\* was last published, whatever rotations, overlapping lookups and late replies
\* there were (directory.go: Resolve, ResolvePrevious).
VerifiedIsTimely ==
  [][\A h \in Handler : Labels(h, "verified") =>
       /\ shownAt[mail[h].kid] # None
       /\ now < shownAt[mail[h].kid] + TTL + Timeout]_vars

\* No other retired key was created in the same second.
Distinct(k) == \A j \in Key \ {k} : state[j] = "retired" => created[j] # created[k]

\* Mail that comes when the sender's keys have not changed for one cache
\* lifetime and one request verifies with the current and with the previous key,
\* unless a lookup fails or rotations overlapped: no stale entry and no late
\* reply lasts longer.  Of two retired keys of one second either may be given as
\* the previous one, and the other takes its place when it expires, with no
\* change to the keys.
SettledMailVerifies ==
  [][\A h \in Handler :
       Labels(h, "untrusted") /\ ~unsure'[h] /\ ~overlapped
       /\ PublishedAs(mail[h].kid) # "neither" /\ Distinct(mail[h].kid)
       => mail[h].came < changedAt + TTL + Timeout]_vars

\* Mail signed before the first rotation and coming after it, within the grace
\* period, verifies even against a cache filled before the rotation, unless a
\* lookup fails or rotations overlapped (README.md: "mail signed just before
\* rotation and delivered just after still verifies correctly").
GraceMailVerifies ==
  [][\A h \in Handler :
       Labels(h, "untrusted") /\ ~unsure'[h] /\ ~overlapped
       /\ mail[h].as = "previous" /\ mail[h].kid \in Previous
       => \E k \in Key \ {mail[h].kid} : state[k] = "retired"]_vars

\* Mail signed with what is the sender's current key, or its previous key in
\* grace, from its coming to its label, is verified when no lookup fails
\* (README.md, trust table: "current key, or its previous key within the
\* rotation grace period").
PublishedKeyVerifies ==
  [][\A h \in Handler :
       Labels(h, "untrusted") /\ ~unsure'[h] /\ mail[h].as = PublishedAs(mail[h].kid)
       => mail[h].as = "neither"]_vars
=============================================================================
