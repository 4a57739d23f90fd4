------------------------- MODULE KeyRotationProofs -------------------------
(***************************************************************************)
(* Proofs that the safety properties of KeyRotation hold for any number of *)
(* keys and concurrent rotations, any grace period and any faults, and     *)
(* that retired keys expire in the order they were made.                   *)
(***************************************************************************)
EXTENDS KeyRotation, TLAPS, WellFoundedInduction

\* Some active key is safe from every rotation that has already saved its own:
\* the key saved last, by the argument of the comment on Rotate.
KeepsOne ==
  daemon = "up" => \E k \in Key :
    /\ state[k] = "active"
    /\ \A r \in Rotation : pc[r] \in {"install", "retire"} => current[r] # k

\* What a call holds is in the table, and its two keys differ.
CallInv ==
  /\ daemon = "up" => signer \in Key /\ state[signer] # "absent"
  /\ daemon = "down" => signer = None
  /\ \A r \in Rotation :
       /\ pc[r] # "idle" =>
            daemon = "up" /\ current[r] \in Key /\ state[current[r]] # "absent"
       /\ pc[r] \in {"install", "retire"} =>
            fresh[r] \in Key /\ state[fresh[r]] # "absent" /\ fresh[r] # current[r]

\* No row and no use of a key lies in the future.
ClockInv ==
  \A k \in Key : created[k] <= now /\ (usedUntil[k] # None => usedUntil[k] <= now)

\* As long as rotations have come one at a time.
OneCall ==
  ~overlapped => \A r, s \in Rotation : pc[r] # "idle" /\ pc[s] # "idle" => r = s

SignerInv ==
  ~overlapped /\ daemon = "up" =>
    /\ state[signer] = "active"
    /\ (\A r \in Rotation : pc[r] # "install") => signer \in GetActiveSigningKey
    /\ \A r \in Rotation : pc[r] = "install" => fresh[r] \in GetActiveSigningKey

RetireInv ==
  ~overlapped => \A r \in Rotation : pc[r] = "retire" =>
    /\ fresh[r] = signer
    /\ usedUntil[current[r]] # None => until[r] >= usedUntil[current[r]] + Grace

\* Its deadline leaves a retired key the whole grace after its last use.
DeadlineInv ==
  ~overlapped => \A k \in Key : state[k] = "retired" =>
    /\ k # signer
    /\ usedUntil[k] # None => retireAt[k] >= usedUntil[k] + Grace

IInv == TypeOK /\ KeepsOne /\ CallInv /\ ClockInv /\ OneCall /\ SignerInv /\ RetireInv
          /\ DeadlineInv

-----------------------------------------------------------------------------
\* GetActiveSigningKey's row is one no active row is newer than.
LEMMA Current ==
  ASSUME NEW k
  PROVE  k \in GetActiveSigningKey <=>
           /\ k \in Key /\ state[k] = "active"
           /\ \A j \in Key : state[j] = "active" => created[j] <= created[k]
BY DEF GetActiveSigningKey, Newest

LEMMA Initially == Init => IInv
<1> SUFFICES ASSUME Init PROVE IInv
  OBVIOUS
<1>1. TypeOK
  BY KeyAssumption DEF Init, TypeOK
<1>2. KeepsOne /\ CallInv /\ ClockInv /\ OneCall /\ SignerInv /\ RetireInv /\ DeadlineInv
  BY DEF Init, KeepsOne, CallInv, ClockInv, OneCall, SignerInv, RetireInv, DeadlineInv
<1> QED BY <1>1, <1>2 DEF IInv

\* While the daemon is up the table is not empty of active keys.
LEMMA SomeActive == ASSUME IInv PROVE AlwaysAnActiveKey
BY DEF IInv, KeepsOne, AlwaysAnActiveKey

LEMMA StartKeeps ==
  ASSUME IInv, NEW k \in Key, NewSigner(k)
  PROVE  IInv'
<1> USE KeyAssumption DEF IInv
<1>0. /\ daemon = "down" /\ daemon' = "up" /\ signer' = k
      /\ UNCHANGED <<now, pc, current, fresh, until, usedUntil, overlapped>>
      /\ \A r \in Rotation : pc[r] = "idle"
  BY DEF NewSigner, call, history, TypeOK, CallInv
<1>1. CASE GetActiveSigningKey = {}
  <2>1. /\ state[k] = "absent" /\ state' = [state EXCEPT ![k] = "active"]
        /\ created' = [created EXCEPT ![k] = now] /\ UNCHANGED retireAt
    BY <1>1 DEF NewSigner, Inserted
  <2>2. TypeOK'
    BY <1>0, <2>1 DEF TypeOK
  <2>3. ClockInv' /\ OneCall' /\ RetireInv' /\ CallInv' /\ KeepsOne'
    BY <1>0, <2>1 DEF TypeOK, ClockInv, OneCall, RetireInv, CallInv, KeepsOne
  <2>4. \A j \in Key : created'[j] <= created'[k]
    BY <1>0, <2>1 DEF TypeOK, ClockInv
  <2>5. k \in Key /\ state'[k] = "active"
    BY <2>1 DEF TypeOK
  <2>6. k \in GetActiveSigningKey'
    BY <2>4, <2>5 DEF GetActiveSigningKey, Newest
  <2>7. SignerInv' /\ DeadlineInv'
    BY <1>0, <2>1, <2>5, <2>6 DEF TypeOK, SignerInv, DeadlineInv
  <2> QED BY <2>2, <2>3, <2>7
<1>2. CASE GetActiveSigningKey # {}
  <2>1. k \in GetActiveSigningKey /\ UNCHANGED <<state, created, retireAt>>
    BY <1>2 DEF NewSigner, table
  <2>2. state[k] = "active" /\ k \in GetActiveSigningKey'
    BY <2>1, Current DEF GetActiveSigningKey, Newest
  <2>3. TypeOK' /\ ClockInv' /\ OneCall' /\ RetireInv' /\ CallInv' /\ KeepsOne'
    BY <1>0, <2>1, <2>2 DEF TypeOK, ClockInv, OneCall, RetireInv, CallInv, KeepsOne
  <2>4. SignerInv' /\ DeadlineInv'
    BY <1>0, <2>1, <2>2 DEF TypeOK, SignerInv, DeadlineInv
  <2> QED BY <2>3, <2>4
<1> QED BY <1>1, <1>2

LEMMA LoadKeeps ==
  ASSUME IInv, NEW r \in Rotation, NEW k \in Key, LoadCurrent(r, k)
  PROVE  IInv'
<1> USE KeyAssumption DEF IInv
<1>0. /\ daemon = "up" /\ pc[r] = "idle" /\ k \in GetActiveSigningKey
      /\ pc' = [pc EXCEPT ![r] = "save"] /\ current' = [current EXCEPT ![r] = k]
      /\ overlapped' = (overlapped \/ \E s \in Rotation : pc[s] # "idle")
      /\ UNCHANGED <<state, created, retireAt, daemon, now, signer, fresh, until, usedUntil>>
      /\ GetActiveSigningKey' = GetActiveSigningKey
      /\ state[k] = "active"
  BY Current DEF LoadCurrent, table, GetActiveSigningKey, Newest
<1>1. TypeOK' /\ ClockInv' /\ CallInv'
  BY <1>0 DEF TypeOK, ClockInv, CallInv
<1>2. KeepsOne'
  BY <1>0 DEF TypeOK, KeepsOne
<1>3. OneCall' /\ SignerInv' /\ RetireInv' /\ DeadlineInv'
  BY <1>0 DEF TypeOK, OneCall, SignerInv, RetireInv, DeadlineInv
<1> QED BY <1>1, <1>2, <1>3

LEMMA SaveKeeps ==
  ASSUME IInv, NEW r \in Rotation, NEW k \in Key, SaveSigningKey(r, k)
  PROVE  IInv'
<1> USE KeyAssumption DEF IInv
<1>0. /\ pc[r] = "save" /\ state[k] = "absent"
      /\ state' = [state EXCEPT ![k] = "active"] /\ created' = [created EXCEPT ![k] = now]
      /\ pc' = [pc EXCEPT ![r] = "install"] /\ fresh' = [fresh EXCEPT ![r] = k]
      /\ UNCHANGED <<retireAt, daemon, now, signer, current, until, usedUntil, overlapped>>
      /\ daemon = "up"
  BY DEF SaveSigningKey, Inserted, history, CallInv
<1>1. TypeOK' /\ ClockInv' /\ CallInv'
  BY <1>0 DEF TypeOK, ClockInv, CallInv
<1>2. state'[k] = "active" /\ \A s \in Rotation : pc'[s] \in {"install", "retire"} => current'[s] # k
  BY <1>0 DEF TypeOK, CallInv
<1>3. KeepsOne'
  BY <1>2 DEF KeepsOne
<1>4. k \in GetActiveSigningKey'
  <2>1. \A j \in Key : created'[j] <= created'[k]
    BY <1>0 DEF TypeOK, ClockInv
  <2> QED BY <1>2, <2>1 DEF GetActiveSigningKey, Newest
<1>5. OneCall' /\ RetireInv' /\ DeadlineInv'
  BY <1>0 DEF TypeOK, OneCall, RetireInv, DeadlineInv
<1>6. SignerInv'
  <2> SUFFICES ASSUME ~overlapped
               PROVE  /\ state'[signer] = "active"
                      /\ ~(\A s \in Rotation : pc'[s] # "install")
                      /\ \A s \in Rotation : pc'[s] = "install" => fresh'[s] \in GetActiveSigningKey'
    BY <1>0 DEF SignerInv
  <2>1. state'[signer] = "active"
    BY <1>0 DEF TypeOK, SignerInv, CallInv
  <2>2. pc'[r] = "install" /\ fresh'[r] = k
    BY <1>0 DEF TypeOK
  <2>3. \A s \in Rotation : pc'[s] = "install" => s = r
    BY <1>0 DEF TypeOK, OneCall
  <2> QED BY <1>4, <2>1, <2>2, <2>3
<1> QED BY <1>1, <1>3, <1>5, <1>6

LEMMA SwitchKeeps ==
  ASSUME IInv, NEW r \in Rotation, SetActiveKey(r)
  PROVE  IInv'
<1> USE KeyAssumption DEF IInv
<1>0. /\ pc[r] = "install" /\ daemon = "up" /\ signer \in Key /\ fresh[r] \in Key
      /\ current[r] \in Key
      /\ usedUntil' = [usedUntil EXCEPT ![signer] = now] /\ signer' = fresh[r]
      /\ until' = [until EXCEPT ![r] = now + Grace] /\ pc' = [pc EXCEPT ![r] = "retire"]
      /\ UNCHANGED <<state, created, retireAt, daemon, now, current, fresh, overlapped>>
      /\ GetActiveSigningKey' = GetActiveSigningKey
  BY DEF SetActiveKey, table, CallInv, GetActiveSigningKey, Newest
<1>1. TypeOK' /\ ClockInv' /\ CallInv' /\ OneCall'
  BY <1>0 DEF TypeOK, ClockInv, CallInv, OneCall
<1>2. KeepsOne'
  BY <1>0 DEF TypeOK, KeepsOne
<1>3. ASSUME ~overlapped
      PROVE  fresh[r] \in GetActiveSigningKey /\ state[signer] = "active"
  BY <1>0, <1>3 DEF SignerInv
<1>4. ASSUME ~overlapped, NEW s \in Rotation, pc'[s] # "idle"
      PROVE  s = r
  BY <1>0, <1>4 DEF TypeOK, OneCall
<1>5. SignerInv'
  BY <1>0, <1>3, <1>4, Current DEF TypeOK, SignerInv
<1>6. RetireInv'
  <2>1. usedUntil'[current[r]] # None => usedUntil'[current[r]] \in Nat /\ usedUntil'[current[r]] <= now
    BY <1>0 DEF TypeOK, ClockInv
  <2>2. until'[r] = now + Grace /\ now \in Nat
    BY <1>0 DEF TypeOK
  <2>3. until'[r] >= usedUntil'[current'[r]] + Grace \/ usedUntil'[current'[r]] = None
    BY <1>0, <2>1, <2>2
  <2> QED BY <1>0, <1>4, <2>3 DEF RetireInv
<1>7. DeadlineInv'
  BY <1>0, <1>3, Current DEF TypeOK, DeadlineInv
<1> QED BY <1>1, <1>2, <1>5, <1>6, <1>7

LEMMA RetireKeeps ==
  ASSUME IInv, NEW r \in Rotation, RetireSigningKey(r)
  PROVE  IInv'
<1> USE KeyAssumption DEF IInv
<1> DEFINE c == current[r]
<1>0. /\ pc[r] = "retire" /\ daemon = "up" /\ c \in Key /\ state[c] # "absent" /\ fresh[r] # c
      /\ state' = [state EXCEPT ![c] = "retired"]
      /\ retireAt' = [retireAt EXCEPT ![c] = until[r]]
      /\ pc' = [pc EXCEPT ![r] = "idle"] /\ current' = [current EXCEPT ![r] = None]
      /\ fresh' = [fresh EXCEPT ![r] = None] /\ until' = [until EXCEPT ![r] = 0]
      /\ UNCHANGED <<created, daemon, now, signer, usedUntil, overlapped>>
  BY DEF RetireSigningKey, Return, history, CallInv
<1>1. TypeOK'
  BY <1>0 DEF TypeOK
<1>2. ClockInv' /\ CallInv' /\ OneCall' /\ RetireInv'
  BY <1>0 DEF TypeOK, ClockInv, CallInv, OneCall, RetireInv
<1>3. KeepsOne'
  <2>1. PICK k \in Key : /\ state[k] = "active"
                         /\ \A s \in Rotation : pc[s] \in {"install", "retire"} => current[s] # k
    BY <1>0 DEF KeepsOne
  <2>2. state'[k] = "active"
    BY <1>0, <2>1 DEF TypeOK
  <2>3. \A s \in Rotation : pc'[s] \in {"install", "retire"} => current'[s] # k
    BY <1>0, <2>1 DEF TypeOK
  <2> QED BY <2>2, <2>3 DEF KeepsOne
<1>4. ASSUME ~overlapped
      PROVE  /\ signer = fresh[r] /\ signer # c
             /\ \A s \in Rotation : pc[s] # "install"
             /\ signer \in GetActiveSigningKey
  BY <1>0, <1>4 DEF RetireInv, OneCall, SignerInv
<1>5. ASSUME ~overlapped
      PROVE  signer \in GetActiveSigningKey'
  <2>1. signer \in Key /\ state[signer] = "active"
        /\ \A j \in Key : state[j] = "active" => created[j] <= created[signer]
    BY <1>4, <1>5, Current
  <2>2. state'[signer] = "active" /\ \A j \in Key : state'[j] = "active" => state[j] = "active"
    BY <1>0, <1>4, <1>5, <2>1 DEF TypeOK
  <2> QED BY <1>0, <2>1, <2>2 DEF GetActiveSigningKey, Newest
<1>6. SignerInv'
  BY <1>0, <1>4, <1>5 DEF TypeOK, SignerInv, GetActiveSigningKey, Newest
<1>7. DeadlineInv'
  <2> SUFFICES ASSUME ~overlapped, NEW k \in Key, state'[k] = "retired"
               PROVE  /\ k # signer
                      /\ usedUntil[k] # None => retireAt'[k] >= usedUntil[k] + Grace
    BY <1>0 DEF DeadlineInv
  <2>1. CASE k = c
    <3>1. retireAt'[k] = until[r]
      BY <1>0, <2>1 DEF TypeOK
    <3>2. usedUntil[k] # None => until[r] >= usedUntil[k] + Grace
      BY <1>0, <2>1 DEF RetireInv
    <3> QED BY <1>4, <2>1, <3>1, <3>2
  <2>2. CASE k # c
    BY <1>0, <2>2 DEF TypeOK, DeadlineInv
  <2> QED BY <2>1, <2>2
<1> QED BY <1>1, <1>2, <1>3, <1>6, <1>7

LEMMA ErrKeeps ==
  ASSUME IInv, NEW r \in Rotation, StoreErrs(r)
  PROVE  IInv'
<1> USE KeyAssumption DEF IInv
<1>0. /\ pc[r] \in {"save", "retire"}
      /\ pc' = [pc EXCEPT ![r] = "idle"] /\ current' = [current EXCEPT ![r] = None]
      /\ fresh' = [fresh EXCEPT ![r] = None] /\ until' = [until EXCEPT ![r] = 0]
      /\ UNCHANGED <<state, created, retireAt, daemon, now, signer, usedUntil, overlapped>>
      /\ GetActiveSigningKey' = GetActiveSigningKey
  BY DEF StoreErrs, Return, table, history, GetActiveSigningKey, Newest
<1>1. TypeOK' /\ ClockInv' /\ CallInv' /\ KeepsOne'
  BY <1>0 DEF TypeOK, ClockInv, CallInv, KeepsOne
<1>2. OneCall' /\ RetireInv' /\ DeadlineInv'
  BY <1>0 DEF TypeOK, OneCall, RetireInv, DeadlineInv
<1>3. SignerInv'
  BY <1>0 DEF TypeOK, SignerInv, OneCall
<1> QED BY <1>1, <1>2, <1>3

LEMMA CrashKeeps ==
  ASSUME IInv, Crash
  PROVE  IInv'
<1> USE KeyAssumption DEF IInv
<1>0. /\ daemon = "up" /\ daemon' = "down" /\ signer \in Key /\ signer' = None
      /\ usedUntil' = [usedUntil EXCEPT ![signer] = now]
      /\ pc' = [r \in Rotation |-> "idle"] /\ current' = [r \in Rotation |-> None]
      /\ fresh' = [r \in Rotation |-> None] /\ until' = [r \in Rotation |-> 0]
      /\ UNCHANGED <<state, created, retireAt, now, overlapped>>
  BY DEF Crash, table, CallInv
<1>1. TypeOK' /\ ClockInv' /\ CallInv' /\ KeepsOne'
  BY <1>0 DEF TypeOK, ClockInv, CallInv, KeepsOne
<1>2. OneCall' /\ RetireInv' /\ SignerInv'
  BY <1>0 DEF OneCall, RetireInv, SignerInv
<1>3. DeadlineInv'
  BY <1>0 DEF TypeOK, SignerInv, DeadlineInv
<1> QED BY <1>1, <1>2, <1>3

LEMMA TickKeeps ==
  ASSUME IInv, Tick \/ UNCHANGED vars
  PROVE  IInv'
<1> USE KeyAssumption DEF IInv
<1>0. /\ now' \in Nat /\ now' >= now
      /\ UNCHANGED <<state, created, retireAt, daemon, signer, pc, current, fresh, until,
                     usedUntil, overlapped>>
      /\ GetActiveSigningKey' = GetActiveSigningKey
  BY DEF Tick, vars, table, call, history, TypeOK, GetActiveSigningKey, Newest
<1>1. TypeOK' /\ KeepsOne' /\ CallInv' /\ OneCall' /\ RetireInv' /\ DeadlineInv'
  BY <1>0 DEF TypeOK, KeepsOne, CallInv, OneCall, RetireInv, DeadlineInv
<1>2. ClockInv' /\ SignerInv'
  BY <1>0 DEF TypeOK, ClockInv, SignerInv
<1> QED BY <1>1, <1>2

LEMMA StepKeeps == IInv /\ [Next]_vars => IInv'
<1> SUFFICES ASSUME IInv, [Next]_vars PROVE IInv'
  OBVIOUS
<1>1. ASSUME NEW r \in Rotation, Rotate(r) PROVE IInv'
  BY <1>1, LoadKeeps, SaveKeeps, SwitchKeeps, RetireKeeps, ErrKeeps DEF Rotate
<1> QED BY <1>1, StartKeeps, CrashKeeps, TickKeeps DEF Next

\* IInv holds in every reachable state of KeyRotation.
THEOREM Invariance == Spec => []IInv
BY Initially, StepKeeps, PTL DEF Spec

\* The columns of signing_keys, the signer and every Rotate call keep their
\* types, and retire_at is set exactly for retired keys.
THEOREM TypeCorrect == Spec => []TypeOK
<1>1. IInv => TypeOK
  BY DEF IInv
<1> QED BY <1>1, Invariance, PTL

\* However Rotate calls interleave, fail or are cut off, one key is active.
THEOREM KeyAlwaysActive == Spec => []AlwaysAnActiveKey
<1> QED BY SomeActive, Invariance, PTL

\* Rotations coming one at a time, the signer's key is the only row
\* GetActiveSigningKey can find, outside the window from a rotation's insert to its
\* switch and unless a second active key was created in the same second.
THEOREM SignerIsPublished == Spec => []SignerPublished
<1>1. ASSUME IInv, daemon = "up", ~overlapped, ~Tied, \A r \in Rotation : pc[r] # "install"
      PROVE  GetActiveSigningKey = {signer}
  <2>1. signer \in GetActiveSigningKey
    BY <1>1 DEF IInv, SignerInv
  <2>2. ASSUME NEW k \in GetActiveSigningKey PROVE k = signer
    <3>1. /\ k \in Key /\ state[k] = "active" /\ created[signer] <= created[k]
          /\ signer \in Key /\ created[k] <= created[signer]
      BY <2>1, <2>2, Current
    <3>2. created[k] = created[signer]
      BY <1>1, <3>1 DEF IInv, TypeOK
    <3> QED BY <1>1, <3>1, <3>2 DEF Tied
  <2> QED BY <2>1, <2>2
<1>2. IInv => SignerPublished
  BY <1>1 DEF SignerPublished
<1> QED BY <1>2, Invariance, PTL

\* Rotations coming one at a time, a retired key is the only row
\* GetPreviousSigningKey can find for Grace after its last use, unless another
\* retired key, in its grace and no older, supplants it.
THEOREM GraceIsHonoured == Spec => []GraceHonoured
<1>1. ASSUME IInv, ~overlapped, NEW k \in Key, state[k] = "retired",
             usedUntil[k] # None, now < usedUntil[k] + Grace, ~Supplanted(k)
      PROVE  GetPreviousSigningKey = {k}
  <2>1. retireAt[k] > now
    <3>1. retireAt[k] \in Nat /\ usedUntil[k] \in Nat /\ now \in Nat /\ Grace \in Nat
      BY <1>1, KeyAssumption DEF IInv, TypeOK
    <3>2. retireAt[k] >= usedUntil[k] + Grace
      BY <1>1 DEF IInv, DeadlineInv
    <3> QED BY <1>1, <3>1, <3>2
  <2>2. ASSUME NEW j \in Key, j # k, state[j] = "retired", retireAt[j] > now
        PROVE  created[j] <= created[k] /\ ~(created[k] <= created[j])
    BY <1>1, <2>2 DEF Supplanted, IInv, TypeOK
  <2>3. created[k] \in Nat
    BY <1>1 DEF IInv, TypeOK
  <2>4. k \in GetPreviousSigningKey
    BY <1>1, <2>1, <2>2, <2>3 DEF GetPreviousSigningKey, Newest
  <2>5. ASSUME NEW j \in GetPreviousSigningKey PROVE j = k
    BY <1>1, <2>1, <2>2, <2>5 DEF GetPreviousSigningKey, Newest
  <2> QED BY <2>4, <2>5
<1>2. IInv => GraceHonoured
  BY <1>1 DEF GraceHonoured, IInv, DeadlineInv
<1> QED BY <1>2, Invariance, PTL

-----------------------------------------------------------------------------
(* The order in which keys retire *)

\* Unless rotations overlapped, the newest active key is the newest of all, a
\* rotation retires a key no retired one is newer than, and deadlines follow the
\* order of creation.
RetireOrder ==
  ~overlapped =>
    /\ \A k \in GetActiveSigningKey, j \in Key : state[j] # "absent" => created[j] <= created[k]
    /\ \A r \in Rotation : pc[r] # "idle" =>
         /\ state[current[r]] = "active"
         /\ \A j \in Key : state[j] = "retired" => created[j] <= created[current[r]]
    /\ \A r \in Rotation : pc[r] = "retire" =>
         /\ until[r] <= now + Grace
         /\ \A j \in Key : state[j] = "retired" => retireAt[j] <= until[r]
    /\ \A j \in Key : state[j] = "retired" => retireAt[j] <= now + Grace
    /\ \A j, k \in Key : state[j] = "retired" /\ state[k] = "retired" /\ created[j] < created[k] =>
         retireAt[j] <= retireAt[k]

LEMMA OrderKept ==
  ASSUME IInv, RetireOrder, [Next]_vars
  PROVE  RetireOrder'
<1> USE KeyAssumption DEF IInv
<1> SUFFICES ASSUME ~overlapped' PROVE RetireOrder'
  BY DEF RetireOrder
<1>1. ASSUME NEW k \in Key, NewSigner(k) PROVE RetireOrder'
  <2>1. /\ daemon = "down" /\ UNCHANGED <<now, pc, current, until, overlapped>>
        /\ \A r \in Rotation : pc[r] = "idle"
    BY <1>1 DEF NewSigner, call, history, TypeOK, CallInv
  <2>2. CASE GetActiveSigningKey = {}
    <3>1. /\ state[k] = "absent" /\ state' = [state EXCEPT ![k] = "active"]
          /\ created' = [created EXCEPT ![k] = now] /\ UNCHANGED retireAt
      BY <1>1, <2>2 DEF NewSigner, Inserted
    <3>2. \A j \in Key : created'[j] <= now /\ (created'[k] = now) /\ state'[k] = "active"
      BY <2>1, <3>1 DEF TypeOK, ClockInv
    <3>3. \A i \in GetActiveSigningKey' : i \in Key /\ created'[k] <= created'[i]
      BY <3>2, <3>1 DEF GetActiveSigningKey, Newest, TypeOK
    <3>4. \A i \in GetActiveSigningKey', j \in Key : created'[j] <= created'[i]
      <4>1. \A j \in Key : created'[j] \in Nat
        BY <3>1 DEF TypeOK
      <4> QED BY <3>2, <3>3, <4>1 DEF TypeOK
    <3>5. \A j \in Key : state'[j] = "retired" =>
            state[j] = "retired" /\ created'[j] = created[j]
      BY <3>1 DEF TypeOK
    <3> QED BY <2>1, <3>1, <3>4, <3>5 DEF RetireOrder, TypeOK
  <2>3. CASE GetActiveSigningKey # {}
    <3>1. UNCHANGED <<state, created, retireAt>>
      BY <1>1, <2>3 DEF NewSigner, table
    <3>2. GetActiveSigningKey' = GetActiveSigningKey
      BY <3>1 DEF GetActiveSigningKey, Newest
    <3> QED BY <2>1, <3>1, <3>2 DEF RetireOrder
  <2> QED BY <2>2, <2>3
<1>2. ASSUME NEW r \in Rotation, NEW k \in Key, LoadCurrent(r, k) PROVE RetireOrder'
  <2>1. /\ k \in GetActiveSigningKey /\ state[k] = "active"
        /\ pc' = [pc EXCEPT ![r] = "save"] /\ current' = [current EXCEPT ![r] = k]
        /\ overlapped' = (overlapped \/ \E s \in Rotation : pc[s] # "idle")
        /\ UNCHANGED <<state, created, retireAt, now, until>>
        /\ GetActiveSigningKey' = GetActiveSigningKey
    BY <1>2, Current DEF LoadCurrent, table, GetActiveSigningKey, Newest
  <2> QED BY <2>1 DEF RetireOrder, TypeOK
<1>3. ASSUME NEW r \in Rotation, NEW k \in Key, SaveSigningKey(r, k) PROVE RetireOrder'
  <2>1. /\ pc[r] = "save" /\ state[k] = "absent"
        /\ state' = [state EXCEPT ![k] = "active"] /\ created' = [created EXCEPT ![k] = now]
        /\ pc' = [pc EXCEPT ![r] = "install"]
        /\ UNCHANGED <<retireAt, now, current, until, overlapped>>
        /\ \A s \in Rotation : pc[s] # "idle" => s = r
    BY <1>3 DEF SaveSigningKey, Inserted, history, OneCall
  <2>2. \A j \in Key : created'[j] <= now /\ created'[k] = now /\ state'[k] = "active"
    BY <2>1 DEF TypeOK, ClockInv
  <2>3. \A i \in GetActiveSigningKey' : i \in Key /\ created'[k] <= created'[i]
    BY <2>2, <2>1 DEF GetActiveSigningKey, Newest, TypeOK
  <2>4. \A i \in GetActiveSigningKey', j \in Key : created'[j] <= created'[i]
    <3>1. \A j \in Key : created'[j] \in Nat
      BY <2>1 DEF TypeOK
    <3> QED BY <2>2, <2>3, <3>1 DEF TypeOK
  <2>5. \A j \in Key : j # k => state'[j] = state[j] /\ created'[j] = created[j]
    BY <2>1 DEF TypeOK
  <2>6. current[r] \in Key /\ current[r] # k
    BY <2>1 DEF CallInv
  <2> QED BY <2>1, <2>2, <2>4, <2>5, <2>6 DEF RetireOrder, TypeOK
<1>4. ASSUME NEW r \in Rotation, SetActiveKey(r) PROVE RetireOrder'
  <2>1. /\ pc[r] = "install" /\ pc' = [pc EXCEPT ![r] = "retire"]
        /\ until' = [until EXCEPT ![r] = now + Grace]
        /\ UNCHANGED <<state, created, retireAt, now, current, overlapped>>
        /\ GetActiveSigningKey' = GetActiveSigningKey
    BY <1>4 DEF SetActiveKey, table, GetActiveSigningKey, Newest
  <2> QED BY <2>1 DEF RetireOrder, TypeOK
<1>5. ASSUME NEW r \in Rotation, RetireSigningKey(r) PROVE RetireOrder'
  <2> DEFINE c == current[r]
  <2>1. /\ pc[r] = "retire" /\ c \in Key
        /\ state' = [state EXCEPT ![c] = "retired"] /\ retireAt' = [retireAt EXCEPT ![c] = until[r]]
        /\ pc' = [pc EXCEPT ![r] = "idle"] /\ ~overlapped
        /\ UNCHANGED <<created, now>>
        /\ \A s \in Rotation : pc[s] # "idle" => s = r
    BY <1>5 DEF RetireSigningKey, Return, history, CallInv, OneCall
  <2>2. /\ fresh[r] = signer /\ fresh[r] # c /\ signer \in GetActiveSigningKey
        /\ state[signer] = "active" /\ signer \in Key
    BY <2>1 DEF RetireInv, CallInv, SignerInv, GetActiveSigningKey, Newest
  <2>3. \A j \in Key : state[j] # "absent" => created[j] <= created[signer]
    BY <2>1, <2>2 DEF RetireOrder
  <2>4. \A i \in GetActiveSigningKey' : i \in Key /\ created[signer] <= created[i]
    BY <2>1, <2>2 DEF GetActiveSigningKey, Newest, TypeOK
  <2>5. \A j \in Key : state'[j] # "absent" => state[j] # "absent"
    BY <2>1 DEF CallInv, TypeOK
  <2>6. \A i \in GetActiveSigningKey', j \in Key : state'[j] # "absent" => created'[j] <= created'[i]
    <3>1. \A j \in Key : created[j] \in Nat
      BY DEF TypeOK
    <3> QED BY <2>1, <2>2, <2>3, <2>4, <2>5, <3>1
  <2>7. /\ until[r] <= now + Grace /\ until[r] \in Nat
        /\ \A j \in Key : state[j] = "retired" =>
             created[j] <= created[c] /\ retireAt[j] <= until[r] /\ retireAt[j] <= now + Grace
    BY <2>1 DEF RetireOrder, TypeOK
  <2>8. \A j \in Key : IF j = c THEN state'[j] = "retired" /\ retireAt'[j] = until[r]
                                ELSE state'[j] = state[j] /\ retireAt'[j] = retireAt[j]
    BY <2>1 DEF TypeOK
  <2>9. \A j \in Key : state'[j] = "retired" => retireAt'[j] <= now + Grace
    BY <2>7, <2>8
  <2>10. ASSUME NEW j \in Key, NEW k \in Key, state'[j] = "retired", state'[k] = "retired",
                created[j] < created[k]
         PROVE  retireAt'[j] <= retireAt'[k]
    <3>1. created[j] \in Nat /\ created[k] \in Nat /\ created[c] \in Nat
      BY <2>1 DEF TypeOK
    <3>2. CASE j = c
      <4>1. k # c /\ created[k] <= created[c]
        BY <2>7, <2>8, <2>10, <3>1, <3>2
      <4> QED BY <2>10, <3>1, <3>2, <4>1
    <3>3. CASE j # c /\ k = c
      BY <2>7, <2>8, <2>10, <3>3
    <3>4. CASE j # c /\ k # c
      BY <2>1, <2>8, <2>10, <3>4 DEF RetireOrder
    <3> QED BY <3>2, <3>3, <3>4
  <2>11. \A s \in Rotation : pc'[s] = "idle"
    BY <2>1 DEF TypeOK
  <2> HIDE DEF c
  <2> QED BY <2>1, <2>6, <2>9, <2>10, <2>11 DEF RetireOrder
<1>6. ASSUME NEW r \in Rotation, StoreErrs(r) PROVE RetireOrder'
  <2>1. /\ pc' = [pc EXCEPT ![r] = "idle"] /\ current' = [current EXCEPT ![r] = None]
        /\ until' = [until EXCEPT ![r] = 0]
        /\ UNCHANGED <<state, created, retireAt, now, overlapped>>
        /\ GetActiveSigningKey' = GetActiveSigningKey
    BY <1>6 DEF StoreErrs, Return, table, history, GetActiveSigningKey, Newest
  <2> QED BY <2>1 DEF RetireOrder, TypeOK
<1>7. CASE Crash
  <2>1. /\ pc' = [r \in Rotation |-> "idle"]
        /\ UNCHANGED <<state, created, retireAt, now, overlapped>>
        /\ GetActiveSigningKey' = GetActiveSigningKey
    BY <1>7 DEF Crash, table, GetActiveSigningKey, Newest
  <2> QED BY <2>1 DEF RetireOrder
<1>8. CASE Tick \/ UNCHANGED vars
  <2>0. now' \in Nat /\ now' >= now /\ now \in Nat /\ Grace \in Nat
    BY <1>8 DEF Tick, vars, TypeOK
  <2>1. /\ UNCHANGED <<state, created, retireAt, pc, current, until, overlapped>>
        /\ GetActiveSigningKey' = GetActiveSigningKey
    BY <1>8 DEF Tick, vars, table, call, history, TypeOK, GetActiveSigningKey, Newest
  <2>2. \A t \in Nat : t <= now + Grace => t <= now' + Grace
    <3>1. \A a, b, g, t \in Nat : b >= a /\ t <= a + g => t <= b + g
      OBVIOUS
    <3> QED BY <2>0, <3>1
  <2>3. \A j \in Key : state[j] = "retired" => retireAt[j] \in Nat
    BY DEF TypeOK
  <2>4. \A r \in Rotation : until[r] \in Nat
    BY DEF TypeOK
  <2> QED BY <2>0, <2>1, <2>2, <2>3, <2>4 DEF RetireOrder
<1>9. ASSUME NEW r \in Rotation, Rotate(r) PROVE RetireOrder'
  BY <1>2, <1>3, <1>4, <1>5, <1>6, <1>9 DEF Rotate
<1> QED BY <1>1, <1>7, <1>8, <1>9 DEF Next

LEMMA OrderHolds == Spec => [](IInv /\ RetireOrder)
<1>1. Init => IInv /\ RetireOrder
  BY Initially DEF Init, RetireOrder, GetActiveSigningKey, Newest
<1>2. IInv /\ RetireOrder /\ [Next]_vars => RetireOrder'
  BY OrderKept
<1> QED BY <1>1, <1>2, StepKeeps, PTL DEF Spec

\* As long as no two rotations overlapped, a retired key's deadline is no later than
\* that of any retired key created after it: the newest row
\* GetPreviousSigningKey finds is among the last to expire (keys.go, rotation.go).
THEOREM DeadlinesInOrder ==
  Spec => [](~overlapped => \A j, k \in Key :
               state[j] = "retired" /\ state[k] = "retired" /\ created[j] < created[k]
                 => retireAt[j] <= retireAt[k])
<1>1. RetireOrder => (~overlapped => \A j, k \in Key :
         state[j] = "retired" /\ state[k] = "retired" /\ created[j] < created[k]
           => retireAt[j] <= retireAt[k])
  BY DEF RetireOrder
<1> QED BY <1>1, OrderHolds, PTL

\* Of any keys there are, one is no older than the others: ORDER BY created_at
\* DESC LIMIT 1 finds a row where there is one.
LEMMA NewestExists ==
  ASSUME IInv, NEW S \in SUBSET Key, S # {}
  PROVE  Newest(S) # {}
<1> DEFINE age(k) == now - created[k]
           Ages   == {age(k) : k \in S}
<1>1. \A k \in S : created[k] \in Nat /\ created[k] <= now /\ now \in Nat /\ age(k) \in Nat
  <2>1. now \in Nat /\ \A k \in S : created[k] \in Nat /\ created[k] <= now
    BY DEF IInv, TypeOK, ClockInv
  <2>2. \A a, b \in Nat : a <= b => b - a \in Nat
    OBVIOUS
  <2> QED BY <2>1, <2>2
<1>2. Ages \subseteq Nat /\ Ages # {}
  BY <1>1
<1>3. IsWellFoundedOn(OpToRel(<, Nat), Nat)
  BY NatLessThanWellFounded, Zenon
<1>4. PICK n \in Ages : \A i \in Ages : ~(<<i, n>> \in OpToRel(<, Nat))
  BY <1>2, <1>3, WFMin, Zenon
<1>5. \A i \in Ages : ~(i < n)
  BY <1>2, <1>4 DEF OpToRel
<1>6. PICK k \in S : n = age(k)
  OBVIOUS
<1>7. \A j \in S : created[j] <= created[k]
  <2> SUFFICES ASSUME NEW j \in S PROVE created[j] <= created[k]
    OBVIOUS
  <2>1. ~(age(j) < age(k))
    BY <1>5, <1>6
  <2> QED BY <1>1, <2>1
<1> QED BY <1>7 DEF Newest

\* A retired key stays so, with its deadline unless rotations overlapped, and no
\* row changes while the clock moves.
LEMMA RowsMove ==
  ASSUME IInv, RetireOrder, Next
  PROVE  /\ now \in Nat /\ now' \in Nat /\ now <= now'
         /\ overlapped => overlapped'
         /\ UNCHANGED <<state, created, retireAt>> \/ now' = now
         /\ \A k \in Key : state[k] = "retired" =>
              state'[k] = "retired" /\ (~overlapped => retireAt'[k] = retireAt[k])
<1> USE KeyAssumption DEF IInv
<1>1. ASSUME NEW k \in Key, NewSigner(k)
      PROVE  /\ UNCHANGED <<now, overlapped>>
             /\ \A j \in Key : state[j] = "retired" => state'[j] = "retired" /\ retireAt'[j] = retireAt[j]
  BY <1>1 DEF NewSigner, Inserted, table, history, TypeOK
<1>2. ASSUME NEW r \in Rotation, NEW k \in Key, SaveSigningKey(r, k)
      PROVE  /\ UNCHANGED <<now, overlapped>>
             /\ \A j \in Key : state[j] = "retired" => state'[j] = "retired" /\ retireAt'[j] = retireAt[j]
  BY <1>2 DEF SaveSigningKey, Inserted, history, TypeOK
<1>3. ASSUME NEW r \in Rotation, RetireSigningKey(r)
      PROVE  /\ UNCHANGED <<now, overlapped>>
             /\ \A j \in Key : state[j] = "retired" =>
                  state'[j] = "retired" /\ (~overlapped => retireAt'[j] = retireAt[j])
  BY <1>3 DEF RetireSigningKey, history, TypeOK, CallInv, RetireOrder
<1>4. ASSUME NEW r \in Rotation,
             (\E k \in Key : LoadCurrent(r, k)) \/ SetActiveKey(r) \/ StoreErrs(r)
      PROVE  /\ UNCHANGED <<state, created, retireAt, now>>
             /\ overlapped => overlapped'
  <2>1. ASSUME NEW k \in Key, LoadCurrent(r, k)
        PROVE  UNCHANGED <<state, created, retireAt, now>> /\ (overlapped => overlapped')
    BY <2>1, Zenon DEF LoadCurrent, table
  <2>2. CASE SetActiveKey(r)
    BY <2>2, Zenon DEF SetActiveKey, table
  <2>3. CASE StoreErrs(r)
    BY <2>3, Zenon DEF StoreErrs, table, history
  <2> QED BY <1>4, <2>1, <2>2, <2>3
<1>5. CASE Crash
  BY <1>5 DEF Crash, table, TypeOK
<1>6. CASE Tick
  BY <1>6 DEF Tick, table, history, TypeOK
<1>7. now \in Nat
  BY DEF TypeOK
<1> QED BY <1>1, <1>2, <1>3, <1>4, <1>5, <1>6, <1>7 DEF Next, Rotate
=============================================================================
