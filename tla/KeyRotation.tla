---------------------------- MODULE KeyRotation ----------------------------
(***************************************************************************)
(* The signing keys of one cdampd instance: rows of signing_keys, the copy *)
(* of the active key the signer holds in memory, and POST                  *)
(* /admin/keys/rotate requests, each a goroutine whose store calls and     *)
(* whose switch of the signer are separate steps.                          *)
(*                                                                         *)
(* created_at and retire_at are seconds.  Key material is its kid.         *)
(***************************************************************************)
EXTENDS Naturals

CONSTANTS
  Key,       \* bound: the keys that may ever be generated
  Rotation,  \* concurrent rotate requests
  Grace,     \* key_rotation_grace
  Faults,    \* "store": a statement may fail; "crash": the process may die
  MaxTime,   \* bound: the clock stops here
  None

ASSUME KeyAssumption ==
  /\ Grace \in Nat
  /\ Faults \subseteq {"store", "crash"}
  /\ MaxTime \in Nat
  /\ None \notin Key
  /\ None \notin Nat

VARIABLES
  \* the columns of signing_keys
  state, created, retireAt,
  \* the process, its clock, and the key its signer signs with
  daemon, now, signer,
  \* each Rotate call: the next statement, the key it found active, the key
  \* it generated, and the retire_at it computed
  pc, current, fresh, until,
  \* history: when the signer last let go of a key, and whether two Rotate
  \* calls were ever under way at once
  usedUntil, overlapped

table   == <<state, created, retireAt>>
call    == <<pc, current, fresh, until>>
history == <<usedUntil, overlapped>>
vars    == <<table, daemon, now, signer, call, history>>

TypeOK ==
  /\ state \in [Key -> {"absent", "active", "retired"}]
  /\ created \in [Key -> Nat]
  /\ retireAt \in [Key -> Nat \cup {None}]
  /\ daemon \in {"up", "down"}
  /\ now \in Nat
  /\ signer \in Key \cup {None}
  /\ pc \in [Rotation -> {"idle", "save", "install", "retire"}]
  /\ current \in [Rotation -> Key \cup {None}]
  /\ fresh \in [Rotation -> Key \cup {None}]
  /\ until \in [Rotation -> Nat]
  /\ usedUntil \in [Key -> Nat \cup {None}]
  /\ overlapped \in BOOLEAN
  /\ \A k \in Key : state[k] = "retired" <=> retireAt[k] # None

Init ==
  /\ state = [k \in Key |-> "absent"]
  /\ created = [k \in Key |-> 0]
  /\ retireAt = [k \in Key |-> None]
  /\ daemon = "down"
  /\ now = 0
  /\ signer = None
  /\ pc = [r \in Rotation |-> "idle"]
  /\ current = [r \in Rotation |-> None]
  /\ fresh = [r \in Rotation |-> None]
  /\ until = [r \in Rotation |-> 0]
  /\ usedUntil = [k \in Key |-> None]
  /\ overlapped = FALSE

\* The rows ORDER BY created_at DESC LIMIT 1 may return: the newest, any of
\* them when several were created within one second.
Newest(S) == {k \in S : \A j \in S : created[j] <= created[k]}

GetActiveSigningKey == Newest({k \in Key : state[k] = "active"})

\* retire_at itself is already outside the grace period.
GetPreviousSigningKey ==
  Newest({k \in Key : state[k] = "retired" /\ retireAt[k] > now})

\* What GET /.well-known/cdamp/keys may answer.
Published == GetActiveSigningKey \cup GetPreviousSigningKey

\* Mutant: the new row is inserted inactive, to be activated later.
Inserted_Inactive(k) ==
  /\ state[k] = "absent"
  /\ state' = [state EXCEPT ![k] = IF daemon = "down" THEN "active" ELSE "retired"]
  /\ retireAt' = [retireAt EXCEPT ![k] = IF daemon = "down" THEN None ELSE now]
  /\ created' = [created EXCEPT ![k] = now]

\* SaveSigningKey inserts an active row created now.
Inserted(k) ==
  /\ state[k] = "absent"
  /\ state' = [state EXCEPT ![k] = "active"]
  /\ created' = [created EXCEPT ![k] = now]
  /\ UNCHANGED retireAt

\* The daemon starts: NewSigner loads the active key, or makes the first one.
NewSigner(k) ==
  /\ daemon = "down"
  /\ daemon' = "up"
  /\ signer' = k
  /\ IF GetActiveSigningKey = {}
     THEN Inserted(k)
     ELSE k \in GetActiveSigningKey /\ UNCHANGED table
  /\ UNCHANGED <<now, call, history>>

\* Rotate reads the key it is going to replace.  (Bound: no call starts once
\* every key has been used.)
LoadCurrent(r, k) ==
  /\ daemon = "up"
  /\ \E unused \in Key : state[unused] = "absent"
  /\ pc[r] = "idle"
  /\ k \in GetActiveSigningKey
  /\ pc' = [pc EXCEPT ![r] = "save"]
  /\ current' = [current EXCEPT ![r] = k]
  /\ overlapped' = (overlapped \/ \E s \in Rotation : pc[s] # "idle")
  /\ UNCHANGED <<table, daemon, now, signer, fresh, until, usedUntil>>

SaveSigningKey(r, k) ==
  /\ pc[r] = "save"
  /\ Inserted(k)
  /\ pc' = [pc EXCEPT ![r] = "install"]
  /\ fresh' = [fresh EXCEPT ![r] = k]
  /\ UNCHANGED <<daemon, now, signer, current, until, history>>

\* Mutant: the live signer is not told.
SetActiveKey_Forgotten(r) ==
  /\ pc[r] = "install"
  /\ until' = [until EXCEPT ![r] = now + Grace]
  /\ pc' = [pc EXCEPT ![r] = "retire"]
  /\ UNCHANGED <<table, daemon, now, signer, current, fresh, history>>

\* Mutant: retire_at counts from the old key's creation.
SetActiveKey_GraceFromCreation(r) ==
  /\ pc[r] = "install"
  /\ usedUntil' = [usedUntil EXCEPT ![signer] = now]
  /\ signer' = fresh[r]
  /\ until' = [until EXCEPT ![r] = created[current[r]] + Grace]
  /\ pc' = [pc EXCEPT ![r] = "retire"]
  /\ UNCHANGED <<table, daemon, now, current, fresh, overlapped>>

\* The signer switches, under its lock, and retire_at is computed.
SetActiveKey(r) ==
  /\ pc[r] = "install"
  /\ usedUntil' = [usedUntil EXCEPT ![signer] = now]
  /\ signer' = fresh[r]
  /\ until' = [until EXCEPT ![r] = now + Grace]
  /\ pc' = [pc EXCEPT ![r] = "retire"]
  /\ UNCHANGED <<table, daemon, now, current, fresh, overlapped>>

Return(r) ==
  /\ pc' = [pc EXCEPT ![r] = "idle"]
  /\ current' = [current EXCEPT ![r] = None]
  /\ fresh' = [fresh EXCEPT ![r] = None]
  /\ until' = [until EXCEPT ![r] = 0]

\* Mutant: 'active' is cleared and retire_at forgotten.
RetireSigningKey_NoDeadline(r) ==
  /\ pc[r] = "retire"
  /\ state' = [state EXCEPT ![current[r]] = "retired"]
  /\ Return(r)
  /\ UNCHANGED <<created, retireAt, daemon, now, signer, history>>

\* The UPDATE carries no condition: a second call overwrites the first.
RetireSigningKey(r) ==
  /\ pc[r] = "retire"
  /\ state' = [state EXCEPT ![current[r]] = "retired"]
  /\ retireAt' = [retireAt EXCEPT ![current[r]] = until[r]]
  /\ Return(r)
  /\ UNCHANGED <<created, daemon, now, signer, history>>

\* SaveSigningKey or RetireSigningKey fails, for instance because the client
\* has gone: Rotate returns the error and undoes nothing.
StoreErrs(r) ==
  /\ "store" \in Faults
  /\ pc[r] \in {"save", "retire"}
  /\ Return(r)
  /\ UNCHANGED <<table, daemon, now, signer, history>>

Rotate(r) ==
  \/ \E k \in Key : LoadCurrent(r, k) \/ SaveSigningKey(r, k)
  \/ SetActiveKey(r)
  \/ RetireSigningKey(r)
  \/ StoreErrs(r)

Crash ==
  /\ "crash" \in Faults
  /\ daemon = "up"
  /\ daemon' = "down"
  /\ usedUntil' = [usedUntil EXCEPT ![signer] = now]
  /\ signer' = None
  /\ pc' = [r \in Rotation |-> "idle"]
  /\ current' = [r \in Rotation |-> None]
  /\ fresh' = [r \in Rotation |-> None]
  /\ until' = [r \in Rotation |-> 0]
  /\ UNCHANGED <<table, now, overlapped>>

Tick ==
  /\ now < MaxTime
  /\ now' = now + 1
  /\ UNCHANGED <<table, daemon, signer, call, history>>

Next ==
  \/ \E k \in Key : NewSigner(k)
  \/ \E r \in Rotation : Rotate(r)
  \/ Crash
  \/ Tick

Spec == Init /\ [][Next]_vars

-----------------------------------------------------------------------------
(* Safety *)

\* However rotations overlap, fail half way or are cut off by a crash, some key
\* is active, so the daemon always has a key to sign with and to publish
\* (rotation.go: "at every observable instant ... at least one active=1 row").
AlwaysAnActiveKey ==
  daemon = "up" => \E k \in Key : state[k] = "active"

\* Another active key was created in the same second as the signer's: its
\* retirement is still to come, or failed.
Tied == \E k \in Key \ {signer} : state[k] = "active" /\ created[k] = created[signer]

\* Unless two rotations overlapped, the key the signer signs with is the only
\* one the discovery endpoints can give as current, failed and crashed rotations
\* included: except from a rotation's insert to its switch of the signer, when it
\* is the new key, and in a tie, when it may be the other one.
SignerPublished ==
  daemon = "up" /\ ~overlapped /\ ~Tied /\ (\A r \in Rotation : pc[r] # "install")
    => GetActiveSigningKey = {signer}

\* Another retired key is in its grace too and is no older: discovery has room for
\* one previous key and may name that one.
Supplanted(k) == \E j \in Key \ {k} :
  state[j] = "retired" /\ retireAt[j] > now /\ created[j] >= created[k]

\* Unless two rotations overlapped, a retired key is no longer in use, and for the
\* whole grace period after the last moment it was it is the one key discovery can
\* give as previous, until the next one retired within that period supplants it.
GraceHonoured ==
  ~overlapped => \A k \in Key : state[k] = "retired" =>
    /\ k # signer
    /\ usedUntil[k] # None /\ now < usedUntil[k] + Grace /\ ~Supplanted(k)
         => GetPreviousSigningKey = {k}

\* A retired key does not sign (README.md, on rotation: the new key is used for
\* outbound signing immediately, only verifying gets a grace period).
RetiredNeverSigns == daemon = "up" => state[signer] # "retired"
=============================================================================
