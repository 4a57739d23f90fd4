---------------------------- MODULE InstanceProofs ----------------------------
(***************************************************************************)
(* Proofs of Instance's invariants, for any number of requests, agents,    *)
(* tokens and boots.                                                       *)
(***************************************************************************)
EXTENDS Instance, TLAPS

\* What a list of the admin API will have to show.
Due(op) == CASE op = "get_agents"    -> Names(agents)
             [] op = "get_blocklist" -> blocked
             [] OTHER                       -> {}

\* A request under way: it bears one of the tokens drawn and has been as far as its
\* step says,
Formed(c) ==
  /\ c \in Call
  /\ c.name \in Naming(c.op)
  /\ c.token \in 1 .. drawn
  /\ c.step # "answer" => c.code = 0
  /\ c.step = "auth" => c.agent = None
  /\ c.op \in Route.main /\ c.step = "handle" => c.agent \in Name

\* acts for nobody but its agent,
ActsRightly(c) ==
  c.op \in Route.main =>
    \A a \in agents : a.hash = Hash(c.token) => c.agent \in {None, a.name} /\ c.code # 401

\* has what it made in the tables,
Made(c) ==
  /\ c.op = "post_agents" /\ c.code = 201 =>
       c.made \in 1 .. drawn /\ [name |-> c.name, hash |-> Hash(c.made)] \in agents
  /\ c.op = "post_blocklist" /\ c.code = 201 => c.name \in blocked

\* and lists what is in them.
ListsRightly(c) ==
  /\ c.before \subseteq Due(c.op)
  /\ c.op \in Route.admin /\ c.code = 200 =>
       c.before \subseteq c.list /\ c.list \subseteq Names(agents) \cup blocked

CallOK(c) == Formed(c) /\ ActsRightly(c) /\ Made(c) /\ ListsRightly(c)

CallsInv == \A r \in Request : req[r] # None => CallOK(req[r])

\* Names and hashes are unique in the agents table, no hash is also the admin
\* credential's, and what was acknowledged is there.
TableInv ==
  /\ \A a, b \in agents : a.name = b.name \/ a.hash = b.hash => a = b
  /\ \A a \in agents : a.hash \notin cred
  /\ \A g \in given : [name |-> g.name, hash |-> Hash(g.token)] \in agents
  /\ acked \subseteq blocked

\* Where run() is says what is set up and who is being served.
StageInv ==
  /\ stage \in Booting \cup {"down"} =>
       /\ \A s \in Side : server[s] = "new"
       /\ \A r \in Request : req[r] = None
       /\ missed = {}
  /\ stage \notin {"down", "signer"} => key
  /\ stage \in {"serve", "closed"} \cup Draining => cred # {}
  /\ stage = "save" => cred = {}
  /\ stage = "print" => cred = {Hash(drawn)} /\ shown = {}

\* A server that is shut and did not give up on its requests has none.
DrainInv ==
  /\ stage \in Draining \cup {"closed"} => server["main"] = "shut"
  /\ stage \in {"drain_admin", "closed"} => server["admin"] = "shut"
  /\ stage \in {"drain_admin", "closed"} /\ "main" \notin missed => InFlight("main") = {}
  /\ stage = "closed" /\ "admin" \notin missed => InFlight("admin") = {}

InstanceInv ==
  TypeOK /\ CallsInv /\ TableInv /\ StageInv /\ CredentialKnown /\ DrainInv

-----------------------------------------------------------------------------
(* Initially *)

LEMMA InstanceStarts == Init => InstanceInv
<1> SUFFICES ASSUME Init PROVE InstanceInv
  OBVIOUS
<1>1. TypeOK
  BY DEF Init, TypeOK, Stage
<1>2. CallsInv /\ TableInv /\ StageInv /\ CredentialKnown /\ DrainInv
  BY DEF Init, CallsInv, TableInv, StageInv, Booting, Draining, Side, CredentialKnown, DrainInv
<1> QED BY <1>1, <1>2 DEF InstanceInv

-----------------------------------------------------------------------------
(* The requests, whatever run() does *)

LEMMA HashInjective == \A t, u : Hash(t) = Hash(u) => t = u
BY DEF Hash

\* The tables and the tokens as they are, or grown by fresh ones.
Grown ==
  /\ drawn \in Nat /\ drawn' \in Nat /\ drawn <= drawn'
  /\ agents \subseteq agents' /\ blocked \subseteq blocked'
  /\ \A a \in agents' \ agents : \E t \in Nat : t > drawn /\ a.hash = Hash(t)

\* A call stays right while they only grow: a new agent has a new token.
LEMMA CallStays == ASSUME NEW c, CallOK(c), Grown PROVE CallOK(c)'
<1> USE DEF Grown
<1>1. Formed(c) /\ ActsRightly(c) /\ Made(c) /\ ListsRightly(c)
  BY DEF CallOK
<1>2. \A t \in 1 .. drawn : t \in 1 .. drawn'
  OBVIOUS
<1>3. ASSUME NEW a \in agents', a.hash = Hash(c.token) PROVE a \in agents
  <2>1. c.token \in 1 .. drawn
    BY <1>1 DEF Formed
  <2> SUFFICES ASSUME a \notin agents PROVE FALSE
    OBVIOUS
  <2>2. PICK t \in Nat : t > drawn /\ a.hash = Hash(t)
    OBVIOUS
  <2>3. t = c.token
    BY <1>3, <2>2, HashInjective
  <2> QED BY <2>1, <2>2, <2>3
<1>4. Formed(c)'
  BY <1>1, <1>2 DEF Formed
<1>5. ActsRightly(c)'
  BY <1>1, <1>3 DEF ActsRightly
<1>6. Made(c)'
  <2>1. c.op = "post_agents" /\ c.code = 201 =>
          c.made \in 1 .. drawn' /\ [name |-> c.name, hash |-> Hash(c.made)] \in agents'
    BY <1>1, <1>2 DEF Made
  <2>2. c.op = "post_blocklist" /\ c.code = 201 => c.name \in blocked'
    BY <1>1 DEF Made
  <2> QED BY <2>1, <2>2 DEF Made
<1>7. ListsRightly(c)'
  <2>1. Names(agents) \subseteq Names(agents')
    BY DEF Names
  <2>2. Due(c.op) \subseteq Due(c.op)'
    BY <2>1 DEF Due
  <2> QED BY <1>1, <2>1, <2>2 DEF ListsRightly
<1> QED BY <1>4, <1>5, <1>6, <1>7 DEF CallOK

Calls == [Request -> Call \cup {None}]

LEMMA CallsStay ==
  ASSUME CallsInv, Grown, UNCHANGED req
  PROVE  CallsInv'
BY CallStays DEF CallsInv

\* So do all the others when one is over or goes on rightly.
LEMMA CallGoesOn ==
  ASSUME CallsInv, Grown, req \in Calls,
         NEW r \in Request, NEW d, req' = [req EXCEPT ![r] = d], d = None \/ CallOK(d)'
  PROVE  CallsInv' /\ req' \in Calls
<1>1. req' \in Calls
  BY DEF Calls, CallOK, Formed
<1>2. ASSUME NEW q \in Request, req'[q] # None, q # r PROVE CallOK(req[q])'
  <2>1. req'[q] = req[q]
    BY <1>2 DEF Calls
  <2> QED BY <2>1, <1>2, CallStays DEF CallsInv
<1>3. req'[r] = d
  BY DEF Calls
<1> QED BY <1>1, <1>2, <1>3 DEF CallsInv

-----------------------------------------------------------------------------
(* One call goes on *)

\* A call that has not been authenticated is, as the agent whose token it bears
\* if the route is an agent's.
LEMMA Authenticated ==
  ASSUME NEW c, CallOK(c)', c.step = "auth", NEW a \in Name \cup {None},
         c.op \in Route.main =>
           a \in Name /\ \A b \in agents' : b.hash = Hash(c.token) => a = b.name
  PROVE  CallOK([c EXCEPT !.step = "handle", !.agent = a])'
<1> DEFINE e == [c EXCEPT !.step = "handle"]
           d == [e EXCEPT !.agent = a]
<1>0. [c EXCEPT !.step = "handle", !.agent = a] = d
  BY Zenon
<1>1. Formed(c)' /\ ListsRightly(c)'
  BY DEF CallOK
<1>2. c \in Call /\ c.code = 0
  BY <1>1 DEF Formed
<1>3. d \in Call
  <2>1. e \in Call
    BY <1>2 DEF Call
  <2> HIDE DEF e
  <2> QED BY <2>1 DEF Call
<1>4. /\ d.op = c.op /\ d.name = c.name /\ d.token = c.token /\ d.agent = a
      /\ d.made = c.made /\ d.list = c.list /\ d.before = c.before
      /\ d.step = "handle" /\ d.code = 0
  BY <1>2 DEF Call
<1> HIDE DEF d
<1>5. Formed(d)'
  BY <1>1, <1>3, <1>4 DEF Formed
<1>6. ActsRightly(d)'
  BY <1>4 DEF ActsRightly
<1>7. Made(d)'
  BY <1>4 DEF Made
<1>8. ListsRightly(d)'
  BY <1>1, <1>4 DEF ListsRightly
<1>9. CallOK(d)'
  BY <1>5, <1>6, <1>7, <1>8 DEF CallOK
<1> QED BY <1>0, <1>9

\* A call is answered without a list or a token: refused only if its token is no
\* agent's, and with a 201 only for what is in the tables.
LEMMA Replied ==
  ASSUME NEW c, CallOK(c)', NEW d \in Call,
         d.op = c.op, d.name = c.name, d.token = c.token, d.agent = c.agent,
         d.made = c.made, d.list = c.list, d.before = c.before, d.step = "answer",
         d.code \in {201, 202, 401},
         d.code = 401 /\ c.op \in Route.main => \A a \in agents' : a.hash # Hash(c.token),
         d.code = 201 => c.op = "post_blocklist" /\ c.name \in blocked'
  PROVE  CallOK(d)'
<1>1. Formed(c)' /\ ActsRightly(c)' /\ ListsRightly(c)'
  BY DEF CallOK
<1>2. Formed(d)'
  BY <1>1 DEF Formed
<1>3. ActsRightly(d)'
  <2> SUFFICES ASSUME d.op \in Route.main, NEW a \in agents', a.hash = Hash(d.token)
               PROVE  d.agent \in {None, a.name} /\ d.code # 401
    BY DEF ActsRightly
  <2>1. c.op \in Route.main /\ a.hash = Hash(c.token)
    OBVIOUS
  <2>2. c.agent \in {None, a.name}
    BY <1>1, <2>1 DEF ActsRightly
  <2> QED BY <2>1, <2>2
<1>4. Made(d)'
  BY DEF Made
<1>5. ListsRightly(d)'
  <2>1. c.before \subseteq Due(c.op)'
    BY <1>1 DEF ListsRightly
  <2> QED BY <2>1 DEF ListsRightly
<1> QED BY <1>2, <1>3, <1>4, <1>5 DEF CallOK

LEMMA Refused ==
  ASSUME NEW c, CallOK(c)',
         c.op \in Route.main => \A a \in agents' : a.hash # Hash(c.token)
  PROVE  CallOK([c EXCEPT !.step = "answer", !.code = 401])'
<1> DEFINE e == [c EXCEPT !.step = "answer"]
           d == [e EXCEPT !.code = 401]
<1>0. [c EXCEPT !.step = "answer", !.code = 401] = d
  BY Zenon
<1>1. c \in Call
  BY DEF CallOK, Formed
<1>2. d \in Call
  <2>1. e \in Call
    BY <1>1 DEF Call
  <2> HIDE DEF e
  <2> QED BY <2>1 DEF Call
<1>3. /\ d.op = c.op /\ d.name = c.name /\ d.token = c.token /\ d.agent = c.agent
      /\ d.made = c.made /\ d.list = c.list /\ d.before = c.before
      /\ d.step = "answer" /\ d.code = 401
  BY <1>1 DEF Call
<1> HIDE DEF d
<1>4. CallOK(d)'
  BY <1>2, <1>3, Replied
<1> QED BY <1>0, <1>4

LEMMA Taken ==
  ASSUME NEW c, CallOK(c)'
  PROVE  CallOK([c EXCEPT !.step = "answer", !.code = 202])'
<1> DEFINE e == [c EXCEPT !.step = "answer"]
           d == [e EXCEPT !.code = 202]
<1>0. [c EXCEPT !.step = "answer", !.code = 202] = d
  BY Zenon
<1>1. c \in Call
  BY DEF CallOK, Formed
<1>2. d \in Call
  <2>1. e \in Call
    BY <1>1 DEF Call
  <2> HIDE DEF e
  <2> QED BY <2>1 DEF Call
<1>3. /\ d.op = c.op /\ d.name = c.name /\ d.token = c.token /\ d.agent = c.agent
      /\ d.made = c.made /\ d.list = c.list /\ d.before = c.before
      /\ d.step = "answer" /\ d.code = 202
  BY <1>1 DEF Call
<1> HIDE DEF d
<1>4. CallOK(d)'
  BY <1>2, <1>3, Replied
<1> QED BY <1>0, <1>4

LEMMA Saved ==
  ASSUME NEW c, CallOK(c)', c.op = "post_blocklist", c.name \in blocked'
  PROVE  CallOK([c EXCEPT !.step = "answer", !.code = 201])'
<1> DEFINE e == [c EXCEPT !.step = "answer"]
           d == [e EXCEPT !.code = 201]
<1>0. [c EXCEPT !.step = "answer", !.code = 201] = d
  BY Zenon
<1>1. c \in Call
  BY DEF CallOK, Formed
<1>2. d \in Call
  <2>1. e \in Call
    BY <1>1 DEF Call
  <2> HIDE DEF e
  <2> QED BY <2>1 DEF Call
<1>3. /\ d.op = c.op /\ d.name = c.name /\ d.token = c.token /\ d.agent = c.agent
      /\ d.made = c.made /\ d.list = c.list /\ d.before = c.before
      /\ d.step = "answer" /\ d.code = 201
  BY <1>1 DEF Call
<1> HIDE DEF d
<1>4. CallOK(d)'
  BY <1>2, <1>3, Replied
<1> QED BY <1>0, <1>4

\* A list is answered with at least what was due when it was asked for.
LEMMA Listed ==
  ASSUME NEW c, CallOK(c)', NEW l \in SUBSET (Name \cup Domain),
         c.op \in Route.admin =>
           c.before \subseteq l /\ l \subseteq (Names(agents) \cup blocked)'
  PROVE  CallOK([c EXCEPT !.step = "answer", !.code = 200, !.list = l])'
<1> DEFINE e == [c EXCEPT !.step = "answer"]
           f == [e EXCEPT !.code = 200]
           d == [f EXCEPT !.list = l]
<1>0. [c EXCEPT !.step = "answer", !.code = 200, !.list = l] = d
  BY Zenon
<1>1. Formed(c)' /\ ActsRightly(c)' /\ ListsRightly(c)'
  BY DEF CallOK
<1>2. c \in Call
  BY <1>1 DEF Formed
<1>3. d \in Call
  <2>1. e \in Call
    BY <1>2 DEF Call
  <2>2. f \in Call
    <3> HIDE DEF e
    <3> QED BY <2>1 DEF Call
  <2> HIDE DEF f
  <2> QED BY <2>2 DEF Call
<1>4. /\ d.op = c.op /\ d.name = c.name /\ d.token = c.token /\ d.agent = c.agent
      /\ d.made = c.made /\ d.list = l /\ d.before = c.before
      /\ d.step = "answer" /\ d.code = 200
  BY <1>2 DEF Call
<1> HIDE DEF d
<1>5. Formed(d)'
  BY <1>1, <1>3, <1>4 DEF Formed
<1>6. ActsRightly(d)'
  BY <1>1, <1>4 DEF ActsRightly
<1>7. Made(d)'
  BY <1>4 DEF Made
<1>8. ListsRightly(d)'
  BY <1>1, <1>4 DEF ListsRightly
<1>9. CallOK(d)'
  BY <1>5, <1>6, <1>7, <1>8 DEF CallOK
<1> QED BY <1>0, <1>9

\* A 201 with the token of an agent that is in the table.
LEMMA Created ==
  ASSUME NEW c, CallOK(c)', c.op = "post_agents", NEW t \in Nat, t \in 1 .. drawn',
         [name |-> c.name, hash |-> Hash(t)] \in agents'
  PROVE  CallOK([c EXCEPT !.step = "answer", !.code = 201, !.made = t])'
<1> DEFINE e == [c EXCEPT !.step = "answer"]
           f == [e EXCEPT !.code = 201]
           d == [f EXCEPT !.made = t]
<1>0. [c EXCEPT !.step = "answer", !.code = 201, !.made = t] = d
  BY Zenon
<1>1. Formed(c)' /\ ListsRightly(c)'
  BY DEF CallOK
<1>2. c \in Call /\ c.op \notin Route.main
  BY <1>1 DEF Formed, Route
<1>3. d \in Call
  <2>1. e \in Call
    BY <1>2 DEF Call
  <2>2. f \in Call
    <3> HIDE DEF e
    <3> QED BY <2>1 DEF Call
  <2> HIDE DEF f
  <2> QED BY <2>2 DEF Call
<1>4. /\ d.op = c.op /\ d.name = c.name /\ d.token = c.token /\ d.agent = c.agent
      /\ d.made = t /\ d.list = c.list /\ d.before = c.before
      /\ d.step = "answer" /\ d.code = 201
  BY <1>2 DEF Call
<1> HIDE DEF d
<1>5. Formed(d)'
  BY <1>1, <1>2, <1>3, <1>4 DEF Formed
<1>6. ActsRightly(d)'
  BY <1>2, <1>4 DEF ActsRightly
<1>7. Made(d)'
  BY <1>4 DEF Made
<1>8. ListsRightly(d)'
  <2>1. c.before \subseteq Due(c.op)'
    BY <1>1 DEF ListsRightly
  <2> QED BY <1>4, <2>1 DEF ListsRightly
<1>9. CallOK(d)'
  BY <1>5, <1>6, <1>7, <1>8 DEF CallOK
<1> QED BY <1>0, <1>9

-----------------------------------------------------------------------------
(* All of them, step by step *)

LEMMA NothingGrew ==
  ASSUME TypeOK, UNCHANGED <<agents, blocked, drawn>>
  PROVE  Grown
BY DEF TypeOK, Grown

LEMMA CallsTyped == TypeOK => req \in Calls
BY DEF TypeOK, Calls

\* run() leaves the requests alone, or ends and takes them with it.
LEMMA RunKeepsCalls ==
  ASSUME TypeOK, CallsInv, Boot \/ Stop \/ Signal \/ Crash \/ \E s \in Side : Listen(s)
  PROVE  CallsInv' /\ req' \in Calls
<1>1. CASE Exit \/ Crash
  <2>1. req' = [r \in Request |-> None]
    BY <1>1 DEF Exit, Crash, Gone
  <2> QED BY <2>1 DEF CallsInv, Calls
<1>2. CASE ~(Exit \/ Crash)
  <2>1. UNCHANGED req /\ Grown
    <3>1. CASE SaveAdminCredential
      BY <3>1 DEF SaveAdminCredential, TypeOK, Grown
    <3>2. CASE ~SaveAdminCredential
      <4>1. UNCHANGED <<req, agents, blocked, drawn>>
        BY <1>2, <3>2 DEF Boot, Open, NewSigner, GetAdminCredential, ShowToken, BootFails, Stop,
             Expire, ShutdownMain, ShutdownAdmin, Signal, Listen, disk, history
      <4> QED BY <4>1, NothingGrew
    <3> QED BY <3>1, <3>2
  <2> QED BY <2>1, CallsStay, CallsTyped
<1> QED BY <1>1, <1>2

\* A token anybody has was drawn.
LEMMA KnownDrawn == ASSUME TypeOK, NEW t \in Known PROVE t \in 1 .. drawn
BY DEF TypeOK, Known

LEMMA ServeKeepsCalls ==
  ASSUME TypeOK, CallsInv, TableInv, NEW r \in Request, Serve(r)
  PROVE  CallsInv' /\ req' \in Calls
<1> SUFFICES ASSUME NEW c, c = req[r] PROVE CallsInv' /\ req' \in Calls
  OBVIOUS
<1>1. req \in Calls /\ (c # None => CallOK(c))
  BY CallsTyped DEF CallsInv
<1>2. c # None => c \in Call
  BY <1>1 DEF CallOK, Formed
<1>3. ASSUME UNCHANGED <<agents, blocked, drawn>>, c # None PROVE Grown /\ CallOK(c)'
  BY <1>1, <1>3, NothingGrew, CallStays
<1>4. ASSUME Grown, req' = [req EXCEPT ![r] = None] PROVE CallsInv' /\ req' \in Calls
  BY <1>1, <1>4, CallGoesOn
<1>5. ASSUME NEW s \in Side, NEW t \in Known, NEW op \in Route[s], NEW n \in Naming(op),
             Accept(r, s, op, t, n)
      PROVE  CallsInv' /\ req' \in Calls
  <2>1. op \in Op
    BY DEF Side, Route, Op
  <2>2. t \in 1 .. drawn /\ t \in Nat
    BY KnownDrawn DEF TypeOK
  <2>3. n \in Name \cup Domain \cup {None}
    BY DEF Naming
  <2>4. Expected(op) \subseteq Due(op) /\ Expected(op) \in SUBSET (Name \cup Domain)
    <3>1. Names(given) \subseteq Names(agents) /\ Names(given) \subseteq Name
      <4> SUFFICES ASSUME NEW g \in given PROVE g.name \in Names(agents) /\ g.name \in Name
        BY DEF Names
      <4>1. [name |-> g.name, hash |-> Hash(g.token)] \in agents
        BY DEF TableInv
      <4>2. \A a \in agents : a.name \in Names(agents)
        BY DEF Names
      <4> QED BY <4>1, <4>2 DEF TypeOK
    <3>2. acked \subseteq blocked /\ acked \subseteq Domain
      BY DEF TableInv, TypeOK
    <3> QED BY <3>1, <3>2 DEF Expected, Due
  <2> SUFFICES ASSUME NEW b, b = Expected(op) PROVE CallsInv' /\ req' \in Calls
    OBVIOUS
  <2> DEFINE d == [op |-> op, token |-> t, name |-> n, step |-> "auth", agent |-> None,
                   code |-> 0, made |-> 0, list |-> {}, before |-> b]
  <2>5. Grown /\ UNCHANGED <<agents, blocked, drawn>> /\ req' = [req EXCEPT ![r] = d]
    BY <1>5, NothingGrew DEF Accept, disk
  <2>6. d \in Call
    BY <2>1, <2>2, <2>3, <2>4 DEF Call
  <2>7. Formed(d)'
    BY <2>2, <2>5, <2>6 DEF Formed
  <2>8. ActsRightly(d)' /\ Made(d)'
    BY DEF ActsRightly, Made
  <2>9. ListsRightly(d)'
    <3>1. Due(op)' = Due(op)
      BY <2>5 DEF Due, Names
    <3> QED BY <2>4, <3>1 DEF ListsRightly
  <2>10. CallOK(d)'
    BY <2>7, <2>8, <2>9 DEF CallOK
  <2> HIDE DEF d
  <2> QED BY <1>1, <2>5, <2>10, CallGoesOn
<1>6. CASE BearerAuth(r)
  <2>1. /\ c # None /\ c.step = "auth" /\ c.op \in Route.main
        /\ Grown /\ CallOK(c)' /\ agents' = agents
    BY <1>3, <1>6 DEF BearerAuth, SideOf, disk
  <2> DEFINE mine == {a \in agents : a.hash = Hash(c.token)}
  <2>2. ASSUME NEW a \in mine, AuthAs(r, a.name) PROVE CallsInv' /\ req' \in Calls
    <3> SUFFICES ASSUME NEW n, n = a.name PROVE CallsInv' /\ req' \in Calls
      OBVIOUS
    <3> DEFINE d == [c EXCEPT !.step = "handle", !.agent = n]
    <3>1. n \in Name /\ \A b \in agents' : b.hash = Hash(c.token) => n = b.name
      BY <2>1 DEF TypeOK, TableInv
    <3>2. CallOK(d)'
      BY <2>1, <3>1, Authenticated
    <3>3. req' = [req EXCEPT ![r] = d]
      BY <2>2, ZenonT(60) DEF AuthAs
    <3> HIDE DEF d
    <3> QED BY <1>1, <2>1, <3>2, <3>3, CallGoesOn
  <2>3. ASSUME mine = {}, Reply(r, 401) PROVE CallsInv' /\ req' \in Calls
    <3> DEFINE d == [c EXCEPT !.step = "answer", !.code = 401]
    <3>1. \A a \in agents' : a.hash # Hash(c.token)
      BY <2>1, <2>3
    <3>2. CallOK(d)'
      BY <2>1, <3>1, Refused
    <3>3. req' = [req EXCEPT ![r] = d]
      BY <2>3, ZenonT(60) DEF Reply
    <3> HIDE DEF d
    <3> QED BY <1>1, <2>1, <3>2, <3>3, CallGoesOn
  <2>4. ASSUME Fail(r, 401) PROVE CallsInv' /\ req' \in Calls
    BY <1>4, <2>1, <2>4 DEF Fail
  <2> QED BY <1>6, <2>2, <2>3, <2>4 DEF BearerAuth
<1>7. CASE AdminAuth(r)
  <2>1. c # None /\ c.step = "auth" /\ c.op \notin Route.main /\ Grown /\ CallOK(c)'
    BY <1>3, <1>7 DEF AdminAuth, SideOf, disk
  <2>2. ASSUME AuthAs(r, None) PROVE CallsInv' /\ req' \in Calls
    <3> DEFINE d == [c EXCEPT !.step = "handle", !.agent = None]
    <3>1. CallOK(d)'
      BY <2>1, Authenticated
    <3>2. req' = [req EXCEPT ![r] = d]
      BY <2>2, ZenonT(60) DEF AuthAs
    <3> HIDE DEF d
    <3> QED BY <1>1, <2>1, <3>1, <3>2, CallGoesOn
  <2>3. ASSUME Reply(r, 401) PROVE CallsInv' /\ req' \in Calls
    <3> DEFINE d == [c EXCEPT !.step = "answer", !.code = 401]
    <3>1. CallOK(d)'
      BY <2>1, Refused
    <3>2. req' = [req EXCEPT ![r] = d]
      BY <2>3, ZenonT(60) DEF Reply
    <3> HIDE DEF d
    <3> QED BY <1>1, <2>1, <3>1, <3>2, CallGoesOn
  <2>4. ASSUME Fail(r, 401) PROVE CallsInv' /\ req' \in Calls
    BY <1>4, <2>1, <2>4 DEF Fail
  <2> QED BY <1>7, <2>2, <2>3, <2>4 DEF AdminAuth
<1>8. CASE HandlerFails(r)
  BY <1>3, <1>4, <1>8 DEF HandlerFails, Fail, disk
<1>9. CASE AgentsMe(r)
  <2>1. c # None /\ c.step = "handle" /\ c.op = "get_agents_me" /\ Grown /\ CallOK(c)'
    BY <1>3, <1>9 DEF AgentsMe, Handling, disk
  <2> DEFINE d == [c EXCEPT !.step = "answer", !.code = 200, !.list = {c.agent}]
  <2>2. c.op \in Route.main /\ c.op \notin Route.admin
    BY <2>1 DEF Route
  <2>3. {c.agent} \in SUBSET (Name \cup Domain)
    BY <2>1, <2>2 DEF CallOK, Formed
  <2>4. CallOK(d)'
    BY <2>1, <2>2, <2>3, Listed
  <2>5. req' = [req EXCEPT ![r] = d]
    BY <1>9 DEF AgentsMe
  <2> HIDE DEF d
  <2> QED BY <1>1, <2>1, <2>4, <2>5, CallGoesOn
<1>10. CASE Send(r)
  <2>1. c # None /\ Grown /\ CallOK(c)'
    BY <1>3, <1>10 DEF Send, Handling, disk
  <2> DEFINE d == [c EXCEPT !.step = "answer", !.code = 202]
  <2>2. CallOK(d)'
    BY <2>1, Taken
  <2>3. req' = [req EXCEPT ![r] = d]
    BY <1>10, ZenonT(60) DEF Send, Reply
  <2> HIDE DEF d
  <2> QED BY <1>1, <2>1, <2>2, <2>3, CallGoesOn
<1>11. CASE CreateAgent(r)
  <2>1. c # None /\ c.op = "post_agents" /\ UNCHANGED blocked /\ drawn' = drawn + 1
        /\ drawn \in Nat
    BY <1>11 DEF CreateAgent, Handling, TypeOK
  <2>2. ASSUME Fail(r, 409), UNCHANGED agents PROVE CallsInv' /\ req' \in Calls
    <3>1. Grown
      BY <2>1, <2>2 DEF Grown
    <3> QED BY <1>4, <2>2, <3>1 DEF Fail
  <2>3. ASSUME req' = [req EXCEPT ![r].step = "answer", ![r].code = 201, ![r].made = drawn + 1],
               agents' = agents \cup {[name |-> c.name, hash |-> Hash(drawn + 1)]}
        PROVE  CallsInv' /\ req' \in Calls
    <3> SUFFICES ASSUME NEW t, t = drawn + 1 PROVE CallsInv' /\ req' \in Calls
      OBVIOUS
    <3> DEFINE d == [c EXCEPT !.step = "answer", !.code = 201, !.made = t]
    <3>1. t \in Nat /\ t > drawn /\ t \in 1 .. drawn'
      BY <2>1
    <3>2. Grown
      BY <2>1, <2>3, <3>1 DEF Grown
    <3>3. CallOK(c)'
      BY <1>1, <2>1, <3>2, CallStays
    <3>4. [name |-> c.name, hash |-> Hash(t)] \in agents'
      BY <2>3
    <3>5. CallOK(d)'
      BY <2>1, <3>1, <3>3, <3>4, Created
    <3>6. req' = [req EXCEPT ![r] = d]
      BY <2>3
    <3> HIDE DEF d
    <3> QED BY <1>1, <3>2, <3>5, <3>6, CallGoesOn
  <2> QED BY <1>11, <2>2, <2>3 DEF CreateAgent, Inserted, Conflict
<1>12. CASE SaveBlocklistEntry(r)
  <2>1. c # None /\ c.op = "post_blocklist" /\ blocked' = blocked \cup {c.name} /\ Grown
    BY <1>12 DEF SaveBlocklistEntry, Handling, Grown, TypeOK
  <2>2. ASSUME Fail(r, 409) PROVE CallsInv' /\ req' \in Calls
    BY <1>4, <2>1, <2>2 DEF Fail
  <2>3. ASSUME Reply(r, 201) PROVE CallsInv' /\ req' \in Calls
    <3> DEFINE d == [c EXCEPT !.step = "answer", !.code = 201]
    <3>1. CallOK(c)'
      BY <1>1, <2>1, CallStays
    <3>2. CallOK(d)'
      BY <2>1, <3>1, Saved
    <3>3. req' = [req EXCEPT ![r] = d]
      BY <2>3, ZenonT(60) DEF Reply
    <3> HIDE DEF d
    <3> QED BY <1>1, <2>1, <3>2, <3>3, CallGoesOn
  <2> QED BY <1>12, <2>2, <2>3 DEF SaveBlocklistEntry
<1>13. CASE ListAgents(r)
  <2>1. c # None /\ c.op = "get_agents" /\ UNCHANGED agents /\ Grown /\ CallOK(c)'
    BY <1>3, <1>13 DEF ListAgents, Handling, disk
  <2> SUFFICES ASSUME NEW l, l = Names(agents) PROVE CallsInv' /\ req' \in Calls
    OBVIOUS
  <2> DEFINE d == [c EXCEPT !.step = "answer", !.code = 200, !.list = l]
  <2>2. l \in SUBSET (Name \cup Domain) /\ l = Names(agents)'
    BY <2>1 DEF TypeOK, Names
  <2>3. c.before \subseteq l
    BY <2>1, <2>2 DEF CallOK, ListsRightly, Due
  <2>4. CallOK(d)'
    BY <2>1, <2>2, <2>3, Listed
  <2>5. req' = [req EXCEPT ![r] = d]
    BY <1>13 DEF ListAgents, Lists
  <2> HIDE DEF d
  <2> QED BY <1>1, <2>1, <2>4, <2>5, CallGoesOn
<1>14. CASE ListBlocklist(r)
  <2>1. c # None /\ c.op = "get_blocklist" /\ UNCHANGED blocked /\ Grown /\ CallOK(c)'
    BY <1>3, <1>14 DEF ListBlocklist, Handling, disk
  <2> SUFFICES ASSUME NEW l, l = blocked PROVE CallsInv' /\ req' \in Calls
    OBVIOUS
  <2> DEFINE d == [c EXCEPT !.step = "answer", !.code = 200, !.list = l]
  <2>2. l \in SUBSET (Name \cup Domain) /\ l = blocked'
    BY <2>1 DEF TypeOK
  <2>3. c.before \subseteq l
    BY <2>1, <2>2 DEF CallOK, ListsRightly, Due
  <2>4. CallOK(d)'
    BY <2>1, <2>2, <2>3, Listed
  <2>5. req' = [req EXCEPT ![r] = d]
    BY <1>14 DEF ListBlocklist, Lists
  <2> HIDE DEF d
  <2> QED BY <1>1, <2>1, <2>4, <2>5, CallGoesOn
<1>15. CASE Answer(r)
  <2>1. req' = [req EXCEPT ![r] = None] /\ Grown
    BY <1>15, NothingGrew DEF Answer, disk
  <2> QED BY <1>4, <2>1
<1>16. CASE Leave(r)
  <2>1. req' = [req EXCEPT ![r] = None] /\ Grown
    BY <1>16, NothingGrew DEF Leave, disk
  <2> QED BY <1>4, <2>1
<1> QED BY <1>5, <1>6, <1>7, <1>8, <1>9, <1>10, <1>11, <1>12, <1>13, <1>14, <1>15, <1>16
        DEF Serve, Handle

-----------------------------------------------------------------------------
(* The rest of the state, step by step *)

\* A request leaves run() and the admin credential alone.
LEMMA ServeLeaves ==
  ASSUME NEW r, Serve(r)
  PROVE  UNCHANGED <<process, key, cred, shown, cut, boots>>
BY DEF Serve, Accept, BearerAuth, AdminAuth, Handle, HandlerFails, AgentsMe, Send,
       CreateAgent, Inserted, Conflict,
       SaveBlocklistEntry, ListAgents, ListBlocklist, Answer, Leave, disk, history

\* Nobody is served before run() asks for it.
LEMMA ServeUp ==
  ASSUME StageInv, NEW r \in Request, Serve(r)
  PROVE  stage \notin Booting \cup {"down"}
<1>1. CASE req[r] # None
  BY <1>1 DEF StageInv
<1>2. CASE req[r] = None
  <2>1. PICK s \in Side : server[s] = "listening"
    BY <1>2 DEF Serve, Accept, BearerAuth, AdminAuth, Handle, HandlerFails, AgentsMe, Send,
         CreateAgent, Inserted, Conflict, SaveBlocklistEntry, ListAgents, ListBlocklist,
         Answer, Leave, Handling
  <2> QED BY <2>1 DEF StageInv
<1> QED BY <1>1, <1>2

\* A request under way keeps its route, and new ones come only to a listener.
LEMMA ServeAdmits ==
  ASSUME req \in Calls, NEW r \in Request, Serve(r), NEW q \in Request, req'[q] # None,
         NEW s \in Side, server[s] # "listening", SideOf(q)' = s
  PROVE  req[q] # None /\ SideOf(q) = s
<1>1. CASE req'[q] = req[q]
  BY <1>1 DEF SideOf
<1>2. ASSUME NEW z \in Side, NEW t \in Known, NEW op \in Route[z], NEW n \in Naming(op),
             Accept(r, z, op, t, n), q = r
      PROVE  FALSE
  <2>1. req'[q].op = op /\ server[z] = "listening"
    BY <1>2 DEF Accept, Calls
  <2>2. (op \in Route.main) <=> (z = "main")
    BY DEF Side, Route
  <2> QED BY <2>1, <2>2 DEF SideOf, Side
<1>3. CASE req[q] # None /\ req'[q].op = req[q].op
  BY <1>3 DEF SideOf
<1>4. CASE q = r /\ (BearerAuth(r) \/ AdminAuth(r) \/ Handle(r) \/ Answer(r) \/ Leave(r))
  <2>1. req[r] # None /\ req[r] \in Call
    BY <1>4 DEF BearerAuth, AdminAuth, Handle, HandlerFails, AgentsMe, Send, CreateAgent,
                Inserted, Conflict,
       SaveBlocklistEntry, ListAgents, ListBlocklist, Answer, Leave, Handling, Calls
  <2>2. req'[r].op = req[r].op
    BY <1>4, <2>1 DEF BearerAuth, AdminAuth, Handle, HandlerFails, AgentsMe, Send,
                      CreateAgent, Inserted, Conflict,
       SaveBlocklistEntry, ListAgents, ListBlocklist, Answer, Leave, Lists, Reply, AuthAs, Fail,
       Calls, Call
  <2> QED BY <1>3, <1>4, <2>1, <2>2
<1>5. CASE q # r
  <2>1. req'[q] = req[q]
    BY <1>5 DEF Serve, Accept, BearerAuth, AdminAuth, Handle, HandlerFails, AgentsMe, Send,
       CreateAgent, Inserted, Conflict, SaveBlocklistEntry, ListAgents, ListBlocklist,
       Answer, Leave, Lists, Reply,
       AuthAs, Fail, Calls
  <2> QED BY <1>1, <2>1
<1> QED BY <1>2, <1>4, <1>5 DEF Serve

\* One more token is drawn.
LEMMA TokensGrow ==
  ASSUME TypeOK, drawn' = drawn + 1
  PROVE  /\ drawn' \in Nat /\ drawn' \in 1 .. drawn' /\ 1 .. drawn \subseteq 1 .. drawn'
         /\ cred \in SUBSET {Hash(t) : t \in 1 .. drawn'}
         /\ agents \in SUBSET [name : Name, hash : {Hash(t) : t \in 1 .. drawn'}]
         /\ shown \in SUBSET (1 .. drawn')
         /\ given \in SUBSET [name : Name, token : 1 .. drawn']
<1>1. drawn' \in Nat /\ drawn' \in 1 .. drawn' /\ 1 .. drawn \subseteq 1 .. drawn'
  BY DEF TypeOK
<1>2. {Hash(t) : t \in 1 .. drawn} \subseteq {Hash(t) : t \in 1 .. drawn'}
  BY <1>1
<1> QED BY <1>1, <1>2 DEF TypeOK

LEMMA TypeKept ==
  ASSUME TypeOK, CallsInv, StageInv, [Next]_vars, req' \in Calls
  PROVE  TypeOK'
<1> USE DEF TypeOK, Calls
<1>1. CASE Boot
  <2>1. CASE SaveAdminCredential
    BY <2>1, TokensGrow DEF SaveAdminCredential, At, Stage, Booting, history
  <2>2. CASE ShowToken
    BY <2>2 DEF ShowToken, At, Stage, disk, StageInv
  <2>3. CASE Open
    BY <2>3 DEF Open, At, Stage, Booting, disk
  <2>4. CASE NewSigner
    BY <2>4 DEF NewSigner, At, Stage, Booting, history
  <2>5. CASE GetAdminCredential
    BY <2>5 DEF GetAdminCredential, At, Stage, Booting, disk, history
  <2>6. CASE BootFails
    BY <2>6 DEF BootFails, At, Stage, disk, history
  <2> QED BY <1>1, <2>1, <2>2, <2>3, <2>4, <2>5, <2>6 DEF Boot
<1>2. CASE Stop \/ Signal \/ Crash
  BY <1>2 DEF Stop, Expire, ShutdownMain, ShutdownAdmin, Exit, Gone, Drained, Signal, Crash, At,
     Stage, Draining, Side, disk, history
<1>3. ASSUME NEW s \in Side, Listen(s) PROVE TypeOK'
  BY <1>3 DEF Listen, Side, disk, history
<1>4. ASSUME NEW r \in Request, Serve(r) PROVE TypeOK'
  <2>1. UNCHANGED <<process, key, cred, shown, cut, boots>>
    BY <1>4, ServeLeaves
  <2>2. CASE CreateAgent(r)
    <3>1. drawn' = drawn + 1 /\ UNCHANGED <<blocked, given, acked>>
      BY <2>2 DEF CreateAgent, history
    <3>2. req[r].name \in Name
      BY <2>2 DEF CreateAgent, Handling, CallsInv, CallOK, Formed, Naming
    <3>3. \/ UNCHANGED agents
          \/ agents' = agents \cup {[name |-> req[r].name, hash |-> Hash(drawn')]}
      BY <2>2, <3>1 DEF CreateAgent, Inserted, Conflict
    <3>4. agents' \in SUBSET [name : Name, hash : {Hash(t) : t \in 1 .. drawn'}]
      BY <3>1, <3>2, <3>3, TokensGrow
    <3> QED BY <2>1, <3>1, <3>4, TokensGrow DEF process
  <2>3. CASE Answer(r)
    <3>1. UNCHANGED <<agents, blocked, drawn>>
      BY <2>3 DEF Answer, disk
    <3>2. CallOK(req[r])
      BY <2>3 DEF Answer, CallsInv
    <3>3. req[r].op = "post_agents" /\ req[r].code = 201 =>
            req[r].name \in Name /\ req[r].made \in 1 .. drawn
      BY <3>2 DEF CallOK, Formed, Made, Naming
    <3>4. req[r].op = "post_blocklist" => req[r].name \in Domain
      BY <3>2 DEF CallOK, Formed, Naming
    <3>5. given' \in SUBSET [name : Name, token : 1 .. drawn']
      BY <2>3, <3>1, <3>3 DEF Answer
    <3>6. acked' \in SUBSET Domain
      BY <2>3, <3>4 DEF Answer
    <3> QED BY <2>1, <3>1, <3>5, <3>6 DEF process
  <2>4. CASE SaveBlocklistEntry(r)
    <3>1. req[r].name \in Domain
      BY <2>4 DEF SaveBlocklistEntry, Handling, CallsInv, CallOK, Formed, Naming
    <3> QED BY <2>1, <2>4, <3>1 DEF SaveBlocklistEntry, process, history
  <2>5. CASE UNCHANGED <<agents, blocked, drawn, given, acked>>
    BY <2>1, <2>5 DEF process
  <2> QED BY <1>4, <2>2, <2>3, <2>4, <2>5 DEF Serve, Accept, BearerAuth, AdminAuth, Handle,
       HandlerFails, AgentsMe, Send, ListAgents, ListBlocklist, Leave, disk, history
<1>5. CASE UNCHANGED vars
  BY <1>5 DEF vars, disk, process, history
<1> QED BY <1>1, <1>2, <1>3, <1>4, <1>5 DEF Next

\* A request handled is right, and so is what an answer tells the client.
LEMMA TableKept ==
  ASSUME TypeOK, CallsInv, TableInv, StageInv, [Next]_vars
  PROVE  TableInv'
<1>1. \A a \in agents : \E t \in 1 .. drawn : a.hash = Hash(t)
  BY DEF TypeOK
<1>2. \A t \in 1 .. drawn : t # drawn + 1 /\ Hash(t) # Hash(drawn + 1)
  BY HashInjective DEF TypeOK
<1>3. CASE UNCHANGED <<agents, cred, given, acked, blocked>>
  BY <1>3 DEF TableInv
<1>4. CASE SaveAdminCredential
  <2>1. cred' = {Hash(drawn + 1)} /\ UNCHANGED <<agents, given, acked, blocked>>
    BY <1>4 DEF SaveAdminCredential, history
  <2>2. \A a \in agents : a.hash \notin cred'
    BY <1>1, <1>2, <2>1
  <2> QED BY <2>1, <2>2 DEF TableInv
<1>5. ASSUME NEW r \in Request, CreateAgent(r) PROVE TableInv'
  <2>1. UNCHANGED <<cred, given, acked, blocked>>
    BY <1>5 DEF CreateAgent, history
  <2>2. CASE UNCHANGED agents
    BY <1>3, <2>1, <2>2
  <2>3. CASE /\ req[r].name \notin Names(agents)
             /\ agents' = agents \cup {[name |-> req[r].name, hash |-> Hash(drawn + 1)]}
    <3> SUFFICES ASSUME NEW new, new = [name |-> req[r].name, hash |-> Hash(drawn + 1)]
                 PROVE  TableInv'
      OBVIOUS
    <3>1. \A a \in agents : a.name # new.name /\ a.hash # new.hash
      BY <1>1, <1>2, <2>3 DEF Names
    <3>2. \A t \in 1 .. drawn : Hash(t) # new.hash
      BY <1>2
    <3>3. new.hash \notin cred
      BY <3>2 DEF TypeOK
    <3>4. agents' = agents \cup {new}
      BY <2>3
    <3> QED BY <2>1, <3>1, <3>3, <3>4 DEF TableInv
  <2> QED BY <1>5, <2>2, <2>3 DEF CreateAgent, Inserted, Conflict
<1>6. ASSUME NEW r \in Request, Answer(r) PROVE TableInv'
  <2>1. UNCHANGED <<agents, cred, blocked>>
    BY <1>6 DEF Answer, disk
  <2>2. CallOK(req[r])
    BY <1>6 DEF Answer, CallsInv
  <2>3. ASSUME NEW g \in given' PROVE [name |-> g.name, hash |-> Hash(g.token)] \in agents
    <3>1. CASE g \in given
      BY <3>1 DEF TableInv
    <3>2. CASE /\ req[r].op = "post_agents" /\ req[r].code = 201
               /\ g = [name |-> req[r].name, token |-> req[r].made]
      BY <2>2, <3>2 DEF CallOK, Made
    <3> QED BY <1>6, <3>1, <3>2 DEF Answer
  <2>4. acked' \subseteq blocked
    BY <1>6, <2>2 DEF Answer, CallOK, Made, TableInv
  <2> QED BY <2>1, <2>3, <2>4 DEF TableInv
<1>7. ASSUME NEW r \in Request, SaveBlocklistEntry(r) PROVE TableInv'
  BY <1>7 DEF SaveBlocklistEntry, history, TableInv
<1>8. CASE Boot /\ ~SaveAdminCredential
  BY <1>3, <1>8 DEF Boot, Open, NewSigner, GetAdminCredential, ShowToken, BootFails, disk, history
<1>9. CASE Stop \/ Signal \/ Crash \/ \E s \in Side : Listen(s)
  BY <1>3, <1>9 DEF Stop, Expire, ShutdownMain, ShutdownAdmin, Exit, Gone, Signal, Crash, Listen,
     disk, history
<1>10. ASSUME NEW r \in Request, Serve(r),
              ~CreateAgent(r), ~Answer(r), ~SaveBlocklistEntry(r)
       PROVE  TableInv'
  BY <1>3, <1>10 DEF Serve, Accept, BearerAuth, AdminAuth, Handle, HandlerFails, AgentsMe, Send,
     ListAgents, ListBlocklist, Leave, disk, history
<1>11. CASE UNCHANGED vars
  BY <1>3, <1>11 DEF vars, disk, history
<1> QED BY <1>4, <1>5, <1>6, <1>7, <1>8, <1>9, <1>10, <1>11 DEF Next

LEMMA StageKept ==
  ASSUME TypeOK, StageInv, CredentialKnown, [Next]_vars
  PROVE  StageInv'
<1> USE DEF StageInv, Booting, Draining
<1>1. CASE Open
  BY <1>1 DEF Open, At
<1>2. CASE NewSigner
  BY <1>2 DEF NewSigner, At
<1>3. CASE GetAdminCredential
  BY <1>3 DEF GetAdminCredential, At, disk
<1>4. CASE SaveAdminCredential
  <2>1. shown = {}
    BY <1>4 DEF SaveAdminCredential, At, CredentialKnown
  <2>2. cred' = {Hash(drawn')} /\ UNCHANGED <<key, shown, server, missed, req>>
    BY <1>4 DEF SaveAdminCredential, history
  <2> QED BY <1>4, <2>1, <2>2 DEF SaveAdminCredential, At
<1>5. CASE ShowToken
  BY <1>5 DEF ShowToken, At, disk
<1>6. CASE BootFails
  BY <1>6 DEF BootFails, At, disk
<1>7. CASE Stop \/ Signal
  BY <1>7 DEF Stop, Expire, ShutdownMain, ShutdownAdmin, Exit, Gone, Signal, At, disk, Side
<1>8. CASE Crash
  BY <1>8 DEF Crash, Gone
<1>9. ASSUME NEW s \in Side, Listen(s) PROVE StageInv'
  BY <1>9 DEF Listen, disk
<1>10. ASSUME NEW r \in Request, Serve(r) PROVE StageInv'
  <2>1. stage \notin Booting \cup {"down"}
    BY <1>10, ServeUp
  <2>2. UNCHANGED <<process, key, cred, shown, cut, boots>>
    BY <1>10, ServeLeaves
  <2> QED BY <2>1, <2>2 DEF process
<1>11. CASE UNCHANGED vars
  BY <1>11 DEF vars, disk, process, history
<1> QED BY <1>1, <1>2, <1>3, <1>4, <1>5, <1>6, <1>7, <1>8, <1>9, <1>10, <1>11 DEF Next, Boot

LEMMA CredentialKept ==
  ASSUME TypeOK, StageInv, CredentialKnown, [Next]_vars
  PROVE  CredentialKnown'
<1> USE DEF CredentialKnown
<1>1. CASE SaveAdminCredential
  BY <1>1 DEF SaveAdminCredential, At, StageInv, history
<1>2. CASE ShowToken
  <2>1. cred = {Hash(drawn)} /\ shown = {}
    BY <1>2 DEF ShowToken, At, StageInv
  <2>2. UNCHANGED cred /\ shown' = {drawn}
    BY <1>2, <2>1 DEF ShowToken, disk
  <2> QED BY <2>1, <2>2
<1>3. CASE Crash
  BY <1>3 DEF Crash, Gone, disk
<1>4. CASE UNCHANGED <<cred, shown, cut>> /\ stage # "print"
  BY <1>4
<1>5. CASE Open \/ NewSigner \/ GetAdminCredential \/ BootFails
  BY <1>4, <1>5 DEF Open, NewSigner, GetAdminCredential, BootFails, At, Booting, disk, history
<1>6. CASE Stop \/ Signal \/ \E s \in Side : Listen(s)
  BY <1>4, <1>6 DEF Stop, Expire, ShutdownMain, ShutdownAdmin, Exit, Gone, Signal, Listen, At,
     Draining, disk, history
<1>7. ASSUME NEW r \in Request, Serve(r) PROVE CredentialKnown'
  BY <1>7, ServeLeaves DEF process
<1>8. CASE UNCHANGED vars
  BY <1>8 DEF vars, disk, process, history
<1> QED BY <1>1, <1>2, <1>3, <1>5, <1>6, <1>7, <1>8 DEF Next, Boot

LEMMA DrainKept ==
  ASSUME TypeOK, StageInv, DrainInv, [Next]_vars
  PROVE  DrainInv'
<1> USE DEF DrainInv, Draining
<1>1. CASE Boot
  BY <1>1 DEF Boot, Open, NewSigner, GetAdminCredential, SaveAdminCredential, ShowToken, BootFails,
     At, Booting
<1>2. CASE Expire
  BY <1>2 DEF Expire, InFlight, SideOf
<1>3. CASE ShutdownMain
  BY <1>3 DEF ShutdownMain, Drained, At, InFlight, SideOf, TypeOK, Side
<1>4. CASE ShutdownAdmin
  BY <1>4 DEF ShutdownAdmin, Drained, At, InFlight, SideOf, TypeOK, Side
<1>5. CASE Exit \/ Crash
  BY <1>5 DEF Exit, Crash, Gone
<1>6. CASE Signal
  BY <1>6 DEF Signal, At, TypeOK, Side
<1>7. ASSUME NEW s \in Side, Listen(s) PROVE DrainInv'
  BY <1>7 DEF Listen, InFlight, SideOf, TypeOK, Side
<1>8. ASSUME NEW r \in Request, Serve(r) PROVE DrainInv'
  <2>1. UNCHANGED process
    BY <1>8, ServeLeaves
  <2>2. ASSUME NEW s \in Side, server[s] = "shut", InFlight(s) = {} PROVE InFlight(s)' = {}
    <3> SUFFICES ASSUME NEW q \in Request, req'[q] # None, SideOf(q)' = s PROVE FALSE
      BY DEF InFlight
    <3>1. req[q] # None /\ SideOf(q) = s
      BY <1>8, <2>2, CallsTyped, ServeAdmits
    <3> QED BY <2>2, <3>1 DEF InFlight
  <2> QED BY <2>1, <2>2 DEF process, Side
<1>9. CASE UNCHANGED vars
  BY <1>9 DEF vars, process, InFlight, SideOf
<1> QED BY <1>1, <1>2, <1>3, <1>4, <1>5, <1>6, <1>7, <1>8, <1>9 DEF Next, Stop

LEMMA InstanceKept == InstanceInv /\ [Next]_vars => InstanceInv'
<1> SUFFICES ASSUME InstanceInv, [Next]_vars PROVE InstanceInv'
  OBVIOUS
<1> USE DEF InstanceInv
<1>1. CallsInv' /\ req' \in Calls
  <2>1. CASE UNCHANGED vars
    BY <2>1, NothingGrew, CallsStay, CallsTyped DEF vars, disk
  <2>2. ASSUME NEW r \in Request, Serve(r) PROVE CallsInv' /\ req' \in Calls
    BY <2>2, ServeKeepsCalls
  <2> QED BY <2>1, <2>2, RunKeepsCalls DEF Next
<1> QED BY <1>1, TypeKept, TableKept, StageKept, CredentialKept, DrainKept

-----------------------------------------------------------------------------
(* The theorems *)

\* The invariant the theorems below follow from holds in every reachable state of
\* run() and its two servers.
THEOREM InstanceHolds == Spec => []InstanceInv
BY InstanceStarts, InstanceKept, PTL DEF Spec

\* Every reachable state is well typed; a stored hash is always that of a token
\* that was drawn (bootstrap_admin.go, create_agent.go: hashBearerToken).
THEOREM InstanceTyped == Spec => []TypeOK
<1>1. InstanceInv => TypeOK
  BY DEF InstanceInv
<1> QED BY <1>1, InstanceHolds, PTL

\* A token that was handed out acts for its agent and nobody else, and is never
\* taken for an unknown one (create_agent.go, middleware.go: bearerAuthMiddleware).
THEOREM TokensWork == Spec => []IssuedTokenWorks
<1>1. InstanceInv => IssuedTokenWorks
  <2> SUFFICES ASSUME InstanceInv, NEW r \in Request, req[r] # None, SideOf(r) = "main",
                      NEW g \in given, g.token = req[r].token
               PROVE  req[r].agent \in {None, g.name} /\ req[r].code # 401
    BY DEF IssuedTokenWorks
  <2> SUFFICES ASSUME NEW a, a = [name |-> g.name, hash |-> Hash(g.token)]
               PROVE  req[r].agent \in {None, g.name} /\ req[r].code # 401
    OBVIOUS
  <2>1. a \in agents
    BY DEF InstanceInv, TableInv
  <2>2. ActsRightly(req[r]) /\ req[r].op \in Route.main
    BY DEF InstanceInv, CallsInv, CallOK, SideOf
  <2>3. a.hash = Hash(req[r].token) /\ a.name = g.name
    OBVIOUS
  <2> QED BY <2>1, <2>2, <2>3 DEF ActsRightly
<1> QED BY <1>1, InstanceHolds, PTL

\* Two creations of one name never both hand out a token (create_agent.go;
\* store.go: CreateAgent).
THEOREM NamesAreUnique == Spec => []OneTokenPerName
<1>1. InstanceInv => OneTokenPerName
  <2> SUFFICES ASSUME InstanceInv, NEW g \in given
               PROVE  /\ [name |-> g.name, hash |-> Hash(g.token)] \in agents
                      /\ \A h \in given : h.name = g.name => h = g
    BY DEF OneTokenPerName
  <2>1. \A h \in given : [name |-> h.name, hash |-> Hash(h.token)] \in agents
    BY DEF InstanceInv, TableInv
  <2>2. ASSUME NEW h \in given, h.name = g.name PROVE h = g
    <3>1. [name |-> h.name, hash |-> Hash(h.token)] = [name |-> g.name, hash |-> Hash(g.token)]
      BY <2>1, <2>2 DEF InstanceInv, TableInv
    <3>2. h.token = g.token
      BY <3>1, HashInjective
    <3> QED BY <2>2, <3>2 DEF InstanceInv, TypeOK
  <2> QED BY <2>1, <2>2
<1> QED BY <1>1, InstanceHolds, PTL

\* Only a crash between storing and printing leaves an admin credential nobody
\* knows (bootstrap_admin.go; main.go: run).
THEOREM CredentialIsKnown == Spec => []CredentialKnown
<1>1. InstanceInv => CredentialKnown
  BY DEF InstanceInv
<1> QED BY <1>1, InstanceHolds, PTL

\* No agent's token is ever the admin credential (README.md: the credentials are
\* "never allowed to substitute for one another").
THEOREM CredentialsAreSeparate == Spec => [](\A a \in agents : a.hash \notin cred)
<1>1. InstanceInv => \A a \in agents : a.hash \notin cred
  BY DEF InstanceInv, TableInv
<1> QED BY <1>1, InstanceHolds, PTL

\* Nothing listens before the bootstrap is done (main.go: run).
THEOREM BootstrappedFirst == Spec => []ServesBootstrapped
<1>1. InstanceInv => ServesBootstrapped
  <2> SUFFICES ASSUME InstanceInv, NEW s \in Side, server[s] = "listening" PROVE key /\ cred # {}
    BY DEF ServesBootstrapped
  <2>1. stage \in Stage \ (Booting \cup {"down"})
    BY DEF InstanceInv, StageInv, TypeOK
  <2> QED BY <2>1 DEF InstanceInv, StageInv, Stage, Booting
<1> QED BY <1>1, InstanceHolds, PTL

\* The admin API's lists show what was acknowledged (store.go: ListAgents;
\* blocklist.go: ListBlocklist).
THEOREM ListsShowAll == Spec => []ListsAreCurrent
<1>1. InstanceInv => ListsAreCurrent
  <2> SUFFICES ASSUME InstanceInv, NEW r \in Request, req[r] # None, req[r].code = 200,
                      SideOf(r) = "admin"
               PROVE  /\ req[r].before \subseteq req[r].list
                      /\ req[r].list \subseteq Names(agents) \cup blocked
    BY DEF ListsAreCurrent
  <2>1. Formed(req[r]) /\ ListsRightly(req[r])
    BY DEF InstanceInv, CallsInv, CallOK
  <2>2. req[r].op \in Route.admin
    BY <2>1 DEF Formed, Call, Op, SideOf
  <2> QED BY <2>1, <2>2 DEF ListsRightly
<1> QED BY <1>1, InstanceHolds, PTL

\* A shutdown that returns nil has cut no request off (main.go: run).
THEOREM CleanExit == Spec => []CleanExitCutsNothing
<1>1. InstanceInv => CleanExitCutsNothing
  BY DEF InstanceInv, DrainInv, CleanExitCutsNothing, InFlight, SideOf
<1> QED BY <1>1, InstanceHolds, PTL
=============================================================================
