------------------------------ MODULE Instance ------------------------------
(***************************************************************************)
(* One cdampd process from boot to exit, over the database it finds: run() *)
(* opens the store, bootstraps the signing key and the admin credential,   *)
(* serves the agents' API and the admin API on two listeners, and on a     *)
(* signal drains the one and then the other before it closes the store.    *)
(* Requests go through it in steps: accepted, authenticated, handled,      *)
(* answered.  The process may die between any two steps.                   *)
(*                                                                         *)
(* What the handlers behind /send, /messages and /threads do is in Outbox  *)
(* and Mailbox, a key rotation in KeyRotation, the workers' part of the    *)
(* shutdown in Outbox; here they are requests that query the store once.   *)
(***************************************************************************)
EXTENDS Integers

CONSTANTS
  Request,    \* requests under way at once
  Name,       \* the agents' names
  Domain,     \* domains to block
  Faults,     \* which faults this instance may suffer
  MaxTokens,  \* bound on the tokens drawn
  MaxBoots,   \* bound on the boots
  None

ASSUME InstanceAssumption ==
  /\ Faults \subseteq {"store", "client", "crash"}
  /\ MaxTokens \in Nat /\ MaxBoots \in Nat

VARIABLES
  \* the database: is there a signing key, the rows of admin_credential (hashes),
  \* agents and domain_blocklist
  key, cred, agents, blocked,
  \* the process: where run() is, its two servers, whether shutdownTimeout has
  \* passed, and the servers whose Shutdown gave up on it
  stage, server, expired, missed,
  req,
  drawn,   \* how many tokens crypto/rand has made: they are 1, 2, ...
  \* history: the tokens printed, those handed out in a 201 and for whom, the
  \* blocklist's 201s, whether the process died before ShowToken, and the boots
  shown, given, acked, cut, boots

disk    == <<key, cred, agents, blocked>>
process == <<stage, server, expired, missed>>
history == <<shown, given, acked, cut, boots>>
vars    == <<disk, process, req, drawn, history>>

\* hashBearerToken, in both packages that have it.  No two tokens collide.
Hash(t) == <<"sha256", t>>

Booting  == {"signer", "check", "save", "print"}
Draining == {"drain_main", "drain_admin"}
Stage    == {"down", "serve", "closed"} \cup Booting \cup Draining

\* The routes, by the server that has them.
Route == [main  |-> {"get_agents_me", "post_send"},
          admin |-> {"post_agents", "get_agents", "post_blocklist", "get_blocklist"}]
Side == {"main", "admin"}
Op   == Route.main \cup Route.admin

\* What the body of a request to a route names.
Naming(op) == CASE op = "post_agents"    -> Name
                [] op = "post_blocklist" -> Domain
                [] OTHER                 -> {None}

SideOf(r) == IF req[r].op \in Route.main THEN "main" ELSE "admin"

\* made is a 201's token, list a 200's rows; before is history: see Expected.
Call == [op : Op, token : Nat, name : Name \cup Domain \cup {None},
         step : {"auth", "handle", "answer"}, agent : Name \cup {None},
         code : {0, 200, 201, 202, 401}, made : Nat,
         list : SUBSET (Name \cup Domain), before : SUBSET (Name \cup Domain)]

TypeOK ==
  /\ key \in BOOLEAN
  /\ cred \in SUBSET {Hash(t) : t \in 1 .. drawn}
  /\ agents \in SUBSET [name : Name, hash : {Hash(t) : t \in 1 .. drawn}]
  /\ blocked \in SUBSET Domain
  /\ stage \in Stage
  /\ server \in [Side -> {"new", "listening", "shut"}]
  /\ expired \in BOOLEAN /\ missed \in SUBSET Side
  /\ req \in [Request -> Call \cup {None}]
  /\ drawn \in Nat
  /\ shown \in SUBSET (1 .. drawn)
  /\ given \in SUBSET [name : Name, token : 1 .. drawn]
  /\ acked \in SUBSET Domain
  /\ cut \in BOOLEAN /\ boots \in Nat

Init ==
  /\ key = FALSE /\ cred = {} /\ agents = {} /\ blocked = {}
  /\ stage = "down" /\ server = [s \in Side |-> "new"] /\ expired = FALSE /\ missed = {}
  /\ req = [r \in Request |-> None]
  /\ drawn = 0
  /\ shown = {} /\ given = {} /\ acked = {} /\ cut = FALSE /\ boots = 0

-----------------------------------------------------------------------------
(* run(): the boot *)

At(here, there) == stage = here /\ stage' = there

Open ==
  /\ At("down", "signer")
  /\ boots < MaxBoots
  /\ boots' = boots + 1
  /\ UNCHANGED <<disk, server, expired, missed, req, drawn, shown, given, acked, cut>>

\* The active key is loaded, or one is generated and saved.
NewSigner ==
  /\ At("signer", "check")
  /\ key' = TRUE
  /\ UNCHANGED <<cred, agents, blocked, server, expired, missed, req, drawn, history>>

GetAdminCredential ==
  /\ At("check", IF cred = {} THEN "save" ELSE "serve")
  /\ UNCHANGED <<disk, server, expired, missed, req, drawn, history>>

\* Mutant: the token is printed before it is saved.
SaveAdminCredential_Printed ==
  /\ drawn < MaxTokens
  /\ drawn' = drawn + 1 /\ shown' = shown \cup {drawn + 1}
  /\ \/ At("save", "print") /\ cred' = {Hash(drawn + 1)}
     \/ At("save", "down") /\ UNCHANGED cred
  /\ UNCHANGED <<key, agents, blocked, server, expired, missed, req, given, acked, cut, boots>>

SaveAdminCredential ==
  /\ At("save", "print")
  /\ drawn < MaxTokens
  /\ drawn' = drawn + 1
  /\ cred' = {Hash(drawn + 1)}
  /\ UNCHANGED <<key, agents, blocked, server, expired, missed, req, history>>

\* The token just made goes to standard output.
ShowToken ==
  /\ At("print", "serve")
  /\ shown' = shown \cup {drawn}
  /\ UNCHANGED <<disk, server, expired, missed, req, drawn, given, acked, cut, boots>>

\* Any step that returns an error ends run(); main exits with status 1.
BootFails ==
  /\ "store" \in Faults
  /\ \E s \in Booting \ {"print"} : At(s, "down")
  /\ UNCHANGED <<disk, server, expired, missed, req, drawn, history>>

\* Mutant: the servers are started before the bootstrap is over.
Listen_AtOnce(s) ==
  /\ stage # "down"
  /\ server[s] = "new"
  /\ server' = [server EXCEPT ![s] = "listening"]
  /\ UNCHANGED <<disk, stage, expired, missed, req, drawn, history>>

\* A server's goroutine gets to listen.  Failing to is only logged, and leaves the
\* rest running.  The admin server may still get there while the main one drains.
Listen(s) ==
  /\ stage = "serve" \/ (stage = "drain_main" /\ s = "admin")
  /\ server[s] = "new"
  /\ server' = [server EXCEPT ![s] = "listening"]
  /\ UNCHANGED <<disk, stage, expired, missed, req, drawn, history>>

-----------------------------------------------------------------------------
(* run(): the shutdown *)

InFlight(s) == {r \in Request : req[r] # None /\ SideOf(r) = s}

\* Mutant: the admin server is left to itself.
Signal_MainOnly ==
  /\ At("serve", "drain_admin")
  /\ server' = [server EXCEPT !.main = "shut"]
  /\ UNCHANGED <<disk, expired, missed, req, drawn, history>>

\* SIGTERM or an interrupt; Shutdown closes the main listener first of all.
Signal ==
  /\ At("serve", "drain_main")
  /\ server' = [server EXCEPT !.main = "shut"]
  /\ UNCHANGED <<disk, expired, missed, req, drawn, history>>

\* shutdownTimeout passes: one deadline for both servers.
Expire ==
  /\ stage \in Draining /\ ~expired
  /\ expired' = TRUE
  /\ UNCHANGED <<disk, stage, server, missed, req, drawn, history>>

\* Mutant: Shutdown is given a context without a deadline.
Drained_Waits(s) ==
  /\ InFlight(s) = {}
  /\ UNCHANGED missed

\* Server.Shutdown returns: nil once nothing is in flight, even past the deadline,
\* and the context's error otherwise.
Drained(s) ==
  \/ InFlight(s) = {} /\ UNCHANGED missed
  \/ InFlight(s) # {} /\ expired /\ missed' = missed \cup {s}

ShutdownMain ==
  /\ At("drain_main", "drain_admin")
  /\ Drained("main")
  /\ server' = [server EXCEPT !.admin = "shut"]
  /\ UNCHANGED <<disk, expired, req, drawn, history>>

\* store.Close() comes next, whether the servers drained or not.
ShutdownAdmin ==
  /\ At("drain_admin", "closed")
  /\ Drained("admin")
  /\ UNCHANGED <<disk, server, expired, req, drawn, history>>

\* The process is gone, and what it was doing with it.
Gone ==
  /\ stage' = "down"
  /\ server' = [s \in Side |-> "new"] /\ expired' = FALSE /\ missed' = {}
  /\ req' = [r \in Request |-> None]
  /\ UNCHANGED <<disk, drawn, shown, given, acked, boots>>

\* run() returns nil if both servers drained.
Exit == stage = "closed" /\ Gone /\ UNCHANGED cut

\* A crash, a second signal, or a signal before run() asks for them.
Crash ==
  /\ "crash" \in Faults
  /\ stage # "down"
  /\ Gone
  /\ cut' = (cut \/ stage = "print")

-----------------------------------------------------------------------------
(* Requests *)

Names(S) == {x.name : x \in S}

\* The tokens anybody has.
Known == shown \cup {g.token : g \in given}

\* What the client of a list may expect in it: what was acknowledged so far.
Expected(op) == CASE op = "get_agents"    -> Names(given)
                  [] op = "get_blocklist" -> acked
                  [] OTHER                -> {}

\* A connection is accepted and a request read, on either server with either kind
\* of token; one with a token nobody was given finds no row and is left out.
Accept(r, s, op, t, n) ==
  /\ server[s] = "listening"
  /\ req[r] = None
  /\ req' = [req EXCEPT ![r] =
       [op |-> op, token |-> t, name |-> n, step |-> "auth", agent |-> None, code |-> 0,
        made |-> 0, list |-> {}, before |-> Expected(op)]]
  /\ UNCHANGED <<disk, process, drawn, history>>

\* A query returns an error: with a store fault, and always once it is closed.
MayFail  == stage = "closed" \/ "store" \in Faults
MayReply == stage # "closed"

AuthAs(r, n) == req' = [req EXCEPT ![r].step = "handle", ![r].agent = n]
Reply(r, code) == req' = [req EXCEPT ![r].step = "answer", ![r].code = code]

\* The request ends in an error, which tells the client nothing it can rely on.
Fail(r, code) == code \in {400, 401, 409, 500} /\ req' = [req EXCEPT ![r] = None]

\* bearerAuthMiddleware: whatever is wrong is a 401, a failed query too.
BearerAuth(r) ==
  LET mine == {a \in agents : a.hash = Hash(req[r].token)}
  IN  /\ req[r] # None /\ req[r].step = "auth" /\ SideOf(r) = "main"
      /\ \/ MayReply /\ \E a \in mine : AuthAs(r, a.name)
         \/ MayReply /\ mine = {} /\ Reply(r, 401)
         \/ MayFail /\ Fail(r, 401)
      /\ UNCHANGED <<disk, process, drawn, history>>

\* adminAuthMiddleware: the cookie against the one credential.
AdminAuth(r) ==
  /\ req[r] # None /\ req[r].step = "auth" /\ SideOf(r) = "admin"
  /\ \/ MayReply /\ Hash(req[r].token) \in cred /\ AuthAs(r, None)
     \/ MayReply /\ Hash(req[r].token) \notin cred /\ Reply(r, 401)
     \/ MayFail /\ Fail(r, 401)
  /\ UNCHANGED <<disk, process, drawn, history>>

Handling(r, op) == req[r] # None /\ req[r].step = "handle" /\ req[r].op = op

\* Any handler may find its body malformed or have a query fail (mapDomainError).
HandlerFails(r) ==
  /\ req[r] # None /\ req[r].step = "handle"
  /\ \/ req[r].op = "post_send" /\ Fail(r, 400)
     \/ Naming(req[r].op) # {None} /\ Fail(r, 400)
     \/ req[r].op # "get_agents_me" /\ MayFail /\ Fail(r, 500)
  /\ UNCHANGED <<disk, process, drawn, history>>

\* The caller's own address, without asking the store again.
AgentsMe(r) ==
  /\ Handling(r, "get_agents_me")
  /\ req' = [req EXCEPT ![r].step = "answer", ![r].code = 200, ![r].list = {req[r].agent}]
  /\ UNCHANGED <<disk, process, drawn, history>>

\* handleSend, in the name of the agent authenticated.
Send(r) ==
  /\ Handling(r, "post_send") /\ MayReply
  /\ Reply(r, 202)
  /\ UNCHANGED <<disk, process, drawn, history>>

\* Mutant: a name that is taken gets a token all the same.
CreateAgent_Anyway(r) ==
  /\ Handling(r, "post_agents") /\ MayReply
  /\ drawn < MaxTokens
  /\ drawn' = drawn + 1
  /\ req' = [req EXCEPT ![r].step = "answer", ![r].code = 201, ![r].made = drawn + 1]
  /\ agents' = IF req[r].name \in Names(agents) THEN agents
               ELSE agents \cup {[name |-> req[r].name, hash |-> Hash(drawn + 1)]}
  /\ UNCHANGED <<key, cred, blocked, process, history>>

\* Mutant: the token itself is stored.
CreateAgent_Plain(r) ==
  /\ Handling(r, "post_agents") /\ MayReply
  /\ drawn < MaxTokens
  /\ drawn' = drawn + 1
  /\ req[r].name \notin Names(agents)
  /\ req' = [req EXCEPT ![r].step = "answer", ![r].code = 201, ![r].made = drawn + 1]
  /\ agents' = agents \cup {[name |-> req[r].name, hash |-> <<"token", drawn + 1>>]}
  /\ UNCHANGED <<key, cred, blocked, process, history>>

\* Store.CreateAgent's INSERT, which fails on a name that is taken: it is UNIQUE.
Inserted(n, t) ==
  n \notin Names(agents) /\ agents' = agents \cup {[name |-> n, hash |-> Hash(t)]}
Conflict(n) == n \in Names(agents) /\ UNCHANGED agents

\* A token is made and its hash stored, unless the name is taken.
CreateAgent(r) ==
  /\ Handling(r, "post_agents") /\ MayReply
  /\ drawn < MaxTokens
  /\ drawn' = drawn + 1
  /\ \/ Conflict(req[r].name) /\ Fail(r, 409)
     \/ /\ Inserted(req[r].name, drawn + 1)
        /\ req' = [req EXCEPT ![r].step = "answer", ![r].code = 201, ![r].made = drawn + 1]
  /\ UNCHANGED <<key, cred, blocked, process, history>>

SaveBlocklistEntry(r) ==
  /\ Handling(r, "post_blocklist") /\ MayReply
  /\ \/ req[r].name \in blocked /\ Fail(r, 409)
     \/ req[r].name \notin blocked /\ Reply(r, 201)
  /\ blocked' = blocked \cup {req[r].name}
  /\ UNCHANGED <<key, cred, agents, process, drawn, history>>

\* Mutant: the answer is the first row.
Lists_First(r, S) ==
  \E n \in S :
    req' = [req EXCEPT ![r].step = "answer", ![r].code = 200, ![r].list = {n}]

Lists(r, S) ==
  req' = [req EXCEPT ![r].step = "answer", ![r].code = 200, ![r].list = S]

ListAgents(r) ==
  /\ Handling(r, "get_agents") /\ MayReply
  /\ Lists(r, Names(agents))
  /\ UNCHANGED <<disk, process, drawn, history>>

ListBlocklist(r) ==
  /\ Handling(r, "get_blocklist") /\ MayReply
  /\ Lists(r, blocked)
  /\ UNCHANGED <<disk, process, drawn, history>>

\* The client has the answer.
Answer(r) ==
  /\ req[r] # None /\ req[r].step = "answer"
  /\ given' = IF req[r].op = "post_agents" /\ req[r].code = 201
              THEN given \cup {[name |-> req[r].name, token |-> req[r].made]} ELSE given
  /\ acked' = IF req[r].op = "post_blocklist" /\ req[r].code = 201
              THEN acked \cup {req[r].name} ELSE acked
  /\ req' = [req EXCEPT ![r] = None]
  /\ UNCHANGED <<disk, process, drawn, shown, cut, boots>>

\* The client is gone, and nobody has the answer.
Leave(r) ==
  /\ "client" \in Faults
  /\ req[r] # None
  /\ req' = [req EXCEPT ![r] = None]
  /\ UNCHANGED <<disk, process, drawn, history>>

-----------------------------------------------------------------------------

Handle(r) ==
  \/ HandlerFails(r) \/ AgentsMe(r) \/ Send(r)
  \/ CreateAgent(r) \/ SaveBlocklistEntry(r) \/ ListAgents(r) \/ ListBlocklist(r)

Serve(r) ==
  \/ \E s \in Side, t \in Known :
       \E op \in Route[s] : \E n \in Naming(op) : Accept(r, s, op, t, n)
  \/ BearerAuth(r) \/ AdminAuth(r)
  \/ Handle(r)
  \/ Answer(r) \/ Leave(r)

Boot == Open \/ NewSigner \/ GetAdminCredential \/ SaveAdminCredential \/ ShowToken \/ BootFails

Stop == Expire \/ ShutdownMain \/ ShutdownAdmin \/ Exit

Next ==
  \/ Boot \/ Stop \/ Signal \/ Crash
  \/ \E s \in Side : Listen(s)
  \/ \E r \in Request : Serve(r)

\* A shutdown that can go on goes on; requests and their clients may hang.
Spec == Init /\ [][Next]_vars /\ WF_vars(Stop)

-----------------------------------------------------------------------------
(* Safety *)

\* A token handed out by POST /admin/agents is the token of the agent it was made
\* for, for ever: a request that bears it acts as that agent and is refused for
\* want of authorization only when a query failed, across creations of the same
\* name at once, restarts and crashes.
IssuedTokenWorks ==
  \A r \in Request : req[r] # None /\ SideOf(r) = "main" =>
    \A g \in given : g.token = req[r].token =>
      req[r].agent \in {None, g.name} /\ req[r].code # 401

\* No two answers ever hand out a token for one name, and every one handed out is
\* in the table.
OneTokenPerName ==
  \A g \in given :
    /\ [name |-> g.name, hash |-> Hash(g.token)] \in agents
    /\ \A h \in given : h.name = g.name => h = g

\* What was printed is the admin credential.  It is not known to the operator only
\* if the process died after it was stored and before it was printed.
CredentialKnown ==
  /\ cred = {Hash(t) : t \in shown} \/ (shown = {} /\ (stage = "print" \/ cut))
  /\ \A t, u \in shown : t = u

\* No server listens on an instance without its signing key and admin credential
\* (admin.go: the missing credential "should never actually happen").
ServesBootstrapped == (\E s \in Side : server[s] = "listening") => key /\ cred # {}

\* A list shows all that had been acknowledged when it was asked for, and nothing
\* that is not there.
ListsAreCurrent ==
  \A r \in Request : req[r] # None /\ req[r].code = 200 /\ SideOf(r) = "admin" =>
    req[r].before \subseteq req[r].list /\ req[r].list \subseteq Names(agents) \cup blocked

\* When run() has closed the store and will return nil, no request is under way.
CleanExitCutsNothing ==
  stage = "closed" /\ missed = {} => \A r \in Request : req[r] = None

\* A signalled process ends, whatever its requests do.
StopsEventually == stage \in Draining ~> stage = "down"
=============================================================================
