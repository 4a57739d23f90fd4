# cdampd in TLA+

Specifications of cdampd, the federated mail daemon for agents, kept beside its
code. `Outbox.tla`, `Inbound.tla` and `KeyRotation.tla` each model one part of one
instance; `Verification.tla` composes the keys of a sending instance with the
receiver that checks its mail; `Mailbox.tla` is what is read back from the two
database files; `RateLimiter.tla` is what stands before `/deliver`;
`Instance.tla` is the process around all of them, from boot to exit, and the
requests that go through it. `Dispatch.tla` and `TokenBucket.tla` say what the
outbound part and the limiter promise. The `MC*.tla` modules and `*.cfg` files give
TLC small instances; the `*Proofs.tla` modules, and `MailboxOrder.tla` with the lemmas on
sorted pages, prove the safety properties for every value of the constants. Run them with

    tlc -config outbox_safety.cfg MCOutbox.tla
    tlapm OutboxProofs.tla

Everything is translated from the Go and SQL sources; the docs are quoted only
where they disagree with the code.

## Inventory

One process holds one SQLite database (`messages`, `threads`, `agents`,
`signing_keys`, `domain_blocklist`, `admin_credential`) and a second file,
`archive.db`. Everything else is goroutines over those files: HTTP handlers, one
delivery worker, one archiver, one limiter sweep.

| Component | State | Operations | Talks to | What is hard | What makes it correct |
|---|---|---|---|---|---|
| Outbound queue and worker (`send_message.go`, `worker.go`, `store.go`) | outbound rows: status, next_attempt, attempts, expires_at; the claimed batch in memory | SendMessage, ClaimPending, process, recordFailure, MarkDelivered, MarkFailed | directory, delivery client, store | a crash or stop between claim and mark; lost answers; retries against expiry | never sent more than schedule + 1 times; terminal means terminal; 'delivered' is never a guess; everything accepted settles |
| Outbound client (`client.go`) | none | Deliver | signer, peer's /deliver | timeout racing a late 200 | one POST, success only on 200 |
| Inbound delivery (`federation.go`, `receive_message.go`) | inbound rows | handleDeliver, ReceiveMessage, assignTrust, SaveMessage | limiter, blocklist, directory, store | check-then-insert races; redelivery; rows shared with outbound mail | an insert is refused only for a reason that its retry settles; 200 means stored; a redelivery is a no-op |
| Key rotation (`rotation.go`, `ed25519.go`, `keys.go`) | signing_keys; the signer's key in memory | NewSigner, Rotate, Sign, GetActive/PreviousSigningKey | admin API, delivery client, discovery endpoints | overlapping rotations; a crash between its statements; ties in seconds | a key is always active; what signs is what is published; a retired key is published for its grace |
| Directory cache and trust labels (`directory.go`, `receive_message.go`) | two TTL maps | Resolve, ResolvePrevious, assignTrust | peer's /.well-known | stale entries against a peer that rotates; concurrent fills; a rotation between the two lookups | a withdrawn key soon stops verifying; settled mail and mail in grace verify; a failed lookup is not cached |
| Archiver (`archive.go`) | main and archive files | archiveOnce, Run | store readers | reads between its two commits; a crash between them, or a second one that fails; re-stored duplicates | no pass loses a row otherwise; a row is in one file unless it comes again |
| Listing, lookups and search (`store.go`, `list_messages.go`, `search_threads.go`, `get_thread.go`) | none | ListMessages, SearchThreads, GetMessage, GetThread | both files | merging two sources under a limit; cursors under concurrent inserts; a row that moves between the two queries | pages neither skip nor repeat; a thread is whole; a lookup misses only what is on the move |
| Rate limiter (`middleware.go`) | a token bucket and last use per domain | Allow, sweep, Run | /deliver | the sweep resets a bucket, which is lazily refilled | rate x time + burst is never exceeded; idle entries go |
| Agents and admin (`create_agent.go`, `bootstrap_admin.go`, `admin.go`) | agents, admin_credential, domain_blocklist | CreateAgent, ListAgents, BootstrapAdminCredential, SaveBlocklistEntry, ListBlocklist | admin API | a crash between store and print; two creations of one name | the token printed is the token stored; a token handed out works, for its agent only |
| Local REST API (`local.go`, `middleware.go`) | none | bearerAuthMiddleware, the handlers, mapDomainError | use cases | authenticated once, handled later; store closed under a request | each agent sees and sends as itself |
| Dashboard (`web/handlers.go`) | none | home, search, inbox, thread | use cases, agent by agent | many queries for one page | the search finds every thread |
| Composition root (`main.go`) | two servers, one shutdown deadline | run | everything | a deadline shared by two drains; listeners that start late | nothing is served before the bootstrap; a clean exit cuts nothing off; it ends |
| MCP, config, canonical string | none | translation and parsing | REST API, files | - | pure functions and I/O |

The hazards of each, at the line where they bite and with the properties that
cover them, are listed in `PROJECT.json`.

## Modules

### Outbox and Dispatch

`Outbox` has the columns of an outbound row as functions of the message, a
process that is up, draining or down, a clock in seconds (the store truncates
to Unix seconds), and for each worker where it is in `runOnce`/`process` and what
it holds in memory. One action per step between which something else can run:
`ClaimPending` is one action because it is one `BEGIN IMMEDIATE` transaction;
`Begin` is the expiry check, `Resolve` the directory lookup, `DeliverSucceeds`
and `DeliverFails` the POST, and `MarkDelivered`, `MarkFailed` and `MarkErrs` the
final update. `run()` starts one worker; two are modelled because
`internal/domain/ports.go` promises that two ticks never send one message twice.

A POST fails in three ways the worker cannot tell apart: never sent, refused, or
taken by the peer with the answer lost. `Shutdown` is the SIGTERM that cancels
the workers' context and `Exit` the end of `run()`, which waits for the HTTP
servers but not for the worker; `Exit` is also a crash. `Restart` opens the
store, which changes no row. `expires_at` is taken from `Lifetimes`:
`SendMessage` always leaves it NULL, but the worker's handling of it is part of
the code and is modelled for rows that carry one.

`Dispatch` is the contract: a message is accepted, tried at most `Tries` times
while it waits, and settles as delivered only if the peer took it. `Outbox`
implements it with `state` mapped from `status`, `tried` and `taken` from the
history variables `posts` and `accepted`, and `Tries` from the schedule's length
plus one. That is a statement about the code because neither MarkDelivered nor
MarkFailed looks at the status it overwrites.

### Inbound

`Inbound` is any number of concurrent `/deliver` handlers over one table, one
step per query: rate limit and decode (`Arrive`), blocklist and validation,
dedupe, recipient lookup, trust, insert, answer. The table holds the instance's
own outbound rows too, as in the code. Envelopes are records of what decides
anything: id, idempotency key, sender's domain, recipient, whether signed. The
label of a signed message is any outcome of the lookups. The limiter may turn
any delivery away. Malformed envelopes are a set. `overtaken` is history: the handlers
whose message's id or key somebody has inserted since their dedupe query found nothing.

### KeyRotation

`KeyRotation` is the `signing_keys` table, the signer's in-memory key and
concurrent `Rotate` calls, one step per statement (`LoadCurrent`,
`SaveSigningKey`, `SetActiveKey`, `RetireSigningKey`). Two keys created within one
second tie under `ORDER BY created_at DESC LIMIT 1`; the model lets either be
returned, so `GetActiveSigningKey` and `GetPreviousSigningKey` are sets of possible
answers, and the properties say when the answer is certain. `usedUntil` and `overlapped` are history: when the signer let go of a
key, and whether two calls were ever under way together.

`SignerPublished` says that the signer's key is the only possible current one. It
excludes the moments between a rotation's insert and its switch of the signer (keys.go and
ed25519.go are not under one lock), and `Tied`: another active key of the same second,
which discovery may name until it is retired. `GraceHonoured` says that a retired key is the
only possible previous one for the whole grace after its last use, unless it is
`Supplanted`: a later retired key in grace takes the only place there is. Both are
disagreements with README.md, listed under Findings.

### Verification

`Verification` instantiates `KeyRotation` as the sender and adds the receiver:
the two maps of `HTTPDirectory` as one cache whose slots are addresses (current
key) and the domain (previous key), and any number of `/deliver` handlers in
`assignTrust`. A lookup is `Hit`, or `Fetch`, `WellKnown` (the sender answers
from its table at that moment) and `Store`, because the GET is made outside the
cache's lock: two handlers can fetch the same slot, and the older answer may be
stored last. `fetchedAt` is the time of the store, as in the code. `FetchFails`
is every way a GET fails and ends the request within `Timeout`. `Conclude` is what
assignTrust does with a lookup's result: label, or fall back to the previous key.
Mail is genuine and signed with a key the signer holds or has held; it may be
arbitrarily old. One clock serves both instances. `shownAt`, `changedAt`, `unsure`
and a message's `came` and `as` are history.

Two properties exclude what the code gives up: lookups that failed (`unsure`) and
overlapping rotations, after which the signer may use a key that nobody publishes
(the `keys_race` finding). `SettledMailVerifies` also asks for `Distinct`: of two
retired keys created within one second either may be given as the previous one, and
when it expires the other takes its place without any change to the table, so that
even a table that has long stood still can leave a stale previous key in a cache.

### Mailbox

`Mailbox` is the mail of the local agents in the main database file and `archive.db`,
the archiver, and one client of every call that reads both. A message is its place in
the `(sent_at, id)` order and a thread its place in `(created_at, id)`, so a cursor is a
number. Each call is its queries as steps of their own, with stores and passes of the
archiver in between; one client is enough since readers share nothing.

| Action | Code |
|---|---|
| `ListMessages`, `SearchThreads`, `NextPage` | GET /messages and GET /threads, page by page; the dashboard's page of an agent is a first page of the same list |
| `UnreadCount`, `SearchAllAgents`, `AnswerSearch` | the dashboard's start page: unread counts, or a search agent by agent whose results are merged |
| `GetThread`, `AnswerThread`, `DashboardThread` | GET /threads/{id}, for agents who have a message in it, and the dashboard's page for anybody |
| `GetMessage`, `FindCursor` | GET /messages/{id} and the cursor: main first, then the archive |
| `Redelivered`, `InsertRedelivered` | `/deliver`'s lookup of a message that comes without an idempotency key, and the insert if it is not found |
| `SaveAgain` | a keyed message delivered again after its row left main, which is all FindByIdempotencyKey reads |
| `ArchiveOnce`, `CommitArchive`, `CommitFails` | one pass of the archiver: its delete, its insert, and a second commit that fails |

A pass is one transaction over two attached files. With WAL journals SQLite
commits each file by itself, the main file first, so `ArchiveOnce` is the delete
becoming visible and `CommitArchive` the insert. A crash between them leaves the rows
in neither, and so does `CommitFails`, a write to the archive's WAL that fails (a full disk)
once main's is committed: archive.go:190 returns the error, `Run` logs it, and no rollback
reaches what main has committed. `MarkRead` and `CommitArchive` are external: nothing in the
program marks mail read, which README.md's section on archiving takes for granted.
`moved` and `again` are history and name the only rows a page may repeat or miss (a
row that comes again between two pages of a walk counts as moved), `owed` is what a
call should find. message_count, one more GetThread per thread
listed, is left out. `MCMailbox` gives TLC a `VIEW` that drops the finished call's variables
while no call runs: every call starts by assigning them all, and no action property
starts from an idle state. The invariants' values are part of the view.

### RateLimiter and TokenBucket

`RateLimiter` is `DomainLimiters`: a map from domain to bucket and last use, one lock,
and a sweep. `Allow` is two steps, `Look` (lock, make the entry, set lastSeen) and `Admit`
or `Refuse` (`rate.Limiter.Allow`, external), because each reads the clock for itself.
The clock counts units in which whole tokens accrue. `Sweep` comes at its tick or up to
`Lag` later, `Restart` empties the map (README.md calls that an acceptable trade), and
`Watch` starts the count of what was let through afresh at any moment, so that
`WithinRate` speaks about every stretch of time.

`TokenBucket` is the contract: one bucket per domain that is never deleted and refilled at
every tick. `RateLimiter` implements it with `level` mapped to what the lazy bucket would
hold now, or a full one for a domain without an entry. That is true only if an idle bucket
is full again before the sweep may take it, the named assumption `RefilledBeforeSwept`.
The defaults, 20 tokens at 5 a second against ten minutes, satisfy it with room to
spare; `config.go` does not check it, so a burst of more than ten minutes of the rate,
or a rate of 0 with a burst, is outside what is shown.

### Instance

`Instance` is one process over one database, booted and ended any number of times.
`stage` is where `run()` is: `Open`, `NewSigner`, `GetAdminCredential`,
`SaveAdminCredential`, `ShowToken`, then serving until `Signal`; `ShutdownMain` and
`ShutdownAdmin` are the two `Server.Shutdown` calls that share one deadline (`Expire`), and
`Exit` comes after `store.Close()`. Each server has a goroutine that gets to `Listen` in its
own time, or never. `Crash` is the end of the process at any other point: a kill, a second
signal, or a signal before `run()` asks for them.

A request is accepted, authenticated (`BearerAuth`, `AdminAuth`), handled and answered in
steps of their own, with any token that anybody has, the agents' at the admin API
and the admin's at the agents' included. `CreateAgent`, `SaveBlocklistEntry`, `ListAgents`,
`ListBlocklist`, `AgentsMe` and `Send` are the handlers; what /send, /messages and /threads
do to mail is in the other modules. A handler's query may fail, does fail once the store is
closed, and the client may be gone. `shown`, `given`, `acked`, `cut` and `boots` are
history: who was told what.

## Runs

| Run | Question | Bounds |
|---|---|---|
| `outbox_safety` | Are claims, POST counts, retries and statuses sound under every fault, and is the contract met? | 2 messages, 2 workers, schedule <<1, 2>>, with expiry after 1 s and without, submissions up to second 2 |
| `outbox_live` | Does every accepted message settle when nothing stops the daemon? | 2 messages, 1 worker, schedule <<1, 2>>, expiry 2 s or none |
| `outbox_shutdown` | Finding: a stop strands a claimed row | 1 message, 1 worker |
| `inbound_safety` | Is mail stored soundly and answered truthfully, and is an insert refused only for a race or a foreign id? | 2 handlers, 7 envelopes sharing ids and keys across senders, errors and crashes |
| `inbound_local` | Finding: mail within one instance is never stored inbound | 1 envelope, 2 handlers |
| `keys_safety` | Is there always a key, is the signer's the only one discovery can give, and a retired one for all its grace? | 4 keys, 2 rotations, grace 2 s, 4 seconds, errors and crashes |
| `keys_race` | Finding: overlapping rotations leave a retired key signing | 3 keys, 2 rotations |
| `verify_safety` | When does a withdrawn key stop verifying, and when does good mail surely verify? | 2 keys, 1 rotation, 2 handlers, TTL 1 s, timeout 1 s, grace 3 s, 3 seconds |
| `verify_rotation` | Finding: new mail is untrusted against a cached old key | as above, 1 handler |
| `mailbox` | Do lists, threads, searches and lookups return everything once, and is no row lost, while mail comes, moves, comes again, the daemon crashes and commits fail half way? | 4 messages in 2 threads, 2 agents, 2 items a page, 1 keyed and 1 unkeyed message that comes again |
| `limiter` | Does the swept, lazily refilled limiter keep to its rate, forget idle domains, and answer as buckets kept for ever would? | 2 domains, rate 1, burst 2, TTL 2, sweep every 2 with a lag of 1, 7 units of time |
| `instance` | Do tokens work for whom they were made, is the credential known, is nothing served too early or cut off by a clean exit, and does a shutdown end? | 2 requests at once, 2 names, 1 domain, 3 tokens, 2 boots, every fault |

The bounds are small and enough for what they ask: a claim conflict needs two
workers and one message, batch order needs two messages, the schedule's end needs
one retry and its middle a second; an expiry of one or two seconds falls before,
at and after a retry. `Tick` in `Outbox` goes past `MaxTime` as long as a retry is
waiting, so no retry is cut off by the bound. A race of deliveries needs two
handlers, and the seven envelopes hold every way two messages can share an id or a
key. Four keys allow the first key and three rotations, one more than can overlap.
Three seconds hold a rotation, a cache lifetime and a request in sequence, and two
handlers two answers for one slot stored in either order. Four messages, three of one
agent, make a full page and a short one, let a pass move rows before, at and after the
cursor, and put one thread in both agents' mail. Seven units of time hold a burst, an
idle TTL with the sweep after it, and a second burst. Two requests are what a race for a
name or a hanging request beside another needs; three tokens are the credential and one
for each name, or two for one name; two boots let every token and row outlive its
process. Messages, workers, handlers, keys and rotations are symmetric in the runs that
check safety only.

`CHECK_DEADLOCK FALSE` is set where the instance really comes to rest:
`outbox_live` once everything has settled, `keys_race` and the two verification
runs once the keys and the clock are used up, and `instance` after its last boot.

### Fairness

`outbox_live` assumes weak fairness of each worker's loop (a goroutine with a
ticker and no exit but cancellation; every call in it has a timeout), of the clock
and of restarting a stopped daemon. Nothing is assumed of peers: a POST may fail
every time. Submissions and faults need not happen. With a stop or a failing
store the property is false: see the finding below.

`instance` assumes weak fairness of `run()`'s shutdown steps: its goroutine is not
blocked by anything but `Shutdown`, which returns at the deadline, and the deadline is a
timer. Nothing is assumed of requests, clients or listeners: a handler may hang for ever.

## Proofs

Each proof module builds up an inductive invariant, with a lemma per action (or per part of the
invariant) that a step keeps it, and has one theorem per property. All hold for any
sets the named assumptions allow, finite or infinite.

- `OutboxProofs`: every safety property of Outbox, and `ImplementsDispatch`. The
  properties are not inductive: `PostsAccounted` only follows because a message in
  hand, up to its Mark call, has as many recorded failures as POSTs (`HandInv`), because
  the Attempts the worker read are still the row's (`ClaimsExclusive`), and because a
  verdict agrees with the row it will be written to (`VerdictInv`). `Refinement`
  uses the same invariant to show that every step is a Dispatch step or none.
  `ClaimedIsHeld` is proved for an instance without faults, which is what
  `outbox_live` checks and `outbox_shutdown` refutes with one; `OnlyFaultsStrand` says for
  every instance what leaves a claimed row behind: a Mark call that fails, or the end of
  the process, and nothing else.
- `InboundProofs`: `TypeOK`, `ConflictsAreRaces`, `AcceptedIsKnown`,
  `RedeliveryIsNoop`, `InboxIsSound`. The invariant adds what each step of a handler
  has established (`HandlerInv`, `PassedInv`) and that what was true on arrival stays
  true, since rows and blocklist entries are never removed (`ArrivalInv`).
  `ConflictsAreRaces` needs `DedupeInv`: if the message of a delivery past its dedupe
  query is known by now, that delivery was overtaken. A refused insert violates one of two
  constraints (`ViolatesOrTaken`); either the message is known, or its id is another's.
- `KeyRotationProofs`: `TypeOK`, `AlwaysAnActiveKey`, `SignerPublished`,
  `GraceHonoured`. The invariant for the first, `KeepsOne`, is that some active key
  is the target of no call that has already saved its own; without that, two calls
  retiring each other's keys could not be excluded. `SignerPublished` needs that outside
  the install window no active key is newer than the signer's, and
  `GraceHonoured` that retire_at is never earlier than the last use plus the grace
  (`DeadlineInv`). `DeadlinesInOrder` is that retired
  keys expire in the order they were created, as long as rotations come one at a time.
  Its invariant (`RetireOrder`) is that a rotation always retires a key no retired one is
  newer than, with a deadline no earlier than any before it. `NewestExists` shows that
  ORDER BY created_at DESC LIMIT 1 finds a row where there is one, for any set of keys.
- `VerificationProofs`: all of Verification's properties. `VerifiedIsTimely` rests on the
  receiver alone: a request under way is within its timeout and was answered with a key
  published no earlier than it was asked (`RequestInv`), so that an entry is stored
  at most one timeout after its key was published (`CacheInv`), and nothing in
  the history lies in the future (`ClockInv`). `SettledMailVerifies` and
  `GraceMailVerifies` need the sender too. The module instantiates `KeyRotationProofs` and
  shows that every execution here is one of KeyRotation's (`SenderHolds`), which also gives
  the sender's part of `TypeOK`. To that it adds what old answers still say: a reply
  asked for, and an entry stored a timeout later, after the table last changed names a
  key that is still current, or one that no key in grace is newer than (`Stands`, in
  `CacheAnswers` and `ReplyAnswers`), for time alone only takes keys out of their grace.
  A message that reaches its second lookup then has another key than the only current one
  (`MailInv`). An untrusted label would need an answer that stands but is not the
  message's key, though that key is the previous one; by `DeadlinesInOrder` it would be in
  grace itself and newer.
- `MailboxProofs`, over the lemmas of `MailboxOrder`: all of Mailbox's properties. A list
  is a sorted merge of two queries, each cut off at the page size, and what that returns is
  proved for lists of any length in `MailboxOrder`: the merge has every item of both, in
  order (`SortedRange`, `SortedAscends`), a query's cut leaves out only what is past a full
  page (`FirstIsFirst`, `FewAreAll`), and so does the page (`CutSortedIsPage`). These are
  inductions; the module does them by taking a least counterexample in the naturals
  (`LeastExists`, from the library's `WFMin`). The invariant (`MailboxInv`) then follows
  a call between its two queries: rows on their way are in neither file and have been
  seen by the call that runs (`FilesInv`), an item the first query missed is in the archive
  or was excused because a pass moved it (`SkipInv`, `ThreadInv`, `SearchInv`), and a walk's
  cursor is the last item it gave (`OrderInv`). `BothOnlyIfAgain` is the part of "exactly
  one of the two" that does hold.
- `RateLimiterProofs`: `TypeOK`, `WithinRate`, `IdleEntriesExpire` and
  `ImplementsTokenBucket`. What has been let through since the watch began and what is
  still in the bucket never exceed a burst and the rate times the time (`Accounted`),
  and that survives the sweep because an entry older than the TTL would be full
  (`RefilledBeforeSwept`); entries' times never run ahead of the clock and the sweep is
  never later than its lag.
- `InstanceProofs`: all of Instance's invariants, from one inductive invariant
  (`InstanceInv`). Its parts: every hash in the tables is of one token, made for one
  purpose (`TableInv`, which also shows that no agent's token is ever the admin
  credential); a server listens only in a stage where bootstrap is over (`StageInv`);
  what a request has established, it established from rows that are never deleted, so
  it stays true until it is handled, whatever happens meanwhile (`CallsInv`); and once a
  server has drained nothing is in flight on it again (`DrainInv`).

The assumptions are the named `ASSUME`s of each module (bounds are numbers, the
null value is not one of them); TLC evaluates them in every run.

Only model-checked: the two liveness properties, `EventuallySettled` and
`StopsEventually`, for the prover does not do fairness; and the four findings, which are
counterexamples. Every safety property of a passing run is a theorem.

Two statements changed because their first proofs failed, and TLC then found why on
instances larger than the runs'. `NothingSkipped` was false with one item a page: a
message stored again between two pages was not counted among the moved. And
`SettledMailVerifies` was false with three keys, two of them retired and created within one
second; see Verification above.

## Findings

- `outbox_shutdown`: a stop or crash while rows are claimed leaves them 'claimed'
  for ever; nothing requeues them and nobody is told.
- `inbound_local`: mail between two agents of one instance is answered 200 and
  never stored for the recipient.
- `keys_race`: two overlapping rotations can leave the signer on a retired key.
- `verify_rotation`: for up to one cache lifetime after a rotation, mail signed with
  the sender's new key is labelled untrusted by peers that have the old key cached;
  the fallback asks for the previous key only.

Smaller observations have no run:

- A redelivery that overlaps the first copy gets 500 where README.md promises a silent
  no-op (receive_message.go:157); the peer retries and is then told 200, which is the first
  half of `ConflictsAreRaces`. The other half is mail whose id another sender's message
  has: every retry of it gets 500, until the peer gives up.
- A crash between the two commits of a pass, or a second commit that fails
  (archive.go:190), loses the rows moved, though store.go:77 calls the move atomic;
  `OnlyACutCommitLoses` bounds it.
- README.md:247-250 has the replaced key verify until the grace period ends.
  keys.go:212-219 publishes the newest retired key only, so a second rotation within one grace
  period ends the grace of the key before. `GraceHonoured` shows that nothing else
  does while rotations come one at a time; without its exception `Supplanted` it is false.
- A rotation within one second of the key it replaces leaves two active keys with one
  created_at until the old one is retired, and longer if that statement fails. Discovery may name
  the one the signer does not use (keys.go:188-195); `SignerPublished` shows that this tie
  and the install window are the only times it can.
- A crash or failed statement between SaveSigningKey and RetireSigningKey leaves the old
  key active but neither the newest nor retired, so discovery names it no more and it
  has no grace (rotation.go:86; README.md:248 promises one).
- The idempotency lookup reads the main file only (store.go:697), so a keyed message that
  comes again after it was archived is stored and listed twice, and the archiver
  fails on it from then on. Dormant until something marks mail read.
- Rotating twice within a second leaves two retired keys with one created_at. Discovery
  then names either as the previous key, and later the other one, without a change to
  the table (keys.go:218, ORDER BY created_at alone); a peer's cache can be wrong
  about it for a whole lifetime.
- An admin credential whose printing was cut off is never replaced: `CredentialKnown`
  shows that this crash is the only way to lose it; `bootstrap_admin.go`'s comment that it
  "was shown once, on the boot that created it" does not mention it.
- bearerAuthMiddleware answers 401 when its query fails: a client cannot tell that from
  a bad token.

## Plan

Done: the outbound and inbound parts, keys, verification, mailbox, limiter, the
process around them, and a theorem for each safety property a passing run checks. Left,
in this order:

1. `Federation`: `Outbox` of one instance and `Inbound` of another, the POST's
   outcome being the handler's answer. Delivered means stored at the peer; with
   redeliveries, stored once. Its refinement of a mail contract.
2. A sharper bound on what a tie of two retired keys costs, and theorems on the
   findings' scope in the style of `OnlyFaultsStrand`: what exactly must happen before a
   retired key signs.

## Not modelled

- Key encryption, the canonical string's formatting, FTS queries, HTTP and JSON
  parsing, templates and static files: data that no property here tells apart.
  Request bodies, subjects and priorities are left out of envelopes for the same reason.
- `config.go`: a pure function of a file and the environment. Its values are the
  constants of the modules. `message.default_ttl` is read by nothing.
- The MCP server: another process, without state, that makes one REST request per tool
  call.
- A listener that cannot bind: it is logged and the process goes on. In Instance,
  `Listen` need never happen.
- Migrations and `internal/domain`: types, schema and test doubles.
