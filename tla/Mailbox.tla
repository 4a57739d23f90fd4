------------------------------ MODULE Mailbox ------------------------------
(***************************************************************************)
(* The agents' mail in two SQLite files, the archiver that moves read mail *)
(* from the main file to archive.db, and a client of the reading calls,    *)
(* each a query per file: GET /messages and GET /threads page by page,     *)
(* GET /messages/{id}, GET /threads/{id}, the dashboard's search and       *)
(* unread counts, and the lookup by which /deliver knows mail again.       *)
(*                                                                         *)
(* Pages are ordered by (sent_at, id), threads by (created_at, id), both   *)
(* total orders: a message or thread is its place in that order.  Filters  *)
(* by text, sender or status narrow both queries alike and are left out.   *)
(***************************************************************************)
EXTENDS Integers, Sequences, FiniteSetsExt, SequencesExt

CONSTANTS
  Msg,       \* message places; 0 stands for no cursor
  ThreadOf,  \* the place of each message's thread
  Agents,    \* how many local agents there are: 1 .. Agents, by id
  Owner,     \* the agent in whose mailbox a message is
  Again,     \* messages that are delivered again later
  Keyed,     \* those of them that have an idempotency key
  Limit,     \* the page size, after clampLimit
  Faults     \* "crash": the process may die; "commit": a commit may fail half way

ASSUME MailboxAssumption ==
  /\ Msg \subseteq Nat \ {0}
  /\ ThreadOf \in [Msg -> Nat \ {0}]
  /\ Agents \in Nat \ {0} /\ Owner \in [Msg -> 1 .. Agents]
  /\ Again \subseteq Msg /\ Keyed \subseteq Again
  /\ Limit \in Nat \ {0}
  /\ Faults \subseteq {"crash", "commit"}

VARIABLES
  \* messages in each file, the main file's rows marked read, and the rows a pass
  \* of the archiver has committed to the main file but not yet to the archive
  main, archive, read, moving,
  \* the client's call: what it asks for, for which agent, where the call is, its
  \* cursor or the id asked for, and what its first query returned
  kind, agent, pc, after, got,
  \* history: messages ever stored, and stored again; for the call or walk, what
  \* there was at its start and what was returned so far, and the messages that
  \* a pass has moved during its calls or that were stored again since its start
  stored, again, owed, served, moved

files == <<main, archive, read, moving, stored, again>>
walk  == <<kind, agent, pc, after, got, owed, served>>
vars  == <<files, walk, moved>>

Thread == {ThreadOf[m] : m \in Msg}
Agent  == 1 .. Agents

Walks == {"messages", "threads"}
Kind  == Walks \cup {"unread", "search", "message", "thread", "redelivery"}

TypeOK ==
  /\ main \subseteq Msg /\ archive \subseteq Msg /\ moving \subseteq Msg
  /\ read \subseteq stored /\ stored \subseteq Msg /\ moved \subseteq Msg
  /\ again \subseteq Again
  /\ kind \in Kind /\ agent \in Agent \cup {0}
  /\ pc \in {"idle", "next", "cursor", "main", "archive", "insert"}
  /\ after \in Msg \cup Thread \cup {0}
  /\ got \subseteq Msg \cup Thread /\ owed \subseteq Msg \cup Thread
  /\ served \in Seq(Msg \cup Thread)
  /\ pc = "next" => kind \in Walks /\ served # <<>> /\ after = Last(served)

Init ==
  /\ main = {} /\ archive = {} /\ read = {} /\ moving = {} /\ stored = {} /\ again = {}
  /\ kind = "messages" /\ agent = 1 /\ pc = "idle" /\ after = 0
  /\ got = {} /\ owed = {} /\ served = <<>> /\ moved = {}

-----------------------------------------------------------------------------
(* The files.  One writer at a time: _txlock=immediate. *)

\* Mail is stored, in any order: sent_at is the sender's clock.
SaveMessage(m) ==
  /\ moving = {}
  /\ m \notin stored
  /\ main' = main \cup {m}
  /\ stored' = stored \cup {m}
  /\ UNCHANGED <<archive, read, moving, again, walk, moved>>

\* A call is between its first query and its last.
InCall == pc \notin {"idle", "next"}

\* A row is stored that had been stored before.
Insert(m) ==
  /\ moving = {}
  /\ m \notin main
  /\ main' = main \cup {m}
  /\ read' = read \ {m}
  /\ again' = again \cup {m}
  /\ UNCHANGED <<archive, moving, stored>>

\* A message comes again.  With a key, only the key is looked up, and only in the
\* main file: once its row is out of there the message is stored as new.
SaveAgain(m) ==
  /\ m \in stored \cap Keyed
  /\ Insert(m)
  /\ moved' = IF pc = "idle" THEN moved ELSE moved \cup {m}
  /\ UNCHANGED walk

\* A row is marked read.  The archiver and README.md count on it; nothing in the
\* program does it yet.
MarkRead(m) ==
  /\ moving = {}
  /\ m \in main \ read
  /\ read' = read \cup {m}
  /\ UNCHANGED <<main, archive, moving, stored, again, walk, moved>>

\* The rows of one pass: read, and sent at or before the cutoff.
Old(cutoff) == {m \in main \cap read : m <= cutoff}

\* Mutant: the DELETE forgets the cutoff.
ArchiveOnce_DeletesMore(cutoff) ==
  /\ moving = {} /\ Old(cutoff) # {}
  /\ Old(cutoff) \cap archive = {}
  /\ main' = main \ read
  /\ moving' = Old(cutoff)
  /\ moved' = IF InCall THEN moved \cup moving' ELSE moved
  /\ UNCHANGED <<archive, read, stored, again, walk>>

\* A pass copies and deletes in one transaction over both files, and its
\* commit reaches the main file first.  If the archive has one of the rows the
\* INSERT fails and nothing is moved.
ArchiveOnce(cutoff) ==
  /\ moving = {} /\ Old(cutoff) # {}
  /\ Old(cutoff) \cap archive = {}
  /\ main' = main \ Old(cutoff)
  /\ moving' = Old(cutoff)
  /\ moved' = IF InCall THEN moved \cup moving' ELSE moved
  /\ UNCHANGED <<archive, read, stored, again, walk>>

\* The same commit reaches the archive's WAL.
CommitArchive ==
  /\ moving # {}
  /\ archive' = archive \cup moving
  /\ moving' = {}
  /\ UNCHANGED <<main, read, stored, again, walk, moved>>

\* Or it fails there, the disk being full for instance: tx.Commit returns the error,
\* which Run logs, and nothing takes main's part of it back.  (One that fails in
\* main already changes neither file.)
CommitFails ==
  /\ "commit" \in Faults
  /\ moving # {}
  /\ moving' = {}
  /\ UNCHANGED <<main, archive, read, stored, again, walk, moved>>

\* The process dies and restarts: what had not reached the archive's WAL is in
\* neither file.  A client in the middle of a walk asks for its page again.
Crash ==
  /\ "crash" \in Faults
  /\ moving' = {}
  /\ IF pc # "idle" /\ kind \in Walks /\ after # 0
     THEN pc' = "next" /\ UNCHANGED <<after, owed>>
     ELSE pc' = "idle" /\ after' = 0 /\ owed' = {}
  /\ got' = {}
  /\ UNCHANGED <<main, archive, read, stored, again, kind, agent, served, moved>>

-----------------------------------------------------------------------------
(* Lists *)

\* An agent's rows, and the threads they belong to.
Mine(a, file)    == {m \in file : Owner[m] = a}
Threads(a, file) == {ThreadOf[m] : m \in Mine(a, file)}

\* All of a thread, whoever's: threadMessagesFrom.
InThread(t, file) == {m \in file : ThreadOf[m] = t}

\* The first n of a set: ORDER BY ... LIMIT n.
First(n, S) == {x \in S : Cardinality({y \in S : y < x}) < n}

\* The items strictly after the cursor.
Past(S) == {x \in S : x > after}

\* What the query on the main file returns.
OfMain ==
  CASE kind = "messages"             -> First(Limit, Past(Mine(agent, main)))
    [] kind = "unread"               -> First(Limit, Mine(agent, main \ read))
    [] kind \in {"threads", "search"} -> First(Limit, Past(Threads(agent, main)))
    [] kind = "thread"               -> InThread(after, main)

\* And on the archive, whose rows are all marked read; for threads it gives the
\* ids of all that match, and main the thread rows.
OfArchive ==
  CASE kind = "messages"             -> First(Limit, Past(Mine(agent, archive)))
    [] kind = "unread"               -> {}
    [] kind \in {"threads", "search"} -> Past(Threads(agent, archive))
    [] kind = "thread"               -> InThread(after, archive)

\* How many of both lists are at or before x.
UpTo(A, B, x) == Cardinality({y \in A : y <= x}) + Cardinality({y \in B : y <= x})

\* Both lists in one order, what is in both twice: the i-th item is the first up
\* to which there are i.
Sorted(A, B) ==
  [i \in 1 .. Cardinality(A) + Cardinality(B) |-> Min({x \in A \cup B : i <= UpTo(A, B, x)})]

Cut(seq, n) == SubSeq(seq, 1, IF Len(seq) < n THEN Len(seq) ELSE n)

\* Mutant: a thread found in both files is listed twice.
Merge_NotSeen(mains, archives) ==
  IF kind = "thread" THEN Sorted(mains, archives) ELSE Cut(Sorted(mains, archives), Limit)

\* Mutant: a thread's messages are cut to a page.
Merge_Capped(mains, archives) ==
  Cut(Sorted(mains, IF kind \in {"threads", "search"} THEN archives \ mains ELSE archives), Limit)

\* Both queries' results in order, a list cut to a page.  Threads already seen in
\* main are dropped; messages are not compared.
Merge(mains, archives) ==
  LET new == IF kind \in {"threads", "search"} THEN archives \ mains ELSE archives
      all == Sorted(mains, new)
  IN  IF kind = "thread" THEN all ELSE Cut(all, Limit)

-----------------------------------------------------------------------------
(* Calls *)

Ask(k, a) ==
  /\ pc = "idle"
  /\ kind' = k /\ agent' = a
  /\ got' = {} /\ moved' = moving
  /\ UNCHANGED files

\* It is under way, at its first query that is not answered yet.
Look(step, id, there) == pc' = step /\ after' = id /\ owed' = there /\ served' = <<>>

\* It has its answer; what it asked for is forgotten.
Over == pc' = "idle" /\ after' = 0 /\ owed' = {}

\* A client asks for a first page.
StartWalk(k, a, there) == Ask(k, a) /\ Look("main", 0, there)

\* GET /messages and GET /threads, always of the agent whose token it is.
ListMessages(a)  == StartWalk("messages", a, Mine(a, main \cup archive))
SearchThreads(a) == StartWalk("threads", a, Threads(a, main \cup archive))

\* The dashboard's start page: the agents' unread counts, agent by agent, or a
\* search over the threads of all of them.
UnreadCount(a)  == StartWalk("unread", a, {})
SearchAllAgents == StartWalk("search", 1, {ThreadOf[m] : m \in main \cup archive})

\* A client asks for the next page: the cursor's row is looked up in main.  Thread
\* rows never leave it.
NextPage ==
  /\ pc = "next"
  /\ pc' = IF kind = "threads" \/ after \in main THEN "main" ELSE "cursor"
  /\ moved' = moved \cup moving
  /\ UNCHANGED <<files, kind, agent, after, got, owed, served>>

\* GET /threads/{id}: the thread's row is in main from its first message on.
GetThread(t, a) ==
  /\ t \in {ThreadOf[m] : m \in stored}
  /\ Ask("thread", a)
  /\ Look("main", t, InThread(t, main \cup archive))

\* The dashboard's page of a thread is no agent's in particular.
DashboardThread(t) == GetThread(t, 0)

\* Another agent's message is as good as none.
Own(m, a) == IF Owner[m] = a THEN <<m>> ELSE <<>>

\* GET /messages/{id}: Store.GetMessage's lookup in main.
GetMessage(m, a) ==
  /\ m \in stored
  /\ Ask("message", a)
  /\ \/ m \in main /\ Over /\ served' = Own(m, a)
     \/ m \notin main /\ Look("cursor", m, {})

\* A message without a key is delivered again: ReceiveMessage looks its id up the
\* same way, and inserts it if it is not found.
Redelivered(m) ==
  /\ m \in (stored \cap Again) \ Keyed
  /\ Ask("redelivery", 0)
  /\ \/ m \in main /\ Over /\ served' = <<>>
     \/ m \notin main /\ Look("cursor", m, {})

InsertRedelivered ==
  /\ pc = "insert" /\ Insert(after)
  /\ Over
  /\ UNCHANGED <<kind, agent, got, served, moved>>

\* Mutant: only the main file is searched.
FindCursor_MainOnly ==
  /\ pc = "cursor"
  /\ IF kind = "redelivery" THEN pc' = "insert" /\ UNCHANGED <<after, owed>> ELSE Over
  /\ UNCHANGED <<files, kind, agent, got, served, moved>>

\* What is not in main is looked up in the archive: a cursor, a message asked for
\* or one redelivered.  One in neither gives an empty page, the last; a 404; and
\* an insert.
FindCursor ==
  /\ pc = "cursor"
  /\ \/ /\ after \in archive /\ kind \in Walks
        /\ pc' = "main" /\ UNCHANGED <<after, owed, served>>
     \/ /\ after \in archive /\ kind \notin Walks
        /\ Over /\ served' = IF kind = "message" THEN Own(after, agent) ELSE <<>>
     \/ /\ after \notin archive /\ kind # "redelivery"
        /\ Over /\ UNCHANGED served
     \/ /\ after \notin archive /\ kind = "redelivery"
        /\ pc' = "insert" /\ UNCHANGED <<after, owed, served>>
  /\ UNCHANGED <<files, kind, agent, got, moved>>

QueryMain ==
  /\ pc = "main"
  /\ got' = OfMain
  /\ pc' = "archive"
  /\ UNCHANGED <<files, kind, agent, after, owed, served, moved>>

\* Mutant: next_cursor is the page's first item.
AnswerPage_FirstIsCursor(page) ==
  /\ served' = served \o page
  /\ IF Len(page) = Limit THEN pc' = "next" /\ after' = Head(page) /\ UNCHANGED owed
                          ELSE Over
  /\ UNCHANGED agent

\* Mutant: a page that is just full is taken for the last.
AnswerPage_EndsEarly(page) ==
  /\ served' = served \o page
  /\ IF Len(page) > Limit THEN pc' = "next" /\ after' = Last(page) /\ UNCHANGED owed
                          ELSE Over
  /\ UNCHANGED agent

\* A full page has a next_cursor.
AnswerPage(page) ==
  /\ served' = served \o page
  /\ IF Len(page) = Limit THEN pc' = "next" /\ after' = Last(page) /\ UNCHANGED owed
                          ELSE Over
  /\ UNCHANGED agent

\* The whole thread, if one of its messages is the agent's own.
AnswerThread(page) ==
  /\ served' = IF agent = 0 \/ \E m \in Range(page) : Owner[m] = agent THEN page ELSE <<>>
  /\ Over
  /\ UNCHANGED agent

\* Mutant: each agent's threads replace those found before.
AnswerSearch_LastAgent(page) ==
  IF agent = Agents
  THEN Over /\ served' = Cut(page, Limit) /\ UNCHANGED agent
  ELSE pc' = "main" /\ served' = page /\ agent' = agent + 1 /\ UNCHANGED <<after, owed>>

\* The search goes on with the next agent, keeping the threads not seen already,
\* and is sorted and cut in the end; by created_at alone, so that the code may
\* order threads of one second differently.
AnswerSearch(page) ==
  LET rows == Sorted(Range(served), Range(page) \ Range(served))
  IN  IF agent = Agents
      THEN Over /\ served' = Cut(rows, Limit) /\ UNCHANGED agent
      ELSE pc' = "main" /\ served' = rows /\ agent' = agent + 1 /\ UNCHANGED <<after, owed>>

\* The archive's query, the merge and what becomes of it.
QueryArchive ==
  /\ pc = "archive"
  /\ LET page == Merge(got, OfArchive)
     IN  \/ kind \in Walks /\ AnswerPage(page)
         \/ kind = "unread" /\ Over /\ served' = page /\ UNCHANGED agent
         \/ kind = "thread" /\ AnswerThread(page)
         \/ kind = "search" /\ AnswerSearch(page)
  /\ got' = {}
  /\ UNCHANGED <<files, kind, moved>>

-----------------------------------------------------------------------------
Archiver == (\E cutoff \in Msg : ArchiveOnce(cutoff)) \/ CommitArchive \/ CommitFails

Reader ==
  \/ \E a \in Agent :
       \/ ListMessages(a) \/ SearchThreads(a) \/ UnreadCount(a)
       \/ \E m \in Msg : GetMessage(m, a)
  \/ \E t \in Thread : DashboardThread(t) \/ \E a \in Agent : GetThread(t, a)
  \/ SearchAllAgents
  \/ \E m \in Msg : Redelivered(m)
  \/ NextPage \/ FindCursor \/ QueryMain \/ QueryArchive

Client == Reader \/ InsertRedelivered

Next ==
  \/ \E m \in Msg : SaveMessage(m) \/ SaveAgain(m) \/ MarkRead(m)
  \/ Archiver
  \/ Crash
  \/ Client

Spec == Init /\ [][Next]_vars

-----------------------------------------------------------------------------
(* Safety *)

\* Rows stored once and now nowhere.
Lost == stored \ (main \cup archive \cup moving)

\* A row leaves the mailbox only between the two commits of the pass that moves it,
\* if the process dies there or the second one fails; no pass loses one otherwise
\* (store.go calls the move atomic).
OnlyACutCommitLoses ==
  [][Lost' \subseteq Lost \/ ((Crash \/ CommitFails) /\ Lost' \subseteq Lost \cup moving)]_vars

\* Over all pages of a walk items only ever come later in the order, whatever
\* is stored and moved meanwhile, except that a message moved while a page was
\* being read, or stored again, may come twice on it; a thread never does, nor
\* does an unread message.
PagesAscend ==
  \A i \in 1 .. Len(served) - 1 :
    \/ served[i] < served[i + 1]
    \/ kind \in {"messages", "thread"} /\ served[i] = served[i + 1]
       /\ served[i] \in moved \cup again

\* A walk that ends with a short page has returned everything there was when it
\* began and that no pass moved while a page was being read (list_messages.go,
\* search_threads.go: no next_cursor means no next page).
NothingSkipped ==
  [][QueryArchive /\ pc' = "idle" /\ kind \in Walks =>
       \A x \in owed : \/ x \in Range(served')
                       \/ kind = "messages" /\ x \in moved \cup Lost
                       \/ kind = "threads" /\ x \in Threads(agent, moved \cup Lost)]_vars

\* The lookup ends without its row: the walk is over, the mail redelivered is
\* inserted, the agent's own message is a 404.
NotFound ==
  CASE kind \in Walks      -> pc' = "idle"
    [] kind = "redelivery" -> pc' = "insert"
    [] kind = "message"    -> served' = <<>> /\ Owner[after] = agent

\* Mail that was there and is looked up by its id, as a cursor, for its own sake or
\* because it was delivered again, is taken for unknown only if a pass is between
\* its two commits at that moment, or if it was lost there, or if it came back to
\* main since (store.go, GetMessage: "a message lives in exactly one of the two").
LookupsMissOnlyMoving ==
  [][FindCursor /\ NotFound =>
       \/ after \in moving \cup Lost
       \/ after \in (main \cap again) \ archive]_vars

\* What a call may miss although both files are searched: rows between the two
\* commits of a pass, lost there, or lost and stored again since the call began.
Missing == moving \cup Lost \cup ((main \cap again \cap moved) \ archive)

\* Whoever has mail in a thread gets all of it: GET /threads/{id} leaves out what a
\* pass has between its two commits at that moment, or lost there, and nothing
\* else, and is a 404 only if that is all of the agent's own.
ThreadIsWhole ==
  [][QueryArchive /\ kind = "thread" =>
       \/ owed \ Missing \subseteq Range(served')
       \/ served' = <<>> /\ agent # 0 /\ Mine(agent, owed) \subseteq Missing]_vars

\* The dashboard's search finds every thread there was when it began, unless there
\* are more than it shows, or a pass moved mail of that thread meanwhile.
SearchFindsAll ==
  [][QueryArchive /\ kind = "search" /\ pc' = "idle" =>
       \/ Cardinality({ThreadOf[m] : m \in stored}) > Limit
       \/ owed \ {ThreadOf[m] : m \in moved \cup Lost} \subseteq Range(served')]_vars
=============================================================================
