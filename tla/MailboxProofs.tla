---------------------------- MODULE MailboxProofs ----------------------------
(***************************************************************************)
(* Proofs about Mailbox for any mail, any page size, any number of agents, *)
(* any cutoffs and any crashes: no row is lost but by a crash in the       *)
(* middle of a commit, lookups miss only rows on the move, pages ascend    *)
(* and a walk over them skips nothing that stood still, a thread comes     *)
(* whole and a search finds all that fits.                                 *)
(***************************************************************************)
EXTENDS MailboxOrder

ThreadsOf(S) == {ThreadOf[m] : m \in S}

\* A row on its way to the archive has been stored and is in neither file, only
\* rows that were stored again are in both, and there are finitely many.  A call
\* knows of every row that moves while it runs.
FilesInv ==
  /\ main \subseteq stored /\ archive \subseteq stored /\ moving \subseteq stored
  /\ moving \cap (main \cup archive) = {}
  /\ main \cap archive \subseteq again
  /\ IsFiniteSet(stored)
  /\ InCall => moving \subseteq moved

\* What is looked up by its id has been stored, and if it is back in main since,
\* it was stored again.
ById      == kind \in {"message", "redelivery"}
LookupInv ==
  /\ pc \in {"cursor", "insert"} =>
       /\ kind = "messages" \/ ById
       /\ after \in stored /\ (after \in main => after \in again)
  /\ ById => pc \in {"idle", "cursor", "insert"}
  /\ pc = "insert" => kind = "redelivery"
  /\ kind = "redelivery" /\ pc # "idle" => after \in Again

\* The first query's results: stored messages, each in main still or moved since,
\* or threads; for a walk past its cursor.
GotInv ==
  pc = "archive" =>
    /\ kind \in {"messages", "unread", "thread"} => got \subseteq stored /\ got \subseteq main \cup moved
    /\ kind \in {"threads", "search"} => got \subseteq ThreadsOf(stored)
    /\ kind \in Walks => \A x \in got : x > after

\* A walk's cursor is the last item of its pages so far, in which nothing ever goes
\* back.
OrderInv ==
  /\ PagesAscend
  /\ kind \in Walks /\ pc # "idle" =>
       \/ served = <<>> /\ after = 0 /\ pc \in {"main", "archive"}
       \/ served # <<>> /\ after = Last(served)
  /\ kind = "messages" => Range(served) \subseteq stored

\* What a walk may leave out: messages that moved or are lost, and threads with one.
Excused ==
  IF kind = "messages" THEN moved \cup Lost ELSE Threads(agent, moved \cup Lost)

\* The archive's rows that a walk is after.
Archived ==
  IF kind = "messages" THEN Mine(agent, archive) ELSE Threads(agent, archive)

\* After its first query a walk has x, or x is in the archive, or the page is full
\* before x.
Awaited(x) ==
  \/ x \in got \cup Archived
  \/ Limit <= Cardinality(got) /\ \A y \in got : y < x

\* All that a walk owes has been served, or is excused, or is still ahead of it.
SkipInv ==
  kind \in Walks /\ pc # "idle" =>
    /\ agent \in Agent
    /\ owed \subseteq IF kind = "messages" THEN Mine(agent, stored) ELSE Threads(agent, stored)
    /\ \A x \in owed :
         \/ x \in Range(served) \cup Excused
         \/ x > after /\ (pc = "archive" => Awaited(x))

\* What there was of a thread has been found, or is in the archive or on its way.
ThreadInv ==
  kind = "thread" /\ pc \in {"main", "archive"} =>
    /\ \A x \in owed : x \in stored /\ ThreadOf[x] = after
    /\ pc = "main" => owed \subseteq main \cup archive \cup Missing
    /\ pc = "archive" => owed \subseteq got \cup archive \cup Missing

\* A thread not found yet has a message of an agent whose turn is still to come.
SearchInv ==
  kind = "search" /\ pc \in {"main", "archive"} =>
    /\ agent \in Agent /\ after = 0
    /\ Range(served) \subseteq ThreadsOf(stored)
    /\ Cardinality(ThreadsOf(stored)) <= Limit =>
         \A t \in owed :
           \/ t \in ThreadsOf(moved \cup Lost) \cup Range(served)
           \/ \E m \in stored :
                /\ ThreadOf[m] = t /\ agent <= Owner[m]
                /\ pc = "archive" /\ Owner[m] = agent => t \in got \/ m \in archive

MailboxInv ==
  TypeOK /\ FilesInv /\ LookupInv /\ GotInv /\ OrderInv /\ SkipInv /\ ThreadInv /\ SearchInv

-----------------------------------------------------------------------------
(* Sets of places *)

LEMMA PlacesAreNat ==
  /\ Msg \subseteq Nat \ {0} /\ Thread \subseteq Nat \ {0}
  /\ \A m \in Msg : ThreadOf[m] \in Thread /\ Owner[m] \in Agent
  /\ 0 \notin Agent /\ Agent \subseteq Nat /\ Agents \in Agent
  /\ Limit \in Nat \ {0}
BY MailboxAssumption DEF Thread, Agent

\* The threads of finitely many messages are finitely many.
LEMMA ThreadsFinite ==
  ASSUME NEW S \in SUBSET Msg, IsFiniteSet(S)
  PROVE  /\ ThreadsOf(S) \in SUBSET Thread
         /\ IsFiniteSet(ThreadsOf(S))
         /\ \A a : Threads(a, S) \in SUBSET ThreadsOf(S) /\ IsFiniteSet(Threads(a, S))
         /\ \A a : Mine(a, S) \in SUBSET S /\ IsFiniteSet(Mine(a, S))
         /\ \A t : InThread(t, S) \in SUBSET S /\ IsFiniteSet(InThread(t, S))
<1> DEFINE f == [m \in S |-> ThreadOf[m]]
<1>1. ThreadsOf(S) \in SUBSET Thread
  BY DEF ThreadsOf, Thread
<1>2. f \in Surjection(S, ThreadsOf(S))
  BY DEF Surjection, ThreadsOf
<1>3. IsFiniteSet(ThreadsOf(S))
  BY <1>2, FS_Surjection
<1>4. \A a : Threads(a, S) \in SUBSET ThreadsOf(S)
  BY DEF Threads, Mine, ThreadsOf
<1>5. (\A a : Mine(a, S) \in SUBSET S) /\ (\A t : InThread(t, S) \in SUBSET S)
  BY DEF Mine, InThread
<1> QED BY <1>1, <1>3, <1>4, <1>5, FS_Subset

\* What is in the files now is finite.
LEMMA FilesFinite ==
  ASSUME TypeOK, FilesInv
  PROVE  /\ main \in SUBSET Msg /\ archive \in SUBSET Msg /\ stored \in SUBSET Msg
         /\ IsFiniteSet(main) /\ IsFiniteSet(archive) /\ IsFiniteSet(stored)
         /\ main \ read \in SUBSET main /\ IsFiniteSet(main \ read)
BY FS_Subset DEF TypeOK, FilesInv

LEMMA ThreadsGrow ==
  ASSUME NEW S \in SUBSET Msg, NEW T \in SUBSET Msg, S \subseteq T
  PROVE  /\ ThreadsOf(S) \subseteq ThreadsOf(T)
         /\ \A a : Threads(a, S) \subseteq Threads(a, T) /\ Mine(a, S) \subseteq Mine(a, T)
BY DEF ThreadsOf, Threads, Mine

-----------------------------------------------------------------------------
(* The files *)

\* A step of the store or the archiver, in which no call takes part.
FileStep == (\E m \in Msg : SaveMessage(m) \/ SaveAgain(m) \/ MarkRead(m)) \/ Archiver

LEMMA StepKinds ==
  ASSUME [Next]_vars
  PROVE  FileStep \/ Crash \/ Reader \/ InsertRedelivered \/ UNCHANGED vars
BY DEF Next, Client, FileStep

\* A reading step touches no file.
LEMMA ReaderReads == Reader => UNCHANGED files
BY DEF Reader, ListMessages, SearchThreads, UnreadCount, DashboardThread, SearchAllAgents,
       StartWalk, GetMessage, GetThread, Redelivered, Ask, NextPage, FindCursor, QueryMain, QueryArchive

\* Storing a row again leaves it in main, and says so.
LEMMA InsertKeeps ==
  ASSUME FilesInv, NEW m, m \in stored, Insert(m)
  PROVE  /\ main' = main \cup {m} /\ again' = again \cup {m}
         /\ UNCHANGED <<archive, moving, stored>>
         /\ main' \cap archive' \subseteq again' /\ main' \subseteq stored'
         /\ moving' \cap (main' \cup archive') = {}
         /\ Lost' \subseteq Lost /\ Lost \subseteq Lost' \cup {m}
BY DEF FilesInv, Insert, Lost

\* What the store and the archiver do to the files: nothing disappears, what comes
\* back is known to have come again, and a call learns of what leaves main.
FilesGrown ==
  /\ UNCHANGED walk
  /\ stored \subseteq stored' /\ archive \subseteq archive'
  /\ again \subseteq again' /\ moved \subseteq moved'
  /\ main' \ main \subseteq (Msg \ stored) \cup again'
  /\ InCall => main \subseteq main' \cup moved'
  /\ main \cup archive \cup moving \subseteq main' \cup archive' \cup moving' \cup Lost'
  /\ moving \subseteq archive' \cup moving' \cup Lost'
  /\ Lost' \subseteq Lost \/ (CommitFails /\ Lost' \subseteq Lost \cup moving)
  /\ pc # "idle" => Missing \subseteq archive' \cup Missing'
  /\ pc # "idle" => Lost \subseteq moved' \cup Lost'
  /\ read' \subseteq stored' /\ stored' \subseteq Msg /\ moved' \subseteq Msg /\ again' \subseteq Again

LEMMA FilesGrow ==
  ASSUME TypeOK, FilesInv, FileStep
  PROVE  FilesGrown /\ FilesInv'
<1> USE DEF FilesInv, Lost, Missing, InCall, TypeOK, FilesGrown
<1>1. ASSUME NEW m \in Msg, SaveMessage(m) PROVE FilesGrown /\ FilesInv'
  <2>1. IsFiniteSet(stored') /\ pc' = pc
    BY <1>1, FS_AddElement DEF SaveMessage, walk
  <2> QED BY <1>1, <2>1 DEF SaveMessage
<1>2. ASSUME NEW m \in Msg, SaveAgain(m) PROVE FilesGrown /\ FilesInv'
  <2>1. m \in stored /\ m \in Again /\ pc' = pc /\ UNCHANGED walk
    BY <1>2, MailboxAssumption DEF SaveAgain, walk
  <2> QED BY <1>2, <2>1 DEF SaveAgain, Insert
<1>3. ASSUME NEW m \in Msg, MarkRead(m) PROVE FilesGrown /\ FilesInv'
  <2>1. pc' = pc
    BY <1>3 DEF MarkRead, walk
  <2> QED BY <1>3, <2>1 DEF MarkRead
<1>4. ASSUME NEW cutoff \in Msg, ArchiveOnce(cutoff) PROVE FilesGrown /\ FilesInv'
  <2>1. pc' = pc /\ Old(cutoff) \subseteq main
    BY <1>4 DEF ArchiveOnce, walk, Old
  <2> QED BY <1>4, <2>1 DEF ArchiveOnce
<1>5. CASE CommitArchive
  <2>1. pc' = pc
    BY <1>5 DEF CommitArchive, walk
  <2> QED BY <1>5, <2>1 DEF CommitArchive
<1>6. CASE CommitFails
  <2>1. pc' = pc
    BY <1>6 DEF CommitFails, walk
  <2> QED BY <1>6, <2>1 DEF CommitFails
<1> QED BY <1>1, <1>2, <1>3, <1>4, <1>5, <1>6 DEF FileStep, Archiver

\* A crash drops what is between the two commits, and ends every call; a walk may
\* go on from its cursor.
LEMMA CrashDrops ==
  ASSUME TypeOK, FilesInv, Crash
  PROVE  /\ FilesInv'
         /\ UNCHANGED <<main, archive, read, stored, again, kind, agent, served, moved>>
         /\ moving' = {} /\ Lost \subseteq Lost' /\ Lost' \subseteq Lost \cup moving
         /\ got' = {}
         /\ \/ pc # "idle" /\ kind \in Walks /\ after # 0 /\ pc' = "next" /\ UNCHANGED <<after, owed>>
            \/ pc' = "idle" /\ after' = 0 /\ owed' = {}
<1>1. /\ UNCHANGED <<main, archive, read, stored, again, kind, agent, served, moved>>
      /\ moving' = {} /\ got' = {}
      /\ \/ pc # "idle" /\ kind \in Walks /\ after # 0 /\ pc' = "next" /\ UNCHANGED <<after, owed>>
         \/ pc' = "idle" /\ after' = 0 /\ owed' = {}
  BY DEF Crash
<1> QED BY <1>1 DEF FilesInv, Lost, InCall

LEMMA FilesKept ==
  ASSUME TypeOK, FilesInv, LookupInv, [Next]_vars
  PROVE  FilesInv'
<1>1. CASE FileStep
  BY <1>1, FilesGrow
<1>2. CASE Crash
  BY <1>2, CrashDrops
<1>3. CASE Reader
  <2>1. UNCHANGED files
    BY <1>3, ReaderReads
  <2>2. InCall' => moving' \subseteq moved'
    <3>1. ASSUME NEW k, NEW a, Ask(k, a) PROVE moved' = moving'
      BY <3>1 DEF Ask, files
    <3>2. CASE NextPage
      BY <3>2, <2>1 DEF NextPage, files
    <3>3. CASE FindCursor \/ QueryMain \/ QueryArchive
      <4>1. InCall /\ moved' = moved
        BY <3>3 DEF FindCursor, QueryMain, QueryArchive, InCall
      <4> QED BY <4>1, <2>1 DEF FilesInv, files
    <3> QED BY <1>3, <3>1, <3>2, <3>3
        DEF Reader, ListMessages, SearchThreads, UnreadCount, DashboardThread, SearchAllAgents,
            StartWalk, GetMessage, GetThread, Redelivered
  <2> QED BY <2>1, <2>2 DEF FilesInv, files
<1>4. CASE InsertRedelivered
  <2>1. after \in stored /\ Insert(after) /\ pc' = "idle"
    BY <1>4 DEF InsertRedelivered, LookupInv, Over
  <2> QED BY <2>1, InsertKeeps DEF FilesInv, InCall
<1>5. CASE UNCHANGED vars
  BY <1>5 DEF vars, files, walk, FilesInv, InCall
<1> QED BY <1>1, <1>2, <1>3, <1>4, <1>5, StepKinds
-----------------------------------------------------------------------------
(* Queries and pages *)

LEMMA PastIsPart == \A S : Past(S) \subseteq S /\ \A x \in Past(S) : x > after
BY DEF Past

\* What a query takes from a finite list is part of it, and finite.
LEMMA QueryPart ==
  ASSUME NEW S \in SUBSET (Nat \ {0}), IsFiniteSet(S)
  PROVE  /\ First(Limit, S) \in SUBSET S /\ IsFiniteSet(First(Limit, S))
         /\ Past(S) \in SUBSET S /\ IsFiniteSet(Past(S))
         /\ First(Limit, Past(S)) \in SUBSET Past(S) /\ IsFiniteSet(First(Limit, Past(S)))
<1>1. Past(S) \in SUBSET S /\ IsFiniteSet(Past(S))
  BY PastIsPart, FS_Subset
<1> QED BY <1>1, FirstIsFirst, PlacesAreNat

\* The query on the main file.
LEMMA OfMainTyped ==
  ASSUME TypeOK, FilesInv, kind \in Kind \ {"message", "redelivery"}
  PROVE  /\ kind \in {"messages", "unread", "thread"} => OfMain \in SUBSET main
         /\ kind \in {"threads", "search"} => OfMain \in SUBSET Threads(agent, main)
         /\ kind \in Walks => \A x \in OfMain : x > after
<1> DEFINE M == Mine(agent, main)
           U == Mine(agent, main \ read)
           T == Threads(agent, main)
<1>1. /\ M \in SUBSET main /\ IsFiniteSet(M)
      /\ U \in SUBSET main /\ IsFiniteSet(U)
      /\ T \in SUBSET Thread /\ IsFiniteSet(T)
      /\ InThread(after, main) \in SUBSET main
  <2>1. /\ main \in SUBSET Msg /\ IsFiniteSet(main)
        /\ main \ read \in SUBSET Msg /\ IsFiniteSet(main \ read) /\ main \ read \subseteq main
    BY FilesFinite
  <2>2. /\ Mine(agent, main) \in SUBSET main /\ IsFiniteSet(Mine(agent, main))
        /\ Threads(agent, main) \in SUBSET Thread /\ IsFiniteSet(Threads(agent, main))
        /\ InThread(after, main) \in SUBSET main
    BY <2>1, ThreadsFinite
  <2>3. Mine(agent, main \ read) \in SUBSET (main \ read) /\ IsFiniteSet(Mine(agent, main \ read))
    BY <2>1, ThreadsFinite
  <2> QED BY <2>1, <2>2, <2>3
<1>2. /\ M \in SUBSET (Nat \ {0}) /\ U \in SUBSET (Nat \ {0}) /\ T \in SUBSET (Nat \ {0})
  BY <1>1, PlacesAreNat DEF TypeOK
<1>3. /\ First(Limit, Past(M)) \in SUBSET Past(M) /\ Past(M) \in SUBSET M
      /\ First(Limit, U) \in SUBSET U
      /\ First(Limit, Past(T)) \in SUBSET Past(T) /\ Past(T) \in SUBSET T
  BY <1>1, <1>2, QueryPart
<1>4. \A x \in Past(M) \cup Past(T) : x > after
  BY PastIsPart
<1> HIDE DEF M, U, T
<1>5. /\ kind = "messages" => OfMain = First(Limit, Past(M))
      /\ kind = "unread" => OfMain = First(Limit, U)
      /\ kind \in {"threads", "search"} => OfMain = First(Limit, Past(T))
      /\ kind = "thread" => OfMain = InThread(after, main)
  BY DEF OfMain, M, U, T
<1>6. kind \in {"threads", "search"} => OfMain \in SUBSET T
  BY <1>3, <1>5
<1>7. kind \in {"messages", "unread", "thread"} => OfMain \in SUBSET main
  BY <1>1, <1>3, <1>5
<1>8. kind \in Walks => \A x \in OfMain : x > after
  BY <1>3, <1>4, <1>5 DEF Walks
<1> QED BY <1>6, <1>7, <1>8 DEF T

\* And the one on the archive.
LEMMA OfArchiveTyped ==
  ASSUME TypeOK, FilesInv, kind \in Kind \ {"message", "redelivery"}
  PROVE  /\ kind \in {"messages", "unread", "thread"} => OfArchive \in SUBSET archive
         /\ kind \in {"threads", "search"} => OfArchive \in SUBSET Threads(agent, archive)
         /\ kind \in Walks => \A x \in OfArchive : x > after
         /\ OfArchive \in SUBSET (Nat \ {0}) /\ IsFiniteSet(OfArchive)
<1> DEFINE M == Mine(agent, archive)
           T == Threads(agent, archive)
<1>1. /\ M \in SUBSET archive /\ IsFiniteSet(M)
      /\ T \in SUBSET Thread /\ IsFiniteSet(T)
      /\ InThread(after, archive) \in SUBSET archive /\ IsFiniteSet(InThread(after, archive))
      /\ archive \in SUBSET Msg
  BY FilesFinite, ThreadsFinite
<1>2. /\ M \in SUBSET (Nat \ {0}) /\ T \in SUBSET (Nat \ {0})
      /\ InThread(after, archive) \in SUBSET (Nat \ {0})
  BY <1>1, PlacesAreNat
<1>3. /\ First(Limit, Past(M)) \in SUBSET Past(M) /\ Past(M) \in SUBSET M
      /\ IsFiniteSet(First(Limit, Past(M)))
      /\ Past(T) \in SUBSET T /\ IsFiniteSet(Past(T))
  BY <1>1, <1>2, QueryPart
<1>4. \A x \in Past(M) \cup Past(T) : x > after
  BY PastIsPart
<1> HIDE DEF M, T
<1>5. /\ kind = "messages" => OfArchive = First(Limit, Past(M))
      /\ kind = "unread" => OfArchive = {}
      /\ kind \in {"threads", "search"} => OfArchive = Past(T)
      /\ kind = "thread" => OfArchive = InThread(after, archive)
  BY DEF OfArchive, M, T
<1>6. kind \in {"threads", "search"} => OfArchive \in SUBSET T
  BY <1>3, <1>5
<1>7. kind \in {"messages", "unread", "thread"} => OfArchive \in SUBSET archive
  BY <1>1, <1>3, <1>5
<1>8. kind \in Walks => \A x \in OfArchive : x > after
  BY <1>3, <1>4, <1>5 DEF Walks
<1>9. OfArchive \in SUBSET (Nat \ {0}) /\ IsFiniteSet(OfArchive)
  BY <1>1, <1>2, <1>3, <1>5, FS_EmptySet DEF Kind, Walks
<1> QED BY <1>6, <1>7, <1>8, <1>9 DEF T

\* What the first query returned is finite still.
LEMMA GotTyped ==
  ASSUME TypeOK, FilesInv, GotInv, LookupInv, pc = "archive"
  PROVE  /\ kind \in Kind \ {"message", "redelivery"}
         /\ got \in SUBSET (Nat \ {0}) /\ IsFiniteSet(got)
<1>1. kind \in Kind \ {"message", "redelivery"}
  BY DEF TypeOK, LookupInv, ById
<1>2. ThreadsOf(stored) \in SUBSET Thread /\ IsFiniteSet(ThreadsOf(stored)) /\ stored \in SUBSET Msg
      /\ IsFiniteSet(stored)
  BY FilesFinite, ThreadsFinite
<1>3. got \in SUBSET stored \/ got \in SUBSET ThreadsOf(stored)
  BY <1>1 DEF GotInv, Kind, Walks
<1> QED BY <1>1, <1>2, <1>3, FS_Subset, PlacesAreNat

\* What the page is made of: for threads and searches, those of the archive that
\* the first query did not find.
New == IF kind \in {"threads", "search"} THEN OfArchive \ got ELSE OfArchive

LEMMA PageIsPage ==
  ASSUME TypeOK, FilesInv, GotInv, LookupInv, pc = "archive"
  PROVE  LET page == Merge(got, OfArchive)
         IN  /\ kind = "thread" => page = Sorted(got, OfArchive)
             /\ kind # "thread" => page = Cut(Sorted(got, New), Limit) /\ PageOf(page, got, New, Limit)
             /\ New \in SUBSET (Nat \ {0}) /\ IsFiniteSet(New)
<1>1. /\ kind \in Kind \ {"message", "redelivery"}
      /\ got \in SUBSET (Nat \ {0}) /\ IsFiniteSet(got)
      /\ OfArchive \in SUBSET (Nat \ {0}) /\ IsFiniteSet(OfArchive)
  BY GotTyped, OfArchiveTyped
<1>2. New \in SUBSET OfArchive
  BY DEF New
<1>3. New \in SUBSET (Nat \ {0}) /\ IsFiniteSet(New)
  BY <1>1, <1>2, FS_Subset
<1>4. PageOf(Cut(Sorted(got, New), Limit), got, New, Limit)
  BY <1>1, <1>3, CutSortedIsPage, PlacesAreNat
<1>5. /\ kind = "thread" => Merge(got, OfArchive) = Sorted(got, OfArchive)
      /\ kind # "thread" => Merge(got, OfArchive) = Cut(Sorted(got, New), Limit)
  BY DEF Merge, New
<1> QED BY <1>3, <1>4, <1>5
-----------------------------------------------------------------------------
(* The steps of a call *)

\* A call that lists, searches or reads a thread begins.
Begun(k, a, id, there) ==
  /\ kind' = k /\ agent' = a /\ pc' = "main" /\ after' = id /\ got' = {}
  /\ owed' = there /\ served' = <<>> /\ moved' = moving
  /\ UNCHANGED files

\* A lookup by id ends at once with the row in main, or goes on to the archive.
LookedUp(m) ==
  /\ kind' \in {"message", "redelivery"} /\ agent' \in Agent \cup {0} /\ got' = {}
  /\ owed' = {} /\ served' \in {<<>>, <<m>>} /\ moved' = moving
  /\ \/ pc' = "idle" /\ after' = 0
     \/ /\ m \notin main /\ pc' = "cursor" /\ after' = m /\ served' = <<>>
        /\ kind' = "redelivery" => m \in Again
  /\ UNCHANGED files

CallBegins ==
  \/ \E a \in Agent : \/ Begun("messages", a, 0, Mine(a, main \cup archive))
                      \/ Begun("threads", a, 0, Threads(a, main \cup archive))
                      \/ Begun("unread", a, 0, {})
  \/ Begun("search", 1, 0, ThreadsOf(main \cup archive))
  \/ \E t \in Thread, a \in Agent \cup {0} : Begun("thread", a, t, InThread(t, main \cup archive))
  \/ \E m \in stored : LookedUp(m)

LEMMA ReaderSteps ==
  ASSUME TypeOK, Reader
  PROVE  CallBegins \/ NextPage \/ FindCursor \/ QueryMain \/ QueryArchive
<1>1. ASSUME NEW a \in Agent, ListMessages(a) \/ SearchThreads(a) \/ UnreadCount(a)
      PROVE  CallBegins
  BY <1>1 DEF ListMessages, SearchThreads, UnreadCount, StartWalk, Ask, Look, Begun, CallBegins
<1>2. CASE SearchAllAgents
  BY <1>2 DEF SearchAllAgents, StartWalk, Ask, Look, Begun, CallBegins, ThreadsOf
<1>3. ASSUME NEW t \in Thread, NEW a \in Agent \cup {0}, GetThread(t, a) PROVE CallBegins
  <2>1. Begun("thread", a, t, InThread(t, main \cup archive))
    BY <1>3 DEF GetThread, Ask, Look, Begun
  <2> QED BY <2>1 DEF CallBegins
<1>4. ASSUME NEW m \in Msg, NEW a \in Agent, GetMessage(m, a) PROVE CallBegins
  <2>1. LookedUp(m) /\ m \in stored
    BY <1>4 DEF GetMessage, Ask, Look, Over, Own, LookedUp
  <2> QED BY <2>1 DEF CallBegins
<1>5. ASSUME NEW m \in Msg, Redelivered(m) PROVE CallBegins
  <2>1. LookedUp(m) /\ m \in stored
    BY <1>5 DEF Redelivered, Ask, Look, Over, LookedUp
  <2> QED BY <2>1 DEF CallBegins
<1> QED BY <1>1, <1>2, <1>3, <1>4, <1>5 DEF Reader, DashboardThread

\* Every step is one of these.
LEMMA Steps ==
  ASSUME TypeOK, [Next]_vars
  PROVE  \/ FileStep \/ Crash \/ InsertRedelivered \/ CallBegins
         \/ NextPage \/ FindCursor \/ QueryMain \/ QueryArchive \/ UNCHANGED vars
BY StepKinds, ReaderSteps

\* A page's items are places of messages or threads.
LEMMA PageTyped ==
  ASSUME TypeOK, FilesInv, GotInv, LookupInv, pc = "archive", NEW page, page = Merge(got, OfArchive)
  PROVE  /\ page \in Seq(Msg \cup Thread) /\ Len(page) \in Nat
         /\ page \in Seq(got \cup OfArchive)
         /\ DOMAIN page = 1 .. Len(page)
         /\ Range(page) \subseteq got \cup OfArchive
<1>1. /\ kind \in Kind \ {"message", "redelivery"}
      /\ got \in SUBSET (Nat \ {0}) /\ IsFiniteSet(got)
      /\ OfArchive \in SUBSET (Nat \ {0}) /\ IsFiniteSet(OfArchive)
  BY GotTyped, OfArchiveTyped
<1>2. page \in Seq(got \cup OfArchive)
  <2>1. CASE kind = "thread"
    BY <1>1, <2>1, PageIsPage, SortedIsSeq
  <2>2. CASE kind # "thread"
    <3>1. page \in Seq(got \cup New)
      BY <2>2, PageIsPage DEF PageOf
    <3>2. got \cup New \subseteq got \cup OfArchive
      BY DEF New
    <3> QED BY <3>1, <3>2, SeqMonotonic
  <2> QED BY <2>1, <2>2
<1>3. got \cup OfArchive \subseteq Msg \cup Thread
  <2>1. OfArchive \in SUBSET archive \/ OfArchive \in SUBSET Threads(agent, archive)
    BY <1>1, OfArchiveTyped DEF Kind, Walks
  <2>2. Threads(agent, archive) \in SUBSET Thread
    BY FilesFinite, ThreadsFinite
  <2> QED BY <2>1, <2>2 DEF TypeOK
<1>4. page \in Seq(Msg \cup Thread)
  BY <1>2, <1>3, SeqMonotonic
<1>5. Range(page) \subseteq got \cup OfArchive
  BY <1>2, RangeOfSeq
<1> QED BY <1>2, <1>4, <1>5, LenProperties

LEMMA LastOfConcat ==
  ASSUME NEW T, NEW s \in Seq(T), NEW t \in Seq(T), Len(t) # 0
  PROVE  /\ s \o t \in Seq(T) /\ s \o t # <<>>
         /\ Last(s \o t) = Last(t) /\ Last(t) \in T /\ Last(t) \in Range(t)
<1>1. /\ s \o t \in Seq(T) /\ Len(s \o t) = Len(s) + Len(t)
      /\ \A i \in 1 .. Len(s) + Len(t) : (s \o t)[i] = IF i <= Len(s) THEN s[i] ELSE t[i - Len(s)]
  BY ConcatProperties
<1>2. Len(s) \in Nat /\ Len(t) \in Nat \ {0} /\ DOMAIN t = 1 .. Len(t)
  BY LenProperties
<1>3. Last(s \o t) = t[Len(t)]
  BY <1>1, <1>2 DEF Last
<1>4. t[Len(t)] \in T /\ t[Len(t)] \in Range(t)
  BY <1>2, ElementOfSeq DEF Range
<1>5. Len(s \o t) # 0
  BY <1>1, <1>2
<1> QED BY <1>1, <1>3, <1>4, <1>5, EmptySeq DEF Last
\* A sequence has finitely many items.
LEMMA RangeFinite ==
  ASSUME NEW T, NEW s \in Seq(T)
  PROVE  Range(s) \in SUBSET T /\ IsFiniteSet(Range(s))
<1>1. Len(s) \in Nat /\ s \in [1 .. Len(s) -> T] /\ DOMAIN s = 1 .. Len(s)
  BY LenProperties
<1>2. s \in Surjection(1 .. Len(s), Range(s))
  BY <1>1 DEF Surjection, Range
<1>3. IsFiniteSet(1 .. Len(s))
  BY <1>1, FS_Interval
<1> QED BY <1>2, <1>3, FS_Surjection, RangeOfSeq

\* The threads a search has found after a page, in order, and those it shows.
LEMMA RowsTyped ==
  ASSUME NEW S \in SUBSET (Nat \ {0}), NEW s \in Seq(S), NEW page \in Seq(S),
         NEW rows, rows = Sorted(Range(s), Range(page) \ Range(s))
  PROVE  /\ rows \in Seq(S) /\ Cut(rows, Limit) \in Seq(S)
         /\ Range(rows) = Range(s) \cup Range(page)
         /\ PageOf(Cut(rows, Limit), Range(s), Range(page) \ Range(s), Limit)
<1> DEFINE A == Range(s)
           B == Range(page) \ Range(s)
<1>1. /\ A \in SUBSET S /\ IsFiniteSet(A) /\ B \in SUBSET S /\ IsFiniteSet(B)
      /\ A \cup B = Range(s) \cup Range(page)
  <2>1. A \in SUBSET S /\ IsFiniteSet(A) /\ Range(page) \in SUBSET S /\ IsFiniteSet(Range(page))
    BY RangeFinite
  <2> QED BY <2>1, FS_Subset
<1>2. A \in SUBSET Nat /\ B \in SUBSET Nat
  BY <1>1
<1> HIDE DEF A, B
<1>3. rows = Sorted(A, B)
  BY DEF A, B
<1>4. rows \in Seq(A \cup B) /\ Range(rows) = A \cup B
  <2>1. IsFiniteSet(A) /\ IsFiniteSet(B)
    BY <1>1
  <2>2. Sorted(A, B) \in Seq(A \cup B)
    BY <1>2, <2>1, SortedIsSeq
  <2>3. Range(Sorted(A, B)) = A \cup B
    BY <1>2, <2>1, SortedRange
  <2> QED BY <1>3, <2>2, <2>3
<1>5. rows \in Seq(S)
  <2>1. A \cup B \subseteq S
    BY <1>1
  <2> QED BY <1>4, <2>1, SeqMonotonic
<1>6. Cut(rows, Limit) \in Seq(S)
  BY <1>5, CutIsPrefix, PlacesAreNat
<1>7. PageOf(Cut(rows, Limit), A, B, Limit)
  BY <1>1, <1>2, <1>3, CutSortedIsPage, PlacesAreNat
<1> QED BY <1>1, <1>4, <1>5, <1>6, <1>7 DEF A, B

-----------------------------------------------------------------------------
(* Types *)

\* What was there when a call began.
LEMMA OwedTyped ==
  ASSUME TypeOK, FilesInv
  PROVE  /\ main \cup archive \in SUBSET stored /\ stored \in SUBSET Msg
         /\ \A a : /\ Mine(a, main \cup archive) \in SUBSET Msg
                   /\ Threads(a, main \cup archive) \in SUBSET Thread
         /\ \A t : InThread(t, main \cup archive) \in SUBSET Msg
         /\ ThreadsOf(main \cup archive) \in SUBSET Thread
<1>1. main \cup archive \in SUBSET stored /\ main \cup archive \in SUBSET Msg /\ stored \in SUBSET Msg
  BY DEF TypeOK, FilesInv
<1>2. IsFiniteSet(main \cup archive)
  BY FilesFinite, FS_Union
<1> QED BY <1>1, <1>2, ThreadsFinite

LEMMA TypeKept ==
  ASSUME MailboxInv, [Next]_vars
  PROVE  TypeOK'
<1> USE DEF MailboxInv
<1>1. CASE FileStep
  <2>1. FilesGrown /\ FilesInv' /\ UNCHANGED walk
    BY <1>1, FilesGrow DEF FilesGrown
  <2> QED BY <2>1 DEF TypeOK, FilesGrown, FilesInv, walk
<1>2. CASE Crash
  <2>1. kind \in Walks /\ pc # "idle" /\ after # 0 => served # <<>> /\ after = Last(served)
    BY DEF OrderInv
  <2> QED BY <1>2, <2>1, CrashDrops DEF TypeOK
<1>3. CASE InsertRedelivered
  <2>1. after \in stored /\ Insert(after) /\ kind = "redelivery"
    BY <1>3 DEF InsertRedelivered, LookupInv
  <2>2. again' \subseteq Again
    <3>1. after \in Again
      BY <1>3, <2>1 DEF InsertRedelivered, LookupInv
    <3> QED BY <1>3, <2>1, <3>1 DEF Insert, TypeOK
  <2> QED BY <1>3, <2>1, <2>2 DEF InsertRedelivered, Insert, Over, TypeOK
<1>4. CASE CallBegins
  <2>1. ASSUME NEW k \in Kind, NEW a \in Agent \cup {0}, NEW id \in Thread \cup {0},
               NEW there \in SUBSET (Msg \cup Thread), Begun(k, a, id, there)
        PROVE  TypeOK'
    BY <2>1 DEF Begun, files, TypeOK
  <2>2. ASSUME NEW m \in stored, LookedUp(m) PROVE TypeOK'
    <3>1. m \in Msg /\ <<m>> \in Seq(Msg \cup Thread) /\ <<>> \in Seq(Msg \cup Thread)
      BY DEF TypeOK
    <3>2. served' \in Seq(Msg \cup Thread)
      BY <2>2, <3>1 DEF LookedUp
    <3> QED BY <2>2, <3>1, <3>2 DEF LookedUp, files, TypeOK, Kind
  <2>3. ASSUME NEW a \in Agent, \/ Begun("messages", a, 0, Mine(a, main \cup archive))
                                \/ Begun("threads", a, 0, Threads(a, main \cup archive))
                                \/ Begun("unread", a, 0, {})
        PROVE  TypeOK'
    BY <2>1, <2>3, OwedTyped DEF Kind, Walks
  <2>4. ASSUME Begun("search", 1, 0, ThreadsOf(main \cup archive)) PROVE TypeOK'
    <3>1. 1 \in Agent
      BY MailboxAssumption DEF Agent
    <3> QED BY <2>1, <2>4, <3>1, OwedTyped DEF Kind, Walks
  <2>5. ASSUME NEW t \in Thread, NEW a \in Agent \cup {0},
               Begun("thread", a, t, InThread(t, main \cup archive))
        PROVE  TypeOK'
    BY <2>1, <2>5, OwedTyped DEF Kind, Walks
  <2> QED BY <1>4, <2>2, <2>3, <2>4, <2>5 DEF CallBegins
<1>5. CASE NextPage
  BY <1>5 DEF NextPage, files, TypeOK
<1>6. CASE FindCursor
  <2>1. after \in Msg
    BY <1>6 DEF FindCursor, LookupInv, TypeOK
  <2>2. /\ UNCHANGED <<files, kind, agent, got, moved>>
        /\ pc' \in {"idle", "main", "insert"}
        /\ after' \in {after, 0} /\ owed' \in {owed, {}}
        /\ served' \in {served, <<>>, <<after>>}
    BY <1>6 DEF FindCursor, Over, Own
  <2>3. served' \in Seq(Msg \cup Thread)
    <3>1. <<after>> \in Seq(Msg \cup Thread) /\ <<>> \in Seq(Msg \cup Thread)
      BY <2>1
    <3> QED BY <2>2, <3>1 DEF TypeOK
  <2> QED BY <2>2, <2>3 DEF files, TypeOK
<1>7. CASE QueryMain
  <2>1. got' = OfMain /\ pc' = "archive" /\ UNCHANGED <<files, kind, agent, after, owed, served, moved>>
    BY <1>7 DEF QueryMain
  <2>2. kind \in Kind \ {"message", "redelivery"}
    BY <1>7 DEF QueryMain, LookupInv, ById, TypeOK
  <2>3. OfMain \in SUBSET main \/ OfMain \in SUBSET Threads(agent, main)
    BY <2>2, OfMainTyped DEF Kind, Walks
  <2>4. Threads(agent, main) \in SUBSET Thread
    BY FilesFinite, ThreadsFinite
  <2> QED BY <2>1, <2>3, <2>4 DEF files, TypeOK
<1>8. CASE QueryArchive
  <2> DEFINE page == Merge(got, OfArchive)
             rows == Sorted(Range(served), Range(page) \ Range(served))
             P    == Msg \cup Thread
  <2>1. /\ pc = "archive" /\ got' = {} /\ UNCHANGED <<files, kind, moved>>
        /\ \/ kind \in Walks /\ AnswerPage(page)
           \/ kind = "unread" /\ Over /\ served' = page /\ UNCHANGED agent
           \/ kind = "thread" /\ AnswerThread(page)
           \/ kind = "search" /\ AnswerSearch(page)
    BY <1>8 DEF QueryArchive
  <2>2. page \in Seq(P) /\ Len(page) \in Nat /\ served \in Seq(P) /\ P \in SUBSET (Nat \ {0})
    BY <2>1, PageTyped, PlacesAreNat DEF TypeOK
  <2>3. rows \in Seq(P) /\ Cut(rows, Limit) \in Seq(P)
    BY <2>2, RowsTyped
  <2>4. Agent \subseteq Nat /\ agent \in Agent \cup {0} /\ Limit \in Nat \ {0}
    BY PlacesAreNat DEF TypeOK
  <2>5. Len(page) = Limit => /\ served \o page \in Seq(P) /\ served \o page # <<>>
                             /\ Last(served \o page) = Last(page) /\ Last(page) \in P
    BY <2>2, <2>4, LastOfConcat
  <2>6. served \o page \in Seq(P) /\ <<>> \in Seq(P)
    BY <2>2, ConcatProperties, EmptySeq
  <2> HIDE DEF page, rows
  <2>7. CASE kind \in Walks /\ AnswerPage(page)
    BY <2>1, <2>5, <2>6, <2>7 DEF AnswerPage, Over, files, TypeOK, P
  <2>8. CASE kind = "unread" /\ Over /\ served' = page /\ UNCHANGED agent
    BY <2>1, <2>2, <2>8 DEF Over, files, TypeOK, P
  <2>9. CASE kind = "thread" /\ AnswerThread(page)
    BY <2>1, <2>2, <2>6, <2>9 DEF AnswerThread, Over, files, TypeOK, P
  <2>10. CASE kind = "search" /\ AnswerSearch(page)
    <3>1. agent \in Agent
      BY <2>1, <2>10 DEF SearchInv
    <3>2. agent # Agents => agent + 1 \in Agent
      BY <3>1, MailboxAssumption DEF Agent
    <3>3. \/ agent = Agents /\ Over /\ served' = Cut(rows, Limit) /\ UNCHANGED agent
          \/ /\ agent # Agents /\ pc' = "main" /\ served' = rows /\ agent' = agent + 1
             /\ UNCHANGED <<after, owed>>
      BY <2>10 DEF AnswerSearch, rows
    <3> QED BY <2>1, <2>3, <2>10, <3>1, <3>2, <3>3 DEF Over, files, TypeOK, P
  <2> QED BY <2>1, <2>7, <2>8, <2>9, <2>10
<1>9. CASE UNCHANGED vars
  BY <1>9 DEF vars, files, walk, TypeOK
<1> QED BY <1>1, <1>2, <1>3, <1>4, <1>5, <1>6, <1>7, <1>8, <1>9, Steps
-----------------------------------------------------------------------------
(* Lookups *)

LEMMA LookupKept ==
  ASSUME MailboxInv, [Next]_vars
  PROVE  LookupInv'
<1> USE DEF MailboxInv
<1>1. CASE FileStep
  <2>1. FilesGrown /\ UNCHANGED <<kind, pc, after>>
    BY <1>1, FilesGrow DEF FilesGrown, walk
  <2> QED BY <2>1 DEF FilesGrown, LookupInv, ById
<1>2. CASE Crash
  <2>1. ~(ById /\ kind \in Walks)
    BY DEF ById, Walks
  <2> QED BY <1>2, <2>1, CrashDrops DEF LookupInv, ById
<1>3. CASE InsertRedelivered
  BY <1>3 DEF InsertRedelivered, Over, LookupInv, ById
<1>4. CASE CallBegins
  <2>1. ASSUME NEW k \in Kind \ {"message", "redelivery"}, NEW a, NEW id, NEW there,
               Begun(k, a, id, there)
        PROVE  LookupInv'
    BY <2>1 DEF Begun, LookupInv, ById
  <2>2. ASSUME NEW m \in stored, LookedUp(m) PROVE LookupInv'
    BY <2>2 DEF LookedUp, files, LookupInv, ById
  <2> QED BY <1>4, <2>1, <2>2 DEF CallBegins, Kind, Walks
<1>5. CASE NextPage
  <2>1. /\ kind \in Walks /\ after = Last(served) /\ served # <<>>
        /\ served \in Seq(Msg \cup Thread)
    BY <1>5 DEF NextPage, TypeOK
  <2>2. Last(served) \in Range(served)
    BY <2>1, EmptySeq, LenProperties DEF Last, Range
  <2>3. kind = "messages" => after \in stored
    BY <2>1, <2>2 DEF OrderInv
  <2> QED BY <1>5, <2>1, <2>3 DEF NextPage, Walks, files, LookupInv, ById
<1>6. CASE FindCursor
  <2>1. /\ pc = "cursor" /\ UNCHANGED <<files, kind>> /\ after' \in {after, 0}
        /\ pc' = "insert" => kind = "redelivery" /\ after' = after
        /\ pc' = "main" => kind \in Walks
        /\ pc' \in {"main", "insert", "idle"}
    BY <1>6 DEF FindCursor, Over
  <2> QED BY <2>1 DEF LookupInv, ById, files, Walks
<1>7. CASE QueryMain
  BY <1>7 DEF QueryMain, files, LookupInv, ById
<1>8. CASE QueryArchive
  BY <1>8 DEF QueryArchive, AnswerPage, AnswerThread, AnswerSearch, Over, Walks, files,
              LookupInv, ById
<1>9. CASE UNCHANGED vars
  BY <1>9 DEF vars, files, walk, LookupInv, ById
<1> QED BY <1>1, <1>2, <1>3, <1>4, <1>5, <1>6, <1>7, <1>8, <1>9, Steps

-----------------------------------------------------------------------------
(* The first query's results *)

LEMMA GotKept ==
  ASSUME MailboxInv, [Next]_vars
  PROVE  GotInv'
<1> USE DEF MailboxInv
<1>1. CASE FileStep
  <2>1. FilesGrown /\ FilesInv' /\ UNCHANGED <<kind, pc, after, got>>
    BY <1>1, FilesGrow DEF FilesGrown, walk
  <2>2. ThreadsOf(stored) \subseteq ThreadsOf(stored')
    BY <2>1 DEF FilesGrown, ThreadsOf
  <2> QED BY <2>1, <2>2 DEF FilesGrown, GotInv, InCall
<1>2. CASE Crash
  BY <1>2, CrashDrops DEF GotInv
<1>7. CASE QueryMain
  <2>1. /\ got' = OfMain /\ pc' = "archive"
        /\ UNCHANGED <<main, archive, stored, moved, kind, agent, after>>
    BY <1>7 DEF QueryMain, files
  <2>2. kind \in Kind \ {"message", "redelivery"}
    BY <1>7 DEF QueryMain, LookupInv, ById, TypeOK
  <2>3. main \subseteq stored /\ Threads(agent, main) \subseteq ThreadsOf(stored)
    BY DEF FilesInv, Threads, Mine, ThreadsOf
  <2> QED BY <2>1, <2>2, <2>3, OfMainTyped DEF GotInv
<1>8. CASE QueryArchive
  BY <1>8 DEF QueryArchive, AnswerPage, AnswerThread, AnswerSearch, Over, GotInv
<1>3. CASE InsertRedelivered \/ CallBegins \/ NextPage \/ FindCursor
  <2>1. pc' # "archive"
    BY <1>3 DEF InsertRedelivered, CallBegins, Begun, LookedUp, NextPage, FindCursor, Over
  <2> QED BY <2>1 DEF GotInv
<1>9. CASE UNCHANGED vars
  BY <1>9 DEF vars, files, walk, GotInv, ThreadsOf
<1> QED BY <1>1, <1>2, <1>3, <1>7, <1>8, <1>9, Steps
-----------------------------------------------------------------------------
(* The order of what is served *)

\* What may come twice in a row.
Twice == IF kind \in {"messages", "thread"} THEN moved \cup again ELSE {}

Steady(p, D) == \A i \in 1 .. Len(p) - 1 : p[i] < p[i + 1] \/ (p[i] = p[i + 1] /\ p[i] \in D)

LEMMA AscendIsSteady ==
  /\ PagesAscend <=> Steady(served, Twice)
  /\ PagesAscend' <=> Steady(served', Twice')
BY DEF PagesAscend, Steady, Twice

LEMMA SteadyGrows ==
  ASSUME NEW p, NEW C, NEW D, C \subseteq D, Steady(p, C)
  PROVE  Steady(p, D)
BY DEF Steady

\* A list of one item or none is in order.
LEMMA ShortIsSteady ==
  ASSUME NEW D, NEW x
  PROVE  Steady(<<>>, D) /\ Steady(<<x>>, D)
BY DEF Steady

\* So is one that only ever ascends.
LEMMA AscendingIsSteady ==
  ASSUME NEW p, NEW D, Len(p) \in Nat,
         \A i, j \in 1 .. Len(p) : i < j => p[i] < p[j]
  PROVE  Steady(p, D)
<1>1. \A i \in 1 .. Len(p) - 1 : i \in 1 .. Len(p) /\ i + 1 \in 1 .. Len(p) /\ i < i + 1
  OBVIOUS
<1> QED BY <1>1 DEF Steady

\* A page put after pages that end before it.
LEMMA SteadyConcat ==
  ASSUME NEW T \in SUBSET Nat, NEW s \in Seq(T), NEW p \in Seq(T), NEW D,
         Steady(s, D), Steady(p, D),
         s = <<>> \/ \A i \in 1 .. Len(p) : Last(s) < p[i]
  PROVE  Steady(s \o p, D)
<1>1. /\ Len(s) \in Nat /\ Len(p) \in Nat /\ Len(s \o p) = Len(s) + Len(p)
      /\ \A i \in 1 .. Len(s) + Len(p) : (s \o p)[i] = IF i <= Len(s) THEN s[i] ELSE p[i - Len(s)]
  BY ConcatProperties, LenProperties
<1>2. SUFFICES ASSUME NEW i \in 1 .. Len(s) + Len(p) - 1
               PROVE  \/ (s \o p)[i] < (s \o p)[i + 1]
                      \/ (s \o p)[i] = (s \o p)[i + 1] /\ (s \o p)[i] \in D
  BY <1>1 DEF Steady
<1>3. CASE i < Len(s)
  <2>1. (s \o p)[i] = s[i] /\ (s \o p)[i + 1] = s[i + 1] /\ i \in 1 .. Len(s) - 1
    BY <1>1, <1>3
  <2> QED BY <2>1 DEF Steady
<1>4. CASE i = Len(s)
  <2>1. (s \o p)[i] = Last(s) /\ (s \o p)[i + 1] = p[1] /\ 1 \in 1 .. Len(p) /\ s # <<>>
    BY <1>1, <1>4 DEF Last
  <2> QED BY <2>1
<1>5. CASE i > Len(s)
  <2> DEFINE j == i - Len(s)
  <2>1. (s \o p)[i] = p[j] /\ (s \o p)[i + 1] = p[j + 1] /\ j \in 1 .. Len(p) - 1
    BY <1>1, <1>5
  <2> QED BY <2>1 DEF Steady
<1> QED BY <1>1, <1>3, <1>4, <1>5

\* A page is in order, up to rows that moved or came again while it was read.
LEMMA PageSteady ==
  ASSUME MailboxInv, pc = "archive", NEW page, page = Merge(got, OfArchive)
  PROVE  Steady(page, Twice)
<1> USE DEF MailboxInv
<1>1. /\ kind \in Kind \ {"message", "redelivery"}
      /\ got \in SUBSET (Nat \ {0}) /\ IsFiniteSet(got)
      /\ OfArchive \in SUBSET (Nat \ {0}) /\ IsFiniteSet(OfArchive)
  BY GotTyped, OfArchiveTyped
<1>2. Len(page) \in Nat
  BY PageTyped
<1>3. kind \in {"messages", "thread"} => got \cap OfArchive \subseteq moved \cup again
  <2>1. kind \in {"messages", "thread"} => OfArchive \subseteq archive /\ got \subseteq main \cup moved
    BY <1>1, OfArchiveTyped DEF GotInv
  <2> QED BY <2>1 DEF FilesInv
<1>4. ASSUME NEW i \in 1 .. Len(page), NEW j \in 1 .. Len(page), i < j
      PROVE  page[i] < page[j] \/ (page[i] = page[j] /\ page[i] \in Twice)
  <2>1. CASE kind = "thread"
    <3>1. page = Sorted(got, OfArchive)
      BY <2>1, PageIsPage
    <3>2. page[i] < page[j] \/ (page[i] = page[j] /\ page[i] \in got \cap OfArchive)
      BY <1>1, <1>4, <3>1, SortedAscends
    <3> QED BY <1>3, <2>1, <3>2 DEF Twice
  <2>2. CASE kind # "thread"
    <3>1. page[i] < page[j] \/ (page[i] = page[j] /\ page[i] \in got \cap New)
      BY <1>4, <2>2, PageIsPage DEF PageOf
    <3>2. got \cap New \subseteq Twice
      <4>1. kind = "unread" => OfArchive = {}
        BY DEF OfArchive
      <4> QED BY <1>1, <1>3, <2>2, <4>1 DEF New, Twice, Kind, Walks
    <3> QED BY <3>1, <3>2
  <2> QED BY <2>1, <2>2
<1>5. \A i \in 1 .. Len(page) - 1 : i \in 1 .. Len(page) /\ i + 1 \in 1 .. Len(page) /\ i < i + 1
  BY <1>2
<1> QED BY <1>4, <1>5 DEF Steady

\* So are the threads a search has found.
LEMMA RowsSteady ==
  ASSUME NEW S \in SUBSET (Nat \ {0}), NEW s \in Seq(S), NEW page \in Seq(S),
         NEW rows, rows = Sorted(Range(s), Range(page) \ Range(s)), NEW D
  PROVE  Steady(rows, D) /\ Steady(Cut(rows, Limit), D)
<1> DEFINE A == Range(s)
           B == Range(page) \ Range(s)
<1>1. A \in SUBSET Nat /\ IsFiniteSet(A) /\ B \in SUBSET Nat /\ IsFiniteSet(B) /\ A \cap B = {}
  <2>1. A \in SUBSET S /\ IsFiniteSet(A) /\ Range(page) \in SUBSET S /\ IsFiniteSet(Range(page))
    BY RangeFinite
  <2> QED BY <2>1, FS_Subset
<1> HIDE DEF A, B
<1>2. rows = Sorted(A, B)
  BY DEF A, B
<1>3. PageOf(Cut(rows, Limit), A, B, Limit)
  BY <1>1, <1>2, CutSortedIsPage, PlacesAreNat
<1>4. /\ Len(rows) \in Nat
      /\ \A i, j \in 1 .. Len(rows) : i < j => rows[i] < rows[j]
  BY <1>1, <1>2, SortedIsSeq, SortedAscends
<1>5. Steady(rows, D)
  BY <1>4, AscendingIsSteady
<1>6. /\ Len(Cut(rows, Limit)) \in Nat
      /\ \A i, j \in 1 .. Len(Cut(rows, Limit)) : i < j => Cut(rows, Limit)[i] < Cut(rows, Limit)[j]
  BY <1>1, <1>3, LenProperties DEF PageOf
<1>7. Steady(Cut(rows, Limit), D)
  BY <1>6, AscendingIsSteady
<1> QED BY <1>5, <1>7

LEMMA OrderKept ==
  ASSUME MailboxInv, [Next]_vars
  PROVE  OrderInv'
<1> USE DEF MailboxInv
<1>0. Steady(served, Twice)
  BY AscendIsSteady DEF OrderInv
<1>1. CASE FileStep
  <2>1. FilesGrown /\ UNCHANGED walk
    BY <1>1, FilesGrow DEF FilesGrown
  <2>2. Twice \subseteq Twice'
    BY <2>1 DEF FilesGrown, walk, Twice
  <2>3. Steady(served', Twice')
    BY <1>0, <2>1, <2>2, SteadyGrows DEF walk
  <2> QED BY <2>1, <2>3, AscendIsSteady DEF FilesGrown, walk, OrderInv
<1>2. CASE Crash
  <2>1. UNCHANGED <<stored, again, kind, served, moved>>
    BY <1>2, CrashDrops
  <2>2. PagesAscend'
    BY <2>1 DEF OrderInv, PagesAscend
  <2>3. kind' \in Walks /\ pc' # "idle" => served' # <<>> /\ after' = Last(served')
    BY <1>2, CrashDrops DEF OrderInv
  <2> QED BY <2>1, <2>2, <2>3 DEF OrderInv
<1>3. CASE InsertRedelivered
  <2>1. /\ kind = "redelivery" /\ pc' = "idle" /\ UNCHANGED <<kind, served, moved>>
    BY <1>3 DEF InsertRedelivered, Over, LookupInv
  <2>2. Steady(served', Twice')
    BY <1>0, <2>1 DEF Twice
  <2> QED BY <2>1, <2>2, AscendIsSteady DEF OrderInv
<1>4. CASE CallBegins
  <2>1. ASSUME NEW m \in stored, LookedUp(m) PROVE OrderInv'
    <3>1. served' \in {<<>>, <<m>>} /\ ~(kind' \in Walks) /\ kind' # "messages"
      BY <2>1 DEF LookedUp, Walks
    <3>2. Steady(served', Twice')
      BY <3>1, ShortIsSteady
    <3> QED BY <3>1, <3>2, AscendIsSteady DEF OrderInv
  <2>2. ASSUME NEW k, NEW a, NEW id, NEW there, Begun(k, a, id, there), k \in Walks => id = 0
        PROVE  OrderInv'
    <3>1. served' = <<>> /\ pc' = "main" /\ (kind' \in Walks => after' = 0)
      BY <2>2 DEF Begun
    <3>2. Steady(served', Twice')
      BY <3>1, ShortIsSteady
    <3>3. Range(served') = {}
      BY <3>1 DEF Range
    <3> QED BY <3>1, <3>2, <3>3, AscendIsSteady DEF OrderInv
  <2> QED BY <1>4, <2>1, <2>2 DEF CallBegins, Walks
<1>5. CASE NextPage
  <2>1. /\ kind \in Walks /\ served # <<>> /\ after = Last(served)
        /\ UNCHANGED <<files, kind, after, served>> /\ moved \subseteq moved'
    BY <1>5 DEF NextPage, TypeOK
  <2>2. Steady(served', Twice')
    <3>1. Twice \subseteq Twice'
      BY <2>1 DEF Twice, files
    <3> QED BY <1>0, <2>1, <3>1, SteadyGrows
  <2> QED BY <2>1, <2>2, AscendIsSteady DEF OrderInv, files
<1>6. CASE FindCursor
  <2>1. /\ pc = "cursor" /\ UNCHANGED <<files, kind, moved>>
        /\ \/ UNCHANGED served /\ (pc' = "idle" \/ UNCHANGED after)
           \/ pc' = "idle" /\ kind \notin Walks /\ served' \in {<<>>, <<after>>}
    BY <1>6 DEF FindCursor, Over, Own
  <2>2. Steady(served', Twice')
    <3>1. Twice' = Twice
      BY <2>1 DEF Twice, files
    <3> QED BY <1>0, <2>1, <3>1, ShortIsSteady
  <2> QED BY <2>1, <2>2, AscendIsSteady DEF OrderInv, files, Walks
<1>7. CASE QueryMain
  BY <1>7 DEF QueryMain, files, OrderInv, PagesAscend
<1>8. CASE QueryArchive
  <2> DEFINE page == Merge(got, OfArchive)
             rows == Sorted(Range(served), Range(page) \ Range(served))
             P    == Msg \cup Thread
  <2>1. /\ pc = "archive" /\ UNCHANGED <<files, kind, moved>>
        /\ \/ kind \in Walks /\ AnswerPage(page)
           \/ kind = "unread" /\ Over /\ served' = page /\ UNCHANGED agent
           \/ kind = "thread" /\ AnswerThread(page)
           \/ kind = "search" /\ AnswerSearch(page)
    BY <1>8 DEF QueryArchive
  <2>2. /\ page \in Seq(P) /\ Len(page) \in Nat /\ DOMAIN page = 1 .. Len(page)
        /\ Range(page) \subseteq got \cup OfArchive
        /\ served \in Seq(P) /\ P \in SUBSET (Nat \ {0}) /\ P \in SUBSET Nat
    BY <2>1, PageTyped, PlacesAreNat DEF TypeOK
  <2>3. Steady(page, Twice) /\ Twice' = Twice
    BY <2>1, PageSteady DEF Twice, files
  <2>4. Limit \in Nat \ {0}
    BY PlacesAreNat
  <2> HIDE DEF page, rows
  <2>7. CASE kind \in Walks /\ AnswerPage(page)
    <3>1. /\ served' = served \o page
          /\ \/ Len(page) = Limit /\ pc' = "next" /\ after' = Last(page)
             \/ pc' = "idle"
      BY <2>7 DEF AnswerPage, Over
    <3>2. \A i \in 1 .. Len(page) : after < page[i]
      <4>1. \A x \in got \cup OfArchive : x > after
        BY <2>1, <2>7, GotTyped, OfArchiveTyped DEF GotInv
      <4>2. after \in Nat
        BY PlacesAreNat DEF TypeOK
      <4>3. \A i \in 1 .. Len(page) : page[i] \in got \cup OfArchive /\ page[i] \in Nat
        BY <2>2, ElementOfSeq DEF Range
      <4> QED BY <4>1, <4>2, <4>3
    <3>3. served = <<>> \/ after = Last(served)
      BY <2>1, <2>7 DEF OrderInv
    <3>4. Steady(served \o page, Twice)
      BY <1>0, <2>2, <2>3, <3>2, <3>3, SteadyConcat
    <3>5. Len(page) = Limit => served \o page # <<>> /\ Last(served \o page) = Last(page)
      BY <2>2, <2>4, LastOfConcat
    <3>6. kind = "messages" => Range(served \o page) \subseteq stored
      <4>1. Range(served \o page) = Range(served) \cup Range(page)
        BY <2>2, RangeConcatenation
      <4>2. kind = "messages" => got \cup OfArchive \subseteq stored
        BY <2>1, OfArchiveTyped, GotTyped DEF GotInv, FilesInv
      <4> QED BY <2>2, <4>1, <4>2 DEF OrderInv
    <3> QED BY <2>1, <2>3, <3>1, <3>4, <3>5, <3>6, AscendIsSteady DEF OrderInv, files
  <2>8. CASE kind = "unread" /\ Over /\ served' = page /\ UNCHANGED agent
    BY <2>1, <2>3, <2>8, AscendIsSteady DEF OrderInv, Walks
  <2>9. CASE kind = "thread" /\ AnswerThread(page)
    <3>1. served' = page \/ served' = <<>>
      BY <2>9 DEF AnswerThread
    <3>2. Steady(served', Twice')
      BY <2>3, <3>1, ShortIsSteady
    <3> QED BY <2>1, <2>9, <3>2, AscendIsSteady DEF OrderInv, Walks
  <2>10. CASE kind = "search" /\ AnswerSearch(page)
    <3>1. served' = rows \/ served' = Cut(rows, Limit)
      BY <2>10 DEF AnswerSearch, rows
    <3>2. Steady(served', Twice')
      BY <2>2, <3>1, RowsSteady DEF rows
    <3> QED BY <2>1, <2>10, <3>2, AscendIsSteady DEF OrderInv, Walks
  <2> QED BY <2>1, <2>7, <2>8, <2>9, <2>10
<1>9. CASE UNCHANGED vars
  BY <1>9 DEF vars, files, walk, OrderInv, PagesAscend
<1> QED BY <1>1, <1>2, <1>3, <1>4, <1>5, <1>6, <1>7, <1>8, <1>9, Steps
-----------------------------------------------------------------------------
(* What a walk owes *)

\* The main file's rows that a walk is after.
Present == IF kind = "messages" THEN Mine(agent, main) ELSE Threads(agent, main)

\* During a call what is owed and not excused is in one of the files.
LEMMA StillThere ==
  ASSUME MailboxInv, kind \in Walks, InCall, NEW x \in owed, x \notin Excused
  PROVE  x \in Present \cup Archived
<1> USE DEF MailboxInv
<1>1. stored \ (moved \cup Lost) \subseteq main \cup archive
  BY DEF FilesInv, Lost
<1>2. CASE kind = "messages"
  <2>1. x \in Mine(agent, stored) /\ x \notin moved \cup Lost
    BY <1>2 DEF SkipInv, InCall, Excused
  <2> QED BY <1>1, <1>2, <2>1 DEF Mine, Present, Archived
<1>3. CASE kind = "threads"
  <2>1. x \in Threads(agent, stored) /\ x \notin Threads(agent, moved \cup Lost)
    BY <1>3 DEF SkipInv, InCall, Excused
  <2>2. PICK m \in stored : Owner[m] = agent /\ x = ThreadOf[m]
    BY <2>1 DEF Threads, Mine
  <2>3. m \in main \cup archive
    BY <1>1, <2>1, <2>2 DEF Threads, Mine
  <2> QED BY <1>3, <2>2, <2>3 DEF Threads, Mine, Present, Archived
<1> QED BY <1>2, <1>3 DEF Walks

LEMMA WalkSources ==
  ASSUME TypeOK, FilesInv
  PROVE  /\ Present \in SUBSET (Nat \ {0}) /\ IsFiniteSet(Present)
         /\ Archived \in SUBSET (Nat \ {0}) /\ IsFiniteSet(Archived)
         /\ kind \in Walks => OfMain = First(Limit, Past(Present))
         /\ kind = "messages" => OfArchive = First(Limit, Past(Archived))
         /\ kind = "threads" => OfArchive = Past(Archived)
<1>1. main \in SUBSET Msg /\ IsFiniteSet(main) /\ archive \in SUBSET Msg /\ IsFiniteSet(archive)
  BY FilesFinite
<1>2. ASSUME NEW S \in SUBSET Msg, IsFiniteSet(S)
      PROVE  /\ Mine(agent, S) \in SUBSET (Nat \ {0}) /\ IsFiniteSet(Mine(agent, S))
             /\ Threads(agent, S) \in SUBSET (Nat \ {0}) /\ IsFiniteSet(Threads(agent, S))
  BY <1>2, ThreadsFinite, PlacesAreNat
<1> QED BY <1>1, <1>2 DEF Present, Archived, OfMain, OfArchive, Walks

\* What a query leaves out of the items past the cursor comes after a full page.
LEMMA LeftOut ==
  ASSUME NEW S \in SUBSET (Nat \ {0}), IsFiniteSet(S), NEW x \in S, x > after,
         x \notin First(Limit, Past(S))
  PROVE  /\ Limit <= Cardinality(First(Limit, Past(S)))
         /\ \A y \in First(Limit, Past(S)) : y < x
<1>1. Past(S) \in SUBSET Nat /\ IsFiniteSet(Past(S)) /\ x \in Past(S)
  BY QueryPart DEF Past
<1> QED BY <1>1, FirstIsFirst, PlacesAreNat

\* The first query finds it, or the archive has it, or the page is full before it.
LEMMA FirstQueryAwaits ==
  ASSUME MailboxInv, kind \in Walks, pc = "main", NEW x \in owed, x \notin Excused, x > after
  PROVE  \/ x \in OfMain \cup Archived
         \/ Limit <= Cardinality(OfMain) /\ \A y \in OfMain : y < x
<1> USE DEF MailboxInv
<1>1. x \in Present \cup Archived
  BY StillThere DEF InCall
<1>2. CASE x \in Present
  BY <1>2, WalkSources, LeftOut
<1> QED BY <1>1, <1>2

\* What is awaited is on the page, or after it.
LEMMA PageHasAwaited ==
  ASSUME MailboxInv, kind \in Walks, pc = "archive", NEW x \in Nat, x > after, Awaited(x),
         NEW page, page = Merge(got, OfArchive)
  PROVE  x \in Range(page) \/ (Len(page) = Limit /\ Last(page) < x)
<1> USE DEF MailboxInv
<1>1. PageOf(page, got, New, Limit) /\ Limit \in Nat \ {0}
  BY PageIsPage, PlacesAreNat DEF Walks
<1>2. ASSUME Len(page) = Limit, \A i \in 1 .. Limit : page[i] < x
      PROVE  Last(page) < x
  BY <1>1, <1>2 DEF Last
<1>3. ASSUME x \in got \cup New PROVE x \in Range(page) \/ (Len(page) = Limit /\ Last(page) < x)
  BY <1>1, <1>2, <1>3 DEF PageOf
<1>4. ASSUME NEW S \in {got, New}, Limit <= Cardinality(S), \A y \in S : y < x,
             S \in SUBSET Nat, x \in Nat
      PROVE  Len(page) = Limit /\ Last(page) < x
  <2>1. PICK y \in S : Len(page) = Limit /\ \A i \in 1 .. Limit : page[i] <= y
    BY <1>1, <1>4 DEF PageOf
  <2>2. Last(page) <= y /\ y < x /\ Last(page) \in Nat /\ y \in Nat
    <3>1. Last(page) = page[Limit] /\ Limit \in 1 .. Limit
      BY <1>1, <2>1 DEF Last
    <3>2. page[Limit] \in got \cup New
      BY <1>1, <2>1, ElementOfSeq DEF PageOf
    <3>3. got \cup New \subseteq Nat
      BY GotTyped, PageIsPage
    <3> QED BY <1>4, <2>1, <3>1, <3>2, <3>3
  <2> QED BY <1>4, <2>1, <2>2
<1>5. CASE x \in got
  BY <1>3, <1>5
<1>6. CASE x \in Archived /\ kind = "messages"
  <2>1. New = OfArchive /\ OfArchive = First(Limit, Past(Archived))
    BY <1>6, WalkSources DEF New
  <2>2. x \in Nat /\ New \in SUBSET Nat
    BY <1>6, WalkSources, PageIsPage
  <2>3. CASE x \notin OfArchive
    <3>1. Limit <= Cardinality(OfArchive) /\ \A y \in OfArchive : y < x
      BY <1>6, <2>1, <2>3, WalkSources, LeftOut
    <3> QED BY <1>4, <2>1, <2>2, <3>1
  <2> QED BY <1>3, <2>1, <2>3
<1>7. CASE x \in Archived /\ kind = "threads"
  <2>1. x \in OfArchive
    BY <1>7, WalkSources DEF Past
  <2> QED BY <1>3, <2>1 DEF New
<1>8. CASE Limit <= Cardinality(got) /\ \A y \in got : y < x
  <2>1. got \in SUBSET Nat
    BY GotTyped
  <2> QED BY <1>4, <1>8, <2>1
<1> QED BY <1>5, <1>6, <1>7, <1>8 DEF Awaited, Walks

\* What is excused stays so, and what the archive has stays there.
LEMMA ExcusedGrows ==
  ASSUME MailboxInv, UNCHANGED <<kind, agent>>, moved \subseteq moved', Lost \subseteq moved' \cup Lost',
         archive \subseteq archive', stored \subseteq stored'
  PROVE  /\ Excused \subseteq Excused' /\ Archived \subseteq Archived'
         /\ \A a : Mine(a, stored) \subseteq Mine(a, stored') /\ Threads(a, stored) \subseteq Threads(a, stored')
<1>1. moved \cup Lost \subseteq moved' \cup Lost'
  OBVIOUS
<1>2. Threads(agent, moved \cup Lost) \subseteq Threads(agent, moved' \cup Lost')
  BY <1>1 DEF Threads, Mine
<1>3. /\ Mine(agent, archive) \subseteq Mine(agent, archive')
      /\ Threads(agent, archive) \subseteq Threads(agent, archive')
      /\ \A a : Mine(a, stored) \subseteq Mine(a, stored') /\ Threads(a, stored) \subseteq Threads(a, stored')
  BY DEF Threads, Mine
<1> QED BY <1>1, <1>2, <1>3 DEF Excused, Archived

LEMMA SkipKept ==
  ASSUME MailboxInv, [Next]_vars
  PROVE  SkipInv'
<1> USE DEF MailboxInv
<1>1. CASE FileStep
  <2>1. FilesGrown /\ UNCHANGED walk
    BY <1>1, FilesGrow DEF FilesGrown
  <2>2. SUFFICES ASSUME kind \in Walks, pc # "idle" PROVE SkipInv'
    BY <2>1 DEF SkipInv, walk
  <2>3. /\ Excused \subseteq Excused' /\ Archived \subseteq Archived'
        /\ \A a : Mine(a, stored) \subseteq Mine(a, stored') /\ Threads(a, stored) \subseteq Threads(a, stored')
    BY <2>1, <2>2, ExcusedGrows DEF FilesGrown, walk
  <2>4. \A x : Awaited(x) => Awaited(x)'
    BY <2>1, <2>3 DEF Awaited, walk
  <2> QED BY <2>1, <2>2, <2>3, <2>4 DEF SkipInv, walk
<1>2. CASE Crash
  <2>1. /\ UNCHANGED <<archive, stored, kind, agent, served, moved>> /\ Lost \subseteq Lost'
        /\ \/ pc # "idle" /\ pc' = "next" /\ UNCHANGED <<after, owed>>
           \/ pc' = "idle"
    BY <1>2, CrashDrops
  <2>2. /\ Excused \subseteq Excused'
        /\ \A a : Mine(a, stored) \subseteq Mine(a, stored') /\ Threads(a, stored) \subseteq Threads(a, stored')
    BY <2>1, ExcusedGrows
  <2> QED BY <2>1, <2>2 DEF SkipInv
<1>3. CASE InsertRedelivered
  BY <1>3 DEF InsertRedelivered, Over, SkipInv
<1>4. CASE CallBegins
  <2>1. ASSUME NEW m \in stored, LookedUp(m) PROVE SkipInv'
    BY <2>1 DEF LookedUp, SkipInv, Walks
  <2>2. ASSUME NEW k \in Kind \ Walks, NEW a, NEW id, NEW there, Begun(k, a, id, there) PROVE SkipInv'
    BY <2>2 DEF Begun, SkipInv
  <2>3. ASSUME NEW a \in Agent, NEW k \in Walks, NEW there,
               there = IF k = "messages" THEN Mine(a, main \cup archive) ELSE Threads(a, main \cup archive),
               Begun(k, a, 0, there)
        PROVE  SkipInv'
    <3>1. /\ Mine(a, main \cup archive) \subseteq Mine(a, stored) /\ Mine(a, main \cup archive) \subseteq Msg
          /\ Threads(a, main \cup archive) \subseteq Threads(a, stored)
          /\ Threads(a, main \cup archive) \subseteq Thread
      <4>1. main \cup archive \subseteq stored
        BY DEF FilesInv
      <4> QED BY <4>1, OwedTyped DEF Threads, Mine
    <3>2. \A x \in Msg \cup Thread : x > 0
      BY PlacesAreNat
    <3>3. /\ kind' = k /\ agent' = a /\ pc' = "main" /\ after' = 0 /\ owed' = there /\ stored' = stored
      BY <2>3 DEF Begun, files
    <3> QED BY <2>3, <3>1, <3>2, <3>3 DEF SkipInv
  <2> QED BY <1>4, <2>1, <2>2, <2>3 DEF CallBegins, Kind, Walks
<1>5. CASE NextPage
  <2>1. /\ kind \in Walks /\ pc = "next" /\ pc' # "archive" /\ moved \subseteq moved'
        /\ UNCHANGED <<files, kind, agent, after, owed, served>>
    BY <1>5 DEF NextPage, TypeOK
  <2>2. Lost' = Lost
    BY <2>1 DEF Lost, files
  <2>3. Excused \subseteq Excused'
    BY <2>1, <2>2, ExcusedGrows DEF files
  <2> QED BY <2>1, <2>3 DEF SkipInv, files
<1>6. CASE FindCursor
  <2>1. /\ pc = "cursor" /\ pc' # "archive" /\ UNCHANGED <<files, kind, agent, moved>>
        /\ pc' = "idle" \/ kind \notin Walks \/ UNCHANGED <<after, owed, served>>
    BY <1>6 DEF FindCursor, Over
  <2>2. Excused' = Excused
    BY <2>1 DEF Excused, Lost, files
  <2> QED BY <2>1, <2>2 DEF SkipInv, files
<1>7. CASE QueryMain
  <2>1. /\ pc = "main" /\ pc' = "archive" /\ got' = OfMain
        /\ UNCHANGED <<files, kind, agent, after, owed, served, moved>>
    BY <1>7 DEF QueryMain
  <2>2. SUFFICES ASSUME kind \in Walks PROVE SkipInv'
    BY <2>1 DEF SkipInv
  <2>3. Excused' = Excused /\ Archived' = Archived
    BY <2>1 DEF Excused, Archived, Lost, files
  <2>4. ASSUME NEW x \in owed, x \notin Range(served) \cup Excused PROVE x > after /\ Awaited(x)'
    <3>1. x > after
      BY <2>1, <2>2, <2>4 DEF SkipInv
    <3>2. x \in OfMain \cup Archived \/ (Limit <= Cardinality(OfMain) /\ \A y \in OfMain : y < x)
      BY <2>1, <2>2, <2>4, <3>1, FirstQueryAwaits
    <3> QED BY <2>1, <2>3, <3>1, <3>2 DEF Awaited
  <2> QED BY <2>1, <2>2, <2>3, <2>4 DEF SkipInv, files
<1>8. CASE QueryArchive
  <2> DEFINE page == Merge(got, OfArchive)
  <2>1. pc = "archive" /\ UNCHANGED <<files, kind, moved>>
    BY <1>8 DEF QueryArchive
  <2>2. SUFFICES ASSUME kind \in Walks, pc' # "idle" PROVE SkipInv'
    BY <2>1 DEF SkipInv
  <2>3. /\ served' = served \o page /\ agent' = agent
        /\ Len(page) = Limit /\ pc' = "next" /\ after' = Last(page) /\ owed' = owed
    BY <1>8, <2>1, <2>2 DEF QueryArchive, AnswerPage, Over, Walks
  <2>4. Excused' = Excused
    BY <2>1, <2>3 DEF Excused, Lost, files
  <2>5. Range(served') = Range(served) \cup Range(page)
    <3>1. page \in Seq(Msg \cup Thread) /\ served \in Seq(Msg \cup Thread)
      BY <2>1, PageTyped DEF TypeOK
    <3> QED BY <2>3, <3>1, RangeConcatenation
  <2>6. ASSUME NEW x \in owed, x \notin Range(served) \cup Excused PROVE x \in Range(page) \/ x > after'
    <3>1. x > after /\ Awaited(x) /\ x \in Nat
      BY <2>1, <2>2, <2>6, PlacesAreNat DEF SkipInv, TypeOK
    <3>2. x \in Range(page) \/ (Len(page) = Limit /\ Last(page) < x)
      BY <2>1, <2>2, <3>1, PageHasAwaited
    <3> QED BY <2>3, <3>2
  <2> HIDE DEF page
  <2> QED BY <2>1, <2>2, <2>3, <2>4, <2>5, <2>6 DEF SkipInv, files
<1>9. CASE UNCHANGED vars
  BY <1>9 DEF vars, files, walk, SkipInv, Excused, Awaited, Archived, Lost
<1> QED BY <1>1, <1>2, <1>3, <1>4, <1>5, <1>6, <1>7, <1>8, <1>9, Steps

-----------------------------------------------------------------------------
(* A thread *)

LEMMA ThreadKept ==
  ASSUME MailboxInv, [Next]_vars
  PROVE  ThreadInv'
<1> USE DEF MailboxInv
<1>1. CASE FileStep
  <2>1. FilesGrown /\ UNCHANGED walk
    BY <1>1, FilesGrow DEF FilesGrown
  <2>2. SUFFICES ASSUME kind = "thread", pc \in {"main", "archive"} PROVE ThreadInv'
    BY <2>1 DEF ThreadInv, walk
  <2>3. /\ main \cup archive \subseteq main' \cup archive' \cup Missing'
        /\ Missing \subseteq archive' \cup Missing'
    BY <2>1, <2>2 DEF FilesGrown, Missing
  <2>4. stored \subseteq stored' /\ archive \subseteq archive'
    BY <2>1 DEF FilesGrown
  <2> QED BY <2>1, <2>2, <2>3, <2>4 DEF ThreadInv, walk
<1>2. CASE Crash
  <2>1. kind = "thread" => ~(kind \in Walks)
    BY DEF Walks
  <2> QED BY <1>2, <2>1, CrashDrops DEF ThreadInv
<1>3. CASE CallBegins
  <2>1. ASSUME NEW m \in stored, LookedUp(m) PROVE ThreadInv'
    BY <2>1 DEF LookedUp, ThreadInv
  <2>2. ASSUME NEW k, k # "thread", NEW a, NEW id, NEW there, Begun(k, a, id, there) PROVE ThreadInv'
    BY <2>2 DEF Begun, ThreadInv
  <2>3. ASSUME NEW t, NEW a, Begun("thread", a, t, InThread(t, main \cup archive)) PROVE ThreadInv'
    BY <2>3 DEF Begun, ThreadInv, InThread, files, FilesInv
  <2> QED BY <1>3, <2>1, <2>2, <2>3 DEF CallBegins
<1>4. CASE QueryMain
  <2>1. kind = "thread" => OfMain = InThread(after, main)
    BY DEF OfMain
  <2>2. Missing' = Missing
    BY <1>4 DEF QueryMain, Missing, Lost, files
  <2> QED BY <1>4, <2>1, <2>2 DEF QueryMain, InThread, ThreadInv, files
<1>5. CASE InsertRedelivered \/ NextPage \/ FindCursor
  <2>1. kind' = kind /\ (pc' = "idle" \/ pc' = "insert" \/ pc' = "cursor" \/ kind \in Walks)
    BY <1>5 DEF InsertRedelivered, NextPage, FindCursor, Over, TypeOK
  <2> QED BY <2>1 DEF ThreadInv, Walks
<1>6. CASE QueryArchive
  <2>1. kind' = kind /\ (kind = "thread" => pc' = "idle")
    BY <1>6 DEF QueryArchive, AnswerThread, Over, Walks
  <2> QED BY <2>1 DEF ThreadInv
<1>7. CASE UNCHANGED vars
  BY <1>7 DEF vars, files, walk, ThreadInv, Missing, Lost
<1> QED BY <1>1, <1>2, <1>3, <1>4, <1>5, <1>6, <1>7, Steps

-----------------------------------------------------------------------------
(* A search *)

\* The archive's threads of an agent and of all.
LEMMA SearchSources ==
  ASSUME MailboxInv, kind = "search", pc \in {"main", "archive"}
  PROVE  /\ OfMain = First(Limit, Threads(agent, main))
         /\ OfArchive = Threads(agent, archive)
         /\ Threads(agent, main) \in SUBSET Nat /\ IsFiniteSet(Threads(agent, main))
         /\ Threads(agent, main) \in SUBSET ThreadsOf(stored)
         /\ Threads(agent, archive) \in SUBSET ThreadsOf(stored)
         /\ IsFiniteSet(ThreadsOf(stored)) /\ Cardinality(ThreadsOf(stored)) \in Nat
         /\ ThreadsOf(stored) \in SUBSET (Nat \ {0})
<1> USE DEF MailboxInv
<1>1. after = 0
  BY DEF SearchInv
<1>2. /\ main \in SUBSET stored /\ archive \in SUBSET stored
      /\ main \in SUBSET Msg /\ archive \in SUBSET Msg /\ stored \in SUBSET Msg
      /\ IsFiniteSet(main) /\ IsFiniteSet(archive) /\ IsFiniteSet(stored)
  BY FilesFinite DEF FilesInv
<1>3. /\ Threads(agent, main) \in SUBSET ThreadsOf(main) /\ IsFiniteSet(Threads(agent, main))
      /\ Threads(agent, archive) \in SUBSET ThreadsOf(archive)
      /\ ThreadsOf(stored) \in SUBSET Thread /\ IsFiniteSet(ThreadsOf(stored))
  BY <1>2, ThreadsFinite
<1>4. ThreadsOf(main) \subseteq ThreadsOf(stored) /\ ThreadsOf(archive) \subseteq ThreadsOf(stored)
  BY <1>2 DEF ThreadsOf
<1>5. ThreadsOf(stored) \in SUBSET (Nat \ {0})
  BY <1>3, PlacesAreNat
<1>6. \A S : S \subseteq ThreadsOf(stored) => Past(S) = S
  <2> SUFFICES ASSUME NEW S, S \subseteq ThreadsOf(stored) PROVE Past(S) = S
    OBVIOUS
  <2>1. \A x \in S : x > after
    BY <1>1, <1>5
  <2> QED BY <2>1 DEF Past
<1>7. Past(Threads(agent, main)) = Threads(agent, main) /\ Past(Threads(agent, archive)) = Threads(agent, archive)
  BY <1>3, <1>4, <1>6
<1>8. OfMain = First(Limit, Past(Threads(agent, main))) /\ OfArchive = Past(Threads(agent, archive))
  BY DEF OfMain, OfArchive
<1> QED BY <1>3, <1>4, <1>5, <1>7, <1>8, FS_CardinalityType

\* With room for every thread, an agent's page has all of its threads.
LEMMA SearchPage ==
  ASSUME MailboxInv, kind = "search", pc = "archive", NEW page, page = Merge(got, OfArchive)
  PROVE  /\ Range(page) \subseteq ThreadsOf(stored)
         /\ Cardinality(ThreadsOf(stored)) <= Limit =>
              Range(page) = got \cup Threads(agent, archive)
<1> USE DEF MailboxInv
<1>1. /\ OfArchive = Threads(agent, archive) /\ OfArchive \in SUBSET ThreadsOf(stored)
      /\ IsFiniteSet(ThreadsOf(stored)) /\ Cardinality(ThreadsOf(stored)) \in Nat
  BY SearchSources
<1>2. got \in SUBSET ThreadsOf(stored) /\ got \in SUBSET Nat /\ IsFiniteSet(got)
  BY GotTyped DEF GotInv
<1>3. New = OfArchive \ got
  BY DEF New
<1>4. PageOf(page, got, New, Limit) /\ New \in SUBSET Nat /\ IsFiniteSet(New)
  BY PageIsPage
<1>5. Range(page) \subseteq got \cup New
  BY <1>4, RangeOfSeq DEF PageOf
<1>6. got \cup New \in SUBSET ThreadsOf(stored)
  BY <1>1, <1>2, <1>3
<1>7. Cardinality(got \cup New) <= Cardinality(ThreadsOf(stored)) /\ Cardinality(got \cup New) \in Nat
  BY <1>1, <1>6, FS_Subset, FS_CardinalityType
<1>8. ASSUME Cardinality(ThreadsOf(stored)) <= Limit PROVE Range(page) = got \cup New
  <2>1. Cardinality(got \cup New) <= Limit /\ got \cap New = {} /\ Limit \in Nat \ {0}
    BY <1>1, <1>3, <1>7, <1>8, PlacesAreNat
  <2> QED BY <1>2, <1>4, <2>1, RoomyPage
<1> QED BY <1>1, <1>3, <1>5, <1>6, <1>8
LEMMA SearchKept ==
  ASSUME MailboxInv, [Next]_vars
  PROVE  SearchInv'
<1> USE DEF MailboxInv
<1>1. CASE FileStep
  <2>1. FilesGrown /\ FilesInv' /\ UNCHANGED walk
    BY <1>1, FilesGrow DEF FilesGrown
  <2>2. SUFFICES ASSUME kind = "search", pc \in {"main", "archive"} PROVE SearchInv'
    BY <2>1 DEF SearchInv, walk
  <2>3. /\ stored \subseteq stored' /\ archive \subseteq archive' /\ stored' \subseteq Msg
        /\ moved \cup Lost \subseteq moved' \cup Lost'
    BY <2>1, <2>2 DEF FilesGrown
  <2>4. /\ ThreadsOf(stored) \subseteq ThreadsOf(stored')
        /\ ThreadsOf(moved \cup Lost) \subseteq ThreadsOf(moved' \cup Lost')
    BY <2>3 DEF ThreadsOf
  <2>5. Cardinality(ThreadsOf(stored')) <= Limit => Cardinality(ThreadsOf(stored)) <= Limit
    <3>1. IsFiniteSet(ThreadsOf(stored')) /\ IsFiniteSet(ThreadsOf(stored))
      BY <2>1, <2>3, FilesFinite, ThreadsFinite DEF FilesInv
    <3>2. /\ Cardinality(ThreadsOf(stored)) <= Cardinality(ThreadsOf(stored'))
          /\ Cardinality(ThreadsOf(stored)) \in Nat /\ Cardinality(ThreadsOf(stored')) \in Nat
      BY <2>4, <3>1, FS_Subset, FS_CardinalityType
    <3> QED BY <3>2, PlacesAreNat
  <2> QED BY <2>1, <2>2, <2>3, <2>4, <2>5 DEF SearchInv, walk
<1>2. CASE Crash
  <2>1. kind = "search" => ~(kind \in Walks)
    BY DEF Walks
  <2> QED BY <1>2, <2>1, CrashDrops DEF SearchInv
<1>3. CASE CallBegins
  <2>1. ASSUME NEW m \in stored, LookedUp(m) PROVE SearchInv'
    BY <2>1 DEF LookedUp, SearchInv
  <2>2. ASSUME NEW k, k # "search", NEW a, NEW id, NEW there, Begun(k, a, id, there) PROVE SearchInv'
    BY <2>2 DEF Begun, SearchInv
  <2>3. ASSUME Begun("search", 1, 0, ThreadsOf(main \cup archive)) PROVE SearchInv'
    <3>1. /\ kind' = "search" /\ agent' = 1 /\ pc' = "main" /\ after' = 0 /\ served' = <<>>
          /\ owed' = ThreadsOf(main \cup archive) /\ stored' = stored
      BY <2>3 DEF Begun, files
    <3>2. 1 \in Agent /\ Range(served') = {}
      BY <3>1, MailboxAssumption DEF Agent, Range
    <3>3. ASSUME NEW t \in owed'
          PROVE  \E m \in stored : ThreadOf[m] = t /\ 1 <= Owner[m]
      <4>1. PICK m \in main \cup archive : t = ThreadOf[m]
        BY <3>1 DEF ThreadsOf
      <4>2. m \in stored /\ Owner[m] \in Agent
        BY PlacesAreNat DEF FilesInv, TypeOK
      <4>3. 1 <= Owner[m]
        BY <4>2, MailboxAssumption DEF Agent
      <4> QED BY <4>1, <4>2, <4>3
    <3> QED BY <3>1, <3>2, <3>3 DEF SearchInv
  <2> QED BY <1>3, <2>1, <2>2, <2>3 DEF CallBegins
<1>4. CASE QueryMain
  <2>1. /\ pc = "main" /\ pc' = "archive" /\ got' = OfMain
        /\ UNCHANGED <<stored, archive, moved, kind, agent, after, owed, served>> /\ Lost' = Lost
    BY <1>4 DEF QueryMain, files, Lost
  <2>2. SUFFICES ASSUME kind = "search", Cardinality(ThreadsOf(stored)) <= Limit PROVE SearchInv'
    BY <2>1 DEF SearchInv
  <2>3. OfMain = Threads(agent, main)
    <3>1. /\ OfMain = First(Limit, Threads(agent, main))
          /\ Threads(agent, main) \in SUBSET Nat /\ IsFiniteSet(Threads(agent, main))
          /\ Cardinality(Threads(agent, main)) <= Cardinality(ThreadsOf(stored))
          /\ Cardinality(Threads(agent, main)) \in Nat /\ Cardinality(ThreadsOf(stored)) \in Nat
      BY <2>1, <2>2, SearchSources, FS_Subset, FS_CardinalityType
    <3> QED BY <2>2, <3>1, FewAreAll, PlacesAreNat
  <2>4. ASSUME NEW t \in owed,
               t \notin ThreadsOf(moved \cup Lost) \cup Range(served)
        PROVE  \E m \in stored :
                 /\ ThreadOf[m] = t /\ agent <= Owner[m]
                 /\ Owner[m] = agent => t \in got' \/ m \in archive
    <3>1. PICK m \in stored : ThreadOf[m] = t /\ agent <= Owner[m]
      BY <2>1, <2>2, <2>4 DEF SearchInv
    <3>2. m \notin moved \cup Lost
      BY <2>4, <3>1 DEF ThreadsOf
    <3>3. m \in main \cup archive
      BY <2>1, <3>1, <3>2 DEF FilesInv, Lost, InCall
    <3>4. m \in main /\ Owner[m] = agent => t \in got'
      BY <2>1, <2>3, <3>1 DEF Threads, Mine
    <3> QED BY <3>1, <3>3, <3>4
  <2> QED BY <2>1, <2>2, <2>4 DEF SearchInv
<1>5. CASE InsertRedelivered \/ NextPage \/ FindCursor
  <2>1. kind' = kind /\ (pc' = "idle" \/ pc' = "insert" \/ pc' = "cursor" \/ kind \in Walks)
    BY <1>5 DEF InsertRedelivered, NextPage, FindCursor, Over, TypeOK
  <2> QED BY <2>1 DEF SearchInv, Walks
<1>6. CASE QueryArchive
  <2> DEFINE page == Merge(got, OfArchive)
             rows == Sorted(Range(served), Range(page) \ Range(served))
  <2>1. pc = "archive" /\ UNCHANGED <<files, kind, moved>> /\ Lost' = Lost
    BY <1>6 DEF QueryArchive, files, Lost
  <2>2. SUFFICES ASSUME kind = "search", pc' # "idle" PROVE SearchInv'
    BY <2>1 DEF SearchInv
  <2>3. /\ agent # Agents /\ pc' = "main" /\ served' = rows /\ agent' = agent + 1
        /\ after' = after /\ owed' = owed
    BY <1>6, <2>1, <2>2 DEF QueryArchive, AnswerSearch, Over, Walks
  <2>4. agent \in Agent /\ agent + 1 \in Agent /\ agent \in Nat
    <3>1. agent \in Agent
      BY <2>1, <2>2 DEF SearchInv
    <3> QED BY <2>3, <3>1, MailboxAssumption DEF Agent
  <2>5. Range(rows) = Range(served) \cup Range(page)
    <3>1. page \in Seq(Msg \cup Thread) /\ served \in Seq(Msg \cup Thread) /\ Msg \cup Thread \in SUBSET (Nat \ {0})
      BY <2>1, PageTyped, PlacesAreNat DEF TypeOK
    <3> QED BY <3>1, RowsTyped
  <2>6. /\ Range(page) \subseteq ThreadsOf(stored)
        /\ Cardinality(ThreadsOf(stored)) <= Limit => Range(page) = got \cup Threads(agent, archive)
    BY <2>1, <2>2, SearchPage
  <2> HIDE DEF page, rows
  <2>7. ASSUME Cardinality(ThreadsOf(stored)) <= Limit, NEW t \in owed,
               t \notin ThreadsOf(moved \cup Lost) \cup Range(served) \cup Range(page)
        PROVE  \E m \in stored : ThreadOf[m] = t /\ agent + 1 <= Owner[m]
    <3>1. PICK m \in stored : /\ ThreadOf[m] = t /\ agent <= Owner[m]
                              /\ Owner[m] = agent => t \in got \/ m \in archive
      BY <2>1, <2>2, <2>7 DEF SearchInv
    <3>2. Owner[m] # agent
      BY <2>6, <2>7, <3>1 DEF Threads, Mine
    <3>3. Owner[m] \in Nat
      BY <3>1, PlacesAreNat DEF TypeOK
    <3> QED BY <2>4, <3>1, <3>2, <3>3
  <2>8. after = 0 /\ Range(served) \subseteq ThreadsOf(stored)
    BY <2>1, <2>2 DEF SearchInv
  <2> QED BY <2>1, <2>2, <2>3, <2>4, <2>5, <2>6, <2>7, <2>8 DEF SearchInv, files
<1>7. CASE UNCHANGED vars
  BY <1>7 DEF vars, files, walk, SearchInv, Lost, ThreadsOf
<1> QED BY <1>1, <1>2, <1>3, <1>4, <1>5, <1>6, <1>7, Steps
-----------------------------------------------------------------------------
(* The theorems *)

LEMMA MailboxStarts == Init => MailboxInv
<1> SUFFICES ASSUME Init PROVE MailboxInv
  OBVIOUS
<1>1. /\ main = {} /\ archive = {} /\ read = {} /\ moving = {} /\ stored = {} /\ again = {}
      /\ kind = "messages" /\ agent = 1 /\ pc = "idle" /\ after = 0
      /\ got = {} /\ owed = {} /\ served = <<>> /\ moved = {}
  BY DEF Init
<1>2. 1 \in Agent
  BY MailboxAssumption DEF Agent
<1>3. TypeOK
  BY <1>1, <1>2 DEF TypeOK, Kind, Walks
<1>4. FilesInv
  BY <1>1, FS_EmptySet DEF FilesInv, InCall
<1>5. OrderInv
  BY <1>1 DEF OrderInv, PagesAscend, Range
<1> QED BY <1>1, <1>3, <1>4, <1>5
        DEF MailboxInv, LookupInv, ById, GotInv, SkipInv, ThreadInv, SearchInv

LEMMA MailboxKept == MailboxInv /\ [Next]_vars => MailboxInv'
<1> SUFFICES ASSUME MailboxInv, [Next]_vars PROVE MailboxInv'
  OBVIOUS
<1>1. FilesInv'
  BY FilesKept DEF MailboxInv
<1>2. TypeOK' /\ LookupInv' /\ GotInv'
  BY TypeKept, LookupKept, GotKept
<1>3. OrderInv' /\ SkipInv'
  BY OrderKept, SkipKept
<1>4. ThreadInv' /\ SearchInv'
  BY ThreadKept, SearchKept
<1> QED BY <1>1, <1>2, <1>3, <1>4 DEF MailboxInv

\* All the parts of the inductive invariant hold in every state.
LEMMA MailboxHolds == Spec => []MailboxInv
BY MailboxStarts, MailboxKept, PTL DEF Spec

\* The files hold messages, a call is always at one of its steps, and a walk
\* waits for its next page with a cursor, the last item it was given (store.go,
\* archive.go, list_messages.go).
THEOREM MailboxTyped == Spec => []TypeOK
<1>1. MailboxInv => TypeOK
  BY DEF MailboxInv
<1> QED BY <1>1, MailboxHolds, PTL

\* Only a message that was stored a second time is ever in both files (store.go:
\* GetMessage; archive.go: archiveOnce).
THEOREM BothOnlyIfAgain == Spec => [](main \cap archive \subseteq again)
<1>1. MailboxInv => main \cap archive \subseteq again
  BY DEF MailboxInv, FilesInv
<1> QED BY <1>1, MailboxHolds, PTL

\* No step takes a stored row out of both files but a crash between a pass's two
\* commits, or the failure of the second (archive.go: archiveOnce).
THEOREM RowsAreKept == Spec => OnlyACutCommitLoses
<1>1. ASSUME MailboxInv, [Next]_vars
      PROVE  Lost' \subseteq Lost \/ ((Crash \/ CommitFails) /\ Lost' \subseteq Lost \cup moving)
  <2> USE <1>1 DEF MailboxInv
  <2>1. CASE FileStep
    BY <2>1, FilesGrow DEF FilesGrown
  <2>2. CASE Crash
    BY <2>2, CrashDrops
  <2>3. CASE Reader
    BY <2>3, ReaderReads DEF files, Lost
  <2>4. CASE InsertRedelivered
    BY <2>4, InsertKeeps DEF InsertRedelivered, LookupInv
  <2>5. CASE UNCHANGED vars
    BY <2>5 DEF vars, files, Lost
  <2> QED BY <2>1, <2>2, <2>3, <2>4, <2>5, StepKinds
<1>2. MailboxInv /\ [Next]_vars =>
        [Lost' \subseteq Lost \/ ((Crash \/ CommitFails) /\ Lost' \subseteq Lost \cup moving)]_vars
  BY <1>1
<1> QED BY <1>2, MailboxHolds, PTL DEF Spec, OnlyACutCommitLoses

\* Over any number of pages nothing ever comes before what came already, and
\* only a message that moved while a page was read, or was stored again, comes
\* twice (list_messages.go, search_threads.go; store.go: the merges).
THEOREM ItemsAscend == Spec => []PagesAscend
<1>1. MailboxInv => PagesAscend
  BY DEF MailboxInv, OrderInv
<1> QED BY <1>1, MailboxHolds, PTL

\* A cursor, a message asked for by its id, or one delivered again without a key,
\* is taken for unknown only if a pass is between its two commits at that moment,
\* if it was lost there, or if it came back to main since (store.go:
\* GetMessage; receive_message.go: ReceiveMessage).
THEOREM OnlyMovingMissed == Spec => LookupsMissOnlyMoving
<1>1. ASSUME MailboxInv, FindCursor, NotFound
      PROVE  after \in moving \cup Lost \/ after \in (main \cap again) \ archive
  <2>1. after \notin archive
    <3>1. CASE kind \in Walks
      BY <1>1, <3>1 DEF FindCursor, NotFound, Over, Walks
    <3>2. CASE kind = "redelivery"
      BY <1>1, <3>2 DEF FindCursor, NotFound, Over, Walks
    <3>3. CASE kind = "message"
      BY <1>1, <3>3 DEF FindCursor, NotFound, Own, Over, Walks
    <3> QED BY <1>1, <3>1, <3>2, <3>3 DEF MailboxInv, LookupInv, FindCursor, ById, Walks
  <2>2. after \in stored /\ (after \in main => after \in again)
    BY <1>1 DEF MailboxInv, LookupInv, FindCursor
  <2> QED BY <2>1, <2>2 DEF Lost
<1>2. MailboxInv /\ [Next]_vars =>
        [FindCursor /\ NotFound =>
           \/ after \in moving \cup Lost
           \/ after \in (main \cap again) \ archive]_vars
  BY <1>1
<1> QED BY <1>2, MailboxHolds, PTL DEF Spec, LookupsMissOnlyMoving

\* A walk that ends with a page that is not full has returned everything there
\* was when it began, but for what a pass moved during its calls, what was
\* stored again and what was lost between two commits (list_messages.go, search_threads.go).
THEOREM WalksSkipNothing == Spec => NothingSkipped
<1>1. ASSUME MailboxInv, QueryArchive, pc' = "idle", kind \in Walks, NEW x \in owed
      PROVE  \/ x \in Range(served')
             \/ kind = "messages" /\ x \in moved \cup Lost
             \/ kind = "threads" /\ x \in Threads(agent, moved \cup Lost)
  <2> DEFINE page == Merge(got, OfArchive)
  <2> USE <1>1 DEF MailboxInv
  <2>1. pc = "archive" /\ served' = served \o page /\ Len(page) # Limit
    BY DEF QueryArchive, AnswerPage, Over, Walks
  <2>2. Range(served') = Range(served) \cup Range(page)
    <3>1. page \in Seq(Msg \cup Thread) /\ served \in Seq(Msg \cup Thread)
      BY <2>1, PageTyped DEF TypeOK
    <3> QED BY <2>1, <3>1, RangeConcatenation
  <2>3. ASSUME x \notin Range(served) \cup Excused PROVE x \in Range(page)
    <3>1. x > after /\ Awaited(x) /\ x \in Nat
      BY <2>1, <2>3, PlacesAreNat DEF SkipInv, TypeOK
    <3> QED BY <2>1, <3>1, PageHasAwaited
  <2> HIDE DEF page
  <2> QED BY <2>2, <2>3 DEF Excused, Walks
<1>2. MailboxInv /\ [Next]_vars =>
        [QueryArchive /\ pc' = "idle" /\ kind \in Walks =>
           \A x \in owed : \/ x \in Range(served')
                           \/ kind = "messages" /\ x \in moved \cup Lost
                           \/ kind = "threads" /\ x \in Threads(agent, moved \cup Lost)]_vars
  BY <1>1
<1> QED BY <1>2, MailboxHolds, PTL DEF Spec, NothingSkipped

\* A thread's messages come whole, but for what a pass has between its two
\* commits at that moment or has lost there; a 404 is given only to an agent whose own messages of
\* the thread are all among those (get_thread.go; store.go: GetThreadMessages).
THEOREM ThreadsComeWhole == Spec => ThreadIsWhole
<1>1. ASSUME MailboxInv, QueryArchive, kind = "thread"
      PROVE  \/ owed \ Missing \subseteq Range(served')
             \/ served' = <<>> /\ agent # 0 /\ Mine(agent, owed) \subseteq Missing
  <2> DEFINE page == Merge(got, OfArchive)
  <2> USE <1>1 DEF MailboxInv
  <2>1. /\ pc = "archive"
        /\ served' = IF agent = 0 \/ \E m \in Range(page) : Owner[m] = agent THEN page ELSE <<>>
    BY DEF QueryArchive, AnswerThread, Walks
  <2>2. Range(page) = got \cup OfArchive
    <3>1. page = Sorted(got, OfArchive)
      BY <2>1, PageIsPage
    <3>2. /\ got \in SUBSET Nat /\ IsFiniteSet(got)
          /\ OfArchive \in SUBSET Nat /\ IsFiniteSet(OfArchive)
      BY <2>1, GotTyped, OfArchiveTyped
    <3> QED BY <3>1, <3>2, SortedRange
  <2>3. owed \ Missing \subseteq got \cup OfArchive
    <3>1. OfArchive = InThread(after, archive)
      BY DEF OfArchive
    <3> QED BY <2>1, <3>1 DEF ThreadInv, InThread
  <2> HIDE DEF page
  <2>4. CASE agent = 0 \/ \E m \in Range(page) : Owner[m] = agent
    BY <2>1, <2>2, <2>3, <2>4
  <2>5. CASE ~(agent = 0 \/ \E m \in Range(page) : Owner[m] = agent)
    <3>1. Mine(agent, owed) \subseteq Missing
      BY <2>2, <2>3, <2>5 DEF Mine
    <3> QED BY <2>1, <2>5, <3>1
  <2> QED BY <2>4, <2>5
<1>2. MailboxInv /\ [Next]_vars =>
        [QueryArchive /\ kind = "thread" =>
           \/ owed \ Missing \subseteq Range(served')
           \/ served' = <<>> /\ agent # 0 /\ Mine(agent, owed) \subseteq Missing]_vars
  BY <1>1
<1> QED BY <1>2, MailboxHolds, PTL DEF Spec, ThreadIsWhole

\* A search over all agents shows every thread there was when it began, if there
\* are no more than it shows, but for those with mail that a pass moved meanwhile
\* or a crash has lost (local.go: the dashboard's search; store.go:
\* SearchThreads).
THEOREM SearchesFindAll == Spec => SearchFindsAll
<1>1. ASSUME MailboxInv, QueryArchive, kind = "search", pc' = "idle",
             Cardinality(ThreadsOf(stored)) <= Limit,
             NEW t \in owed, t \notin ThreadsOf(moved \cup Lost)
      PROVE  t \in Range(served')
  <2> DEFINE page == Merge(got, OfArchive)
             rows == Sorted(Range(served), Range(page) \ Range(served))
  <2> USE <1>1 DEF MailboxInv
  <2>1. pc = "archive" /\ agent = Agents /\ served' = Cut(rows, Limit)
    BY DEF QueryArchive, AnswerSearch, Walks
  <2>2. Range(page) = got \cup Threads(agent, archive) /\ Range(page) \subseteq ThreadsOf(stored)
    BY <2>1, SearchPage
  <2>3. Range(served') = Range(served) \cup Range(page)
    <3> DEFINE A == Range(served)
               B == Range(page) \ Range(served)
    <3>1. page \in Seq(Msg \cup Thread) /\ served \in Seq(Msg \cup Thread) /\ Msg \cup Thread \in SUBSET (Nat \ {0})
      BY <2>1, PageTyped, PlacesAreNat DEF TypeOK
    <3>2. PageOf(served', A, B, Limit)
      BY <2>1, <3>1, RowsTyped
    <3>3. IsFiniteSet(ThreadsOf(stored)) /\ Cardinality(ThreadsOf(stored)) \in Nat
          /\ ThreadsOf(stored) \in SUBSET (Nat \ {0})
      BY <2>1, SearchSources
    <3>4. A \cup B \in SUBSET ThreadsOf(stored) /\ A \cap B = {} /\ A \cup B = Range(served) \cup Range(page)
      BY <2>1, <2>2 DEF SearchInv
    <3> HIDE DEF A, B
    <3>5. /\ IsFiniteSet(A) /\ IsFiniteSet(B) /\ A \in SUBSET Nat /\ B \in SUBSET Nat
          /\ Cardinality(A \cup B) <= Cardinality(ThreadsOf(stored))
          /\ Cardinality(A \cup B) \in Nat
      BY <3>3, <3>4, FS_Subset, FS_CardinalityType
    <3>6. Cardinality(A \cup B) <= Limit /\ Limit \in Nat \ {0}
      BY <3>3, <3>5, PlacesAreNat
    <3> QED BY <3>2, <3>4, <3>5, <3>6, RoomyPage
  <2> HIDE DEF page, rows
  <2>4. ASSUME t \notin Range(served) PROVE t \in Range(page)
    <3>1. PICK m \in stored : /\ ThreadOf[m] = t /\ agent <= Owner[m]
                              /\ Owner[m] = agent => t \in got \/ m \in archive
      BY <2>1, <2>4 DEF SearchInv
    <3>2. Owner[m] \in 1 .. Agents /\ Agents \in Nat
      BY <3>1, MailboxAssumption DEF TypeOK
    <3>3. Owner[m] = agent
      BY <2>1, <3>1, <3>2
    <3> QED BY <2>2, <3>1, <3>3 DEF Threads, Mine
  <2> QED BY <2>3, <2>4
<1>2. ASSUME MailboxInv, QueryArchive, kind = "search", pc' = "idle"
      PROVE  \/ Cardinality({ThreadOf[m] : m \in stored}) > Limit
             \/ owed \ {ThreadOf[m] : m \in moved \cup Lost} \subseteq Range(served')
  <2>1. Cardinality(ThreadsOf(stored)) \in Nat /\ Limit \in Nat
    <3>1. pc = "archive"
      BY <1>2 DEF QueryArchive
    <3> QED BY <1>2, <3>1, SearchSources, PlacesAreNat
  <2>2. CASE Cardinality(ThreadsOf(stored)) > Limit
    BY <2>2 DEF ThreadsOf
  <2>3. CASE Cardinality(ThreadsOf(stored)) <= Limit
    <3>1. owed \ ThreadsOf(moved \cup Lost) \subseteq Range(served')
      BY <1>1, <1>2, <2>3
    <3> QED BY <3>1 DEF ThreadsOf
  <2> QED BY <2>1, <2>2, <2>3
<1>3. MailboxInv /\ [Next]_vars =>
        [QueryArchive /\ kind = "search" /\ pc' = "idle" =>
           \/ Cardinality({ThreadOf[m] : m \in stored}) > Limit
           \/ owed \ {ThreadOf[m] : m \in moved \cup Lost} \subseteq Range(served')]_vars
  BY <1>2
<1> QED BY <1>3, MailboxHolds, PTL DEF Spec, SearchFindsAll
=============================================================================
