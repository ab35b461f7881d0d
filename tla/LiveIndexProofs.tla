---------------------------- MODULE LiveIndexProofs ----------------------------
(***************************************************************************)
(* What the live index guarantees for every tree of files, every queue     *)
(* capacity and any number of changes.                                     *)
(***************************************************************************)
EXTENDS LiveIndex, TLAPS

\* The constants' assumptions, in one place.
LEMMA Constants ==
  /\ Conf \notin Pages /\ Conf \in Files /\ Pages \subseteq Files
  /\ Files \subseteq Names /\ Dirs \subseteq Names /\ Dirs \cap Files = {}
  /\ Outside \notin Names /\ Outside \notin Dirs /\ Outside \notin Files
  /\ Parent \in [Names -> Dirs \cup {Outside}]
  /\ CfgRoot \in Dirs /\ DocsDir \in Dirs /\ InitDirs \subseteq Dirs
  /\ Nav \subseteq Pages
  BY NamesAssumption, TreeAssumption, DiskAssumption, IndexerAssumption
     DEF Files, Names

\* The queue stays a sequence of events when fsnotify adds to it ...
LEMMA EnqueueType ==
  ASSUME events \in Seq(Event), NEW e \in Event
  PROVE  Enqueue(e) \in Seq(Event)
  BY DEF Enqueue, Event

\* ... and whatever it reports.
LEMMA ReportType ==
  ASSUME events \in Seq(Event), NEW op \in EventOps, NEW n \in Names,
         Report(op, n)
  PROVE  events' \in Seq(Event)
<1>1. [op |-> op, name |-> n] \in Event
  BY DEF Event
<1>2. Enqueue([op |-> op, name |-> n]) \in Seq(Event)
  BY <1>1, EnqueueType
<1> QED
  BY <1>2 DEF Report

\* A new content keeps the disk well typed.
LEMMA NewContentType ==
  ASSUME FileEventsTypeOK, NEW f \in Files, NewContent(f)
  PROVE  disk' \in [Files -> [rev : Nat, here : BOOLEAN]] /\ valid' \in BOOLEAN
  BY DEF FileEventsTypeOK, NewContent

\* Whoever changes the disk leaves it, and the queue, well typed.
LEMMA DiskChangeType ==
  ASSUME FileEventsTypeOK, DiskChange
  PROVE  FileEventsTypeOK'
<1> USE DEF FileEventsTypeOK
<1> changes' \in Nat
  BY DEF DiskChange, Write, Replace, Create, Remove, Touch, MakeDir,
         RemoveDir, Change
<1>1. ASSUME NEW f \in Files, Write(f) PROVE FileEventsTypeOK'
  BY <1>1, NewContentType, ReportType, Constants DEF Write, EventOps
<1>2. ASSUME NEW f \in Files, Replace(f) PROVE FileEventsTypeOK'
  BY <1>2, NewContentType, ReportType, Constants DEF Replace, EventOps
<1>3. ASSUME NEW f \in Files, Create(f) PROVE FileEventsTypeOK'
  BY <1>3, NewContentType, ReportType, Constants DEF Create, EventOps
<1>4. ASSUME NEW f \in Files, Remove(f) PROVE FileEventsTypeOK'
  <2>1. events' \in Seq(Event)
    BY <1>4, ReportType, Constants DEF Remove, EventOps
  <2> QED
    BY <1>4, <2>1 DEF Remove
<1>5. ASSUME NEW f \in Files, Touch(f) PROVE FileEventsTypeOK'
  BY <1>5, ReportType, Constants DEF Touch, EventOps
<1>6. ASSUME NEW d \in Dirs, MakeDir(d) PROVE FileEventsTypeOK'
  BY <1>6, ReportType, Constants DEF MakeDir, EventOps
<1>7. ASSUME NEW d \in Dirs, RemoveDir(d) PROVE FileEventsTypeOK'
  BY <1>7, ReportType, Constants DEF RemoveDir, EventOps
<1> QED
  BY <1>1, <1>2, <1>3, <1>4, <1>5, <1>6, <1>7 DEF DiskChange

\* What a run reads is a revision.
LEMMA ReadType ==
  ASSUME FileEventsTypeOK, NEW f \in Files, NEW r
  PROVE  ReadUnder(f, r) \in Nat
  BY DEF FileEventsTypeOK, ReadUnder

\* A step of the index run keeps its variables well typed.
LEMMA IndexStepType ==
  ASSUME FileEventsTypeOK, IndexerTypeOK, IndexStep
  PROVE  IndexerTypeOK'
<1> USE Constants DEF IndexerTypeOK, Index, NoIndex, runVars, storeVars, Fail
<1>1. ASSUME ReadConfig PROVE IndexerTypeOK'
  <2> disk[Conf].rev \in Nat
    BY DEF FileEventsTypeOK
  <2> QED
    BY <1>1 DEF ReadConfig
<1>2. ASSUME ReadConfigFails PROVE IndexerTypeOK'
  BY <1>2 DEF ReadConfigFails
<1>3. ASSUME ResolveRoot PROVE IndexerTypeOK'
  BY <1>3 DEF ResolveRoot, ResolvedRoot
<1>4. ASSUME NEW d \in Dirs, WalkDir(d) PROVE IndexerTypeOK'
  <2> dirs \subseteq Dirs
    BY DEF FileEventsTypeOK
  <2> QED
    BY <1>4 DEF WalkDir
<1>5. ASSUME NEW d \in Dirs, WalkDirFails(d) PROVE IndexerTypeOK'
  BY <1>5 DEF WalkDirFails
<1>6. ASSUME NEW p \in Pages, ParsePage(p) PROVE IndexerTypeOK'
  <2> ReadUnder(p, root) \in Nat
    BY ReadType
  <2> QED
    BY <1>6 DEF ParsePage
<1>7. ASSUME NEW p \in Pages, SkipPage(p) PROVE IndexerTypeOK'
  BY <1>7 DEF SkipPage
<1>8. ASSUME UpdateCache PROVE IndexerTypeOK'
  BY <1>8 DEF UpdateCache
<1>9. ASSUME RebuildEngine PROVE IndexerTypeOK'
  BY <1>9 DEF RebuildEngine
<1> QED
  BY <1>1, <1>2, <1>3, <1>4, <1>5, <1>6, <1>7, <1>8, <1>9 DEF IndexStep

\* The oldest event and the rest of the queue are well typed.
LEMMA TakeEventType ==
  ASSUME events \in Seq(Event), TakeEvent
  PROVE  events' \in Seq(Event) /\ Head(events) \in Event
  BY DEF TakeEvent

\* A watch is put on a name of the tree only.
LEMMA WatchType ==
  ASSUME watches \subseteq Names, NEW n \in Names, Watch(n)
  PROVE  watches' \subseteq Names
  BY DEF Watch

\* The initial states are well typed.
LEMMA InitType == Init => TypeOK
<1> USE Constants DEF Init, TypeOK
<1>1. Init => FileEventsTypeOK
  BY DEF FileEventsInit, FileEventsTypeOK
<1>2. Init => WatcherTypeOK
  BY DEF WatcherInit, WatcherTypeOK
<1>3. Init => IndexerTypeOK
  BY DEF IndexerInit, IndexerTypeOK, Index, NoIndex
<1> QED
  BY <1>1, <1>2, <1>3

\* Every step keeps the types.
LEMMA NextType ==
  ASSUME TypeOK, [Next]_vars
  PROVE  TypeOK'
<1> USE DEF TypeOK
<1>1. CASE DiskStep
  <2>1. FileEventsTypeOK'
    BY <1>1, DiskChangeType DEF DiskStep
  <2>2. WatcherTypeOK' /\ IndexerTypeOK'
    BY <1>1 DEF DiskStep, watcherVars, indexerVars, runVars, storeVars,
                WatcherTypeOK, IndexerTypeOK
  <2>3. missed' \subseteq Files
    BY <1>1, Constants DEF DiskStep
  <2> QED
    BY <2>1, <2>2, <2>3
<1>2. CASE RunStep
  <2>1. IndexerTypeOK'
    BY <1>2, IndexStepType DEF RunStep
  <2>2. FileEventsTypeOK' /\ WatcherTypeOK'
    BY <1>2 DEF RunStep, diskVars, notifyVars, watcherVars,
                FileEventsTypeOK, WatcherTypeOK
  <2>3. missed' \subseteq Files
    BY <1>2 DEF RunStep
  <2> QED
    BY <2>1, <2>2, <2>3
<1> USE DEF diskVars, notifyVars, indexerVars, runVars, storeVars,
            FileEventsTypeOK, WatcherTypeOK, IndexerTypeOK
<1>3. CASE StartWatcher
  BY <1>3, WatchType, Constants DEF StartWatcher, WatchRoot
<1>4. CASE BootFails
  BY <1>4 DEF BootFails
<1>5. CASE Register
  <2>1. CASE WatchConf
    BY <1>5, <2>1, WatchType, Constants DEF Register, WatchConf
  <2>2. ASSUME NEW n \in Names, AddSubdir(n) PROVE TypeOK'
    BY <1>5, <2>2, WatchType, Constants DEF Register, AddSubdir
  <2> QED
    BY <1>5, <2>1, <2>2 DEF Register
<1>6. CASE Receive
  <2>1. events' \in Seq(Event) /\ Head(events) \in Event
    BY <1>6, TakeEventType DEF Receive, IgnoreEvent, HandleEvent, HandleError
  <2>2. Head(events) # Overflow => Head(events).name \in Names
    BY <2>1 DEF Event
  <2>3. CASE IgnoreEvent \/ HandleError
    BY <1>6, <2>1, <2>3 DEF Receive, IgnoreEvent, HandleError
  <2>4. CASE HandleEvent
    BY <1>6, <2>1, <2>2, <2>4 DEF Receive, HandleEvent
  <2> QED
    BY <1>6, <2>3, <2>4 DEF Receive
<1>7. CASE Reindex
  BY <1>7 DEF Reindex, TimerFires, Call
<1>8. CASE Shutdown
  <2>1. /\ loop' = "stopped" /\ events' = << >> /\ watches' = {}
        /\ UNCHANGED <<toAdd, pending, armed, diskVars, indexerVars, missed>>
    BY <1>8 DEF Shutdown, Stop, ProcessEnds
  <2>2. << >> \in Seq(Event)
    OBVIOUS
  <2> QED
    BY <2>1, <2>2
<1>9. CASE UNCHANGED vars
  BY <1>9 DEF vars, watcherVars
<1> QED
  BY <1>1, <1>2, <1>3, <1>4, <1>5, <1>6, <1>7, <1>8, <1>9 DEF Next, Ended

\* The variables of the disk, of fsnotify, of the watcher and of the indexer
\* keep their types.
THEOREM TypeCorrect == Spec => []TypeOK
<1> QED
  BY InitType, NextType, PTL DEF Spec

-----------------------------------------------------------------------------
\* Search and page reads differ only while an index run is between the cache
\* update and the engine rebuild.
THEOREM SearchFollowsCacheAlways == Spec => []SearchFollowsCache
<1>1. Init => SearchFollowsCache
  BY DEF Init, IndexerInit, SearchFollowsCache
<1>2. SearchFollowsCache /\ [Next]_vars => SearchFollowsCache'
  <2> SUFFICES ASSUME SearchFollowsCache, [Next]_vars
               PROVE  SearchFollowsCache'
    OBVIOUS
  <2> USE DEF SearchFollowsCache, indexerVars, runVars, storeVars
  <2>1. CASE RunStep
    BY <2>1 DEF RunStep, IndexStep, ReadConfig, ReadConfigFails, Fail,
                ResolveRoot, WalkDir, WalkDirFails, ParsePage, SkipPage,
                UpdateCache, RebuildEngine
  <2>2. CASE DiskStep \/ StartWatcher \/ BootFails \/ Register \/ Receive
             \/ Shutdown
    BY <2>2 DEF DiskStep, StartWatcher, BootFails, Register, Receive, Shutdown
  <2>3. CASE Reindex
    BY <2>3 DEF Reindex, Call
  <2>4. CASE UNCHANGED vars
    BY <2>4 DEF vars
  <2> QED
    BY <2>1, <2>2, <2>3, <2>4 DEF Next, Ended
<1> QED
  BY <1>1, <1>2, PTL DEF Spec

-----------------------------------------------------------------------------
(* No staleness goes unnoticed.                                            *)

\* News in the queue stays there when fsnotify adds to it.
LEMMA EnqueueKeepsNews ==
  ASSUME events \in Seq(Event), NEW e \in Event, events' = Enqueue(e),
         NEW f \in Files, Announced(f)
  PROVE  Announced(f)'
<1>1. PICK i \in 1..Len(events) : events[i].name = f /\ events[i].op # "chmod"
  BY DEF Announced
<1>2. CASE events' = events
  BY <1>1, <1>2 DEF Announced
<1>3. CASE \E x \in Event : events' = Append(events, x)
  <2>1. i \in 1..Len(events') /\ events'[i] = events[i]
    BY <1>3
  <2> QED
    BY <1>1, <2>1 DEF Announced
<1> QED
  BY <1>2, <1>3 DEF Enqueue, Event

\* A change of the disk never takes news out of the queue.
LEMMA DiskChangeKeepsNews ==
  ASSUME FileEventsTypeOK, DiskChange, NEW f \in Files, Announced(f)
  PROVE  Announced(f)'
<1>1. \E op \in EventOps, n \in Names : Report(op, n)
  <2> USE Constants DEF EventOps
  <2>1. ASSUME NEW g \in Files, Write(g) PROVE \E op \in EventOps, n \in Names : Report(op, n)
    BY <2>1 DEF Write
  <2>2. ASSUME NEW g \in Files, Replace(g) PROVE \E op \in EventOps, n \in Names : Report(op, n)
    BY <2>2 DEF Replace
  <2>3. ASSUME NEW g \in Files, Create(g) PROVE \E op \in EventOps, n \in Names : Report(op, n)
    BY <2>3 DEF Create
  <2>4. ASSUME NEW g \in Files, Remove(g) PROVE \E op \in EventOps, n \in Names : Report(op, n)
    BY <2>4 DEF Remove
  <2>5. ASSUME NEW g \in Files, Touch(g) PROVE \E op \in EventOps, n \in Names : Report(op, n)
    BY <2>5 DEF Touch
  <2>6. ASSUME NEW d \in Dirs, MakeDir(d) PROVE \E op \in EventOps, n \in Names : Report(op, n)
    BY <2>6 DEF MakeDir
  <2>7. ASSUME NEW d \in Dirs, RemoveDir(d) PROVE \E op \in EventOps, n \in Names : Report(op, n)
    BY <2>7 DEF RemoveDir
  <2> QED
    BY <2>1, <2>2, <2>3, <2>4, <2>5, <2>6, <2>7 DEF DiskChange
<1>2. PICK op \in EventOps, n \in Names : Report(op, n)
  BY <1>1
<1>3. [op |-> op, name |-> n] \in Event /\ events \in Seq(Event)
  BY DEF Event, FileEventsTypeOK
<1>4. CASE events' = events
  BY <1>4 DEF Announced
<1>5. CASE events' = Enqueue([op |-> op, name |-> n])
  BY <1>3, <1>5, EnqueueKeepsNews
<1> QED
  BY <1>2, <1>4, <1>5 DEF Report

\* What a change of the disk does to the index's claims: what it alters is
\* accounted for, and what was accounted for stays so.
LEMMA DiskStepEffect ==
  ASSUME TypeOK, DiskStep
  PROVE  /\ \A f \in Files : OnDisk(f)' = OnDisk(f) \/ Accounted(f)'
         /\ \A f \in Files : Accounted(f) => Accounted(f)'
         /\ missed \subseteq missed'
         /\ ResolvedRoot' = ResolvedRoot \/ Pages \subseteq missed'
<1>1. missed \subseteq missed'
  BY DEF DiskStep
<1>2. ResolvedRoot' = ResolvedRoot \/ Pages \subseteq missed'
  BY DEF DiskStep
<1>3. ASSUME NEW f \in Files
      PROVE  OnDisk(f)' = OnDisk(f) \/ f \in missed' \/ Announced(f)'
  BY DEF DiskStep
<1>4. UNCHANGED <<armed, errored>>
  BY DEF DiskStep, watcherVars, indexerVars, runVars
<1>5. ASSUME NEW f \in Files, Announced(f) PROVE Announced(f)'
  BY <1>5, DiskChangeKeepsNews DEF DiskStep, TypeOK
<1> QED
  BY <1>1, <1>2, <1>3, <1>4, <1>5 DEF Accounted

\* What exists after a change existed before it, or has just been made in a
\* directory that is there.
LEMMA DiskChangeExists ==
  ASSUME FileEventsTypeOK, DiskChange, NEW n \in Names, Exists(n)'
  PROVE  Exists(n) \/ Parent[n] \in dirs \cup {Outside}
<1> USE Constants DEF FileEventsTypeOK, Exists, HasHome, NewContent
<1>1. CASE \E f \in Files : Write(f) \/ Replace(f) \/ Create(f)
  BY <1>1 DEF Write, Replace, Create, Names
<1>2. CASE \E f \in Files : Remove(f) \/ Touch(f)
  BY <1>2 DEF Remove, Touch, Names
<1>3. CASE \E d \in Dirs : MakeDir(d) \/ RemoveDir(d)
  BY <1>3 DEF MakeDir, RemoveDir, Names
<1> QED
  BY <1>1, <1>2, <1>3 DEF DiskChange

\* A directory that goes had nothing in it.
LEMMA DiskChangeDirs ==
  ASSUME FileEventsTypeOK, DiskChange, NEW c \in dirs, c \notin dirs'
  PROVE  /\ \A n \in Names : Parent[n] = c => ~ Exists(n)
         /\ dirs' = dirs \ {c} /\ disk' = disk
  BY DEF DiskChange, Write, Replace, Create, Remove, Touch, MakeDir, RemoveDir

\* What is above something that exists still exists.
LEMMA TreeStaysClosed ==
  ASSUME FileEventsTypeOK, TreeClosed, DiskChange
  PROVE  TreeClosed'
<1> SUFFICES ASSUME NEW c \in Dirs, NEW n \in Under[c], Exists(n)'
             PROVE  c \in dirs'
  BY DEF TreeClosed
<1> n \in Names
  BY TreeAssumption
<1>1. c \in dirs
  <2>1. CASE Exists(n)
    BY <2>1 DEF TreeClosed
  <2>2. CASE Parent[n] \in dirs \cup {Outside}
    <3>1. Parent[n] = c \/ (Parent[n] \in Dirs /\ Parent[n] \in Under[c])
      BY TreeAssumption
    <3>2. Parent[n] \in dirs
      BY <2>2, <3>1, Constants
    <3>3. CASE Parent[n] = c
      BY <3>2, <3>3
    <3>4. CASE Parent[n] \in Dirs /\ Parent[n] \in Under[c]
      BY <3>2, <3>4 DEF TreeClosed, Exists
    <3> QED
      BY <3>1, <3>3, <3>4
  <2> QED
    BY <2>1, <2>2, DiskChangeExists
<1>2. ASSUME c \notin dirs' PROVE FALSE
  <2>1. /\ \A m \in Names : Parent[m] = c => ~ Exists(m)
        /\ dirs' = dirs \ {c} /\ disk' = disk
    BY <1>1, <1>2, DiskChangeDirs
  <2>2. Exists(n)
    BY <2>1 DEF Exists
  <2>3. PICK b \in Dirs : Parent[b] = c /\ n \in Under[b]
    BY <2>1, <2>2, TreeAssumption
  <2>4. Exists(b)
    BY <2>2, <2>3 DEF TreeClosed, Exists
  <2> QED
    BY <2>1, <2>3, <2>4, Constants
<1> QED
  BY <1>2

\* A change of the disk loses nothing.
LEMMA DiskStepLosesNothing ==
  ASSUME TypeOK, NothingLost, DiskStep
  PROVE  NothingLost'
<1> USE DEF NothingLost
<1>1. UNCHANGED <<loop, pending, armed, step, root, toWalk, listed, view, cache>>
  BY DEF DiskStep, watcherVars, indexerVars, runVars, storeVars
<1>2. RunAlone'
  BY <1>1 DEF RunAlone
<1>3. TreeClosed'
  BY TreeStaysClosed DEF DiskStep, TypeOK
<1>4. RootKnown'
  BY <1>1, DiskStepEffect DEF RootKnown
<1>5. ConfigKnown'
  BY <1>1, DiskStepEffect, Constants DEF ConfigKnown
<1>6. PagesKnown'
  BY <1>1, DiskStepEffect, Constants DEF PagesKnown
<1>7. ServedKnown'
  BY <1>1, DiskStepEffect DEF ServedKnown
<1> QED
  BY <1>2, <1>3, <1>4, <1>5, <1>6, <1>7

\* Until it publishes, a run takes nothing back: what was accounted for stays
\* so, and the disk is as it was.
LEMMA RunStepEffect ==
  ASSUME RunStep, ~ UpdateCache
  PROVE  /\ \A f \in Files : Accounted(f) => Accounted(f)'
         /\ \A f \in Files : OnDisk(f)' = OnDisk(f)
         /\ ResolvedRoot' = ResolvedRoot
         /\ missed' = missed
         /\ UNCHANGED <<loop, pending, armed, dirs, disk>>
<1>1. UNCHANGED <<diskVars, notifyVars, watcherVars>> /\ missed' = missed
  BY DEF RunStep
<1>2. ASSUME NEW f \in Files, f \in errored PROVE f \in errored'
  BY <1>2 DEF RunStep, IndexStep, ReadConfig, ReadConfigFails, Fail,
              ResolveRoot, WalkDir, WalkDirFails, ParsePage, SkipPage,
              RebuildEngine, storeVars
<1> QED
  BY <1>1, <1>2 DEF diskVars, notifyVars, watcherVars, Accounted, Announced,
                    OnDisk, ReadUnder, ResolvedRoot

\* A run that fails leaves the index as it was and an error in the log.
LEMMA FailLosesNothing ==
  ASSUME TypeOK, NothingLost, RunStep, ~ UpdateCache, Fail, step # "idle"
  PROVE  NothingLost'
<1>1. errored' = Files /\ step' = "idle" /\ missed' = missed
  BY RunStepEffect DEF Fail
<1> QED
  BY <1>1, RunStepEffect
     DEF NothingLost, RunAlone, TreeClosed, Exists, RootKnown, ConfigKnown,
         PagesKnown, ServedKnown, Accounted

\* The documentation root of a page decides what is read of it.
LEMMA RootReads ==
  ASSUME RootKnown, step = "parse", NEW p \in Pages
  PROVE  ReadUnder(p, root) = OnDisk(p) \/ Accounted(p)
  BY DEF RootKnown, OnDisk, Accounted

\* A page the walk has not found yet is below a directory it has still to
\* read, or is not there.
LEMMA WalkDirFinds ==
  ASSUME TypeOK, NothingLost, NEW d \in Dirs, WalkDir(d), RunStep,
         NEW p \in Pages \ listed'
  PROVE  \/ view'[p] = OnDisk(p)' \/ Accounted(p)'
         \/ \E a \in toWalk' : p \in Under[a]
<1> USE Constants
<1>1. step = "walk" /\ step' \in {"walk", "parse"} /\ view' = view
  BY DEF WalkDir
<1>2. ~ UpdateCache
  BY <1>1 DEF UpdateCache
<1>3. p \in Pages \ listed /\ p \in Files /\ p \in Names
  BY DEF WalkDir
<1>4. \/ view[p] = OnDisk(p) \/ Accounted(p)
      \/ \E a \in toWalk : p \in Under[a]
  BY <1>1, <1>3 DEF RunStep, NothingLost, PagesKnown
<1>5. CASE view[p] = OnDisk(p) \/ Accounted(p)
  BY <1>1, <1>2, <1>3, <1>5, RunStepEffect
<1>6. ASSUME NEW a \in toWalk, p \in Under[a], a # d
      PROVE  \E b \in toWalk' : p \in Under[b]
  BY <1>6 DEF WalkDir
<1>7. CASE p \in Under[d]
  <2>1. ~ disk[p].here => view'[p] = OnDisk(p)'
    <3>1. view[p] = 0
      BY <1>1 DEF NothingLost, PagesKnown
    <3>2. ~ disk[p].here => OnDisk(p) = 0
      BY DEF OnDisk, ReadUnder
    <3> QED
      BY <1>1, <1>2, <1>3, <3>1, <3>2, RunStepEffect
  <2>2. CASE Parent[p] = d
    BY <1>3, <2>1, <2>2 DEF WalkDir
  <2>3. CASE \E c \in Dirs : Parent[c] = d /\ p \in Under[c]
    <3>1. PICK c \in Dirs : Parent[c] = d /\ p \in Under[c]
      BY <2>3
    <3>2. CASE c \in dirs
      BY <3>1, <3>2 DEF WalkDir
    <3>3. CASE c \notin dirs
      BY <1>3, <2>1, <3>1, <3>3 DEF NothingLost, TreeClosed, Exists
    <3> QED
      BY <3>2, <3>3
  <2> QED
    BY <1>3, <1>7, <2>2, <2>3, TreeAssumption
<1> QED
  BY <1>4, <1>5, <1>6, <1>7

\* A step of an index run loses nothing.
LEMMA RunStepLosesNothing ==
  ASSUME TypeOK, NothingLost, RunStep
  PROVE  NothingLost'
<1> USE Constants
<1>a. step # "idle" /\ ~ armed /\ loop \in {"off", "select"}
  BY DEF RunStep, IndexStep, ReadConfig, ReadConfigFails, ResolveRoot, WalkDir,
         WalkDirFails, ParsePage, SkipPage, UpdateCache, RebuildEngine,
         NothingLost, RunAlone
<1>b. RunAlone' /\ TreeClosed'
  BY <1>a DEF RunStep, diskVars, notifyVars, watcherVars, NothingLost, RunAlone,
              TreeClosed, Exists
<1>c. ASSUME ~ UpdateCache, Fail PROVE NothingLost'
  BY <1>a, <1>c, FailLosesNothing
<1> USE DEF RootKnown, ConfigKnown, PagesKnown, ServedKnown, storeVars
<1>1. CASE ReadConfig
  <2>1. step = "config" /\ step' = "resolve"
    BY <1>1 DEF ReadConfig
  <2>2. ~ UpdateCache
    BY <2>1 DEF UpdateCache
  <2>3. view' = [NoIndex EXCEPT ![Conf] = disk[Conf].rev] /\ OnDisk(Conf) = disk[Conf].rev
    BY <1>1 DEF ReadConfig, OnDisk, ReadUnder
  <2>4. view'[Conf] = OnDisk(Conf)' /\ \A p \in Pages : view'[p] = 0
    BY <2>2, <2>3, RunStepEffect DEF NoIndex
  <2> QED
    BY <1>b, <2>1, <2>4 DEF NothingLost
<1>2. CASE ReadConfigFails
  <2>1. ~ UpdateCache /\ Fail
    BY <1>2 DEF ReadConfigFails, UpdateCache
  <2> QED
    BY <2>1, <1>c
<1>3. CASE ResolveRoot
  <2>1. step = "resolve" /\ step' = "walk" /\ view' = view
    BY <1>3 DEF ResolveRoot
  <2>2. ~ UpdateCache
    BY <2>1 DEF UpdateCache
  <2>3. root' = ResolvedRoot' /\ toWalk' = {ResolvedRoot}
    BY <1>3, <2>2, RunStepEffect DEF ResolveRoot
  <2>4. ConfigKnown'
    BY <2>1, <2>2, RunStepEffect DEF NothingLost
  <2>5. ASSUME NEW p \in Pages, p \notin Under[ResolvedRoot]
        PROVE  view'[p] = OnDisk(p)'
    <3>1. OnDisk(p) = 0
      BY <2>5 DEF OnDisk, ReadUnder
    <3> QED
      BY <2>1, <2>2, <3>1, RunStepEffect DEF NothingLost
  <2>6. PagesKnown'
    BY <2>1, <2>3, <2>5 DEF NothingLost
  <2> QED
    BY <1>b, <2>1, <2>3, <2>4, <2>6 DEF NothingLost
<1>4. ASSUME NEW d \in Dirs, WalkDir(d) PROVE NothingLost'
  <2>1. step = "walk" /\ step' \in {"walk", "parse"} /\ view' = view /\ root' = root
    BY <1>4 DEF WalkDir
  <2>2. ~ UpdateCache
    BY <2>1 DEF UpdateCache
  <2>3. RootKnown' /\ ConfigKnown'
    BY <2>1, <2>2, RunStepEffect DEF NothingLost
  <2>4. ASSUME NEW a \in toWalk', step' = "parse" PROVE FALSE
    BY <1>4, <2>4 DEF WalkDir
  <2>5. PagesKnown'
    BY <1>4, <2>1, <2>4, WalkDirFinds DEF NothingLost
  <2> QED
    BY <1>b, <2>1, <2>3, <2>5 DEF NothingLost
<1>5. ASSUME NEW d \in Dirs, WalkDirFails(d) PROVE NothingLost'
  <2>1. ~ UpdateCache /\ Fail
    BY <1>5 DEF WalkDirFails, UpdateCache
  <2> QED
    BY <2>1, <1>c
<1>6. ASSUME NEW p \in Pages, ParsePage(p) \/ SkipPage(p) PROVE NothingLost'
  <2>1. step = "parse" /\ step' = "parse" /\ root' = root /\ listed' = listed \ {p} /\ p \in listed
    BY <1>6 DEF ParsePage, SkipPage
  <2>2. ~ UpdateCache
    BY <1>6 DEF UpdateCache, ParsePage, SkipPage
  <2>3. \A f \in Files \ {p} : view'[f] = view[f]
    BY <1>6 DEF ParsePage, SkipPage, TypeOK, IndexerTypeOK, Index
  <2>4. RootKnown' /\ ConfigKnown'
    BY <2>1, <2>2, <2>3, RunStepEffect DEF NothingLost
  <2>5. view'[p] = OnDisk(p)' \/ Accounted(p)'
    <3>1. CASE ParsePage(p)
      <4>1. view'[p] = ReadUnder(p, root)
        BY <3>1 DEF ParsePage, TypeOK, IndexerTypeOK, Index
      <4> QED
        BY <2>1, <2>2, <4>1, RootReads, RunStepEffect DEF NothingLost
    <3>2. CASE SkipPage(p)
      BY <3>2 DEF SkipPage, Accounted
    <3> QED
      BY <1>6, <3>1, <3>2
  <2>6. ASSUME NEW q \in Pages \ listed', q # p
        PROVE  view'[q] = OnDisk(q)' \/ Accounted(q)'
    BY <2>1, <2>2, <2>3, <2>6, RunStepEffect DEF RunStep, NothingLost
  <2>7. PagesKnown'
    BY <2>1, <2>5, <2>6
  <2> QED
    BY <1>b, <2>1, <2>4, <2>7 DEF NothingLost
<1>7. CASE UpdateCache
  <2>1. /\ step = "parse" /\ listed = {} /\ step' = "rebuild" /\ cache' = view
        /\ view' = view /\ errored' = errored
    BY <1>7 DEF UpdateCache
  <2>2. missed' = {f \in missed : view[f] # OnDisk(f)}
    BY <1>7 DEF RunStep
  <2>3. ASSUME NEW f \in Files PROVE view[f] = OnDisk(f) \/ Accounted(f)
    BY <2>1, <2>3 DEF RunStep, NothingLost, Files
  <2>4. ASSUME NEW f \in Files PROVE OnDisk(f)' = OnDisk(f) /\ (Announced(f) => Announced(f)')
    BY DEF RunStep, diskVars, notifyVars, OnDisk, ReadUnder, ResolvedRoot, Announced
  <2>5. ASSUME NEW f \in Files PROVE cache'[f] = OnDisk(f)' \/ Accounted(f)'
    BY <1>a, <2>1, <2>2, <2>3, <2>4 DEF Accounted
  <2> QED
    BY <1>b, <2>1, <2>5 DEF NothingLost
<1>8. CASE RebuildEngine
  <2>1. step = "rebuild" /\ step' = "idle" /\ cache' = cache /\ ~ UpdateCache
    BY <1>8 DEF RebuildEngine, UpdateCache
  <2> QED
    BY <1>b, <2>1, RunStepEffect DEF NothingLost
<1> QED
  BY <1>1, <1>2, <1>3, <1>4, <1>5, <1>6, <1>7, <1>8 DEF RunStep, IndexStep

\* Taking an event that does not matter takes no news of a file, when every
\* file has an extension the watcher knows.
LEMMA IgnoringKeepsNews ==
  ASSUME TypeOK, Files \subseteq RelevantNames, IgnoreEvent \/ HandleError,
         NEW f \in Files, Announced(f)
  PROVE  Announced(f)'
<1>1. PICK i \in 1..Len(events) : events[i].name = f /\ events[i].op # "chmod"
  BY DEF Announced
<1>2. events \in Seq(Event) /\ events # << >> /\ events' = Tail(events)
  BY DEF TypeOK, FileEventsTypeOK, IgnoreEvent, HandleError, TakeEvent
<1>3. i # 1
  <2>1. Head(events) = events[1] /\ events[i] \in Event
    BY <1>2
  <2>2. events[i] # Overflow
    BY <1>1, Constants DEF Overflow
  <2>3. events[i].op \in {"write", "create", "remove", "rename"}
    BY <1>1, <2>1, <2>2 DEF Event, EventOps
  <2> QED
    BY <1>1, <2>1, <2>2, <2>3 DEF IgnoreEvent, HandleError, IsRelevant
<1>4. i - 1 \in 1..Len(events') /\ events'[i - 1] = events[i]
  BY <1>2, <1>3
<1> QED
  BY <1>1, <1>4 DEF Announced

\* Nothing is lost by a step of the watcher, of main or of the disk.
LEMMA NothingLostStep ==
  ASSUME TypeOK, Files \subseteq RelevantNames, NothingLost, [Next]_vars
  PROVE  NothingLost'
<1> USE Constants DEF NothingLost
<1>d. ASSUME UNCHANGED <<diskVars, indexerVars, missed>>
      PROVE  /\ TreeClosed' /\ UNCHANGED <<step, root, toWalk, listed, view, errored, cache>>
             /\ \A f \in Files : OnDisk(f)' = OnDisk(f)
             /\ ResolvedRoot' = ResolvedRoot
  BY <1>d DEF diskVars, indexerVars, runVars, storeVars, TreeClosed, Exists, OnDisk,
              ReadUnder, ResolvedRoot
<1>e. ASSUME UNCHANGED <<diskVars, indexerVars, missed>>, RunAlone', step = "idle",
             \A f \in Files : Accounted(f) => Accounted(f)' \/ loop' = "stopped",
             loop = "stopped" => loop' = "stopped"
      PROVE  NothingLost'
  BY <1>d, <1>e DEF RootKnown, ConfigKnown, PagesKnown, ServedKnown
<1>1. CASE DiskStep
  BY <1>1, DiskStepLosesNothing
<1>2. CASE RunStep
  BY <1>2, RunStepLosesNothing
<1>3. CASE StartWatcher \/ BootFails \/ Register
  <2>1. UNCHANGED <<diskVars, indexerVars, missed, armed, pending, events, errored>>
    BY <1>3 DEF StartWatcher, WatchRoot, BootFails, notifyVars, Register, WatchConf,
                AddSubdir, indexerVars, runVars
  <2>2. step = "idle" /\ loop # "stopped"
    BY <1>3 DEF StartWatcher, WatchRoot, BootFails, Register, WatchConf, AddSubdir,
                RunAlone
  <2>3. RunAlone'
    BY <2>1, <2>2 DEF RunAlone, indexerVars, runVars
  <2>4. \A f \in Files : Accounted(f) => Accounted(f)'
    BY <2>1 DEF Accounted, Announced
  <2> QED
    BY <1>e, <2>1, <2>2, <2>3, <2>4
<1>4. CASE Receive
  <2>1. UNCHANGED <<diskVars, indexerVars, missed, errored>> /\ step = "idle" /\ step' = step
    BY <1>4 DEF Receive, indexerVars, runVars
  <2>2. loop # "stopped"
    BY <1>4 DEF Receive, IgnoreEvent, HandleEvent, HandleError
  <2>3. CASE IgnoreEvent \/ HandleError
    <3>1. UNCHANGED <<armed, pending, loop>>
      BY <2>3 DEF IgnoreEvent, HandleError
    <3>2. \A f \in Files : Accounted(f) => Accounted(f)'
      BY <2>1, <2>3, <3>1, IgnoringKeepsNews DEF Accounted
    <3> QED
      BY <1>e, <2>1, <2>2, <3>1, <3>2 DEF RunAlone
  <2>4. CASE HandleEvent
    <3>1. armed' = TRUE /\ pending' = TRUE
      BY <2>4 DEF HandleEvent, RunAlone, TypeOK, WatcherTypeOK
    <3> QED
      BY <1>e, <2>1, <2>2, <3>1 DEF RunAlone, Accounted
  <2> QED
    BY <1>4, <2>3, <2>4 DEF Receive
<1>5. CASE Reindex
  <2>1. step' = "config" /\ armed' = FALSE /\ pending' = FALSE /\ loop' = "select"
    BY <1>5 DEF Reindex, TimerFires, Call
  <2>2. TreeClosed'
    BY <1>5 DEF Reindex, diskVars, TreeClosed, Exists
  <2> QED
    BY <2>1, <2>2 DEF RunAlone, RootKnown, ConfigKnown, PagesKnown, ServedKnown
<1>6. CASE Shutdown
  <2>1. UNCHANGED <<diskVars, indexerVars, missed, armed, pending>> /\ loop' = "stopped"
    BY <1>6 DEF Shutdown, Stop, ProcessEnds
  <2> QED
    BY <1>d, <2>1 DEF RunAlone, RootKnown, ConfigKnown, PagesKnown, ServedKnown
<1>7. CASE UNCHANGED vars
  BY <1>7 DEF vars, diskVars, notifyVars, watcherVars, indexerVars, runVars, storeVars,
              RunAlone, TreeClosed, Exists, RootKnown, ConfigKnown, PagesKnown,
              ServedKnown, Accounted, Announced, OnDisk, ReadUnder, ResolvedRoot
<1> QED
  BY <1>1, <1>2, <1>3, <1>4, <1>5, <1>6, <1>7 DEF Next, Ended

\* At the start nothing is published and the first run is about to read.
LEMMA NothingLostInit == Init => NothingLost
<1> SUFFICES ASSUME Init PROVE NothingLost
  OBVIOUS
<1> USE Constants
<1>1. TreeClosed
  <2> SUFFICES ASSUME NEW c \in Dirs, NEW n \in Under[c], Exists(n)
               PROVE  c \in dirs
    BY DEF TreeClosed
  <2>1. n \in Names /\ dirs = InitDirs
    BY TreeAssumption DEF Init, FileEventsInit
  <2>2. CASE n \in Dirs
    BY <2>1, <2>2, DiskAssumption DEF Exists
  <2>3. CASE n \in Files
    <3>1. Parent[n] \in dirs \cup {Outside}
      BY <2>1, <2>3 DEF Init, FileEventsInit, Exists
    <3>2. Parent[n] = c \/ (Parent[n] \in Dirs /\ Parent[n] \in Under[c])
      BY <2>1, TreeAssumption
    <3> QED
      BY <2>1, <3>1, <3>2, DiskAssumption
  <2> QED
    BY <2>1, <2>2, <2>3 DEF Names
<1> QED
  BY <1>1 DEF Init, WatcherInit, IndexerInit, NothingLost, RunAlone, RootKnown,
              ConfigKnown, PagesKnown, ServedKnown

\* Every difference between the disk and the index is accounted for, at every
\* step, if every file has an extension the watcher knows.
THEOREM NothingLostAlways ==
  ASSUME Files \subseteq RelevantNames
  PROVE  Spec => []NothingLost
<1>1. TypeOK /\ NothingLost /\ [Next]_vars => NothingLost'
  BY NothingLostStep
<1> QED
  BY <1>1, NothingLostInit, TypeCorrect, PTL DEF Spec

\* The watcher never comes to rest with a file served otherwise than it is on
\* disk, unless fsnotify did not report it or the index run logged an error.
THEOREM NoSilentStalenessAlways ==
  ASSUME Files \subseteq RelevantNames
  PROVE  Spec => []NoSilentStaleness
<1>1. TypeOK /\ NothingLost => NoSilentStaleness
  <2> SUFFICES ASSUME TypeOK, NothingLost, Quiet, NEW f \in Files
               PROVE  cache[f] = OnDisk(f) \/ f \in missed \cup errored
    BY DEF NoSilentStaleness
  <2>1. cache[f] = OnDisk(f) \/ Accounted(f)
    BY DEF NothingLost, ServedKnown, Quiet
  <2>2. ~ Announced(f)
    <3> SUFFICES ASSUME NEW i \in 1..Len(events), events[i].name = f,
                        events[i].op # "chmod"
                 PROVE  FALSE
      BY DEF Announced
    <3>1. events[i] \in Event /\ events[i] # Overflow
      BY Constants DEF TypeOK, FileEventsTypeOK, Overflow
    <3> QED
      BY <3>1 DEF Quiet, IsRelevant, Event, EventOps
  <2> QED
    BY <2>1, <2>2 DEF Accounted, Quiet
<1> QED
  BY <1>1, NothingLostAlways, TypeCorrect, PTL

-----------------------------------------------------------------------------
(* Directories that stay are watched.                                      *)

\* A directory of the start is watched, or the registration under way will
\* come to it, or to one above it.
DirsCovered ==
  /\ InitDirs \subseteq dirs
  /\ loop = "select" => toAdd = {}
  /\ loop \in {"adding", "select"} =>
       \A d \in InitDirs :
         d \in watches \/ \E c \in toAdd \cap InitDirs : d = c \/ d \in Under[c]

\* No change of the disk but rmdir takes a directory or its watch away.
LEMMA DiskChangeKeepsDirs ==
  ASSUME FileEventsTypeOK, DiskChange, "rmdir" \notin DiskOps
  PROVE  dirs \subseteq dirs' /\ watches \cap Dirs \subseteq watches'
<1> USE Constants
<1>1. CASE \E f \in Files : Write(f) \/ Create(f) \/ Touch(f)
  BY <1>1 DEF Write, Create, Touch
<1>2. CASE \E f \in Files : Replace(f) \/ Remove(f)
  BY <1>2 DEF Replace, Remove
<1>3. CASE \E d \in Dirs : MakeDir(d) \/ RemoveDir(d)
  BY <1>3 DEF MakeDir, RemoveDir, Change
<1> QED
  BY <1>1, <1>2, <1>3 DEF DiskChange

\* addSubdirs visits a directory of the start: it is watched, and what is
\* below it is still covered, by one of its sub-directories.
LEMMA AddSubdirCovers ==
  ASSUME TypeOK, DirsCovered, NEW n \in Names, AddSubdir(n), UNCHANGED dirs
  PROVE  DirsCovered'
<1> USE Constants DEF DirsCovered, AddSubdir, Watch
<1>1. watches \subseteq watches'
  OBVIOUS
<1>2. ASSUME NEW d \in InitDirs
      PROVE  d \in watches' \/ \E c \in toAdd' \cap InitDirs : d = c \/ d \in Under[c]
  <2>1. CASE d \in watches
    BY <1>1, <2>1
  <2>2. ASSUME NEW c \in toAdd \cap InitDirs, d = c \/ d \in Under[c], c # n
        PROVE  d \in watches' \/ \E b \in toAdd' \cap InitDirs : d = b \/ d \in Under[b]
    BY <2>2
  <2>3. CASE n \in InitDirs /\ d = n
    BY <2>3 DEF Exists
  <2>4. CASE n \in InitDirs /\ d \in Under[n]
    <3>1. PICK c \in Dirs : Parent[c] = n /\ (d = c \/ d \in Under[c])
      <4>1. CASE Parent[d] = n
        BY <4>1
      <4>2. CASE Parent[d] # n
        BY <2>4, <4>2, TreeAssumption
      <4> QED
        BY <4>1, <4>2
    <3>2. c \in InitDirs
      BY <3>1, DiskAssumption
    <3>3. c \in toAdd'
      BY <2>4, <3>1, <3>2
    <3> QED
      BY <3>1, <3>2, <3>3
  <2> QED
    BY <2>1, <2>2, <2>3, <2>4
<1>3. loop' = "select" => toAdd' = {}
  OBVIOUS
<1> QED
  BY <1>2, <1>3

LEMMA DirsCoveredStep ==
  ASSUME TypeOK, DirsCovered, [Next]_vars, "rmdir" \notin DiskOps,
         InitDirs \subseteq {CfgRoot} \cup Under[CfgRoot]
  PROVE  DirsCovered'
<1> USE Constants
<1>1. CASE DiskStep
  <2>1. dirs \subseteq dirs' /\ watches \cap Dirs \subseteq watches'
    BY <1>1, DiskChangeKeepsDirs DEF DiskStep, TypeOK
  <2> QED
    BY <1>1, <2>1 DEF DiskStep, watcherVars, DirsCovered
<1>2. CASE RunStep \/ Reindex \/ UNCHANGED vars
  BY <1>2 DEF RunStep, Reindex, TimerFires, vars, diskVars, notifyVars, watcherVars,
              DirsCovered
<1>3. CASE StartWatcher \/ BootFails \/ Shutdown
  BY <1>3 DEF StartWatcher, WatchRoot, BootFails, Shutdown, Stop, ProcessEnds,
              diskVars, DirsCovered
<1>4. CASE Register
  <2>1. CASE WatchConf
    <3>1. CfgRoot \in InitDirs \/ InitDirs = {}
      BY DiskAssumption
    <3> QED
      BY <1>4, <2>1, <3>1 DEF Register, WatchConf, diskVars, DirsCovered
  <2>2. ASSUME NEW n \in Names, AddSubdir(n) PROVE DirsCovered'
    BY <1>4, <2>2, AddSubdirCovers DEF Register, diskVars
  <2> QED
    BY <1>4, <2>1, <2>2 DEF Register
<1>5. CASE Receive
  BY <1>5 DEF Receive, IgnoreEvent, HandleEvent, HandleError, diskVars, DirsCovered
<1> QED
  BY <1>1, <1>2, <1>3, <1>4, <1>5 DEF Next, Ended

\* What fsnotify reports of a file in a watched directory is news of it in
\* the queue, unless the queue has overflowed.
LEMMA ReportIsNews ==
  ASSUME events \in Seq(Event), NEW f \in Files, Parent[f] \in watches,
         NEW op \in EventOps \ {"chmod"}, Report(op, f)
  PROVE  Announced(f)' \/ \E i \in 1..Len(events') : events'[i] = Overflow
<1> DEFINE e == [op |-> op, name |-> f]
<1>1. e \in Event /\ Overflow \in Event
  BY Constants DEF Event
<1>2. ASSUME NEW x \in Event, events' = Append(events, x)
      PROVE  Len(events') \in 1..Len(events') /\ events'[Len(events')] = x
  BY <1>2
<1>3. CASE events' = Append(events, e)
  BY <1>1, <1>2, <1>3 DEF Announced
<1>4. CASE events' = Append(events, Overflow)
  BY <1>1, <1>2, <1>4
<1>5. CASE events' = events /\ \E i \in 1..Len(events) : events[i] = Overflow
  BY <1>5
<1> QED
  BY <1>3, <1>4, <1>5 DEF Report, Enqueue

\* A change of the disk that changes a file reports it.
LEMMA ChangeIsReported ==
  ASSUME FileEventsTypeOK, DiskChange, NEW f \in Files, disk'[f] # disk[f]
  PROVE  \E op \in EventOps \ {"chmod"} : Report(op, f)
<1> USE DEF FileEventsTypeOK, NewContent, EventOps
<1>1. ASSUME NEW g \in Files, Write(g) \/ Create(g)
      PROVE  \E op \in EventOps \ {"chmod"} : Report(op, f)
  <2>1. f = g
    BY <1>1 DEF Write, Create
  <2> QED
    BY <1>1, <2>1 DEF Write, Create
<1>2. ASSUME NEW g \in Files, Replace(g)
      PROVE  \E op \in EventOps \ {"chmod"} : Report(op, f)
  <2>1. f = g
    BY <1>2 DEF Replace
  <2> QED
    BY <1>2, <2>1 DEF Replace
<1>3. ASSUME NEW g \in Files, Remove(g)
      PROVE  \E op \in EventOps \ {"chmod"} : Report(op, f)
  <2>1. f = g
    BY <1>3 DEF Remove
  <2> QED
    BY <1>3, <2>1 DEF Remove
<1>4. ~ (\E g \in Files : Touch(g)) /\ ~ (\E d \in Dirs : MakeDir(d) \/ RemoveDir(d))
  BY DEF Touch, MakeDir, RemoveDir
<1> QED
  BY <1>1, <1>2, <1>3, <1>4 DEF DiskChange

\* Once the loop runs, a change of a file in a directory that was there at the
\* start reaches the queue unless the queue overflowed, if directories are not
\* removed and those of the start are the documentation root and below it.
THEOREM WatchedDirsMissNothingAlways ==
  ASSUME "rmdir" \notin DiskOps, InitDirs \subseteq {CfgRoot} \cup Under[CfgRoot]
  PROVE  Spec => WatchedDirsMissNothing
<1> DEFINE Misses == loop = "select" /\ ResolvedRoot' = ResolvedRoot =>
             \A f \in missed' \ missed :
               \/ Parent[f] \notin InitDirs
               \/ \E i \in 1..Len(events') : events'[i] = Overflow
<1>1. Init => DirsCovered
  BY DEF Init, FileEventsInit, WatcherInit, DirsCovered
<1>2. TypeOK /\ DirsCovered /\ [Next]_vars => DirsCovered'
  BY DirsCoveredStep
<1>3. TypeOK /\ TypeOK' /\ DirsCovered /\ [Next]_vars => [Misses]_vars
  <2> SUFFICES ASSUME TypeOK, TypeOK', DirsCovered, Next, loop = "select",
                      ResolvedRoot' = ResolvedRoot, NEW f \in missed' \ missed,
                      Parent[f] \in InitDirs
               PROVE  \E i \in 1..Len(events') : events'[i] = Overflow
    OBVIOUS
  <2>1. DiskStep
    BY DEF Next, RunStep, StartWatcher, BootFails, Register, Receive, Reindex,
           Shutdown, Ended, vars
  <2>2. f \in Files
    BY DEF TypeOK
  <2>3. OnDisk(f)' # OnDisk(f) /\ ~ Announced(f)'
    BY <2>1 DEF DiskStep
  <2>4. disk'[f] # disk[f]
    BY <2>3 DEF OnDisk, ReadUnder
  <2>5. PICK op \in EventOps \ {"chmod"} : Report(op, f)
    BY <2>1, <2>2, <2>4, ChangeIsReported DEF DiskStep, TypeOK
  <2>6. Parent[f] \in watches
    BY DEF DirsCovered
  <2> QED
    BY <2>2, <2>3, <2>5, <2>6, ReportIsNews DEF TypeOK, FileEventsTypeOK
<1> QED
  BY <1>1, <1>2, <1>3, TypeCorrect, PTL DEF Spec, WatchedDirsMissNothing

-----------------------------------------------------------------------------
(* Watcher, timer and index run implement the abstract live index of       *)
(* LiveReload, for every documentation tree, queue size and number of      *)
(* changes, if every file has an extension the watcher knows.              *)

\* What is served is no newer than the disk, and what a run is about to
\* publish is between the two.  It is why no page steps back.
NeverBack ==
  /\ \A f \in Files : cache[f] <= disk[f].rev
  /\ step \in {"resolve", "walk", "parse"} =>
       \A f \in Files : view[f] = 0 \/ (cache[f] <= view[f] /\ view[f] <= disk[f].rev)

\* Revisions and indexes are numbers.
LEMMA Numbers ==
  ASSUME TypeOK, NEW f \in Files
  PROVE  disk[f].rev \in Nat /\ cache[f] \in Nat /\ view[f] \in Nat /\ engine[f] \in Nat
  BY DEF TypeOK, FileEventsTypeOK, IndexerTypeOK, Index

\* The disk only moves on, and is served at its latest revision or not at all.
LEMMA DiskMovesOn ==
  ASSUME TypeOK, DiskChange, NEW f \in Files
  PROVE  disk[f].rev <= disk'[f].rev
<1>1. disk[f].rev \in Nat
  BY Numbers
<1> USE DEF TypeOK, FileEventsTypeOK
<1>2. ASSUME NEW g \in Files, NewContent(g) PROVE disk[f].rev <= disk'[f].rev
  BY <1>1, <1>2 DEF NewContent
<1>3. ASSUME NEW g \in Files, Remove(g) PROVE disk[f].rev <= disk'[f].rev
  BY <1>1, <1>3 DEF Remove
<1> QED
  BY <1>1, <1>2, <1>3
     DEF DiskChange, Write, Replace, Create, Touch, MakeDir, RemoveDir

LEMMA ReadsLatest == \A f, r : ReadUnder(f, r) \in {0, disk[f].rev}
  BY DEF ReadUnder

-----------------------------------------------------------------------------
LEMMA NeverBackInit == Init => NeverBack
  BY DEF Init, FileEventsInit, IndexerInit, NoIndex, NeverBack

\* An index run reads what is on disk, and publishes what it has read.
LEMMA RunNeverBack ==
  ASSUME TypeOK, NeverBack, RunStep
  PROVE  NeverBack'
<1> USE Constants, Numbers DEF NeverBack
<1>1. disk' = disk
  BY DEF RunStep, diskVars
<1>2. CASE ReadConfig
  <2>1. cache' = cache /\ \A f \in Files : view'[f] = 0 \/ view'[f] = disk[f].rev
    BY <1>2 DEF ReadConfig, storeVars, NoIndex
  <2> QED
    BY <1>1, <2>1
<1>3. ASSUME NEW p \in Pages, ParsePage(p) PROVE NeverBack'
  <2>1. /\ cache' = cache /\ step = "parse"
        /\ \A f \in Files : view'[f] = view[f] \/ view'[f] \in {0, disk[f].rev}
    BY <1>3, ReadsLatest DEF ParsePage, storeVars, TypeOK, IndexerTypeOK, Index
  <2> QED
    BY <1>1, <2>1
<1>4. CASE UpdateCache
  <2>1. cache' = view /\ step' = "rebuild" /\ step = "parse"
    BY <1>4 DEF UpdateCache
  <2> QED
    BY <1>1, <2>1
<1>5. CASE ReadConfigFails \/ RebuildEngine \/ \E d \in Dirs : WalkDirFails(d)
  <2>1. cache' = cache /\ step' = "idle"
    BY <1>5 DEF ReadConfigFails, RebuildEngine, WalkDirFails, Fail, storeVars
  <2> QED
    BY <1>1, <2>1
<1>6. CASE \/ ResolveRoot \/ (\E d \in Dirs : WalkDir(d))
           \/ \E p \in Pages : SkipPage(p)
  <2>1. /\ cache' = cache /\ view' = view
        /\ step \in {"resolve", "walk", "parse"}
    BY <1>6 DEF ResolveRoot, WalkDir, SkipPage, storeVars
  <2> QED
    BY <1>1, <2>1
<1> QED
  BY <1>2, <1>3, <1>4, <1>5, <1>6 DEF RunStep, IndexStep

\* What the steps of the watcher leave alone.
LEMMA LoopSteps ==
  ASSUME NothingLost,
         \/ StartWatcher \/ BootFails \/ Register \/ Receive \/ Reindex \/ Shutdown
         \/ UNCHANGED vars
  PROVE  /\ UNCHANGED <<disk, dirs, cache, engine>>
         /\ step' = step \/ step' = "config"
         /\ view' = view
         /\ loop = "stopped" => loop' = "stopped"
<1>1. CASE StartWatcher \/ BootFails
  BY <1>1 DEF StartWatcher, BootFails, WatchRoot, diskVars, indexerVars, runVars,
              storeVars
<1>2. CASE Register \/ Receive
  BY <1>2 DEF Register, Receive, WatchConf, AddSubdir, IgnoreEvent, HandleEvent,
              HandleError, diskVars, indexerVars, runVars, storeVars
<1>3. CASE Reindex \/ Shutdown
  BY <1>3 DEF Reindex, Shutdown, TimerFires, Call, Stop, ProcessEnds, diskVars,
              indexerVars, runVars, storeVars
<1>4. CASE UNCHANGED vars
  BY <1>4 DEF vars, diskVars, indexerVars, runVars, storeVars, watcherVars
<1> QED
  BY <1>1, <1>2, <1>3, <1>4

LEMMA NeverBackStep ==
  ASSUME TypeOK, NothingLost, NeverBack, [Next]_vars
  PROVE  NeverBack'
<1>1. CASE DiskStep
  <2>1. UNCHANGED <<step, view, cache>>
    BY <1>1 DEF DiskStep, indexerVars, runVars, storeVars
  <2>2. \A f \in Files : disk[f].rev <= disk'[f].rev /\ disk'[f].rev \in Nat
    <3>1. FileEventsTypeOK'
      BY <1>1, DiskChangeType DEF DiskStep, TypeOK
    <3> QED
      BY <1>1, <3>1, DiskMovesOn DEF DiskStep, FileEventsTypeOK
  <2> QED
    BY <2>1, <2>2, Numbers DEF NeverBack
<1>2. CASE RunStep
  BY <1>2, RunNeverBack
<1>3. CASE \/ StartWatcher \/ BootFails \/ Register \/ Receive \/ Reindex
           \/ Shutdown \/ UNCHANGED vars
  BY <1>3, LoopSteps DEF NeverBack
<1> QED
  BY <1>1, <1>2, <1>3 DEF Next, Ended

-----------------------------------------------------------------------------
\* Every state keeps the word of the abstract live index.
LEMMA WordKept ==
  ASSUME NoSilentStaleness, SearchFollowsCache
  PROVE  Reload!KeepsWord
  BY DEF NoSilentStaleness, SearchFollowsCache, Quiet, Reload!KeepsWord,
         Reload!UpToDate

LEMMA ReloadInit == Init => Reload!Init
<1> SUFFICES ASSUME Init PROVE Reload!Init
  OBVIOUS
<1>1. TypeOK
  BY InitType
<1>2. [f \in Files |-> disk[f].rev] \in [Files -> Nat]
  BY <1>1, Numbers
<1>3. [f \in Files |-> OnDisk(f)] \in [Files -> Nat]
  BY <1>1, ReadType DEF OnDisk, TypeOK
<1>4. ~ Quiet
  BY DEF Init, WatcherInit, Quiet
<1> QED
  BY <1>2, <1>3, <1>4 DEF Init, WatcherInit, IndexerInit, NoIndex, Reload!Init,
                          Reload!Index

\* A change of the disk changes nothing that is served.
LEMMA DiskIsChange ==
  ASSUME TypeOK, DiskStep
  PROVE  Reload!Change
<1>1. UNCHANGED <<cache, engine, loop>>
  BY DEF DiskStep, indexerVars, storeVars, watcherVars
<1>2. \A f \in Files : disk'[f].rev >= disk[f].rev
  <2>1. FileEventsTypeOK'
    BY DiskChangeType DEF DiskStep, TypeOK
  <2> QED
    BY <2>1, DiskMovesOn, Numbers DEF DiskStep, FileEventsTypeOK
<1>3. \A f \in Files : OnDisk(f)' \in {0, disk'[f].rev}
  BY DEF OnDisk, ReadUnder
<1> QED
  BY <1>1, <1>2, <1>3 DEF Reload!Change

\* A run publishes, lets search follow, or prepares to.
LEMMA RunIsPublish ==
  ASSUME TypeOK, NothingLost, NeverBack, RunStep
  PROVE  Reload!Publish \/ Reload!Follow \/ Reload!Settle
<1>1. step # "idle"
  BY DEF RunStep, IndexStep, ReadConfig, ReadConfigFails, ResolveRoot, WalkDir,
         WalkDirFails, ParsePage, SkipPage, UpdateCache, RebuildEngine
<1>2. ~ Quiet /\ loop # "stopped"
  BY <1>1 DEF Quiet, RunStep
<1>3. /\ UNCHANGED <<disk, dirs, loop>>
      /\ \A f \in Files : OnDisk(f)' = OnDisk(f)
  BY DEF RunStep, diskVars, watcherVars, OnDisk, ReadUnder, ResolvedRoot
<1>4. CASE UpdateCache
  <2>1. cache' = view /\ engine' = engine /\ step = "parse"
    BY <1>4 DEF UpdateCache
  <2>2. \A f \in Files : cache'[f] = 0 \/ (cache[f] <= cache'[f] /\ cache'[f] <= disk[f].rev)
    BY <2>1 DEF NeverBack
  <2> QED
    BY <1>2, <1>3, <2>1, <2>2 DEF Reload!Publish
<1>5. CASE RebuildEngine
  BY <1>2, <1>3, <1>5 DEF RebuildEngine, Reload!Follow
<1>6. CASE IndexStep /\ ~ UpdateCache /\ ~ RebuildEngine
  <2>1. UNCHANGED <<cache, engine>>
    BY <1>6 DEF IndexStep, ReadConfig, ReadConfigFails, ResolveRoot, WalkDir,
                WalkDirFails, ParsePage, SkipPage, Fail, storeVars
  <2> QED
    BY <1>2, <1>3, <2>1 DEF Reload!Settle
<1> QED
  BY <1>4, <1>5, <1>6 DEF RunStep

\* Watcher and main publish nothing.
LEMMA LoopIsSettle ==
  ASSUME NothingLost,
         \/ StartWatcher \/ BootFails \/ Register \/ Receive \/ Reindex \/ Shutdown
         \/ UNCHANGED vars
  PROVE  Reload!Settle
<1>1. UNCHANGED <<disk, dirs, cache, engine>>
  BY LoopSteps
<1>2. \A f \in Files : OnDisk(f)' = OnDisk(f)
  BY <1>1 DEF OnDisk, ReadUnder, ResolvedRoot
<1>3. loop = "stopped" => loop' = "stopped"
  BY LoopSteps
<1> QED
  BY <1>1, <1>2, <1>3 DEF Reload!Settle

\* The live index keeps what LiveReload promises.
THEOREM LiveReloadImplemented ==
  ASSUME Files \subseteq RelevantNames
  PROVE  Spec => ImplementsLiveReload
<1> DEFINE Good == /\ TypeOK /\ NothingLost /\ NeverBack
                   /\ NoSilentStaleness /\ SearchFollowsCache
<1>1. TypeOK /\ NothingLost /\ NeverBack /\ [Next]_vars => NeverBack'
  BY NeverBackStep
<1>2. Good => Reload!KeepsWord
  BY WordKept
<1>3. Good /\ Reload!KeepsWord' /\ [Next]_vars => [Reload!Next]_Reload!vars
  <2> SUFFICES ASSUME Good, Reload!KeepsWord', [Next]_vars PROVE Reload!Next
    OBVIOUS
  <2>1. Reload!KeepsWord'
    OBVIOUS
  <2>2. CASE DiskStep
    BY <2>1, <2>2, DiskIsChange DEF Reload!Next
  <2>3. CASE RunStep
    BY <2>1, <2>3, RunIsPublish DEF Reload!Next
  <2>4. CASE \/ StartWatcher \/ BootFails \/ Register \/ Receive \/ Reindex
             \/ Shutdown \/ UNCHANGED vars
    BY <2>1, <2>4, LoopIsSettle DEF Reload!Next
  <2> QED
    BY <2>2, <2>3, <2>4 DEF Next, Ended
<1>4. Spec => []NeverBack
  BY <1>1, NeverBackInit, TypeCorrect, NothingLostAlways, PTL DEF Spec
<1> QED
  BY <1>2, <1>3, <1>4, ReloadInit, TypeCorrect, NothingLostAlways, NoSilentStalenessAlways,
     SearchFollowsCacheAlways, PTL DEF Spec, ImplementsLiveReload, Reload!Spec
=============================================================================
