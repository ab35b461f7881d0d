------------------------------- MODULE LiveIndex -------------------------------
(***************************************************************************)
(* The live index: main's start-up sequence, the watcher and the indexer   *)
(* over a disk that changes under them.  main indexes once, then starts    *)
(* the watcher; every later run is a call made by the watcher's loop, which *)
(* serves nothing else until the call returns.                             *)
(***************************************************************************)
EXTENDS Watcher, Indexer

\* History, for the properties only: files whose latest change left no event
\* in the queue and is in no published index.
VARIABLE missed

vars == <<diskVars, notifyVars, watcherVars, indexerVars, missed>>

TypeOK ==
  /\ FileEventsTypeOK
  /\ WatcherTypeOK
  /\ IndexerTypeOK
  /\ missed \subseteq Files

Init ==
  /\ FileEventsInit
  /\ WatcherInit
  /\ IndexerInit
  /\ missed = {}

\* The event queue holds news of f.
Announced(f) ==
  \E i \in 1..Len(events) : events[i].name = f /\ events[i].op # "chmod"

\* A change of the disk.  A file whose indexed form it changes without
\* leaving news of it is missed; so are all pages when another directory
\* becomes the documentation root, for no event tells the watcher of that.
DiskStep ==
  /\ DiskChange
  /\ missed' = missed \cup
       (IF ResolvedRoot' # ResolvedRoot THEN Pages ELSE {}) \cup
       {f \in Files : OnDisk(f)' # OnDisk(f) /\ ~ Announced(f)'}
  /\ UNCHANGED <<watcherVars, indexerVars>>

\* A step of the index run under way; publishing what is on disk makes up
\* for what was missed.
RunStep ==
  /\ loop # "stopped"
  /\ IndexStep
  /\ missed' = IF UpdateCache THEN {f \in missed : view[f] # OnDisk(f)}
               ELSE missed
  /\ UNCHANGED <<diskVars, notifyVars, watcherVars>>

\* main: the initial index succeeded, the watcher goroutine starts.
StartWatcher ==
  /\ step = "idle" /\ Conf \notin errored
  /\ WatchRoot
  /\ UNCHANGED <<diskVars, indexerVars, missed>>

\* main: the initial index failed, the program exits.
BootFails ==
  /\ loop = "off"
  /\ step = "idle" /\ Conf \in errored
  /\ loop' = "stopped"
  /\ UNCHANGED <<toAdd, pending, armed, diskVars, notifyVars, indexerVars, missed>>

Register ==
  /\ WatchConf \/ \E n \in Names : AddSubdir(n)
  /\ UNCHANGED <<diskVars, indexerVars, missed>>

\* The loop is in its select only while no index run is under way.
Receive ==
  /\ step = "idle"
  /\ IgnoreEvent \/ HandleEvent \/ HandleError
  /\ UNCHANGED <<diskVars, indexerVars, missed>>

Reindex ==
  /\ TimerFires
  /\ Call
  /\ UNCHANGED <<diskVars, missed>>

\* The process ends: main returns without waiting for the watcher goroutine,
\* or a signal comes before main listens for one.  Whatever was under way
\* stops where it stands, an index run between two of its steps included.
ProcessEnds ==
  /\ loop # "stopped"
  /\ loop' = "stopped"
  /\ watches' = {}
  /\ events' = << >>
  /\ UNCHANGED <<toAdd, pending, armed>>

\* main: the transport has returned and the stop channel is closed.  The loop
\* receives it if it comes to its select before the process ends.
Shutdown ==
  /\ (step = "idle" /\ Stop) \/ ProcessEnds
  /\ UNCHANGED <<diskVars, indexerVars, missed>>

\* The program has ended.
Ended == loop = "stopped" /\ UNCHANGED vars

Next ==
  \/ DiskStep \/ RunStep
  \/ StartWatcher \/ BootFails \/ Register \/ Receive \/ Reindex \/ Shutdown
  \/ Ended

\* The goroutines run; the disk and the operator owe nothing.  select chooses
\* at random among its ready arms, so an armed timer is received in the end
\* even if events keep coming.
Fairness ==
  /\ WF_vars(RunStep)
  /\ WF_vars(StartWatcher) /\ WF_vars(BootFails)
  /\ WF_vars(Register)
  /\ WF_vars(Receive)
  /\ SF_vars(Reindex)

Spec == Init /\ [][Next]_vars /\ Fairness

-----------------------------------------------------------------------------
\* The watcher has nothing left to do: it waits in its select, the timer is
\* stopped, and no event that matters is waiting.
Quiet ==
  /\ loop = "select" /\ step = "idle" /\ ~ armed
  /\ \A i \in 1..Len(events) : ~ IsRelevant(events[i])

\* No staleness goes unnoticed: when the watcher has nothing left to do,
\* every file is served as it is on disk, unless fsnotify never reported its
\* latest change or the latest index run logged an error for it.  A change
\* that arrives while an index run is reading must survive that run.
NoSilentStaleness ==
  Quiet => \A f \in Files : cache[f] = OnDisk(f) \/ f \in missed \cup errored

\* Search and page reads answer from the same index except between the
\* cache update and the engine rebuild of one index run.
SearchFollowsCache == step # "rebuild" => engine = cache

\* Once the loop runs, a change inside a directory that was there at the
\* start and never went away reaches the queue, unless the queue overflowed.
\* (The directories are under docs.root and are not removed in this run.)
WatchedDirsMissNothing ==
  [][loop = "select" /\ ResolvedRoot' = ResolvedRoot =>
       \A f \in missed' \ missed :
         \/ Parent[f] \notin InitDirs
         \/ \E i \in 1..Len(events') : events'[i] = Overflow]_vars

\* A change of a file is indexed in the end, or an error was logged, or
\* fsnotify did not report it, or the server stopped; and search catches up.
Refreshes ==
  \A f \in Files :
    engine[f] # OnDisk(f) ~>
      \/ engine[f] = OnDisk(f)
      \/ f \in missed \cup errored
      \/ loop = "stopped"

\* The abstract live index, read off the disk, the stores and the loop.
Reload == INSTANCE LiveReload WITH
  latest <- [f \in Files |-> disk[f].rev],
  truth <- [f \in Files |-> OnDisk(f)],
  served <- cache,
  searched <- engine,
  owed <- ~ Quiet,
  excused <- missed \cup errored,
  alive <- loop # "stopped"

\* Watcher, timer and index run implement the live index: no order of changes,
\* events and runs publishes a page older than the one served before, lets
\* search fall behind for good, or forgets a change that was reported.
ImplementsLiveReload == Reload!Spec

-----------------------------------------------------------------------------
(* Why no staleness goes unnoticed: an invariant that is inductive.        *)

\* A difference between f and what is or will be served of it is accounted
\* for: somebody will be told, was told, or could not be.
Accounted(f) == f \in missed \cup errored \/ Announced(f) \/ armed

\* The flag and the timer agree; an index run starts with both cleared and
\* runs to its end before the loop or main does anything else, unless the
\* process ends.
RunAlone ==
  /\ pending = armed
  /\ step # "idle" => ~ armed /\ loop \in {"off", "select", "stopped"}

\* What is above something that exists exists.
TreeClosed ==
  \A c \in Dirs : \A n \in Under[c] : Exists(n) => c \in dirs

\* The run's documentation root is still the one mkdocs.yml asks for.
RootKnown == step \in {"walk", "parse"} => root = ResolvedRoot \/ Pages \subseteq missed

\* The configuration the run works with is the one on disk.
ConfigKnown ==
  step \in {"resolve", "walk", "parse"} /\ loop # "stopped" =>
    view[Conf] = OnDisk(Conf) \/ Accounted(Conf)

\* A page is still to parse, or still to be found, or parsed as it is.
PagesKnown ==
  /\ step \in {"resolve", "walk"} => \A p \in Pages : view[p] = 0
  /\ step \in {"walk", "parse"} /\ loop # "stopped" =>
       \A p \in Pages \ listed :
         \/ view[p] = OnDisk(p) \/ Accounted(p)
         \/ step = "walk" /\ \E d \in toWalk : p \in Under[d]

\* What is published is what is on disk.
ServedKnown ==
  step \in {"rebuild", "idle"} /\ loop # "stopped" =>
    \A f \in Files : cache[f] = OnDisk(f) \/ Accounted(f)

\* Every difference between the disk and the index is accounted for at every
\* step of the watcher and of the index run.
NothingLost ==
  /\ RunAlone /\ TreeClosed /\ RootKnown
  /\ ConfigKnown /\ PagesKnown /\ ServedKnown

-----------------------------------------------------------------------------
(* What the documentation says of the live index, as it says it.           *)

\* watcher.go, in the loop: "Watch newly created directories."
NewDirectoriesWatched ==
  \A d \in Dirs :
    loop = "select" /\ d \in dirs ~>
      d \in watches \/ d \notin dirs \/ loop = "stopped"

\* watcher.go: "Watcher watches a docs directory and a mkdocs.yml file for
\* changes."  While mkdocs.yml is there, so is a watch that covers it.
MkDocsStaysWatched ==
  loop = "select" /\ disk[Conf].here ~>
    \/ Conf \in watches \/ Parent[Conf] \in watches
    \/ ~ disk[Conf].here
    \/ loop = "stopped"
=============================================================================
