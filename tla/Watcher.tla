-------------------------------- MODULE Watcher --------------------------------
(***************************************************************************)
(* internal/watcher: the goroutine that turns file events into calls of    *)
(* the reindex callback.  Run registers its watches, then serves a select  *)
(* over the stop channel, the event channel, the error channel and the     *)
(* debounce timer; the callback runs inside the select loop, so no event   *)
(* is received while an index run is under way.                            *)
(*                                                                         *)
(* The actions constrain the watcher's own variables, the watches and the  *)
(* event queue; LiveIndex conjoins the rest.                               *)
(***************************************************************************)
EXTENDS FileEvents

CONSTANT RelevantNames  \* names whose extension is exactly .md, .yml or .yaml

ASSUME WatcherAssumption == RelevantNames \subseteq Names

VARIABLES
  loop,     \* where the goroutine is
  toAdd,    \* names the registration under way has still to add
  pending,  \* the loop's flag: a reindex is scheduled
  armed     \* the debounce timer is running or has fired unreceived

watcherVars == <<loop, toAdd, pending, armed>>

WatcherTypeOK ==
  /\ loop \in {"off", "conf", "adding", "select", "stopped"}
  /\ toAdd \subseteq Names
  /\ pending \in BOOLEAN
  /\ armed \in BOOLEAN

\* The timer is created stopped; nothing is pending.
WatcherInit ==
  /\ loop = "off"
  /\ toAdd = {}
  /\ pending = FALSE
  /\ armed = FALSE

\* Run, first half: the watch of the docs root.  A name that cannot be
\* watched is logged and passed over.
WatchRoot ==
  /\ loop = "off"
  /\ Watch(CfgRoot)
  /\ loop' = "conf"
  /\ UNCHANGED <<toAdd, pending, armed, events>>

\* The watch of mkdocs.yml; then addSubdirs starts at the docs root.
WatchConf ==
  /\ loop = "conf"
  /\ Watch(Conf)
  /\ loop' = "adding"
  /\ toAdd' = {CfgRoot}
  /\ UNCHANGED <<pending, armed, events>>

\* Mutant: sub-directories are not visited.
AddSubdirShallow(d) ==
  /\ loop = "adding"
  /\ d \in toAdd
  /\ IF d \in Dirs THEN Watch(d) ELSE UNCHANGED watches
  /\ toAdd' = toAdd \ {d}
  /\ loop' = IF toAdd' = {} THEN "select" ELSE "adding"
  /\ UNCHANGED <<pending, armed, events>>

\* addSubdirs visits one directory: it adds a watch and goes on with the
\* directories found inside.  A path that is not a directory is left alone.
AddSubdir(d) ==
  /\ loop = "adding"
  /\ d \in toAdd
  /\ IF d \in Dirs THEN Watch(d) ELSE UNCHANGED watches
  /\ toAdd' = (toAdd \ {d}) \cup {c \in dirs : d \in dirs /\ Parent[c] = d}
  /\ loop' = IF toAdd' = {} THEN "select" ELSE "adding"
  /\ UNCHANGED <<pending, armed, events>>

\* Mutant: removals do not count as changes.
IsRelevantWithoutRemovals(e) ==
  /\ e.op \in {"write", "create", "rename"}
  /\ e.name \in RelevantNames

IsRelevant(e) ==
  /\ e.op \in {"write", "create", "remove", "rename"}
  /\ e.name \in RelevantNames

\* The fw.Events arm for an event that does not matter: "continue".
IgnoreEvent ==
  /\ loop = "select"
  /\ TakeEvent
  /\ Head(events) # Overflow
  /\ ~ IsRelevant(Head(events))
  /\ UNCHANGED <<loop, toAdd, pending, armed, watches>>

\* The fw.Events arm: after a create, walk what was created; start the timer
\* unless it is already started.
HandleEvent ==
  /\ loop = "select"
  /\ TakeEvent
  /\ Head(events) # Overflow
  /\ IsRelevant(Head(events))
  /\ IF Head(events).op = "create"
     THEN loop' = "adding" /\ toAdd' = {Head(events).name}
     ELSE UNCHANGED <<loop, toAdd>>
  /\ armed' = (armed \/ ~ pending)
  /\ pending' = TRUE
  /\ UNCHANGED watches

\* The fw.Errors arm: the error is logged.
HandleError ==
  /\ loop = "select"
  /\ TakeEvent
  /\ Head(events) = Overflow
  /\ UNCHANGED <<loop, toAdd, pending, armed, watches>>

\* Mutant: the flag is not cleared when the timer fires.
TimerFiresKeepsPending ==
  /\ loop = "select"
  /\ armed
  /\ armed' = FALSE
  /\ UNCHANGED <<loop, toAdd, pending, watches, events>>

\* The timer.C arm, up to the call of the reindex callback.
TimerFires ==
  /\ loop = "select"
  /\ armed
  /\ armed' = FALSE
  /\ pending' = FALSE
  /\ UNCHANGED <<loop, toAdd, watches, events>>

\* The stop arm: Run returns and closes the fsnotify watcher.
Stop ==
  /\ loop = "select"
  /\ loop' = "stopped"
  /\ watches' = {}
  /\ events' = << >>
  /\ UNCHANGED <<toAdd, pending, armed>>
=============================================================================
