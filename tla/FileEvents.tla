------------------------------ MODULE FileEvents ------------------------------
(***************************************************************************)
(* The world the live index is built from: the documentation directory on  *)
(* disk, the people and tools that change it, and the fsnotify library     *)
(* that reports the changes.  None of it is under src/; it is modelled     *)
(* from what internal/watcher and internal/indexer ask of it:              *)
(*                                                                         *)
(*   - os.ReadFile, os.Stat and filepath.WalkDir see the disk as it is at  *)
(*     the moment of the call;                                             *)
(*   - fw.Add(n) watches the file n itself or, for a directory, the names  *)
(*     directly inside it (never the names below its sub-directories);     *)
(*   - the watch of a file or directory ends when that file or directory   *)
(*     is removed, renamed away or replaced by another file;               *)
(*   - events wait in the kernel's queue of QueueCap entries; an event     *)
(*     that finds the queue full is lost and one overflow error takes its  *)
(*     place.                                                              *)
(*                                                                         *)
(* The content of a file is its revision number: every change of content   *)
(* gives the file a revision it never had before.                          *)
(***************************************************************************)
EXTENDS Naturals, Sequences

CONSTANTS
  Pages,      \* the Markdown files
  Conf,       \* mkdocs.yml
  Dirs,       \* the directories
  Outside,    \* the unwatched place above the documentation tree
  Parent,     \* Parent[n]: the directory that holds n, or Outside
  Under,      \* Under[d]: every name below directory d, at any depth
  CfgRoot,    \* cfg.Docs.Root
  InitDirs,   \* the directories that exist when the server starts
  QueueCap,   \* capacity of the event queue
  MaxChanges, \* bound on the number of changes made to the disk
  DiskOps     \* the kinds of change that happen

Files == Pages \cup {Conf}
Names == Files \cup Dirs
Kinds == {"write", "replace", "create", "remove", "touch", "mkdir", "rmdir"}

ASSUME NamesAssumption ==
  /\ Conf \notin Pages
  /\ Dirs \cap Files = {}
  /\ Outside \notin Names

\* Parent is a tree and Under is "somewhere below" in that tree, said once
\* from the top (through a child of d) and once from the bottom.
ASSUME TreeAssumption ==
  /\ Parent \in [Names -> Dirs \cup {Outside}]
  /\ Under \in [Dirs -> SUBSET Names]
  /\ \A d \in Dirs, n \in Names :
       /\ Parent[n] = d => n \in Under[d]
       /\ n \in Under[d] =>
            /\ Parent[n] # d => \E c \in Dirs : Parent[c] = d /\ n \in Under[c]
            /\ Parent[n] # d => Parent[n] \in Dirs /\ Parent[n] \in Under[d]

ASSUME DiskAssumption ==
  /\ CfgRoot \in Dirs
  /\ InitDirs \subseteq Dirs
  /\ \A d \in InitDirs : Parent[d] \in InitDirs \cup {Outside}
  /\ \A c \in Dirs, d \in InitDirs : d \in Under[c] => c \in InitDirs
  /\ QueueCap \in Nat \ {0}
  /\ MaxChanges \in Nat
  /\ DiskOps \subseteq Kinds

VARIABLES
  disk,     \* disk[f]: the revision of file f, and whether f is there
  valid,    \* does mkdocs.yml parse as YAML?
  dirs,     \* the directories that exist
  changes,  \* number of changes made so far
  watches,  \* the files and directories fsnotify watches
  events    \* the events fsnotify has yet to hand over, oldest first

diskVars == <<disk, valid, dirs, changes>>
notifyVars == <<watches, events>>

EventOps == {"write", "create", "remove", "rename", "chmod"}
Overflow == [op |-> "overflow", name |-> Outside]
Event == [op : EventOps, name : Names] \cup {Overflow}

FileEventsTypeOK ==
  /\ disk \in [Files -> [rev : Nat, here : BOOLEAN]]
  /\ valid \in BOOLEAN
  /\ dirs \subseteq Dirs
  /\ changes \in Nat
  /\ watches \subseteq Names
  /\ events \in Seq(Event)

FileEventsInit ==
  /\ dirs = InitDirs
  /\ disk \in {d \in [Files -> {[rev |-> 1, here |-> h] : h \in BOOLEAN}] :
                 \A f \in Files : d[f].here => Parent[f] \in dirs \cup {Outside}}
  /\ valid \in BOOLEAN
  /\ changes = 0
  /\ watches = {}
  /\ events = << >>

Exists(n) == IF n \in Dirs THEN n \in dirs ELSE disk[n].here

\* n can be created: the directory that would hold it exists.
HasHome(n) == Parent[n] \in dirs \cup {Outside}

Change(kind) ==
  /\ kind \in DiskOps
  /\ changes < MaxChanges
  /\ changes' = changes + 1

Enqueue(e) ==
  IF Len(events) < QueueCap THEN Append(events, e)
  ELSE IF \E i \in 1..Len(events) : events[i] = Overflow THEN events
  ELSE Append(events, Overflow)

\* fsnotify reports what happened to n when it watches n or its directory.
Report(op, n) ==
  events' = IF n \in watches \/ Parent[n] \in watches
            THEN Enqueue([op |-> op, name |-> n]) ELSE events

\* A new content for f; an edit of mkdocs.yml may break or repair it.
NewContent(f) ==
  /\ disk' = [disk EXCEPT ![f] = [rev |-> @.rev + 1, here |-> TRUE]]
  /\ IF f = Conf THEN valid' \in BOOLEAN ELSE valid' = valid

Write(f) ==
  /\ Change("write")
  /\ disk[f].here
  /\ NewContent(f)
  /\ Report("write", f)
  /\ UNCHANGED <<dirs, watches>>

\* An atomic save: a temporary file is renamed over f.  The directory watch
\* sees a create; the watch of f itself sees its file removed, and ends.
Replace(f) ==
  /\ Change("replace")
  /\ disk[f].here
  /\ NewContent(f)
  /\ Report(IF Parent[f] \in watches THEN "create" ELSE "remove", f)
  /\ watches' = watches \ {f}
  /\ UNCHANGED dirs

Create(f) ==
  /\ Change("create")
  /\ ~ disk[f].here
  /\ HasHome(f)
  /\ NewContent(f)
  /\ Report("create", f)
  /\ UNCHANGED <<dirs, watches>>

Remove(f) ==
  /\ Change("remove")
  /\ disk[f].here
  /\ disk' = [disk EXCEPT ![f].here = FALSE]
  /\ \E op \in {"remove", "rename"} : Report(op, f)
  /\ watches' = watches \ {f}
  /\ UNCHANGED <<valid, dirs>>

Touch(f) ==
  /\ Change("touch")
  /\ disk[f].here
  /\ Report("chmod", f)
  /\ UNCHANGED <<disk, valid, dirs, watches>>

MakeDir(d) ==
  /\ Change("mkdir")
  /\ d \notin dirs
  /\ HasHome(d)
  /\ dirs' = dirs \cup {d}
  /\ Report("create", d)
  /\ UNCHANGED <<disk, valid, watches>>

RemoveDir(d) ==
  /\ Change("rmdir")
  /\ d \in dirs
  /\ \A n \in Names : Parent[n] = d => ~ Exists(n)
  /\ dirs' = dirs \ {d}
  /\ Report("remove", d)
  /\ watches' = watches \ {d}
  /\ UNCHANGED <<disk, valid>>

DiskChange ==
  \/ \E f \in Files : \/ Write(f)  \/ Replace(f) \/ Create(f)
                      \/ Remove(f) \/ Touch(f)
  \/ \E d \in Dirs : MakeDir(d) \/ RemoveDir(d)

-----------------------------------------------------------------------------
\* The two calls the watcher makes.

\* fw.Add: a name that does not exist is refused.
Watch(n) == watches' = IF Exists(n) THEN watches \cup {n} ELSE watches

\* A receive from fw.Events or fw.Errors takes the oldest entry.
TakeEvent == events # << >> /\ events' = Tail(events)
=============================================================================
