-------------------------------- MODULE Indexer --------------------------------
(***************************************************************************)
(* internal/indexer with the two stores it fills, internal/cache and the   *)
(* document set of internal/search.  One call of Index is a sequence of    *)
(* steps between which the disk can change: read mkdocs.yml, resolve the   *)
(* documentation root, walk it, parse each file found, replace the cache,  *)
(* rebuild the search engine from the cache.                               *)
(*                                                                         *)
(* An index is a function from files to revisions, 0 for a file that is    *)
(* not in it; its value at Conf is the revision of mkdocs.yml that gave    *)
(* the navigation, the sections and the path order.                        *)
(***************************************************************************)
EXTENDS FileEvents

CONSTANTS
  DocsDir,  \* docs_dir of mkdocs.yml, joined to the directory of mkdocs.yml
  Nav,      \* the pages the navigation of mkdocs.yml lists
  IOFaults  \* can reading a file that is there fail?

ASSUME IndexerAssumption ==
  DocsDir \in Dirs /\ Nav \subseteq Pages /\ IOFaults \in BOOLEAN

VARIABLES
  step,     \* what the index run under way does next, or "idle"
  root,     \* the documentation root this run has resolved
  toWalk,   \* directories the walk has still to read
  listed,   \* pages to parse
  view,     \* the documents parsed so far
  errored,  \* files the latest run logged an error for (all, if it failed)
  cache,    \* cache.documents, docByPath, navigation, sections, pathOrder
  engine    \* engine.docs

runVars == <<step, root, toWalk, listed, view, errored>>
storeVars == <<cache, engine>>
indexerVars == <<runVars, storeVars>>

Index == [Files -> Nat]
NoIndex == [f \in Files |-> 0]

IndexerTypeOK ==
  /\ step \in {"config", "resolve", "walk", "parse", "rebuild", "idle"}
  /\ root \in Dirs
  /\ toWalk \subseteq Dirs
  /\ listed \subseteq Pages
  /\ view \in Index
  /\ errored \subseteq Files
  /\ cache \in Index
  /\ engine \in Index

\* main calls Index before it creates the watcher.
IndexerInit ==
  /\ step = "config"
  /\ root = CfgRoot
  /\ toWalk = {}
  /\ listed = {}
  /\ view = NoIndex
  /\ errored = {}
  /\ cache = NoIndex
  /\ engine = NoIndex

\* docs_dir wins over docs.root when it exists.
ResolvedRoot == IF DocsDir \in dirs THEN DocsDir ELSE CfgRoot

\* What reading file f gives when r is the documentation root.
ReadUnder(f, r) ==
  IF disk[f].here /\ (f = Conf \/ f \in Under[r]) THEN disk[f].rev ELSE 0

\* What an index built at this moment would hold for f.
OnDisk(f) == ReadUnder(f, ResolvedRoot)

Call ==
  /\ step = "idle"
  /\ step' = "config"
  /\ errored' = {}
  /\ UNCHANGED <<root, toWalk, listed, view, storeVars>>

\* Index returns an error; the stores keep what they have.
Fail ==
  /\ step' = "idle"
  /\ errored' = Files
  /\ toWalk' = {}
  /\ listed' = {}
  /\ UNCHANGED <<root, view, storeVars>>

\* Mutant: the documents of the previous run are not dropped.
ReadConfigKeepsView ==
  /\ step = "config"
  /\ disk[Conf].here /\ valid
  /\ step' = "resolve"
  /\ view' = [view EXCEPT ![Conf] = disk[Conf].rev]
  /\ UNCHANGED <<root, toWalk, listed, errored, storeVars>>

\* ParseMkDocs succeeds.
ReadConfig ==
  /\ step = "config"
  /\ disk[Conf].here /\ valid
  /\ step' = "resolve"
  /\ view' = [NoIndex EXCEPT ![Conf] = disk[Conf].rev]
  /\ UNCHANGED <<root, toWalk, listed, errored, storeVars>>

ReadConfigFails ==
  /\ step = "config"
  /\ ~ (disk[Conf].here /\ valid) \/ IOFaults
  /\ Fail

\* os.Stat of docs_dir; mergePathOrder starts from the navigation.
ResolveRoot ==
  /\ step = "resolve"
  /\ step' = "walk"
  /\ root' = ResolvedRoot
  /\ toWalk' = {ResolvedRoot}
  /\ listed' = Nav
  /\ UNCHANGED <<view, errored, storeVars>>

\* Mutant: the walk takes every entry, not only the Markdown files.
WalkDirTakesAll(d) ==
  /\ step = "walk"
  /\ d \in toWalk
  /\ d \in dirs
  /\ toWalk' = (toWalk \ {d}) \cup {c \in dirs : Parent[c] = d}
  /\ listed' = listed \cup {n \in Names : Parent[n] = d /\ Exists(n)}
  /\ step' = IF toWalk' = {} THEN "parse" ELSE "walk"
  /\ UNCHANGED <<root, view, errored, storeVars>>

\* Mutant: the walk does not go into sub-directories.
WalkDirShallow(d) ==
  /\ step = "walk"
  /\ d \in toWalk
  /\ d \in dirs
  /\ toWalk' = toWalk \ {d}
  /\ listed' = listed \cup {p \in Pages : Parent[p] = d /\ disk[p].here}
  /\ step' = IF toWalk' = {} THEN "parse" ELSE "walk"
  /\ UNCHANGED <<root, view, errored, storeVars>>

\* discoverMarkdown reads one directory: its Markdown files are to parse,
\* its sub-directories to walk.
WalkDir(d) ==
  /\ step = "walk"
  /\ d \in toWalk
  /\ d \in dirs
  /\ toWalk' = (toWalk \ {d}) \cup {c \in dirs : Parent[c] = d}
  /\ listed' = listed \cup {p \in Pages : Parent[p] = d /\ disk[p].here}
  /\ step' = IF toWalk' = {} THEN "parse" ELSE "walk"
  /\ UNCHANGED <<root, view, errored, storeVars>>

\* A directory that vanished before the walk came to it ends the run.
WalkDirFails(d) ==
  /\ step = "walk"
  /\ d \in toWalk
  /\ d \notin dirs \/ IOFaults
  /\ Fail

\* ParseFile of one page; a page that is no longer there is skipped.
ParsePage(p) ==
  /\ step = "parse"
  /\ p \in listed
  /\ listed' = listed \ {p}
  /\ view' = [view EXCEPT ![p] = ReadUnder(p, root)]
  /\ UNCHANGED <<step, root, toWalk, errored, storeVars>>

\* ParseFile fails on a page that is there: "skipping file".
SkipPage(p) ==
  /\ step = "parse"
  /\ IOFaults
  /\ p \in listed
  /\ listed' = listed \ {p}
  /\ errored' = errored \cup {p}
  /\ UNCHANGED <<step, root, toWalk, view, storeVars>>

\* Mutant: the engine is rebuilt before the cache is replaced.
UpdateCacheAfterRebuild ==
  /\ step = "parse"
  /\ listed = {}
  /\ step' = "idle"
  /\ engine' = cache
  /\ cache' = view
  /\ UNCHANGED <<root, toWalk, listed, view, errored>>

\* computeRelated works on the run's own documents; cache.Update swaps the
\* whole index under the write lock.
UpdateCache ==
  /\ step = "parse"
  /\ listed = {}
  /\ step' = "rebuild"
  /\ cache' = view
  /\ UNCHANGED <<root, toWalk, listed, view, errored, engine>>

\* engine.Rebuild(cache.Documents()); Index returns nil.
RebuildEngine ==
  /\ step = "rebuild"
  /\ step' = "idle"
  /\ engine' = cache
  /\ UNCHANGED <<root, toWalk, listed, view, errored, cache>>

IndexStep ==
  \/ ReadConfig \/ ReadConfigFails \/ ResolveRoot
  \/ \E d \in Dirs : WalkDir(d) \/ WalkDirFails(d)
  \/ \E p \in Pages : ParsePage(p) \/ SkipPage(p)
  \/ UpdateCache \/ RebuildEngine
=============================================================================
