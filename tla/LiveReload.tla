------------------------------- MODULE LiveReload -------------------------------
(***************************************************************************)
(* What the live index promises, without watcher, timer or index run: the  *)
(* documentation is served at revisions that never step back, search       *)
(* follows what is served, and whoever owes no work serves the disk, but   *)
(* for the files it is excused for.  LiveIndex implements it.              *)
(***************************************************************************)
EXTENDS Naturals

CONSTANT Files

VARIABLES
  latest,   \* the latest revision each file has had
  truth,    \* the revision on disk, 0 if there is none to serve
  served,   \* the revision the page tools answer from
  searched, \* the revision search answers from
  owed,     \* is there work left to do?
  excused,  \* files nobody could tell the server about, or it could not read
  alive     \* is the server up?

vars == <<latest, truth, served, searched, owed, excused, alive>>

Index == [Files -> Nat]

UpToDate ==
  /\ \A f \in Files : served[f] = truth[f] \/ f \in excused
  /\ searched = served

\* Work may be put off, never forgotten.
KeepsWord == alive /\ ~ owed => UpToDate

Init ==
  /\ latest \in Index /\ truth \in Index
  /\ served = [f \in Files |-> 0] /\ searched = served
  /\ owed = TRUE /\ excused = {} /\ alive = TRUE

\* The disk changes; nothing that is served does.
Change ==
  /\ \A f \in Files : latest'[f] >= latest[f] /\ truth'[f] \in {0, latest'[f]}
  /\ UNCHANGED <<served, searched, alive>>

\* A new index: a file leaves it or is at least as new as it was.
Publish ==
  /\ owed /\ alive
  /\ \A f \in Files :
       served'[f] = 0 \/ (served[f] <= served'[f] /\ served'[f] <= latest[f])
  /\ UNCHANGED <<latest, truth, searched, alive>>

Follow ==
  /\ owed /\ alive
  /\ searched' = served
  /\ UNCHANGED <<latest, truth, served, alive>>

\* Work is found, done, given up or ended with the server.
Settle ==
  /\ alive' => alive
  /\ UNCHANGED <<latest, truth, served, searched>>

Next == (Change \/ Publish \/ Follow \/ Settle) /\ KeepsWord'

Spec == Init /\ [][Next]_vars
=============================================================================
