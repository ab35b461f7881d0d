------------------------------ MODULE MCToolCalls ------------------------------
(***************************************************************************)
(* Small instances of ToolCalls: indexes of no, one or two pages, with and *)
(* without a page the navigation does not list, with and without a listed  *)
(* page that could not be parsed, and one where the navigation has a path  *)
(* with a leading slash, under which the file is indexed a second time.    *)
(***************************************************************************)
EXTENDS ToolCalls

CONSTANTS home, guide, slashHome

MCPages == {home, guide, slashHome}
MCNormalise == [p \in MCPages |-> IF p = slashHome THEN home ELSE p]

MCIndexes == {
  [docs |-> <<home, guide>>, order |-> <<home, guide>>],
  [docs |-> <<guide, home>>, order |-> <<guide>>],
  [docs |-> <<home>>, order |-> <<guide, home>>],
  [docs |-> <<slashHome, home>>, order |-> <<slashHome>>],
  [docs |-> << >>, order |-> <<home>>]}

\* Of an index without documents a search sees nothing at all.
MCFilledIndexes == {i \in MCIndexes : i.docs # << >>}
=============================================================================
