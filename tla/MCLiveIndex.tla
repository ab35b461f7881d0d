------------------------------ MODULE MCLiveIndex ------------------------------
(***************************************************************************)
(* Small instances of LiveIndex: two pages and two layouts.  The container *)
(* is shipped with docs.root the whole project, mkdocs.yml in it and the   *)
(* pages in its docs_dir; the built-in defaults are docs.root = ./docs     *)
(* with mkdocs.yml beside it.                                              *)
(***************************************************************************)
EXTENDS LiveIndex

CONSTANTS readme, guide, conf, project, docs, sub, out

MCPages == {readme, guide}

\* project/README.md, project/mkdocs.yml, project/docs/sub/guide.md
MCDirs == {project, docs, sub}
MCNames == MCPages \cup {conf} \cup MCDirs
MCParent == [n \in MCNames |-> CASE n = guide -> sub
                                 [] n = sub -> docs
                                 [] n = project -> out
                                 [] OTHER -> project]
MCUnder == [d \in MCDirs |-> CASE d = project -> MCNames \ {project}
                               [] d = docs -> {sub, guide}
                               [] d = sub -> {guide}]

\* mkdocs.yml, docs/README.md, docs/sub/guide.md
MCDirsBeside == {docs, sub}
MCNamesBeside == MCNames \ {project}
MCParentBeside == [n \in MCNamesBeside |-> CASE n = guide -> sub
                                             [] n \in {docs, conf} -> out
                                             [] OTHER -> docs]
MCUnderBeside == [d \in MCDirsBeside |->
                    IF d = docs THEN {readme, sub, guide} ELSE {guide}]

MCNav == {readme}
MCRelevant == MCPages \cup {conf}
=============================================================================
