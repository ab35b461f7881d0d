------------------------------- MODULE MCNavTree -------------------------------
(***************************************************************************)
(* Every nav list of up to two items, nested up to three deep, over two    *)
(* pages and two titles; pages may be listed twice, titles may repeat, and *)
(* a section may have an empty title, a page an empty path.                *)
(***************************************************************************)
EXTENDS NavTree

CONSTANTS install, api

MCPaths == {install, api}
MCTitles == {"Start", "Reference", ""}
MCTitleOf(p) == CASE p = install -> "Start" [] p = api -> "Reference" [] p = None -> ""

UpToTwo(S) == {SubSeq(<<a, b>>, 1, k) : a \in S, b \in S, k \in 0..2}
Sections(T, S) == {[kind |-> "section", title |-> t, items |-> l] : t \in T, l \in S}
Path(p) == [kind |-> "path", path |-> p]
Page(p) == [kind |-> "page", title |-> "Reference", path |-> p]

Leaves == {Path(install), Path(api), Page(install), Page(None), [kind |-> "other"]}
Flat == UpToTwo(Leaves)
Shallow == Sections({"Start", ""}, Flat)
Nested == UpToTwo(Leaves \cup Shallow)
Deep == Sections(MCTitles,
  {<<s>> : s \in Shallow} \cup {<<Path(install), s>> : s \in Shallow})
MCNavs == Nested \cup {<<s, l>> : s \in Deep, l \in Leaves}

MCDepth(l) == IF l \in Flat THEN 0 ELSE IF l \in Nested THEN 1 ELSE 2
=============================================================================
