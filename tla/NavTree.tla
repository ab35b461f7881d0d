-------------------------------- MODULE NavTree --------------------------------
(***************************************************************************)
(* The navigation of mkdocs.yml: internal/parser turns its nav list into a *)
(* tree and flattens the tree into sections and path order; the indexer    *)
(* searches the tree again, in two different ways, for the section and the *)
(* breadcrumb of each page; list_sections flattens it a third way.         *)
(*                                                                         *)
(* A nav item, as YAML gives it, is a bare path, a titled path, a titled   *)
(* list, or something else, which is dropped.  A node of the tree has a    *)
(* title, a path and children; the empty string for a path is None, and a  *)
(* title may be empty.  Recursive functions have the tree lists as domain. *)
(***************************************************************************)
EXTENDS Naturals, SequencesExt

CONSTANTS
  Navs,         \* the nav lists there can be, and with each the lists within it
  Depth(_),     \* how deep lists are nested in a nav list
  Paths,        \* the paths of pages
  None,         \* the empty path
  Titles,       \* titles of pages and sections
  TitleOf(_)    \* titleFromPath

\* What an item of the nav list l is.
IsItem(item, l) ==
  \/ item.kind = "path" /\ item.path \in Paths \cup {None}
  \/ item.kind = "page" /\ item.title \in Titles /\ item.path \in Paths \cup {None}
  \/ /\ item.kind = "section" /\ item.title \in Titles
     /\ item.items \in Navs /\ Depth(item.items) < Depth(l)
  \/ item.kind = "other"

\* YAML has no list that contains itself; a nav list may be empty.
ASSUME NavAssumption ==
  /\ None \notin Paths
  /\ \A p \in Paths \cup {None} : TitleOf(p) \in Titles
  /\ << >> \in Navs
  /\ \A l \in Navs : /\ l \in Seq(ToSet(l)) /\ Depth(l) \in Nat
                     /\ \A i \in DOMAIN l : IsItem(l[i], l)

VARIABLES
  nav,        \* cfg.Nav, as YAML gives it
  tree,       \* ParseResult.Nav
  sections,   \* ParseResult.Sections
  pathOrder,  \* ParseResult.PathOrder
  placed,     \* placed[p]: the section and breadcrumb of each page indexed
  pc          \* "parse", "place" or "done"

vars == <<nav, tree, sections, pathOrder, placed, pc>>

-----------------------------------------------------------------------------
(* The parser                                                              *)

\* parseNavItem: no node, or one; nested has what the lists within become.
ParseNavItem(item, nested) ==
  CASE item.kind = "path" ->
         <<[title |-> TitleOf(item.path), path |-> item.path, children |-> << >>]>>
    [] item.kind = "page" ->
         <<[title |-> item.title, path |-> item.path, children |-> << >>]>>
    [] item.kind = "section" ->
         <<[title |-> item.title, path |-> None, children |-> nested[item.items]]>>
    [] item.kind = "other" -> << >>

ParseNavList[items \in Navs] ==
  FlattenSeq([i \in DOMAIN items |-> ParseNavItem(items[i], ParseNavList)])

\* The lists of nodes there can be, and the nodes in them.
Trees == Range(ParseNavList)
Nodes == UNION {ToSet(ns) : ns \in Trees}

\* Mutant: a section's empty path is taken for a page.
OwnPathUnchecked(n) == <<n.path>>

OwnPath(n) == IF n.path # None THEN <<n.path>> ELSE << >>
OwnTitle(n) == IF n.title # "" THEN <<n.title>> ELSE << >>

\* collectSections: the top-level nodes with children.
CollectSections(nodes) ==
  FlattenSeq([i \in DOMAIN nodes |->
    IF nodes[i].children # << >> THEN OwnTitle(nodes[i]) ELSE << >>])

\* collectPaths: the paths, a node before its children.
CollectPaths[nodes \in Trees] ==
  FlattenSeq([i \in DOMAIN nodes |->
    OwnPath(nodes[i]) \o CollectPaths[nodes[i].children]])

-----------------------------------------------------------------------------
(* The searches                                                            *)

ContainsPath(nodes, p) ==
  LET contains[ns \in Trees] ==
        \E i \in DOMAIN ns : ns[i].path = p \/ contains[ns[i].children]
  IN contains[nodes]

\* Where a search of the top level for p ends.
Hits(nodes, p) ==
  {i \in DOMAIN nodes : nodes[i].path = p \/ ContainsPath(nodes[i].children, p)}

\* Mutant: the last section that holds the page wins.
FindSectionLast(nodes, p) ==
  IF Hits(nodes, p) = {} THEN ""
  ELSE nodes[CHOOSE i \in Hits(nodes, p) : \A k \in Hits(nodes, p) : k <= i].title

\* findSection: the first top-level node that is p or holds it.
FindSection(nodes, p) ==
  IF Hits(nodes, p) = {} THEN ""
  ELSE nodes[CHOOSE i \in Hits(nodes, p) : \A k \in Hits(nodes, p) : i <= k].title

\* Mutant: the title of a section searched in vain is not taken off again.
TurnKeeps(n, p, crumbs, search) ==
  LET with == crumbs \o OwnTitle(n) IN
  IF n.path = p THEN [found |-> TRUE, crumbs |-> with]
  ELSE IF n.children = << >> THEN [found |-> FALSE, crumbs |-> crumbs]
  ELSE search[n.children][with]

\* A turn of the loop of findBreadcrumb; search is findBreadcrumb itself.  What
\* was appended to crumbs is cut off when the children were searched in vain.
Turn(n, p, crumbs, search) ==
  LET with == crumbs \o OwnTitle(n)
      below == search[n.children][with]
  IN IF n.path = p THEN [found |-> TRUE, crumbs |-> with]
     ELSE IF n.children = << >> THEN [found |-> FALSE, crumbs |-> crumbs]
     ELSE IF below.found THEN below
     ELSE [found |-> FALSE, crumbs |-> SubSeq(below.crumbs, 1, Len(crumbs))]

\* Its loop over nodes.
Loop(nodes, p, crumbs, search) ==
  LET after[i \in 0..Len(nodes)] ==
        IF i = 0 THEN [found |-> FALSE, crumbs |-> crumbs]
        ELSE LET before == after[i - 1] IN
             IF before.found THEN before
             ELSE Turn(nodes[i], p, before.crumbs, search)
  IN after[Len(nodes)]

FindBreadcrumb(nodes, p, crumbs) ==
  LET find[ns \in Trees] == [cs \in Seq(Titles) |-> Loop(ns, p, cs, find)]
  IN find[nodes][crumbs]

\* nil when p is not in the tree.
BuildBreadcrumb(nodes, p) ==
  LET r == FindBreadcrumb(nodes, p, << >>)
  IN IF r.found THEN r.crumbs ELSE << >>

-----------------------------------------------------------------------------
(* list_sections                                                           *)

CollectPageRefs[node \in Nodes] ==
  OwnPath(node) \o
    FlattenSeq([i \in DOMAIN node.children |-> CollectPageRefs[node.children[i]]])

\* What handleListSections takes from the children of a top-level node.
PagesBelow(node) ==
  FlattenSeq([i \in DOMAIN node.children |-> CollectPageRefs[node.children[i]]])

\* Mutant: a page that is a top-level node itself is left out.
ListSectionsBelow(nodes) ==
  [i \in DOMAIN nodes |-> [title |-> nodes[i].title, pages |-> PagesBelow(nodes[i])]]

\* handleListSections: the pages of each top-level node.
ListSections(nodes) ==
  [i \in DOMAIN nodes |->
     [title |-> nodes[i].title, pages |-> OwnPath(nodes[i]) \o PagesBelow(nodes[i])]]

-----------------------------------------------------------------------------
TypeOK ==
  /\ nav \in Navs /\ tree \in Trees
  /\ sections \in Seq(Titles) /\ pathOrder \in Seq(Paths)
  /\ DOMAIN placed \subseteq Paths
  /\ placed \in [DOMAIN placed -> [section : Titles \cup {""}, crumbs : Seq(Titles)]]
  /\ pc \in {"parse", "place", "done"}

Init ==
  /\ nav \in Navs
  /\ tree = << >> /\ sections = << >> /\ pathOrder = << >>
  /\ placed = [p \in {} |-> None]
  /\ pc = "parse"

ParseMkDocs ==
  /\ pc = "parse"
  /\ tree' = ParseNavList[nav]
  /\ sections' = CollectSections(tree')
  /\ pathOrder' = CollectPaths[tree']
  /\ pc' = "place"
  /\ UNCHANGED <<nav, placed>>

\* Index, for one page that was parsed: its section and its breadcrumb.
PlacePage(p) ==
  /\ pc = "place"
  /\ p \notin DOMAIN placed
  /\ placed' = [q \in DOMAIN placed \cup {p} |->
       IF q # p THEN placed[q]
       ELSE [section |-> FindSection(tree, p), crumbs |-> BuildBreadcrumb(tree, p)]]
  /\ pc' = IF DOMAIN placed' = Paths THEN "done" ELSE "place"
  /\ UNCHANGED <<nav, tree, sections, pathOrder>>

Next == ParseMkDocs \/ \E p \in Paths : PlacePage(p)

Spec == Init /\ [][Next]_vars

-----------------------------------------------------------------------------
\* The two searches agree with each other and with the path order, on trees
\* that list a page twice as well: if the section of a page has a title, the
\* breadcrumb of the page begins with it; an orphan has neither.
SectionHeadsBreadcrumb ==
  \A p \in DOMAIN placed :
    LET at == placed[p] IN
    IF p \in Range(pathOrder)
    THEN at.section # "" => at.crumbs # << >> /\ Head(at.crumbs) = at.section
    ELSE at.crumbs = << >> /\ at.section = ""

\* The ways to p: the titles of the sections that are to be opened one within
\* the other, and of the page; nodes without a title leave no trace.
Ways(nodes, p) ==
  LET ways[ns \in Trees] ==
        UNION {LET on == (IF ns[i].path = p THEN {<< >>} ELSE {})
                            \cup ways[ns[i].children]
               IN {OwnTitle(ns[i]) \o w : w \in on} : i \in DOMAIN ns}
  IN ways[nodes]

\* A page of the navigation has a breadcrumb that leads to it: nothing is left in
\* it of the sections that were searched in vain.
BreadcrumbIsAWay ==
  \A p \in DOMAIN placed :
    p \in Range(pathOrder) => placed[p].crumbs \in Ways(tree, p)

\* list_sections leaves no page of the navigation out and keeps its order,
\* and every section that mkdocs.yml names is among its titles.
SectionsCoverPathOrder ==
  pc # "parse" =>
    /\ FlattenSeq([i \in DOMAIN tree |-> ListSections(tree)[i].pages]) = pathOrder
    /\ Range(sections) \subseteq {s.title : s \in Range(ListSections(tree))}
=============================================================================
