----------------------------- MODULE NavTreeProofs -----------------------------
(***************************************************************************)
(* The traversals of the navigation agree, for any nav lists, of any depth *)
(* and length, over any paths and titles.                                  *)
(***************************************************************************)
EXTENDS NavTree, Recursion

-----------------------------------------------------------------------------
(* parseNavList                                                            *)

\* What parseNavList makes of l if it makes f of the lists within.
Parsed(l, f) == FlattenSeq([i \in DOMAIN l |-> ParseNavItem(l[i], f)])

LEMMA NavLists ==
  ASSUME NEW l \in Navs
  PROVE  /\ l \in Seq(ToSet(l)) /\ DOMAIN l = 1..Len(l) /\ Len(l) \in Nat
         /\ Depth(l) \in Nat
         /\ \A i \in DOMAIN l : IsItem(l[i], l)
<1>1. l \in Seq(ToSet(l)) /\ Depth(l) \in Nat /\ \A i \in DOMAIN l : IsItem(l[i], l)
  BY NavAssumption
<1> QED
  BY <1>1

LEMMA ParsedSame ==
  ASSUME NEW l \in Navs, NEW f, NEW g,
         \A m \in Navs : Depth(m) < Depth(l) => f[m] = g[m]
  PROVE  Parsed(l, f) = Parsed(l, g)
<1>1. ASSUME NEW i \in DOMAIN l PROVE ParseNavItem(l[i], f) = ParseNavItem(l[i], g)
  <2>1. IsItem(l[i], l)
    BY NavLists
  <2>2. CASE l[i].kind = "section"
    <3>1. l[i].items \in Navs /\ Depth(l[i].items) < Depth(l)
      BY <2>1, <2>2 DEF IsItem
    <3>2. f[l[i].items] = g[l[i].items]
      BY <3>1
    <3> QED
      BY <2>2, <3>2 DEF ParseNavItem
  <2>3. CASE l[i].kind = "path"
    BY <2>3 DEF ParseNavItem
  <2>4. CASE l[i].kind = "page"
    BY <2>4 DEF ParseNavItem
  <2>5. CASE l[i].kind = "other"
    BY <2>5 DEF ParseNavItem
  <2> QED
    BY <2>1, <2>2, <2>3, <2>4, <2>5 DEF IsItem
<1>2. [i \in DOMAIN l |-> ParseNavItem(l[i], f)] = [i \in DOMAIN l |-> ParseNavItem(l[i], g)]
  BY <1>1
<1> QED
  BY <1>2 DEF Parsed

\* f is right for the lists that are not as deep as n.
ParsesTo(f, n) == \A l \in Navs : Depth(l) < n => f[l] = Parsed(l, f)

LEMMA ParsesUnique ==
  ASSUME NEW n \in Nat, NEW f, ParsesTo(f, n), NEW g, ParsesTo(g, n)
  PROVE  \A l \in Navs : Depth(l) < n => f[l] = g[l]
<1> DEFINE rank == [l \in Navs |-> Depth(l)]
    S == {l \in Navs : Depth(l) < n => f[l] = g[l]}
<1>1. rank \in [Navs -> Nat]
  BY NavLists
<1>2. ASSUME NEW l \in Navs, \A m \in Navs : rank[m] < rank[l] => m \in S PROVE l \in S
  <2>1. SUFFICES ASSUME Depth(l) < n PROVE f[l] = g[l]
    OBVIOUS
  <2>2. ASSUME NEW m \in Navs, Depth(m) < Depth(l) PROVE f[m] = g[m]
    <3>1. Depth(m) \in Nat /\ Depth(l) \in Nat
      BY NavLists
    <3>2. Depth(m) < n /\ rank[m] < rank[l]
      BY <2>1, <2>2, <3>1
    <3> QED
      BY <1>2, <3>2
  <2>3. Parsed(l, f) = Parsed(l, g)
    BY <2>2, ParsedSame
  <2>4. f[l] = Parsed(l, f) /\ g[l] = Parsed(l, g)
    BY <2>1 DEF ParsesTo
  <2> QED
    BY <2>3, <2>4
<1>3. Navs \subseteq S
  <2> HIDE DEF S, rank
  <2> QED
    BY <1>1, <1>2, RankInduction
<1> QED
  BY <1>3

LEMMA ParsesToAny ==
  ASSUME NEW N \in Nat
  PROVE  \E f : ParsesTo(f, N)
<1> DEFINE S == {n \in 0..N : \E f : ParsesTo(f, n)}
<1>1. 0 \in S
  <2>1. \A l \in Navs : ~(Depth(l) < 0)
    BY NavLists
  <2>2. ParsesTo(<< >>, 0)
    BY <2>1 DEF ParsesTo
  <2> QED
    BY <2>2
<1>2. ASSUME NEW n \in 1..N, n - 1 \in S PROVE n \in S
  <2>1. PICK f : ParsesTo(f, n - 1)
    BY <1>2
  <2> DEFINE g == [l \in Navs |-> Parsed(l, f)]
  <2>2. ASSUME NEW l \in Navs, Depth(l) < n PROVE g[l] = Parsed(l, g)
    <3>1. ASSUME NEW m \in Navs, Depth(m) < Depth(l) PROVE f[m] = g[m]
      <4>1. Depth(m) \in Nat /\ Depth(l) \in Nat /\ n \in Nat
        BY NavLists
      <4>2. Depth(m) < n - 1
        BY <2>2, <3>1, <4>1
      <4> QED
        BY <2>1, <4>2 DEF ParsesTo
    <3> HIDE DEF g
    <3>2. Parsed(l, f) = Parsed(l, g)
      BY <3>1, ParsedSame
    <3> QED
      BY <3>2 DEF g
  <2> HIDE DEF g
  <2>3. ParsesTo(g, n)
    BY <2>2 DEF ParsesTo
  <2> QED
    BY <2>3
<1>3. \A n \in 0..N : n \in S
  <2> HIDE DEF S
  <2> QED
    BY <1>1, <1>2, UpToN
<1>4. N \in 0..N
  OBVIOUS
<1> QED
  BY <1>3, <1>4

\* parseNavList returns for every list, and does what its definition says.
LEMMA ParseNavListIs ==
  /\ DOMAIN ParseNavList = Navs
  /\ \A l \in Navs : ParseNavList[l] = Parsed(l, ParseNavList)
<1> DEFINE F(n) == CHOOSE f : ParsesTo(f, n)
    h == [l \in Navs |-> F(Depth(l) + 1)[l]]
<1>1. \A n \in Nat : ParsesTo(F(n), n)
  BY ParsesToAny
<1> HIDE DEF F
<1>2. ASSUME NEW l \in Navs PROVE h[l] = Parsed(l, h)
  <2> DEFINE f == F(Depth(l) + 1)
  <2>1. Depth(l) \in Nat /\ Depth(l) < Depth(l) + 1 /\ Depth(l) + 1 \in Nat
    BY NavLists
  <2>2. ParsesTo(f, Depth(l) + 1)
    BY <1>1, <2>1
  <2>3. ASSUME NEW m \in Navs, Depth(m) < Depth(l) PROVE f[m] = h[m]
    <3>1. Depth(m) \in Nat /\ Depth(m) < Depth(m) + 1 /\ Depth(m) + 1 \in Nat
      BY NavLists
    <3>2. ParsesTo(F(Depth(m) + 1), Depth(m) + 1)
      BY <1>1, <3>1
    <3>3. ParsesTo(f, Depth(m) + 1)
      <4>1. ASSUME NEW c \in Navs, Depth(c) < Depth(m) + 1 PROVE Depth(c) < Depth(l) + 1
        <5>1. Depth(c) \in Nat
          BY NavLists
        <5> QED
          BY <2>1, <2>3, <3>1, <4>1, <5>1
      <4> HIDE DEF f
      <4> QED
        BY <2>2, <4>1 DEF ParsesTo
    <3> HIDE DEF f
    <3>4. f[m] = F(Depth(m) + 1)[m]
      BY <3>1, <3>2, <3>3, ParsesUnique
    <3> QED
      BY <3>4
  <2>4. f[l] = Parsed(l, f)
    <3> HIDE DEF f
    <3> QED
      BY <2>1, <2>2 DEF ParsesTo
  <2> HIDE DEF h
  <2>5. Parsed(l, f) = Parsed(l, h)
    <3> HIDE DEF f
    <3> QED
      BY <2>3, ParsedSame
  <2> QED
    BY <2>4, <2>5 DEF h
<1>3. h = [l \in Navs |-> Parsed(l, h)]
  <2>1. \A l \in Navs : h[l] = [m \in Navs |-> Parsed(m, h)][l]
    BY <1>2
  <2> QED
    BY <2>1
<1>4. ParseNavList = [l \in Navs |-> Parsed(l, ParseNavList)]
  <2> HIDE DEF h
  <2> QED
    BY <1>3, Zenon DEF ParseNavList, Parsed
<1> QED
  BY <1>4, Zenon

-----------------------------------------------------------------------------
(* The trees                                                               *)

\* The nodes that the items of l become.
Made(l) ==
  [title : Titles, path : Paths \cup {None},
   children : {<< >>} \cup {ParseNavList[m] : m \in {k \in Navs : Depth(k) < Depth(l)}}]

LEMMA MadeByItem ==
  ASSUME NEW l \in Navs, NEW i \in DOMAIN l
  PROVE  ParseNavItem(l[i], ParseNavList) \in Seq(Made(l))
<1>1. IsItem(l[i], l)
  BY NavLists
<1>2. \A p \in Paths \cup {None} : TitleOf(p) \in Titles
  BY NavAssumption
<1>3. CASE l[i].kind = "section"
  <2> DEFINE n == [title |-> l[i].title, path |-> None, children |-> ParseNavList[l[i].items]]
  <2>1. /\ l[i].title \in Titles
        /\ l[i].items \in {k \in Navs : Depth(k) < Depth(l)}
    BY <1>1, <1>3 DEF IsItem
  <2>2. n \in Made(l)
    BY <2>1 DEF Made
  <2>3. ParseNavItem(l[i], ParseNavList) = <<n>>
    BY <1>3 DEF ParseNavItem
  <2> HIDE DEF n
  <2> QED
    BY <2>2, <2>3
<1>4. CASE l[i].kind = "path"
  <2> DEFINE n == [title |-> TitleOf(l[i].path), path |-> l[i].path, children |-> << >>]
  <2>1. l[i].path \in Paths \cup {None}
    BY <1>1, <1>4 DEF IsItem
  <2>2. n \in Made(l)
    BY <1>2, <2>1 DEF Made
  <2>3. ParseNavItem(l[i], ParseNavList) = <<n>>
    BY <1>4 DEF ParseNavItem
  <2> HIDE DEF n
  <2> QED
    BY <2>2, <2>3
<1>5. CASE l[i].kind = "page"
  <2> DEFINE n == [title |-> l[i].title, path |-> l[i].path, children |-> << >>]
  <2>1. l[i].title \in Titles /\ l[i].path \in Paths \cup {None}
    BY <1>1, <1>5 DEF IsItem
  <2>2. n \in Made(l)
    BY <2>1 DEF Made
  <2>3. ParseNavItem(l[i], ParseNavList) = <<n>>
    BY <1>5 DEF ParseNavItem
  <2> HIDE DEF n
  <2> QED
    BY <2>2, <2>3
<1>6. CASE l[i].kind = "other"
  <2>1. ParseNavItem(l[i], ParseNavList) = << >>
    BY <1>6 DEF ParseNavItem
  <2> QED
    BY <2>1
<1> QED
  BY <1>1, <1>3, <1>4, <1>5, <1>6 DEF IsItem

LEMMA MadeByList ==
  ASSUME NEW l \in Navs
  PROVE  ParseNavList[l] \in Seq(Made(l)) /\ ParseNavList[l] \in Trees
<1> DEFINE parts == [i \in DOMAIN l |-> ParseNavItem(l[i], ParseNavList)]
<1>1. parts \in [1..Len(l) -> Seq(Made(l))] /\ Len(l) \in Nat
  BY NavLists, MadeByItem
<1>2. ParseNavList[l] = FlattenSeq(parts)
  BY ParseNavListIs DEF Parsed
<1> HIDE DEF parts
<1>3. parts \in Seq(Seq(Made(l)))
  BY <1>1
<1>4. ParseNavList[l] \in Seq(Made(l))
  BY <1>2, <1>3, FlattenElements
<1> QED
  BY <1>4, ParseNavListIs DEF Trees, Range

LEMMA EmptyTree == << >> \in Trees
<1>1. << >> \in Navs /\ DOMAIN << >> = {}
  BY NavAssumption
<1>2. Parsed(<< >>, ParseNavList) = << >>
  <2>1. [i \in DOMAIN << >> |-> ParseNavItem(<< >>[i], ParseNavList)] = << >>
    OBVIOUS
  <2>2. FlattenSeq(<< >>) = << >>
    BY DEF FlattenSeq
  <2> QED
    BY <2>1, <2>2 DEF Parsed
<1> QED
  BY <1>1, <1>2, ParseNavListIs, MadeByList

\* What the elements of a tree list are.
IsNode(n) == n.title \in Titles /\ n.path \in Paths \cup {None} /\ n.children \in Trees

LEMMA TreeNodes ==
  ASSUME NEW ns \in Trees
  PROVE  /\ ns \in Seq(Nodes) /\ DOMAIN ns = 1..Len(ns) /\ Len(ns) \in Nat
         /\ \A i \in DOMAIN ns : IsNode(ns[i]) /\ ns[i] \in Nodes
<1>1. PICK l \in Navs : ns = ParseNavList[l]
  BY ParseNavListIs DEF Trees, Range
<1>2. ns \in Seq(Made(l))
  BY <1>1, MadeByList
<1>3. DOMAIN ns = 1..Len(ns) /\ Len(ns) \in Nat /\ \A i \in DOMAIN ns : ns[i] \in Made(l)
  BY <1>2
<1>4. ASSUME NEW i \in DOMAIN ns PROVE IsNode(ns[i])
  <2>1. ns[i] \in Made(l)
    BY <1>3
  <2>2. \A m \in Navs : ParseNavList[m] \in Trees
    BY MadeByList
  <2> QED
    BY <2>1, <2>2, EmptyTree DEF Made, IsNode
<1>5. \A i \in DOMAIN ns : ns[i] \in Nodes
  BY DEF Nodes, ToSet
<1>6. ns = [i \in 1..Len(ns) |-> ns[i]]
  BY <1>2
<1>7. ns \in Seq(Nodes)
  BY <1>3, <1>5, <1>6
<1> QED
  BY <1>3, <1>4, <1>5, <1>7

\* Children are lower.
LowersIn(rank) ==
  \A ns \in Trees : \A i \in DOMAIN ns : rank[ns[i].children] < rank[ns]

LEMMA TreeRank == \E rank \in [Trees -> Nat] : LowersIn(rank)
<1> DEFINE Of(ns) == {Depth(l) : l \in {k \in Navs : ParseNavList[k] = ns}}
    least(ns) == CHOOSE d \in Of(ns) : \A e \in Of(ns) : d <= e
    rank == [ns \in Trees |-> IF ns = << >> THEN 0 ELSE least(ns) + 1]
<1>1. ASSUME NEW ns \in Trees
      PROVE  /\ least(ns) \in Of(ns) /\ least(ns) \in Nat
             /\ \A e \in Of(ns) : least(ns) <= e
  <2>1. PICK l \in Navs : ns = ParseNavList[l]
    BY ParseNavListIs DEF Trees, Range
  <2>2. Of(ns) \subseteq Nat /\ Depth(l) \in Of(ns)
    BY <2>1, NavLists
  <2> DEFINE Low == {d \in Of(ns) : d <= Depth(l)}
  <2>3. Depth(l) \in Nat /\ Low \subseteq 0..Depth(l) /\ Low # {}
    BY <2>2, NavLists
  <2>4. PICK d \in Low : \A e \in Low : d <= e
    <3> HIDE DEF Low
    <3> QED
      BY <2>3, Smallest
  <2>5. d \in Of(ns) /\ \A e \in Of(ns) : d <= e
    <3>1. ASSUME NEW e \in Of(ns) PROVE d <= e
      <4>1. d \in Nat /\ e \in Nat /\ d <= Depth(l)
        BY <2>2, <2>4
      <4>2. CASE e <= Depth(l)
        BY <2>4, <4>2
      <4>3. CASE ~(e <= Depth(l))
        BY <2>3, <4>1, <4>3
      <4> QED
        BY <4>2, <4>3
    <3> HIDE DEF Of
    <3> QED
      BY <2>4, <3>1
  <2> HIDE DEF Of
  <2> QED
    BY <2>2, <2>5
<1>2. rank \in [Trees -> Nat]
  <2> HIDE DEF least
  <2> QED
    BY <1>1
<1>3. ASSUME NEW ns \in Trees, NEW i \in DOMAIN ns
      PROVE  rank[ns[i].children] < rank[ns]
  <2> DEFINE c == ns[i].children
  <2>1. PICK l \in Navs : ns = ParseNavList[l] /\ Depth(l) = least(ns)
    <3>1. least(ns) \in Of(ns)
      BY <1>1
    <3> HIDE DEF least
    <3> QED
      BY <3>1
  <2>2. ns \in Seq(Made(l)) /\ ns # << >> /\ c \in Trees
    <3>1. ns \in Seq(Made(l))
      BY <2>1, MadeByList
    <3>2. c \in Trees
      BY TreeNodes DEF IsNode
    <3> QED
      BY <3>1, <3>2
  <2>3. c \in {<< >>} \cup {ParseNavList[m] : m \in {k \in Navs : Depth(k) < Depth(l)}}
    <3>1. ns[i] \in Made(l)
      BY <2>2
    <3> QED
      BY <3>1 DEF Made
  <2> HIDE DEF c
  <2>4. rank[ns] = Depth(l) + 1 /\ Depth(l) \in Nat
    <3> HIDE DEF least
    <3> QED
      BY <2>1, <2>2, NavLists
  <2>5. CASE c = << >>
    BY <2>2, <2>4, <2>5 DEF c
  <2>6. CASE c # << >>
    <3>1. PICK m \in Navs : c = ParseNavList[m] /\ Depth(m) < Depth(l)
      BY <2>3, <2>6
    <3>2. Depth(m) \in Of(c)
      BY <3>1
    <3>3. least(c) <= Depth(m) /\ least(c) \in Nat /\ Depth(m) \in Nat
      <4> HIDE DEF Of, least
      <4> QED
        BY <1>1, <2>2, <3>2, NavLists
    <3> HIDE DEF least
    <3>4. rank[c] = least(c) + 1
      BY <2>2, <2>6
    <3> HIDE DEF rank
    <3>5. rank[c] < rank[ns]
      BY <2>4, <3>1, <3>3, <3>4
    <3> QED
      BY <3>5 DEF c
  <2> QED
    BY <2>5, <2>6
<1> HIDE DEF rank
<1> QED
  BY <1>2, <1>3 DEF LowersIn

\* Induction over trees.
LEMMA TreeInduction ==
  ASSUME NEW S,
         \A ns \in Trees : (\A i \in DOMAIN ns : ns[i].children \in S) => ns \in S
  PROVE  Trees \subseteq S
<1>1. PICK rank \in [Trees -> Nat] : LowersIn(rank)
  BY TreeRank
<1>2. ASSUME NEW ns \in Trees, \A c \in Trees : rank[c] < rank[ns] => c \in S
      PROVE  ns \in S
  <2>1. \A i \in DOMAIN ns : ns[i].children \in Trees
    BY TreeNodes DEF IsNode
  <2>2. \A i \in DOMAIN ns : ns[i].children \in S
    BY <1>1, <1>2, <2>1 DEF LowersIn
  <2> QED
    BY <2>2
<1> QED
  BY <1>1, <1>2, RankInduction

\* G looks only at the values of the children.
LooksAtChildren(V, G) ==
  \A ns \in Trees : \A f, g \in [Trees -> V] :
    (\A i \in DOMAIN ns : f[ns[i].children] = g[ns[i].children]) => G[ns][f] = G[ns][g]

\* A function of trees may be defined by what it is for the children.
LEMMA TreeRecursion ==
  ASSUME NEW V, V # {}, NEW G \in [Trees -> [[Trees -> V] -> V]], LooksAtChildren(V, G)
  PROVE  Solutions(Trees, V, G) # {}
<1>1. PICK rank \in [Trees -> Nat] : LowersIn(rank)
  BY TreeRank
<1>2. ASSUME NEW ns \in Trees, NEW f \in [Trees -> V], NEW g \in [Trees -> V],
             \A c \in Trees : rank[c] < rank[ns] => f[c] = g[c]
      PROVE  G[ns][f] = G[ns][g]
  <2>1. \A i \in DOMAIN ns : ns[i].children \in Trees
    BY TreeNodes DEF IsNode
  <2>2. \A i \in DOMAIN ns : f[ns[i].children] = g[ns[i].children]
    BY <1>1, <1>2, <2>1 DEF LowersIn
  <2> QED
    BY <2>2 DEF LooksAtChildren
<1>3. LooksLower(Trees, rank, V, G)
  BY <1>2 DEF LooksLower
<1> QED
  BY <1>3, RankRecursion

-----------------------------------------------------------------------------
(* collectPaths and collectPageRefs                                        *)

LEMMA OwnPathType ==
  ASSUME NEW n, IsNode(n)
  PROVE  /\ OwnPath(n) \in Seq(Paths)
         /\ \A p \in Paths : p \in ToSet(OwnPath(n)) <=> n.path = p
<1>1. CASE n.path = None
  <2>1. OwnPath(n) = << >> /\ None \notin Paths
    BY <1>1, NavAssumption DEF OwnPath
  <2>2. ToSet(<< >>) = {}
    BY DEF ToSet
  <2> QED
    BY <1>1, <2>1, <2>2
<1>2. CASE n.path # None
  <2>1. OwnPath(n) = <<n.path>> /\ n.path \in Paths
    BY <1>2 DEF OwnPath, IsNode
  <2>2. ToSet(<<n.path>>) = {n.path}
    BY DEF ToSet
  <2> QED
    BY <2>1, <2>2
<1> QED
  BY <1>1, <1>2

\* What collectPaths makes of ns if it makes f of the children.
PathsOf(ns, f) ==
  FlattenSeq([i \in DOMAIN ns |-> OwnPath(ns[i]) \o f[ns[i].children]])

LEMMA PathsOfType ==
  ASSUME NEW ns \in Trees, NEW f \in [Trees -> Seq(Paths)]
  PROVE  /\ PathsOf(ns, f) \in Seq(Paths)
         /\ \A p \in Paths : p \in ToSet(PathsOf(ns, f)) <=>
              \E i \in DOMAIN ns : ns[i].path = p \/ p \in ToSet(f[ns[i].children])
<1> DEFINE part(i) == OwnPath(ns[i]) \o f[ns[i].children]
    parts == [i \in DOMAIN ns |-> part(i)]
<1>1. DOMAIN ns = 1..Len(ns) /\ Len(ns) \in Nat
  BY TreeNodes
<1>2. ASSUME NEW i \in DOMAIN ns
      PROVE  /\ part(i) \in Seq(Paths)
             /\ \A p \in Paths : p \in ToSet(part(i))
                                   <=> ns[i].path = p \/ p \in ToSet(f[ns[i].children])
  <2>1. IsNode(ns[i])
    BY TreeNodes
  <2>2. f[ns[i].children] \in Seq(Paths)
    BY <2>1 DEF IsNode
  <2>3. /\ OwnPath(ns[i]) \in Seq(Paths)
        /\ \A p \in Paths : p \in ToSet(OwnPath(ns[i])) <=> ns[i].path = p
    BY <2>1, OwnPathType
  <2>4. /\ part(i) \in Seq(Paths)
        /\ ToSet(part(i)) = ToSet(OwnPath(ns[i])) \cup ToSet(f[ns[i].children])
    BY <2>2, <2>3, ConcatElements
  <2> HIDE DEF part
  <2> QED
    BY <2>3, <2>4
<1> HIDE DEF part
<1>3. parts \in [1..Len(ns) -> Seq(Paths)]
  BY <1>1, <1>2
<1>4. /\ DOMAIN parts = 1..Len(ns) /\ Len(parts) = Len(ns)
      /\ \A i \in 1..Len(ns) : parts[i] = part(i)
  BY <1>1
<1>5. PathsOf(ns, f) = FlattenSeq(parts)
  BY DEF PathsOf, part
<1> HIDE DEF parts
<1>6. parts \in Seq(Seq(Paths))
  BY <1>1, <1>3
<1>7. /\ FlattenSeq(parts) \in Seq(Paths)
      /\ ToSet(FlattenSeq(parts)) = UNION {ToSet(parts[i]) : i \in 1..Len(parts)}
  BY <1>6, FlattenElements
<1>8. ASSUME NEW p \in Paths
      PROVE  p \in ToSet(FlattenSeq(parts)) <=>
               \E i \in DOMAIN ns : ns[i].path = p \/ p \in ToSet(f[ns[i].children])
  <2>1. p \in ToSet(FlattenSeq(parts)) <=> \E i \in 1..Len(ns) : p \in ToSet(part(i))
    BY <1>4, <1>7
  <2> QED
    BY <1>1, <1>2, <2>1
<1> QED
  BY <1>5, <1>7, <1>8

LEMMA CollectPathsIs ==
  /\ CollectPaths \in [Trees -> Seq(Paths)]
  /\ \A ns \in Trees : CollectPaths[ns] = PathsOf(ns, CollectPaths)
<1> DEFINE V == Seq(Paths)
    G == [ns \in Trees |-> [f \in [Trees -> V] |-> PathsOf(ns, f)]]
<1>1. V # {} /\ G \in [Trees -> [[Trees -> V] -> V]]
  <2>1. << >> \in V
    OBVIOUS
  <2>2. \A ns \in Trees : \A f \in [Trees -> V] : PathsOf(ns, f) \in V
    BY PathsOfType
  <2> HIDE DEF V
  <2> QED
    BY <2>1, <2>2
<1>2. ASSUME NEW ns \in Trees, NEW f \in [Trees -> V], NEW g \in [Trees -> V],
             \A i \in DOMAIN ns : f[ns[i].children] = g[ns[i].children]
      PROVE  G[ns][f] = G[ns][g]
  <2> HIDE DEF V
  <2>1. [i \in DOMAIN ns |-> OwnPath(ns[i]) \o f[ns[i].children]]
          = [i \in DOMAIN ns |-> OwnPath(ns[i]) \o g[ns[i].children]]
    BY <1>2
  <2>2. PathsOf(ns, f) = PathsOf(ns, g)
    BY <2>1 DEF PathsOf
  <2> QED
    BY <2>2
<1>3. PICK h \in Solutions(Trees, V, G) : TRUE
  <2> HIDE DEF V, G
  <2>1. LooksAtChildren(V, G)
    BY <1>2 DEF LooksAtChildren
  <2>2. Solutions(Trees, V, G) # {}
    BY <1>1, <2>1, TreeRecursion
  <2> QED
    BY <2>2
<1>4. h \in [Trees -> V] /\ \A ns \in Trees : h[ns] = PathsOf(ns, h)
  <2> HIDE DEF V
  <2> QED
    BY <1>3 DEF Solutions
<1>5. h = [ns \in Trees |-> PathsOf(ns, h)]
  BY <1>4
<1>6. CollectPaths = [ns \in Trees |-> PathsOf(ns, CollectPaths)]
  BY <1>5, Zenon DEF CollectPaths, PathsOf
<1>7. DOMAIN CollectPaths = Trees /\ \A ns \in Trees : CollectPaths[ns] = PathsOf(ns, CollectPaths)
  BY <1>6, Zenon
\* That the values are sequences of paths follows by induction: each value is
\* what a typed function makes of the children.
<1> DEFINE S == {ns \in Trees : CollectPaths[ns] \in Seq(Paths)}
<1>8. ASSUME NEW ns \in Trees, \A i \in DOMAIN ns : ns[i].children \in S PROVE ns \in S
  <2> DEFINE g == [c \in Trees |-> IF c \in S THEN CollectPaths[c] ELSE << >>]
  <2>1. g \in [Trees -> Seq(Paths)]
    OBVIOUS
  <2>2. \A i \in DOMAIN ns : g[ns[i].children] = CollectPaths[ns[i].children]
    BY <1>8
  <2> HIDE DEF g, S
  <2>3. [i \in DOMAIN ns |-> OwnPath(ns[i]) \o g[ns[i].children]]
          = [i \in DOMAIN ns |-> OwnPath(ns[i]) \o CollectPaths[ns[i].children]]
    BY <2>2
  <2>4. PathsOf(ns, g) = PathsOf(ns, CollectPaths)
    BY <2>3 DEF PathsOf
  <2>5. CollectPaths[ns] \in Seq(Paths)
    BY <1>7, <2>1, <2>4, PathsOfType
  <2> QED
    BY <2>5 DEF S
<1>9. Trees \subseteq S
  <2> HIDE DEF S
  <2> QED
    BY <1>8, TreeInduction
<1>10. CollectPaths \in [Trees -> Seq(Paths)]
  <2>1. \A ns \in Trees : CollectPaths[ns] \in Seq(Paths)
    BY <1>9
  <2>2. CollectPaths = [ns \in Trees |-> CollectPaths[ns]]
    BY <1>6, <1>7, Zenon
  <2> QED
    BY <2>1, <2>2, Zenon
<1> QED
  BY <1>7, <1>10

LEMMA PathsInside ==
  ASSUME NEW ns \in Trees, NEW p \in Paths
  PROVE  /\ CollectPaths[ns] \in Seq(Paths)
         /\ p \in ToSet(CollectPaths[ns]) <=>
              \E i \in DOMAIN ns : ns[i].path = p \/ p \in ToSet(CollectPaths[ns[i].children])
<1>1. CollectPaths \in [Trees -> Seq(Paths)] /\ CollectPaths[ns] = PathsOf(ns, CollectPaths)
  BY CollectPathsIs
<1>2. CollectPaths[ns] \in Seq(Paths)
  BY <1>1
<1>3. p \in ToSet(PathsOf(ns, CollectPaths)) <=>
        \E i \in DOMAIN ns : ns[i].path = p \/ p \in ToSet(CollectPaths[ns[i].children])
  BY <1>1, PathsOfType
<1> QED
  BY <1>1, <1>2, <1>3

-----------------------------------------------------------------------------
(* containsPath and findSection                                            *)

\* containsPath finds what collectPaths collects.
THEOREM ContainsWhatIsCollected ==
  ASSUME NEW p \in Paths
  PROVE  \A ns \in Trees : ContainsPath(ns, p) <=> p \in ToSet(CollectPaths[ns])
<1> DEFINE Body(f) == [ns \in Trees |-> \E i \in DOMAIN ns : ns[i].path = p \/ f[ns[i].children]]
    h == [ns \in Trees |-> p \in ToSet(CollectPaths[ns])]
<1>1. h = Body(h)
  <2>1. ASSUME NEW ns \in Trees PROVE h[ns] = Body(h)[ns]
    <3>1. \A i \in DOMAIN ns : ns[i].children \in Trees
      BY TreeNodes DEF IsNode
    <3> DEFINE below == \E i \in DOMAIN ns : ns[i].path = p \/ h[ns[i].children]
    <3>2. p \in ToSet(CollectPaths[ns]) <=> below
      BY <3>1, PathsInside
    <3>3. below \in BOOLEAN /\ (p \in ToSet(CollectPaths[ns])) \in BOOLEAN
      OBVIOUS
    <3>4. (p \in ToSet(CollectPaths[ns])) = below
      BY <3>2, <3>3
    <3>5. Body(h)[ns] = below /\ h[ns] = (p \in ToSet(CollectPaths[ns]))
      BY Zenon
    <3> HIDE DEF h, below
    <3> QED
      BY <3>4, <3>5, Zenon
  <2> QED
    BY <2>1
<1>2. PICK g : g = Body(g) /\ \A ns \in Trees : ContainsPath(ns, p) = g[ns]
  <2> HIDE DEF h
  <2> QED
    BY <1>1, Zenon DEF ContainsPath
<1> DEFINE S == {ns \in Trees : g[ns] <=> p \in ToSet(CollectPaths[ns])}
<1>3. ASSUME NEW ns \in Trees, \A i \in DOMAIN ns : ns[i].children \in S PROVE ns \in S
  <2>1. g[ns] <=> \E i \in DOMAIN ns : ns[i].path = p \/ g[ns[i].children]
    BY <1>2, Zenon
  <2>2. \A i \in DOMAIN ns : g[ns[i].children] <=> p \in ToSet(CollectPaths[ns[i].children])
    BY <1>3
  <2>3. g[ns] <=> p \in ToSet(CollectPaths[ns])
    BY <2>1, <2>2, PathsInside, Zenon
  <2> QED
    BY <2>3
<1>4. Trees \subseteq S
  <2> HIDE DEF S
  <2> QED
    BY <1>3, TreeInduction
<1> QED
  BY <1>2, <1>4, Zenon

\* p is the node n, or below it.
Holds(n, p) == n.path = p \/ p \in ToSet(CollectPaths[n.children])

\* i is the first node of ns that holds p.
IsFirst(i, ns, p) ==
  i \in DOMAIN ns /\ Holds(ns[i], p) /\ \A k \in DOMAIN ns : Holds(ns[k], p) => i <= k

LEMMA FindSectionIs ==
  ASSUME NEW ns \in Trees, NEW p \in Paths
  PROVE  /\ p \notin ToSet(CollectPaths[ns]) => FindSection(ns, p) = ""
         /\ p \in ToSet(CollectPaths[ns]) =>
              \E i \in DOMAIN ns : IsFirst(i, ns, p) /\ FindSection(ns, p) = ns[i].title
<1>1. /\ DOMAIN ns = 1..Len(ns) /\ Len(ns) \in Nat
      /\ \A i \in DOMAIN ns : ns[i].children \in Trees
  BY TreeNodes DEF IsNode
<1>2. \A i \in DOMAIN ns : i \in Hits(ns, p) <=> Holds(ns[i], p)
  BY <1>1, ContainsWhatIsCollected DEF Hits, Holds
<1>3. Hits(ns, p) \subseteq DOMAIN ns
  BY DEF Hits
<1>4. p \in ToSet(CollectPaths[ns]) <=> Hits(ns, p) # {}
  BY <1>2, <1>3, PathsInside DEF Holds
<1>5. ASSUME Hits(ns, p) # {}
      PROVE  \E i \in DOMAIN ns : IsFirst(i, ns, p) /\ FindSection(ns, p) = ns[i].title
  <2> DEFINE first == CHOOSE i \in Hits(ns, p) : \A k \in Hits(ns, p) : i <= k
  <2>1. \E i \in Hits(ns, p) : \A k \in Hits(ns, p) : i <= k
    <3>1. Hits(ns, p) \subseteq 0..Len(ns)
      BY <1>1, <1>3
    <3> QED
      BY <1>1, <1>5, <3>1, Smallest
  <2>2. first \in Hits(ns, p) /\ \A k \in Hits(ns, p) : first <= k
    BY <2>1
  <2>3. FindSection(ns, p) = ns[first].title
    BY <1>5 DEF FindSection
  <2> HIDE DEF first
  <2>4. IsFirst(first, ns, p)
    BY <1>2, <1>3, <2>2 DEF IsFirst
  <2> QED
    BY <1>3, <2>2, <2>3, <2>4
<1> QED
  BY <1>4, <1>5 DEF FindSection

-----------------------------------------------------------------------------
(* findBreadcrumb                                                          *)

\* What a search of the lists within may be: it never shortens the breadcrumb.
Answers(cs) == {r \in [found : BOOLEAN, crumbs : Seq(Titles)] : Len(cs) <= Len(r.crumbs)}
Searches == {g \in [Seq(Titles) -> [found : BOOLEAN, crumbs : Seq(Titles)]] :
               \A cs \in Seq(Titles) : g[cs] \in Answers(cs)}

LEMMA OwnTitleType ==
  ASSUME NEW n, IsNode(n), NEW cs \in Seq(Titles)
  PROVE  /\ OwnTitle(n) \in Seq(Titles) /\ cs \o OwnTitle(n) \in Seq(Titles)
         /\ Len(cs) <= Len(cs \o OwnTitle(n))
         /\ n.title # "" => OwnTitle(n) = <<n.title>>
<1>1. OwnTitle(n) \in Seq(Titles) /\ (n.title # "" => OwnTitle(n) = <<n.title>>)
  <2>1. n.title \in Titles
    BY DEF IsNode
  <2>2. <<n.title>> \in Seq(Titles) /\ << >> \in Seq(Titles)
    BY <2>1
  <2> QED
    BY <2>2 DEF OwnTitle
<1>2. cs \o OwnTitle(n) \in Seq(Titles) /\ Len(cs \o OwnTitle(n)) = Len(cs) + Len(OwnTitle(n))
  BY <1>1, ConcatProperties
<1>3. Len(cs) \in Nat /\ Len(OwnTitle(n)) \in Nat
  BY <1>1, LenProperties
<1>4. Len(cs) <= Len(cs \o OwnTitle(n))
  BY <1>2, <1>3
<1> QED
  BY <1>1, <1>2, <1>4

LEMMA TurnType ==
  ASSUME NEW n, IsNode(n), NEW p, NEW cs \in Seq(Titles), NEW f \in [Trees -> Searches]
  PROVE  Turn(n, p, cs, f) \in Answers(cs)
<1> DEFINE with == cs \o OwnTitle(n)
           below == f[n.children][with]
<1>1. with \in Seq(Titles) /\ Len(cs) <= Len(with) /\ Len(cs) \in Nat /\ Len(with) \in Nat
  <2>1. with \in Seq(Titles) /\ Len(cs) <= Len(with)
    BY OwnTitleType
  <2> HIDE DEF with
  <2> QED
    BY <2>1
<1>2. CASE n.path = p
  BY <1>1, <1>2 DEF Turn, Answers
<1>3. CASE n.path # p /\ n.children = << >>
  BY <1>1, <1>3 DEF Turn, Answers
<1>4. CASE n.path # p /\ n.children # << >>
  <2>1. f[n.children] \in Searches
    BY DEF IsNode
  <2>2. below \in Answers(with)
    BY <1>1, <2>1 DEF Searches
  <2> HIDE DEF with, below
  <2>3. /\ below.found \in BOOLEAN /\ below.crumbs \in Seq(Titles)
        /\ below \in [found : BOOLEAN, crumbs : Seq(Titles)]
        /\ Len(with) <= Len(below.crumbs) /\ Len(below.crumbs) \in Nat
    BY <2>2 DEF Answers
  <2>4. Len(cs) <= Len(below.crumbs)
    BY <1>1, <2>3
  <2>5. CASE below.found
    <3>1. Turn(n, p, cs, f) = below
      BY <1>4, <2>5 DEF Turn, with, below
    <3> QED
      BY <2>3, <2>4, <3>1 DEF Answers
  <2>6. CASE ~below.found
    <3> DEFINE cut == SubSeq(below.crumbs, 1, Len(cs))
    <3>1. Turn(n, p, cs, f) = [found |-> FALSE, crumbs |-> cut]
      BY <1>4, <2>6 DEF Turn, with, below
    <3>2. cut \in Seq(Titles) /\ Len(cut) = Len(cs)
      <4> HIDE DEF cut
      <4>1. \A i \in 1..Len(cs) : i \in 1..Len(below.crumbs)
        BY <1>1, <2>3, <2>4
      <4>2. cut = [i \in 1..Len(cs) |-> below.crumbs[i]]
        BY <1>1, <2>3, <2>4 DEF cut
      <4>3. cut \in [1..Len(cs) -> Titles]
        BY <2>3, <4>1, <4>2
      <4> QED
        BY <1>1, <4>2, <4>3
    <3> HIDE DEF cut
    <3> QED
      BY <1>1, <3>1, <3>2 DEF Answers
  <2> QED
    BY <2>5, <2>6
<1> QED
  BY <1>2, <1>3, <1>4

\* What the turns of the loop over ns leave.
IsRun(a, ns, p, cs, f) ==
  /\ a[0] = [found |-> FALSE, crumbs |-> cs]
  /\ \A i \in 1..Len(ns) :
       a[i] = IF a[i - 1].found THEN a[i - 1] ELSE Turn(ns[i], p, a[i - 1].crumbs, f)

LEMMA RunExists ==
  ASSUME NEW ns \in Trees, NEW p, NEW cs \in Seq(Titles), NEW f \in [Trees -> Searches]
  PROVE  \E a \in [0..Len(ns) -> Answers(cs)] : IsRun(a, ns, p, cs, f)
<1> DEFINE N == Len(ns)
    v0 == [found |-> FALSE, crumbs |-> cs]
    step(i, u) == IF u.found THEN u ELSE Turn(ns[i], p, u.crumbs, f)
    G == [i \in 1..N |-> [u \in Answers(cs) |-> step(i, u)]]
<1>1. N \in Nat /\ \A i \in 1..N : IsNode(ns[i])
  BY TreeNodes
<1>2. v0 \in Answers(cs)
  BY DEF Answers
<1>3. ASSUME NEW i \in 1..N, NEW u \in Answers(cs) PROVE step(i, u) \in Answers(cs)
  <2>1. CASE u.found
    BY <2>1
  <2>2. CASE ~u.found
    <3>1. u.crumbs \in Seq(Titles) /\ Len(cs) <= Len(u.crumbs)
      BY DEF Answers
    <3> DEFINE r == Turn(ns[i], p, u.crumbs, f)
    <3>2. r \in Answers(u.crumbs)
      BY <1>1, <3>1, TurnType
    <3>3. Len(cs) \in Nat /\ Len(u.crumbs) \in Nat
      BY <3>1, LenProperties
    <3>4. r \in [found : BOOLEAN, crumbs : Seq(Titles)] /\ Len(u.crumbs) <= Len(r.crumbs)
      BY <3>2 DEF Answers
    <3>5. Len(r.crumbs) \in Nat
      BY <3>4, LenProperties
    <3>6. Len(cs) <= Len(r.crumbs)
      BY <3>1, <3>3, <3>4, <3>5
    <3>7. r \in Answers(cs)
      BY <3>4, <3>6 DEF Answers
    <3> QED
      BY <2>2, <3>7
  <2> QED
    BY <2>1, <2>2
<1>4. G \in [1..N -> [Answers(cs) -> Answers(cs)]]
  <2> HIDE DEF step
  <2> QED
    BY <1>3
<1>5. Iterations(N, Answers(cs), v0, G) # {}
  <2> HIDE DEF N, v0, G
  <2> QED
    BY <1>1, <1>2, <1>4, PrimitiveRecursion
<1>6. PICK a \in Iterations(N, Answers(cs), v0, G) : TRUE
  <2> HIDE DEF N, v0, G
  <2> QED
    BY <1>5
<1>7. /\ a \in [0..N -> Answers(cs)] /\ a[0] = v0
      /\ \A i \in 1..N : a[i] = G[i][a[i - 1]]
  BY <1>6 DEF Iterations
<1>8. ASSUME NEW i \in 1..N PROVE a[i] = step(i, a[i - 1])
  <2>1. i - 1 \in 0..N
    BY <1>1
  <2>2. a[i - 1] \in Answers(cs)
    BY <1>7, <2>1
  <2> HIDE DEF step
  <2> QED
    BY <1>7, <2>2
<1>9. IsRun(a, ns, p, cs, f)
  BY <1>7, <1>8 DEF IsRun
<1> QED
  BY <1>7, <1>9

\* The loop returns what its last turn leaves.
LEMMA LoopIs ==
  ASSUME NEW ns \in Trees, NEW p, NEW cs \in Seq(Titles),
         NEW f \in [Trees -> Searches], NEW g,
         \A i \in DOMAIN ns : f[ns[i].children] = g[ns[i].children],
         NEW a \in [0..Len(ns) -> Answers(cs)], IsRun(a, ns, p, cs, f)
  PROVE  Loop(ns, p, cs, g) = a[Len(ns)]
<1> DEFINE N == Len(ns)
    v0 == [found |-> FALSE, crumbs |-> cs]
    Body(b) == [i \in 0..N |->
                  IF i = 0 THEN v0
                  ELSE IF b[i - 1].found THEN b[i - 1] ELSE Turn(ns[i], p, b[i - 1].crumbs, g)]
<1>1. N \in Nat /\ DOMAIN ns = 1..N
  BY TreeNodes
<1>2. \A i \in 1..N : \A x : Turn(ns[i], p, x, f) = Turn(ns[i], p, x, g)
  <2>1. ASSUME NEW i \in 1..N, NEW x PROVE Turn(ns[i], p, x, f) = Turn(ns[i], p, x, g)
    <3>1. f[ns[i].children] = g[ns[i].children]
      BY <1>1
    <3> QED
      BY <3>1, Zenon DEF Turn
  <2> QED
    BY <2>1
<1>3. /\ a[0] = v0
      /\ \A i \in 1..N : a[i] = IF a[i - 1].found THEN a[i - 1]
                                ELSE Turn(ns[i], p, a[i - 1].crumbs, g)
  BY <1>2 DEF IsRun
<1>4. a = Body(a)
  <2>1. ASSUME NEW i \in 0..N PROVE a[i] = Body(a)[i]
    <3>1. i = 0 \/ i \in 1..N
      BY <1>1
    <3> QED
      BY <1>3, <3>1
  <2> QED
    BY <2>1
<1>5. PICK b : b = Body(b) /\ Loop(ns, p, cs, g) = b[N]
  BY <1>4, Zenon DEF Loop
<1> DEFINE S == {i \in 0..N : a[i] = b[i]}
<1>6. 0 \in S
  <2>1. b[0] = v0 /\ 0 \in 0..N
    BY <1>1, <1>5
  <2> QED
    BY <1>3, <2>1
<1>7. ASSUME NEW i \in 1..N, i - 1 \in S PROVE i \in S
  <2>1. i \in 0..N /\ i # 0
    BY <1>1
  <2>2. b[i] = IF b[i - 1].found THEN b[i - 1] ELSE Turn(ns[i], p, b[i - 1].crumbs, g)
    BY <1>5, <2>1
  <2>3. a[i - 1] = b[i - 1]
    BY <1>7
  <2>4. a[i] = b[i]
    BY <1>3, <2>2, <2>3
  <2> QED
    BY <2>1, <2>4
<1>8. \A i \in 0..N : i \in S
  <2> HIDE DEF S, N
  <2> QED
    BY <1>1, <1>6, <1>7, UpToN
<1>9. N \in 0..N
  BY <1>1
<1> QED
  BY <1>5, <1>8, <1>9

\* findBreadcrumb returns for every list, and what its loop over the list returns.
LEMMA FindBreadcrumbIs ==
  ASSUME NEW p
  PROVE  \E find \in [Trees -> Searches] :
           \A ns \in Trees : \A cs \in Seq(Titles) :
             FindBreadcrumb(ns, p, cs) = find[ns][cs] /\ find[ns][cs] = Loop(ns, p, cs, find)
<1> DEFINE V == Searches
    At(ns, f) == [cs \in Seq(Titles) |-> Loop(ns, p, cs, f)]
    Body(f) == [ns \in Trees |-> At(ns, f)]
    G == [ns \in Trees |-> [f \in [Trees -> V] |-> At(ns, f)]]
\* A function that agrees with a typed one on the children.
<1>1. ASSUME NEW ns \in Trees, NEW f \in [Trees -> V], NEW g,
             \A i \in DOMAIN ns : f[ns[i].children] = g[ns[i].children]
      PROVE  At(ns, f) \in V /\ At(ns, f) = At(ns, g)
  <2>1. ASSUME NEW cs \in Seq(Titles)
        PROVE  Loop(ns, p, cs, f) \in Answers(cs) /\ Loop(ns, p, cs, f) = Loop(ns, p, cs, g)
    <3>1. PICK a \in [0..Len(ns) -> Answers(cs)] : IsRun(a, ns, p, cs, f)
      BY RunExists
    <3>2. Loop(ns, p, cs, f) = a[Len(ns)]
      BY <3>1, LoopIs
    <3>3. Loop(ns, p, cs, g) = a[Len(ns)]
      BY <1>1, <3>1, LoopIs
    <3>4. Len(ns) \in 0..Len(ns)
      BY TreeNodes
    <3> QED
      BY <3>2, <3>3, <3>4
  <2>2. \A cs \in Seq(Titles) : Answers(cs) \subseteq [found : BOOLEAN, crumbs : Seq(Titles)]
    BY DEF Answers
  <2>3. At(ns, f) \in [Seq(Titles) -> [found : BOOLEAN, crumbs : Seq(Titles)]]
    BY <2>1, <2>2
  <2>4. \A cs \in Seq(Titles) : At(ns, f)[cs] \in Answers(cs)
    BY <2>1
  <2>5. At(ns, f) \in V
    <3> HIDE DEF At
    <3> QED
      BY <2>3, <2>4 DEF Searches
  <2> QED
    BY <2>1, <2>5
<1> HIDE DEF At
<1>2. G \in [Trees -> [[Trees -> V] -> V]]
  <2>1. \A ns \in Trees : \A f \in [Trees -> V] : At(ns, f) \in V
    BY <1>1
  <2> HIDE DEF V
  <2> QED
    BY <2>1
<1>3. LooksAtChildren(V, G)
  <2>1. ASSUME NEW ns \in Trees, NEW f \in [Trees -> V], NEW g \in [Trees -> V],
               \A i \in DOMAIN ns : f[ns[i].children] = g[ns[i].children]
        PROVE  G[ns][f] = G[ns][g]
    <3>1. At(ns, f) = At(ns, g)
      BY <1>1, <2>1
    <3> HIDE DEF V
    <3> QED
      BY <3>1
  <2> HIDE DEF V, G
  <2> QED
    BY <2>1 DEF LooksAtChildren
<1>4. V # {}
  <2> DEFINE same == [cs \in Seq(Titles) |-> [found |-> FALSE, crumbs |-> cs]]
  <2>1. same \in [Seq(Titles) -> [found : BOOLEAN, crumbs : Seq(Titles)]]
    OBVIOUS
  <2>2. \A cs \in Seq(Titles) : same[cs] \in Answers(cs)
    BY DEF Answers
  <2> HIDE DEF same
  <2> QED
    BY <2>1, <2>2 DEF Searches
<1>5. PICK h \in Solutions(Trees, V, G) : TRUE
  <2> HIDE DEF V, G
  <2>1. Solutions(Trees, V, G) # {}
    BY <1>2, <1>3, <1>4, TreeRecursion
  <2> QED
    BY <2>1
<1>6. h \in [Trees -> V] /\ \A ns \in Trees : h[ns] = At(ns, h)
  <2> HIDE DEF V
  <2> QED
    BY <1>5 DEF Solutions
<1>7. h = Body(h)
  BY <1>6
<1>8. PICK g : /\ g = Body(g)
               /\ \A ns \in Trees : \A cs \in Seq(Titles) : FindBreadcrumb(ns, p, cs) = g[ns][cs]
  BY <1>7, Zenon DEF FindBreadcrumb, At
<1> DEFINE S == {ns \in Trees : h[ns] = g[ns]}
<1>9. ASSUME NEW ns \in Trees, \A i \in DOMAIN ns : ns[i].children \in S PROVE ns \in S
  <2>1. \A i \in DOMAIN ns : h[ns[i].children] = g[ns[i].children]
    BY <1>9
  <2>2. At(ns, h) = At(ns, g)
    BY <1>1, <1>6, <2>1
  <2>3. h[ns] = At(ns, h) /\ g[ns] = At(ns, g)
    BY <1>6, <1>8
  <2> QED
    BY <2>2, <2>3
<1>10. Trees \subseteq S
  <2> HIDE DEF S
  <2> QED
    BY <1>9, TreeInduction
<1>11. ASSUME NEW ns \in Trees, NEW cs \in Seq(Titles)
       PROVE  /\ FindBreadcrumb(ns, p, cs) = h[ns][cs]
              /\ h[ns][cs] = Loop(ns, p, cs, h)
  <2>1. h[ns] = g[ns]
    BY <1>10
  <2>2. At(ns, h)[cs] = Loop(ns, p, cs, h)
    BY DEF At
  <2> QED
    BY <1>6, <1>8, <2>1, <2>2
<1> QED
  BY <1>6, <1>11

\* How one comes to p in ns by the node i, if one comes to it in the children as
\* f says.
On(ns, p, f, i) == (IF ns[i].path = p THEN {<< >>} ELSE {}) \cup f[ns[i].children]
WaysOf(ns, p, f) == UNION {{OwnTitle(ns[i]) \o w : w \in On(ns, p, f, i)} : i \in DOMAIN ns}

LEMMA WaysIs ==
  ASSUME NEW p, NEW ns \in Trees, NEW i \in DOMAIN ns
  PROVE  /\ ns[i].path = p => OwnTitle(ns[i]) \in Ways(ns, p)
         /\ \A w \in Ways(ns[i].children, p) : OwnTitle(ns[i]) \o w \in Ways(ns, p)
<1> DEFINE V == SUBSET Seq(Titles)
    G == [ms \in Trees |-> [f \in [Trees -> V] |-> WaysOf(ms, p, f)]]
<1>1. ASSUME NEW ms \in Trees, NEW f \in [Trees -> V] PROVE WaysOf(ms, p, f) \in V
  <2>1. ASSUME NEW k \in DOMAIN ms, NEW w \in On(ms, p, f, k)
        PROVE  OwnTitle(ms[k]) \o w \in Seq(Titles)
    <3>1. IsNode(ms[k])
      BY TreeNodes
    <3>2. f[ms[k].children] \subseteq Seq(Titles)
      BY <3>1 DEF IsNode
    <3>3. w \in Seq(Titles)
      <4>1. << >> \in Seq(Titles)
        OBVIOUS
      <4>2. w = << >> \/ w \in f[ms[k].children]
        BY DEF On
      <4> QED
        BY <3>2, <4>1, <4>2
    <3>4. OwnTitle(ms[k]) \in Seq(Titles)
      BY <3>1, <3>3, OwnTitleType
    <3> QED
      BY <3>3, <3>4, ConcatProperties
  <2>2. \A x \in WaysOf(ms, p, f) :
          \E k \in DOMAIN ms : \E w \in On(ms, p, f, k) : x = OwnTitle(ms[k]) \o w
    BY DEF WaysOf
  <2>3. ASSUME NEW x \in WaysOf(ms, p, f) PROVE x \in Seq(Titles)
    <3>1. PICK k \in DOMAIN ms : \E w \in On(ms, p, f, k) : x = OwnTitle(ms[k]) \o w
      BY <2>2
    <3> QED
      BY <2>1, <3>1
  <2> QED
    BY <2>3
<1>2. G \in [Trees -> [[Trees -> V] -> V]] /\ V # {}
  <2> HIDE DEF V
  <2>1. V # {}
    BY DEF V
  <2> QED
    BY <1>1, <2>1
<1>3. LooksAtChildren(V, G)
  <2>1. ASSUME NEW ms \in Trees, NEW f \in [Trees -> V], NEW g \in [Trees -> V],
               \A k \in DOMAIN ms : f[ms[k].children] = g[ms[k].children]
        PROVE  G[ms][f] = G[ms][g]
    <3> HIDE DEF V
    <3>1. \A k \in DOMAIN ms : On(ms, p, f, k) = On(ms, p, g, k)
      BY <2>1 DEF On
    <3> DEFINE by(e, k) == {OwnTitle(ms[k]) \o w : w \in On(ms, p, e, k)}
    <3>2. \A k \in DOMAIN ms : by(f, k) = by(g, k)
      BY <3>1
    <3>3. /\ WaysOf(ms, p, f) = UNION {by(f, k) : k \in DOMAIN ms}
          /\ WaysOf(ms, p, g) = UNION {by(g, k) : k \in DOMAIN ms}
      BY Zenon DEF WaysOf
    <3> HIDE DEF by
    <3>4. WaysOf(ms, p, f) = WaysOf(ms, p, g)
      BY <3>2, <3>3
    <3> QED
      BY <3>4
  <2> HIDE DEF V, G
  <2> QED
    BY <2>1 DEF LooksAtChildren
<1>4. PICK h \in Solutions(Trees, V, G) : TRUE
  <2> HIDE DEF V, G
  <2>1. Solutions(Trees, V, G) # {}
    BY <1>2, <1>3, TreeRecursion
  <2> QED
    BY <2>1
<1>5. h \in [Trees -> V] /\ \A ms \in Trees : h[ms] = WaysOf(ms, p, h)
  <2> HIDE DEF V
  <2> QED
    BY <1>4 DEF Solutions
<1>6. h = [ms \in Trees |-> WaysOf(ms, p, h)]
  BY <1>5
<1>7. PICK g : /\ g = [ms \in Trees |-> WaysOf(ms, p, g)]
               /\ \A ms \in Trees : Ways(ms, p) = g[ms]
  BY <1>6, Zenon DEF Ways, WaysOf, On
<1>8. ns[i].children \in Trees
  BY TreeNodes DEF IsNode
<1>9. \A w \in On(ns, p, g, i) : OwnTitle(ns[i]) \o w \in g[ns]
  <2>1. g[ns] = WaysOf(ns, p, g)
    BY <1>7
  <2> QED
    BY <2>1 DEF WaysOf
<1>10. \A w \in Ways(ns[i].children, p) : OwnTitle(ns[i]) \o w \in Ways(ns, p)
  BY <1>7, <1>8, <1>9 DEF On
<1>11. ASSUME ns[i].path = p PROVE OwnTitle(ns[i]) \in Ways(ns, p)
  <2>1. OwnTitle(ns[i]) \o << >> \in Ways(ns, p)
    BY <1>7, <1>9, <1>11 DEF On
  <2>2. OwnTitle(ns[i]) \o << >> = OwnTitle(ns[i])
    <3>1. IsNode(ns[i]) /\ << >> \in Seq(Titles)
      BY TreeNodes
    <3>2. OwnTitle(ns[i]) \in Seq(Titles)
      BY <3>1, OwnTitleType
    <3> HIDE DEF OwnTitle
    <3> QED
      BY <3>2
  <2> QED
    BY <2>1, <2>2
<1> QED
  BY <1>10, <1>11

\* r leads, from cs, to p in ns by the node i.
FoundBy(ns, p, cs, i, r) ==
  /\ r.found
  /\ \E way \in Ways(ns, p) \cap Seq(Titles) :
       /\ r.crumbs = cs \o way
       /\ ns[i].title # "" => way # << >> /\ Head(way) = ns[i].title

\* What a search of ns for p is to return: the way by the first node that holds
\* p, or the breadcrumb as it was.
IsAnswer(ns, p, cs, r) ==
  IF p \in ToSet(CollectPaths[ns])
  THEN \E i \in DOMAIN ns : IsFirst(i, ns, p) /\ FoundBy(ns, p, cs, i, r)
  ELSE r = [found |-> FALSE, crumbs |-> cs]

LEMMA TitleFirst ==
  ASSUME NEW n, IsNode(n), NEW w \in Seq(Titles)
  PROVE  /\ OwnTitle(n) \o w \in Seq(Titles)
         /\ n.title # "" => OwnTitle(n) \o w # << >> /\ Head(OwnTitle(n) \o w) = n.title
<1>1. OwnTitle(n) \in Seq(Titles) /\ (n.title # "" => OwnTitle(n) = <<n.title>>)
  BY OwnTitleType
<1>2. OwnTitle(n) \o w \in Seq(Titles)
  BY <1>1, ConcatProperties
<1>3. ASSUME n.title # ""
      PROVE  OwnTitle(n) \o w # << >> /\ Head(OwnTitle(n) \o w) = n.title
  <2> DEFINE t == <<n.title>>
  <2>1. t \in Seq(Titles) /\ Len(t) = 1 /\ t[1] = n.title /\ OwnTitle(n) = t
    BY <1>1, <1>3
  <2> HIDE DEF t
  <2>2. /\ Len(t \o w) = Len(t) + Len(w) /\ t \o w \in Seq(Titles)
        /\ \A k \in 1..(Len(t) + Len(w)) :
             (t \o w)[k] = IF k <= Len(t) THEN t[k] ELSE w[k - Len(t)]
    BY <2>1, ConcatProperties
  <2>3. Len(w) \in Nat /\ 1 \in 1..(1 + Len(w))
    BY LenProperties
  <2>4. (t \o w)[1] = n.title
    BY <2>1, <2>2, <2>3
  <2>5. t \o w # << >>
    BY <2>1, <2>2, <2>3
  <2> QED
    BY <2>1, <2>4, <2>5
<1> QED
  BY <1>2, <1>3

LEMMA TurnAnswers ==
  ASSUME NEW p \in Paths, NEW ns \in Trees, NEW i \in DOMAIN ns, NEW cs \in Seq(Titles), NEW f,
         \A c \in Seq(Titles) : IsAnswer(ns[i].children, p, c, f[ns[i].children][c])
  PROVE  IF Holds(ns[i], p) THEN FoundBy(ns, p, cs, i, Turn(ns[i], p, cs, f))
         ELSE Turn(ns[i], p, cs, f) = [found |-> FALSE, crumbs |-> cs]
<1> DEFINE n == ns[i]
    t == OwnTitle(n)
    with == cs \o t
    below == f[n.children][with]
<1>1. IsNode(n)
  BY TreeNodes
<1>2. with \in Seq(Titles) /\ t \in Seq(Titles)
  BY <1>1, OwnTitleType
<1>3. IsAnswer(n.children, p, with, below)
  <2> HIDE DEF with
  <2> QED
    BY <1>2
<1>4. CASE n.path = p
  <2>1. Turn(n, p, cs, f) = [found |-> TRUE, crumbs |-> with]
    BY <1>4 DEF Turn
  <2>2. t \in Ways(ns, p)
    BY <1>4, WaysIs
  <2>3. t \o << >> = t /\ << >> \in Seq(Titles)
    <3> HIDE DEF t
    <3> QED
      BY <1>2
  <2>4. n.title # "" => t # << >> /\ Head(t) = n.title
    BY <1>1, <2>3, TitleFirst
  <2> DEFINE r == Turn(n, p, cs, f)
  <2>5. r.found /\ r.crumbs = cs \o t
    BY <2>1
  <2> HIDE DEF t, r
  <2>6. FoundBy(ns, p, cs, i, r)
    BY <1>2, <2>2, <2>4, <2>5 DEF FoundBy
  <2> QED
    BY <1>4, <2>6 DEF Holds, r
<1>5. CASE n.path # p /\ n.children = << >>
  <2>1. p \notin ToSet(CollectPaths[n.children])
    BY <1>5, EmptyTree, PathsInside
  <2>2. ~Holds(n, p)
    BY <1>5, <2>1 DEF Holds
  <2> QED
    BY <1>5, <2>2 DEF Turn
<1>6. CASE n.path # p /\ n.children # << >> /\ p \in ToSet(CollectPaths[n.children])
  <2>1. PICK k \in DOMAIN n.children : FoundBy(n.children, p, with, k, below)
    BY <1>3, <1>6 DEF IsAnswer
  <2>2. PICK w \in Ways(n.children, p) \cap Seq(Titles) : below.crumbs = with \o w
    BY <2>1 DEF FoundBy
  <2>3. below.found
    BY <2>1 DEF FoundBy
  <2>4. Turn(n, p, cs, f) = below
    BY <1>6, <2>3 DEF Turn
  <2>5. t \o w \in Ways(ns, p)
    BY <2>2, WaysIs
  <2>6. t \o w \in Seq(Titles) /\ (n.title # "" => t \o w # << >> /\ Head(t \o w) = n.title)
    BY <1>1, <2>2, TitleFirst
  <2>7. with \o w = cs \o (t \o w)
    <3> HIDE DEF t
    <3> QED
      BY <1>2, <2>2, ConcatAssociative
  <2> HIDE DEF t, with, below
  <2>8. FoundBy(ns, p, cs, i, below)
    BY <2>2, <2>3, <2>5, <2>6, <2>7 DEF FoundBy
  <2> QED
    BY <1>6, <2>4, <2>8 DEF Holds
<1>7. CASE n.path # p /\ n.children # << >> /\ p \notin ToSet(CollectPaths[n.children])
  <2>1. below = [found |-> FALSE, crumbs |-> with]
    BY <1>3, <1>7 DEF IsAnswer
  <2>2. below.found = FALSE /\ below.crumbs = with
    <3> HIDE DEF below
    <3> QED
      BY <2>1
  <2>3. Turn(n, p, cs, f) = [found |-> FALSE, crumbs |-> SubSeq(with, 1, Len(cs))]
    BY <1>7, <2>2 DEF Turn
  <2>4. SubSeq(with, 1, Len(cs)) = cs
    <3> HIDE DEF t
    <3>1. /\ Len(with) = Len(cs) + Len(t) /\ Len(cs) \in Nat /\ Len(t) \in Nat
          /\ \A k \in 1..Len(cs) : with[k] = cs[k] /\ k \in 1..Len(with)
      BY <1>2, ConcatProperties, LenProperties
    <3> HIDE DEF with
    <3>2. SubSeq(with, 1, Len(cs)) = [k \in 1..Len(cs) |-> with[k]]
      BY <1>2, <3>1
    <3>3. cs = [k \in 1..Len(cs) |-> cs[k]]
      OBVIOUS
    <3> QED
      BY <3>1, <3>2, <3>3
  <2>5. ~Holds(n, p)
    BY <1>7 DEF Holds
  <2> QED
    BY <2>3, <2>4, <2>5
<1> QED
  BY <1>4, <1>5, <1>6, <1>7

LEMMA LoopAnswers ==
  ASSUME NEW p \in Paths, NEW ns \in Trees, NEW cs \in Seq(Titles), NEW f,
         \A i \in DOMAIN ns : \A c \in Seq(Titles) :
           IsAnswer(ns[i].children, p, c, f[ns[i].children][c]),
         NEW a, IsRun(a, ns, p, cs, f)
  PROVE  IsAnswer(ns, p, cs, a[Len(ns)])
<1> DEFINE N == Len(ns)
    hit(i) == Holds(ns[i], p)
    good(k) == IF \E i \in 1..k : hit(i)
               THEN \E i \in 1..k : IsFirst(i, ns, p) /\ FoundBy(ns, p, cs, i, a[k])
               ELSE a[k] = [found |-> FALSE, crumbs |-> cs]
    S == {k \in 0..N : good(k)}
<1>1. N \in Nat /\ DOMAIN ns = 1..N
  BY TreeNodes
<1>2. 0 \in S
  <2>1. a[0] = [found |-> FALSE, crumbs |-> cs]
    BY DEF IsRun
  <2>2. ~(\E i \in 1..0 : hit(i)) /\ 0 \in 0..N
    BY <1>1
  <2> QED
    BY <2>1, <2>2
<1>3. ASSUME NEW k \in 1..N, k - 1 \in S PROVE k \in S
  <2>1. /\ k \in 0..N /\ k \in Nat /\ k \in 1..k
        /\ 1..(k - 1) \subseteq 1..k /\ \A i \in 1..k : i \in 1..(k - 1) \/ i = k
    BY <1>1
  <2>2. a[k] = IF a[k - 1].found THEN a[k - 1] ELSE Turn(ns[k], p, a[k - 1].crumbs, f)
    BY DEF IsRun
  <2>3. CASE \E i \in 1..(k - 1) : hit(i)
    <3>1. PICK i \in 1..(k - 1) : IsFirst(i, ns, p) /\ FoundBy(ns, p, cs, i, a[k - 1])
      BY <1>3, <2>3
    <3>2. a[k] = a[k - 1]
      BY <2>2, <3>1 DEF FoundBy
    <3>3. good(k)
      BY <2>1, <2>3, <3>1, <3>2
    <3> QED
      BY <2>1, <3>3
  <2>4. CASE ~(\E i \in 1..(k - 1) : hit(i))
    <3>1. a[k - 1] = [found |-> FALSE, crumbs |-> cs]
      BY <1>3, <2>4
    <3>2. a[k] = Turn(ns[k], p, cs, f)
      BY <2>2, <3>1
    <3>3. IF hit(k) THEN FoundBy(ns, p, cs, k, a[k]) ELSE a[k] = [found |-> FALSE, crumbs |-> cs]
      BY <1>1, <3>2, TurnAnswers
    <3>4. CASE hit(k)
      <4>1. ASSUME NEW j \in DOMAIN ns, hit(j) PROVE k <= j
        BY <1>1, <2>4, <4>1
      <4>2. IsFirst(k, ns, p)
        BY <1>1, <3>4, <4>1 DEF IsFirst
      <4>3. good(k)
        BY <2>1, <3>3, <3>4, <4>2
      <4> QED
        BY <2>1, <4>3
    <3>5. CASE ~hit(k)
      <4>1. ~(\E i \in 1..k : hit(i))
        BY <2>1, <2>4, <3>5
      <4>2. good(k)
        BY <3>3, <3>5, <4>1
      <4> QED
        BY <2>1, <4>2
    <3> QED
      BY <3>4, <3>5
  <2> QED
    BY <2>3, <2>4
<1>4. \A k \in 0..N : k \in S
  <2> HIDE DEF S, N
  <2> QED
    BY <1>1, <1>2, <1>3, UpToN
<1>5. good(N)
  <2>1. N \in 0..N
    BY <1>1
  <2> HIDE DEF good, N
  <2> QED
    BY <1>4, <2>1
<1>6. p \in ToSet(CollectPaths[ns]) <=> \E i \in 1..N : hit(i)
  BY <1>1, PathsInside DEF Holds
<1> QED
  BY <1>1, <1>5, <1>6 DEF IsAnswer

\* findBreadcrumb returns what it is to return, and cuts off again what it tried.
THEOREM BreadcrumbFound ==
  ASSUME NEW p \in Paths
  PROVE  \A ns \in Trees : \A cs \in Seq(Titles) : IsAnswer(ns, p, cs, FindBreadcrumb(ns, p, cs))
<1>1. PICK find \in [Trees -> Searches] :
        \A ns \in Trees : \A cs \in Seq(Titles) :
          FindBreadcrumb(ns, p, cs) = find[ns][cs] /\ find[ns][cs] = Loop(ns, p, cs, find)
  BY FindBreadcrumbIs
<1> DEFINE S == {ns \in Trees : \A cs \in Seq(Titles) : IsAnswer(ns, p, cs, find[ns][cs])}
<1>2. ASSUME NEW ns \in Trees, \A i \in DOMAIN ns : ns[i].children \in S PROVE ns \in S
  <2>1. \A i \in DOMAIN ns : \A c \in Seq(Titles) :
          IsAnswer(ns[i].children, p, c, find[ns[i].children][c])
    BY <1>2
  <2>2. ASSUME NEW cs \in Seq(Titles) PROVE IsAnswer(ns, p, cs, find[ns][cs])
    <3>1. PICK a \in [0..Len(ns) -> Answers(cs)] : IsRun(a, ns, p, cs, find)
      BY RunExists
    <3>2. find[ns][cs] = a[Len(ns)]
      BY <1>1, <3>1, LoopIs
    <3>3. IsAnswer(ns, p, cs, a[Len(ns)])
      BY <2>1, <3>1, LoopAnswers
    <3> QED
      BY <3>2, <3>3
  <2> QED
    BY <2>2
<1>3. Trees \subseteq S
  <2> HIDE DEF S
  <2> QED
    BY <1>2, TreeInduction
<1> QED
  BY <1>1, <1>3

\* The breadcrumb of a page of the tree is a way to it and begins with the title
\* of its section; another page has neither.
LEMMA BuildBreadcrumbIs ==
  ASSUME NEW ns \in Trees, NEW p \in Paths
  PROVE  /\ BuildBreadcrumb(ns, p) \in Seq(Titles)
         /\ FindSection(ns, p) \in Titles \cup {""}
         /\ p \notin ToSet(CollectPaths[ns]) =>
              BuildBreadcrumb(ns, p) = << >> /\ FindSection(ns, p) = ""
         /\ p \in ToSet(CollectPaths[ns]) =>
              /\ BuildBreadcrumb(ns, p) \in Ways(ns, p)
              /\ FindSection(ns, p) # "" =>
                   /\ BuildBreadcrumb(ns, p) # << >>
                   /\ Head(BuildBreadcrumb(ns, p)) = FindSection(ns, p)
<1> DEFINE r == FindBreadcrumb(ns, p, << >>)
<1>1. << >> \in Seq(Titles)
  OBVIOUS
<1>2. IsAnswer(ns, p, << >>, r)
  BY <1>1, BreadcrumbFound
<1>3. BuildBreadcrumb(ns, p) = IF r.found THEN r.crumbs ELSE << >>
  BY DEF BuildBreadcrumb
<1> HIDE DEF r
<1>4. CASE p \notin ToSet(CollectPaths[ns])
  <2>1. r = [found |-> FALSE, crumbs |-> << >>]
    BY <1>2, <1>4 DEF IsAnswer
  <2>2. BuildBreadcrumb(ns, p) = << >>
    BY <1>3, <2>1
  <2>3. FindSection(ns, p) = ""
    BY <1>4, FindSectionIs
  <2> QED
    BY <1>1, <1>4, <2>2, <2>3
<1>5. CASE p \in ToSet(CollectPaths[ns])
  <2>1. PICK i \in DOMAIN ns : IsFirst(i, ns, p) /\ FoundBy(ns, p, << >>, i, r)
    BY <1>2, <1>5 DEF IsAnswer
  <2>2. PICK k \in DOMAIN ns : IsFirst(k, ns, p) /\ FindSection(ns, p) = ns[k].title
    BY <1>5, FindSectionIs
  <2>3. i = k
    <3>1. i \in Nat /\ k \in Nat
      BY TreeNodes
    <3>2. i <= k /\ k <= i
      BY <2>1, <2>2 DEF IsFirst
    <3> QED
      BY <3>1, <3>2
  <2>4. PICK way \in Ways(ns, p) \cap Seq(Titles) :
          /\ r.crumbs = << >> \o way
          /\ ns[i].title # "" => way # << >> /\ Head(way) = ns[i].title
    BY <2>1 DEF FoundBy
  <2>5. r.crumbs = way
    <3>1. << >> \o way = way
      OBVIOUS
    <3> QED
      BY <2>4, <3>1
  <2>6. BuildBreadcrumb(ns, p) = way
    BY <1>3, <2>1, <2>5 DEF FoundBy
  <2>7. FindSection(ns, p) \in Titles
    BY <2>2, TreeNodes DEF IsNode
  <2> QED
    BY <1>5, <2>2, <2>3, <2>4, <2>6, <2>7
<1> QED
  BY <1>4, <1>5

-----------------------------------------------------------------------------
(* collectSections and list_sections                                       *)

\* collectSections takes titles of the top level only.
LEMMA CollectSectionsIs ==
  ASSUME NEW ns \in Trees
  PROVE  CollectSections(ns) \in Seq({ns[i].title : i \in DOMAIN ns} \cap Titles)
<1> DEFINE T == {ns[i].title : i \in DOMAIN ns} \cap Titles
    part(i) == IF ns[i].children # << >> THEN OwnTitle(ns[i]) ELSE << >>
    parts == [i \in DOMAIN ns |-> part(i)]
<1>1. DOMAIN ns = 1..Len(ns) /\ Len(ns) \in Nat
  BY TreeNodes
<1>2. ASSUME NEW i \in DOMAIN ns PROVE part(i) \in Seq(T)
  <2>1. ns[i].title \in T
    BY TreeNodes DEF IsNode
  <2> HIDE DEF T
  <2>2. << >> \in Seq(T) /\ <<ns[i].title>> \in Seq(T)
    BY <2>1
  <2> QED
    BY <2>2 DEF OwnTitle
<1> HIDE DEF T, part
<1>3. parts \in [1..Len(ns) -> Seq(T)]
  BY <1>1, <1>2
<1>4. CollectSections(ns) = FlattenSeq(parts)
  BY DEF CollectSections, part
<1> HIDE DEF parts
<1>5. parts \in Seq(Seq(T))
  BY <1>1, <1>3
<1>6. CollectSections(ns) \in Seq(T)
  BY <1>4, <1>5, FlattenElements
<1> QED
  BY <1>6 DEF T

\* collectPageRefs goes through the nodes as collectPaths does.
THEOREM PageRefsAsPaths ==
  \A n \in Nodes : PagesBelow(n) = CollectPaths[n.children]
<1> DEFINE pages(n, f) == FlattenSeq([i \in DOMAIN n.children |-> f[n.children[i]]])
    h == [n \in Nodes |-> OwnPath(n) \o CollectPaths[n.children]]
<1>1. ASSUME NEW n \in Nodes
      PROVE  /\ n.children \in Trees
             /\ \A i \in DOMAIN n.children : n.children[i] \in Nodes
             /\ CollectPaths[n.children] = pages(n, h)
  <2>1. PICK ns \in Trees : n \in ToSet(ns)
    BY DEF Nodes
  <2>2. PICK i \in DOMAIN ns : n = ns[i]
    BY <2>1 DEF ToSet
  <2>3. n.children \in Trees
    BY <2>2, TreeNodes DEF IsNode
  <2>4. \A k \in DOMAIN n.children : n.children[k] \in Nodes
    BY <2>3, TreeNodes
  <2>5. [k \in DOMAIN n.children |-> OwnPath(n.children[k]) \o CollectPaths[n.children[k].children]]
          = [k \in DOMAIN n.children |-> h[n.children[k]]]
    BY <2>4
  <2>6. CollectPaths[n.children] = PathsOf(n.children, CollectPaths)
    BY <2>3, CollectPathsIs
  <2> HIDE DEF h
  <2> QED
    BY <2>3, <2>4, <2>5, <2>6 DEF PathsOf
<1>2. h = [n \in Nodes |-> OwnPath(n) \o pages(n, h)]
  <2> HIDE DEF pages
  <2>1. \A n \in Nodes : h[n] = OwnPath(n) \o pages(n, h)
    BY <1>1
  <2>2. h = [n \in Nodes |-> h[n]]
    OBVIOUS
  <2> HIDE DEF h
  <2> QED
    BY <2>1, <2>2
<1>3. CollectPageRefs = [n \in Nodes |-> OwnPath(n) \o pages(n, CollectPageRefs)]
  BY <1>2, Zenon DEF CollectPageRefs
<1> DEFINE S == {ns \in Trees : \A i \in DOMAIN ns : CollectPageRefs[ns[i]] = h[ns[i]]}
<1>4. ASSUME NEW ns \in Trees, \A i \in DOMAIN ns : ns[i].children \in S PROVE ns \in S
  <2>1. ASSUME NEW i \in DOMAIN ns PROVE CollectPageRefs[ns[i]] = h[ns[i]]
    <3> DEFINE n == ns[i]
    <3>1. n \in Nodes
      BY TreeNodes
    <3>2. \A k \in DOMAIN n.children : CollectPageRefs[n.children[k]] = h[n.children[k]]
      BY <1>4
    <3> HIDE DEF n, h
    <3>3. [k \in DOMAIN n.children |-> CollectPageRefs[n.children[k]]]
            = [k \in DOMAIN n.children |-> h[n.children[k]]]
      BY <3>2
    <3>4. pages(n, CollectPageRefs) = pages(n, h)
      BY <3>3
    <3> HIDE DEF pages
    <3>5. CollectPageRefs[n] = OwnPath(n) \o pages(n, CollectPageRefs)
      BY <1>3, <3>1, Zenon
    <3>6. h[n] = OwnPath(n) \o pages(n, h)
      BY <1>2, <3>1, Zenon
    <3>7. CollectPageRefs[n] = h[n]
      BY <3>4, <3>5, <3>6
    <3> QED
      BY <3>7 DEF n
  <2> QED
    BY <2>1
<1>5. Trees \subseteq S
  <2> HIDE DEF S
  <2> QED
    BY <1>4, TreeInduction
<1>6. ASSUME NEW n \in Nodes PROVE PagesBelow(n) = CollectPaths[n.children]
  <2>1. n.children \in S
    BY <1>1, <1>5
  <2>2. \A i \in DOMAIN n.children : CollectPageRefs[n.children[i]] = h[n.children[i]]
    BY <2>1
  <2> HIDE DEF h
  <2>3. [i \in DOMAIN n.children |-> CollectPageRefs[n.children[i]]]
          = [i \in DOMAIN n.children |-> h[n.children[i]]]
    BY <2>2
  <2> QED
    BY <1>1, <2>3 DEF PagesBelow
<1> QED
  BY <1>6

\* The pages of list_sections, one top-level node after the other, are the path
\* order; and it has a section for each title that collectSections takes.
THEOREM SectionsCoverTree ==
  ASSUME NEW ns \in Trees
  PROVE  /\ FlattenSeq([i \in DOMAIN ns |-> ListSections(ns)[i].pages]) = CollectPaths[ns]
         /\ Range(CollectSections(ns)) \subseteq {s.title : s \in Range(ListSections(ns))}
<1>1. \A i \in DOMAIN ns : ns[i] \in Nodes
  BY TreeNodes
<1>2. \A i \in DOMAIN ns : /\ i \in DOMAIN ListSections(ns)
                           /\ ListSections(ns)[i].pages = OwnPath(ns[i]) \o PagesBelow(ns[i])
                           /\ ListSections(ns)[i].title = ns[i].title
  BY DEF ListSections
<1>3. [i \in DOMAIN ns |-> ListSections(ns)[i].pages]
        = [i \in DOMAIN ns |-> OwnPath(ns[i]) \o CollectPaths[ns[i].children]]
  BY <1>1, <1>2, PageRefsAsPaths
<1>4. FlattenSeq([i \in DOMAIN ns |-> ListSections(ns)[i].pages]) = CollectPaths[ns]
  BY <1>3, CollectPathsIs DEF PathsOf
<1>5. Range(CollectSections(ns)) \subseteq {s.title : s \in Range(ListSections(ns))}
  <2> DEFINE T == {ns[i].title : i \in DOMAIN ns}
  <2>1. CollectSections(ns) \in Seq(T \cap Titles)
    BY CollectSectionsIs
  <2>2. Range(CollectSections(ns)) \subseteq T
    <3> HIDE DEF T
    <3> QED
      BY <2>1 DEF Range
  <2>3. T \subseteq {s.title : s \in Range(ListSections(ns))}
    BY <1>2 DEF Range
  <2> QED
    BY <2>2, <2>3
<1> QED
  BY <1>4, <1>5

-----------------------------------------------------------------------------
(* The specification                                                       *)

\* The navigation is what the parser made of mkdocs.yml, and each page placed
\* is where the searches of that tree put it.
NavInv ==
  /\ nav \in Navs /\ tree \in Trees
  /\ pc \in {"parse", "place", "done"}
  /\ pc = "parse" => tree = << >> /\ sections = << >> /\ pathOrder = << >> /\ DOMAIN placed = {}
  /\ pc # "parse" => /\ tree = ParseNavList[nav]
                     /\ sections = CollectSections(tree) /\ pathOrder = CollectPaths[tree]
  /\ DOMAIN placed \subseteq Paths
  /\ placed = [p \in DOMAIN placed |->
                 [section |-> FindSection(tree, p), crumbs |-> BuildBreadcrumb(tree, p)]]

LEMMA NavInvInit == Init => NavInv
<1> SUFFICES ASSUME Init PROVE NavInv
  OBVIOUS
<1>1. /\ nav \in Navs /\ pc = "parse"
      /\ tree = << >> /\ sections = << >> /\ pathOrder = << >>
      /\ placed = [p \in {} |-> None]
  BY DEF Init
<1>2. DOMAIN placed = {}
  BY <1>1
<1>3. placed = [p \in DOMAIN placed |->
                  [section |-> FindSection(tree, p), crumbs |-> BuildBreadcrumb(tree, p)]]
  BY <1>1, <1>2
<1> QED
  BY <1>1, <1>2, <1>3, EmptyTree DEF NavInv

LEMMA NavInvNext == NavInv /\ [Next]_vars => NavInv'
<1> SUFFICES ASSUME NavInv, [Next]_vars PROVE NavInv'
  OBVIOUS
<1> DEFINE at(t, p) == [section |-> FindSection(t, p), crumbs |-> BuildBreadcrumb(t, p)]
<1>1. ASSUME ParseMkDocs PROVE NavInv'
  <2>1. /\ pc = "parse" /\ nav \in Navs /\ DOMAIN placed = {}
        /\ pc' = "place" /\ nav' = nav /\ placed' = placed
        /\ tree' = ParseNavList[nav]
        /\ sections' = CollectSections(tree') /\ pathOrder' = CollectPaths[tree']
    BY <1>1 DEF NavInv, ParseMkDocs
  <2>2. tree' \in Trees
    BY <2>1, MadeByList
  <2>3. placed = [p \in DOMAIN placed |-> at(tree, p)]
    BY DEF NavInv
  <2> HIDE DEF at
  <2>4. placed' = [p \in DOMAIN placed' |-> at(tree', p)]
    BY <2>1, <2>3
  <2> QED
    BY <2>1, <2>2, <2>4 DEF NavInv, at
<1>2. ASSUME NEW p \in Paths, PlacePage(p) PROVE NavInv'
  <2>1. /\ pc = "place" /\ nav' = nav /\ tree' = tree
        /\ sections' = sections /\ pathOrder' = pathOrder
        /\ placed' = [q \in DOMAIN placed \cup {p} |-> IF q # p THEN placed[q] ELSE at(tree, p)]
        /\ pc' \in {"place", "done"}
    BY <1>2 DEF PlacePage
  <2>2. placed = [q \in DOMAIN placed |-> at(tree, q)]
    BY DEF NavInv
  <2>3. DOMAIN placed' = DOMAIN placed \cup {p} /\ DOMAIN placed \subseteq Paths
    BY <2>1 DEF NavInv
  <2> HIDE DEF at
  <2>4. placed' = [q \in DOMAIN placed' |-> at(tree', q)]
    <3>1. \A q \in DOMAIN placed : placed[q] = at(tree, q)
      BY <2>2
    <3> QED
      BY <2>1, <2>3, <3>1
  <2> QED
    BY <2>1, <2>3, <2>4 DEF NavInv, at
<1>3. CASE UNCHANGED vars
  BY <1>3 DEF NavInv, vars
<1> QED
  BY <1>1, <1>2, <1>3 DEF Next

LEMMA NavInvAlways == Spec => []NavInv
<1> QED
  BY NavInvInit, NavInvNext, PTL DEF Spec

\* What the searches of the tree, taken from the parser, have put in placed.
LEMMA PlacedIs ==
  ASSUME NavInv, NEW p \in DOMAIN placed
  PROVE  /\ p \in Paths /\ tree \in Trees /\ pathOrder = CollectPaths[tree]
         /\ placed[p].section = FindSection(tree, p)
         /\ placed[p].crumbs = BuildBreadcrumb(tree, p)
         /\ p \in Range(pathOrder) <=> p \in ToSet(CollectPaths[tree])
<1>1. p \in Paths /\ tree \in Trees
  BY DEF NavInv
<1>2. placed[p] = [section |-> FindSection(tree, p), crumbs |-> BuildBreadcrumb(tree, p)]
  BY DEF NavInv
<1>3. pathOrder = CollectPaths[tree]
  BY DEF NavInv
<1>4. Range(pathOrder) = ToSet(pathOrder)
  BY DEF Range, ToSet
<1> QED
  BY <1>1, <1>2, <1>3, <1>4

\* TypeOK: the sections and the breadcrumbs are titles, the path order is paths.
THEOREM TypeCorrect == Spec => []TypeOK
<1>1. NavInv => TypeOK
  <2> SUFFICES ASSUME NavInv PROVE TypeOK
    OBVIOUS
  <2>1. sections \in Seq(Titles) /\ pathOrder \in Seq(Paths)
    <3>1. CASE pc = "parse"
      BY <3>1 DEF NavInv
    <3>2. CASE pc # "parse"
      <4>1. CollectSections(tree) \in Seq({tree[i].title : i \in DOMAIN tree} \cap Titles)
        BY CollectSectionsIs DEF NavInv
      <4>2. CollectSections(tree) \in Seq(Titles)
        BY <4>1
      <4>3. CollectPaths[tree] \in Seq(Paths)
        BY CollectPathsIs DEF NavInv
      <4> QED
        BY <3>2, <4>2, <4>3 DEF NavInv
    <3> QED
      BY <3>1, <3>2
  <2> DEFINE at(p) == [section |-> FindSection(tree, p), crumbs |-> BuildBreadcrumb(tree, p)]
             R == [section : Titles \cup {""}, crumbs : Seq(Titles)]
  <2>2. ASSUME NEW p \in DOMAIN placed PROVE at(p) \in R
    BY BuildBreadcrumbIs DEF NavInv
  <2>3. placed = [p \in DOMAIN placed |-> at(p)]
    BY DEF NavInv
  <2> HIDE DEF at, R
  <2>4. placed \in [DOMAIN placed -> R]
    BY <2>2, <2>3
  <2> QED
    BY <2>1, <2>4 DEF NavInv, TypeOK, R
<1> QED
  BY <1>1, NavInvAlways, PTL

\* SectionHeadsBreadcrumb: findSection and findBreadcrumb, two searches that share
\* no code, agree on where a page is, on pages listed twice too.
THEOREM SectionHeadsBreadcrumbAlways == Spec => []SectionHeadsBreadcrumb
<1>1. NavInv => SectionHeadsBreadcrumb
  <2> SUFFICES ASSUME NavInv, NEW p \in DOMAIN placed
               PROVE  LET at == placed[p] IN
                      IF p \in Range(pathOrder)
                      THEN at.section # "" => at.crumbs # << >> /\ Head(at.crumbs) = at.section
                      ELSE at.crumbs = << >> /\ at.section = ""
    BY DEF SectionHeadsBreadcrumb
  <2>1. /\ p \in Paths /\ tree \in Trees
        /\ placed[p].section = FindSection(tree, p)
        /\ placed[p].crumbs = BuildBreadcrumb(tree, p)
        /\ p \in Range(pathOrder) <=> p \in ToSet(CollectPaths[tree])
    BY PlacedIs
  <2> QED
    BY <2>1, BuildBreadcrumbIs
<1> QED
  BY <1>1, NavInvAlways, PTL

\* BreadcrumbIsAWay: what findBreadcrumb appends for a section searched in vain is
\* not in the breadcrumb it returns.
THEOREM BreadcrumbIsAWayAlways == Spec => []BreadcrumbIsAWay
<1>1. NavInv => BreadcrumbIsAWay
  <2> SUFFICES ASSUME NavInv, NEW p \in DOMAIN placed, p \in Range(pathOrder)
               PROVE  placed[p].crumbs \in Ways(tree, p)
    BY DEF BreadcrumbIsAWay
  <2>1. /\ p \in Paths /\ tree \in Trees
        /\ placed[p].crumbs = BuildBreadcrumb(tree, p)
        /\ p \in ToSet(CollectPaths[tree])
    BY PlacedIs
  <2> QED
    BY <2>1, BuildBreadcrumbIs
<1> QED
  BY <1>1, NavInvAlways, PTL

\* SectionsCoverPathOrder: list_sections leaves out no page of the path order, in
\* its order, and no section that the parser names.
THEOREM SectionsCoverPathOrderAlways == Spec => []SectionsCoverPathOrder
<1>1. NavInv => SectionsCoverPathOrder
  <2> SUFFICES ASSUME NavInv, pc # "parse"
               PROVE  /\ FlattenSeq([i \in DOMAIN tree |-> ListSections(tree)[i].pages]) = pathOrder
                      /\ Range(sections) \subseteq {s.title : s \in Range(ListSections(tree))}
    BY DEF SectionsCoverPathOrder
  <2>1. tree \in Trees /\ sections = CollectSections(tree) /\ pathOrder = CollectPaths[tree]
    BY DEF NavInv
  <2> QED
    BY <2>1, SectionsCoverTree
<1> QED
  BY <1>1, NavInvAlways, PTL
=============================================================================
