-------------------------------- MODULE Recursion --------------------------------
(***************************************************************************)
(* Induction and recursion over 0..N and along a rank, and the elements of *)
(* sequences.  The library states induction for a predicate; here what is  *)
(* shown is a set, so that the lemmas can be cited for what the recursive  *)
(* functions of the models compute.                                        *)
(***************************************************************************)
EXTENDS Integers, SequencesExt, SequenceTheorems, FiniteSetTheorems, WellFoundedInduction,
        TLAPS

\* A set with 0 that holds, with each number, the next one up to N has
\* every number up to N.
THEOREM UpToN ==
  ASSUME NEW N \in Nat, NEW S, 0 \in S,
         \A n \in 1..N : n - 1 \in S => n \in S
  PROVE  \A n \in 0..N : n \in S
<1> DEFINE Missing == {n \in 0..N : n \notin S}
<1>1. SUFFICES ASSUME Missing # {} PROVE FALSE
  OBVIOUS
<1>2. Missing \subseteq Nat
  OBVIOUS
<1>3. PICK k \in Missing : \A n \in Missing : ~(<<n, k>> \in OpToRel(<, Nat))
  BY <1>1, <1>2, NatLessThanWellFounded, WFMin
<1>4. k \in 0..N /\ k \notin S /\ k # 0
  OBVIOUS
<1>5. k \in 1..N /\ k - 1 \in 0..N /\ k - 1 \in Nat
  BY <1>4
<1>6. k - 1 \notin Missing
  <2>1. <<k - 1, k>> \in OpToRel(<, Nat)
    BY <1>4, <1>5 DEF OpToRel
  <2> QED
    BY <1>3, <2>1
<1> QED
  BY <1>4, <1>5, <1>6

\* A set of numbers up to n that is not empty has a greatest.
THEOREM Greatest ==
  ASSUME NEW n \in Nat, NEW S, S \subseteq 0..n, S # {}
  PROVE  \E g \in S : \A h \in S : h <= g
<1> DEFINE Below == {n - g : g \in S}
<1>1. Below \subseteq Nat /\ Below # {}
  <2>1. \A g \in S : n - g \in Nat
    OBVIOUS
  <2>2. PICK g \in S : TRUE
    OBVIOUS
  <2>3. n - g \in Below
    BY <2>2
  <2> QED
    BY <2>1, <2>3
<1>2. PICK a \in Below : \A b \in Below : ~(<<b, a>> \in OpToRel(<, Nat))
  BY <1>1, NatLessThanWellFounded, WFMin
<1>3. PICK g \in S : a = n - g
  OBVIOUS
<1>4. ASSUME NEW h \in S
      PROVE  h <= g
  <2>1. n - h \in Below
    OBVIOUS
  <2>2. ~(<<n - h, a>> \in OpToRel(<, Nat))
    BY <1>2, <2>1
  <2>3. ~(n - h < a)
    BY <1>1, <2>1, <2>2 DEF OpToRel
  <2> QED
    BY <1>3, <2>3
<1> QED
  BY <1>4

\* And a least.
THEOREM Smallest ==
  ASSUME NEW n \in Nat, NEW S, S \subseteq 0..n, S # {}
  PROVE  \E l \in S : \A m \in S : l <= m
<1> DEFINE Above == {n - l : l \in S}
<1>1. Above \subseteq 0..n /\ Above # {}
  <2>1. \A l \in S : n - l \in 0..n
    OBVIOUS
  <2> QED
    BY <2>1
<1>2. PICK a \in Above : \A b \in Above : b <= a
  <2> HIDE DEF Above
  <2> QED
    BY <1>1, Greatest
<1>3. PICK l \in S : a = n - l
  OBVIOUS
<1>4. ASSUME NEW m \in S PROVE l <= m
  <2>1. n - m <= n - l /\ l \in Int /\ m \in Int
    BY <1>2, <1>3
  <2> QED
    BY <2>1
<1> QED
  BY <1>4

\* The functions that begin with v0 and go on, from each value to the next, as
\* G says.
Iterations(N, V, v0, G) ==
  {f \in [0..N -> V] : f[0] = v0 /\ \A n \in 1..N : f[n] = G[n][f[n - 1]]}

\* There is one.
THEOREM PrimitiveRecursion ==
  ASSUME NEW N \in Nat, NEW V, NEW v0 \in V, NEW G \in [1..N -> [V -> V]]
  PROVE  Iterations(N, V, v0, G) # {}
<1> DEFINE Begun(f, k) ==
      f \in [0..k -> V] /\ f[0] = v0 /\ \A n \in 1..k : f[n] = G[n][f[n - 1]]
    S == {k \in 0..N : \E f \in [0..k -> V] : Begun(f, k)}
<1>1. 0 \in S
  <2> DEFINE f == [x \in 0..0 |-> v0]
  <2>1. f \in [0..0 -> V] /\ Begun(f, 0)
    OBVIOUS
  <2>2. \E h \in [0..0 -> V] : Begun(h, 0)
    BY <2>1
  <2>3. 0 \in 0..N
    OBVIOUS
  <2> QED
    BY <2>2, <2>3
<1>2. ASSUME NEW k \in 1..N, k - 1 \in S
      PROVE  k \in S
  <2>1. PICK f \in [0..(k - 1) -> V] : Begun(f, k - 1)
    BY <1>2
  <2> DEFINE g == [x \in 0..k |-> IF x < k THEN f[x] ELSE G[k][f[k - 1]]]
  <2>2. G[k][f[k - 1]] \in V
    <3>1. k - 1 \in 0..(k - 1)
      OBVIOUS
    <3> QED
      BY <3>1
  <2>3. g \in [0..k -> V]
    BY <2>2
  <2>4. g[0] = v0
    BY <2>1
  <2>5. ASSUME NEW n \in 1..k PROVE g[n] = G[n][g[n - 1]]
    <3>1. n - 1 \in 0..(k - 1) /\ g[n - 1] = f[n - 1]
      OBVIOUS
    <3>2. CASE n < k
      BY <2>1, <3>1, <3>2
    <3>3. CASE n = k
      BY <3>1, <3>3
    <3> QED
      BY <3>2, <3>3
  <2>6. Begun(g, k)
    BY <2>3, <2>4, <2>5
  <2> HIDE DEF g, Begun
  <2>7. k \in 0..N
    OBVIOUS
  <2> QED
    BY <2>3, <2>6, <2>7
<1>3. N \in S
  <2> HIDE DEF S
  <2>1. \A n \in 1..N : n - 1 \in S => n \in S
    BY <1>2
  <2>2. \A n \in 0..N : n \in S
    BY <1>1, <2>1, UpToN
  <2> QED
    BY <2>2
<1> QED
  BY <1>3 DEF Iterations

\* What goes on as G says stays where G leads.
THEOREM IterationStays ==
  ASSUME NEW N \in Nat, NEW V, NEW v0 \in V, NEW G \in [1..N -> [V -> V]],
         NEW g, g[0] = v0, \A n \in 1..N : g[n] = G[n][g[n - 1]]
  PROVE  \A n \in 0..N : g[n] \in V
<1> DEFINE S == {n \in 0..N : g[n] \in V}
<1>1. 0 \in S
  OBVIOUS
<1>2. ASSUME NEW n \in 1..N, n - 1 \in S PROVE n \in S
  <2>1. g[n] = G[n][g[n - 1]] /\ g[n - 1] \in V
    BY <1>2
  <2>2. G[n][g[n - 1]] \in V
    BY <2>1
  <2> QED
    BY <2>1, <2>2
<1>3. \A n \in 0..N : n \in S
  <2> HIDE DEF S
  <2> QED
    BY <1>1, <1>2, UpToN
<1> QED
  BY <1>3

-----------------------------------------------------------------------------
(* Induction and recursion along a rank                                    *)

\* A set that has each element of D all of whose predecessors it has.
THEOREM RankInduction ==
  ASSUME NEW D, NEW rank \in [D -> Nat], NEW S,
         \A d \in D : (\A e \in D : rank[e] < rank[d] => e \in S) => d \in S
  PROVE  D \subseteq S
<1> DEFINE Missing == {rank[d] : d \in D \ S}
<1>1. SUFFICES ASSUME NEW c \in D, c \notin S PROVE FALSE
  OBVIOUS
<1>2. Missing \subseteq Nat /\ Missing # {}
  BY <1>1
<1>3. PICK k \in Missing : \A n \in Missing : ~(<<n, k>> \in OpToRel(<, Nat))
  BY <1>2, NatLessThanWellFounded, WFMin
<1>4. PICK d \in D \ S : k = rank[d]
  OBVIOUS
<1>5. ASSUME NEW e \in D, rank[e] < rank[d] PROVE e \in S
  <2>1. <<rank[e], k>> \in OpToRel(<, Nat)
    BY <1>4, <1>5 DEF OpToRel
  <2>2. rank[e] \notin Missing
    BY <1>3, <2>1
  <2> QED
    BY <2>2
<1> QED
  BY <1>4, <1>5

\* The functions from D to V whose value at d is what G makes, at d, of the
\* function itself.
Solutions(D, V, G) == {f \in [D -> V] : \A d \in D : f[d] = G[d][f]}

\* G looks only at values of lower rank.
LooksLower(D, rank, V, G) ==
  \A d \in D : \A f, g \in [D -> V] :
    (\A e \in D : rank[e] < rank[d] => f[e] = g[e]) => G[d][f] = G[d][g]

\* Then there is one.
THEOREM RankRecursion ==
  ASSUME NEW D, NEW rank \in [D -> Nat], NEW V, V # {},
         NEW G \in [D -> [[D -> V] -> V]], LooksLower(D, rank, V, G)
  PROVE  Solutions(D, V, G) # {}
<1> DEFINE Upto(n) == {f \in [D -> V] : \A d \in D : rank[d] < n => f[d] = G[d][f]}
\* Two functions that are right up to n agree up to n.
<1>1. ASSUME NEW n \in Nat, NEW f \in Upto(n), NEW g \in Upto(n)
      PROVE  \A d \in D : rank[d] < n => f[d] = g[d]
  <2> DEFINE S == {d \in D : rank[d] < n => f[d] = g[d]}
  <2>1. ASSUME NEW d \in D, \A e \in D : rank[e] < rank[d] => e \in S PROVE d \in S
    <3>1. SUFFICES ASSUME rank[d] < n PROVE f[d] = g[d]
      OBVIOUS
    <3>2. ASSUME NEW e \in D, rank[e] < rank[d] PROVE f[e] = g[e]
      <4>1. rank[e] \in Nat /\ rank[d] \in Nat
        OBVIOUS
      <4>2. rank[e] < n
        BY <3>1, <3>2, <4>1
      <4> QED
        BY <2>1, <3>2, <4>2
    <3>3. G[d][f] = G[d][g]
      BY <3>2 DEF LooksLower
    <3>4. f[d] = G[d][f] /\ g[d] = G[d][g]
      BY <3>1
    <3> QED
      BY <3>3, <3>4
  <2>2. D \subseteq S
    <3> HIDE DEF S, Upto
    <3> QED
      BY <2>1, RankInduction
  <2> QED
    BY <2>2
\* From one that is right up to n comes one that is right up to n + 1.
<1>2. ASSUME NEW n \in Nat, NEW f \in Upto(n)
      PROVE  [d \in D |-> G[d][f]] \in Upto(n + 1)
  <2> DEFINE g == [d \in D |-> G[d][f]]
  <2>1. f \in [D -> V] /\ g \in [D -> V]
    OBVIOUS
  <2>2. ASSUME NEW d \in D, rank[d] < n + 1 PROVE g[d] = G[d][g]
    <3>1. ASSUME NEW e \in D, rank[e] < rank[d] PROVE f[e] = g[e]
      <4>1. rank[e] \in Nat /\ rank[d] \in Nat
        OBVIOUS
      <4>2. rank[e] < n
        BY <2>2, <3>1, <4>1
      <4> QED
        BY <4>2
    <3>2. G[d][f] = G[d][g]
      <4> HIDE DEF g
      <4> QED
        BY <2>1, <3>1 DEF LooksLower
    <3> QED
      BY <3>2
  <2> QED
    BY <2>1, <2>2
<1>3. \A n \in Nat : Upto(n) # {}
  <2> SUFFICES ASSUME NEW N \in Nat PROVE Upto(N) # {}
    OBVIOUS
  <2> DEFINE S == {n \in 0..N : Upto(n) # {}}
  <2>1. 0 \in S
    <3>1. PICK v \in V : TRUE
      OBVIOUS
    <3>2. [d \in D |-> v] \in [D -> V]
      OBVIOUS
    <3>3. \A d \in D : ~(rank[d] < 0)
      OBVIOUS
    <3>4. [d \in D |-> v] \in Upto(0)
      BY <3>2, <3>3
    <3> QED
      BY <3>4
  <2>2. ASSUME NEW n \in 1..N, n - 1 \in S PROVE n \in S
    <3>1. PICK f : f \in Upto(n - 1)
      BY <2>2
    <3>2. n - 1 \in Nat /\ (n - 1) + 1 = n /\ n \in 0..N
      OBVIOUS
    <3> HIDE DEF Upto
    <3>3. [d \in D |-> G[d][f]] \in Upto(n)
      BY <1>2, <3>1, <3>2
    <3> QED
      BY <3>2, <3>3
  <2>3. \A n \in 0..N : n \in S
    <3> HIDE DEF S
    <3> QED
      BY <2>1, <2>2, UpToN
  <2>4. N \in 0..N
    OBVIOUS
  <2> HIDE DEF Upto
  <2> QED
    BY <2>3, <2>4
<1> DEFINE F(n) == CHOOSE f : f \in Upto(n)
    h == [d \in D |-> F(rank[d] + 1)[d]]
<1>4. \A n \in Nat : F(n) \in Upto(n)
  <2> HIDE DEF Upto
  <2> QED
    BY <1>3
<1> HIDE DEF F
<1>5. \A d \in D : rank[d] \in Nat /\ rank[d] + 1 \in Nat
  OBVIOUS
<1>6. h \in [D -> V]
  <2>1. \A d \in D : F(rank[d] + 1)[d] \in V
    BY <1>4, <1>5
  <2> QED
    BY <2>1
<1>7. ASSUME NEW d \in D PROVE h[d] = G[d][h]
  <2> DEFINE f == F(rank[d] + 1)
  <2>1. f \in Upto(rank[d] + 1)
    BY <1>4, <1>5
  <2>2. h[d] = f[d] /\ f[d] = G[d][f]
    BY <1>5, <2>1
  <2>3. ASSUME NEW e \in D, rank[e] < rank[d] PROVE f[e] = h[e]
    <3>1. F(rank[e] + 1) \in Upto(rank[e] + 1)
      BY <1>4, <1>5
    <3>2. f \in Upto(rank[e] + 1)
      <4>1. \A c \in D : rank[c] < rank[e] + 1 => rank[c] < rank[d] + 1
        BY <1>5, <2>3
      <4> HIDE DEF f
      <4> QED
        BY <2>1, <4>1
    <3>3. rank[e] + 1 \in Nat /\ rank[e] < rank[e] + 1
      BY <1>5
    <3> HIDE DEF f, Upto
    <3>4. f[e] = F(rank[e] + 1)[e]
      BY <1>1, <3>1, <3>2, <3>3
    <3> QED
      BY <3>4
  <2>4. f \in [D -> V]
    BY <2>1
  <2> HIDE DEF f, h
  <2>5. G[d][f] = G[d][h]
    BY <1>6, <2>3, <2>4 DEF LooksLower
  <2> QED
    BY <2>2, <2>5
<1> QED
  <2> HIDE DEF h
  <2> QED
    BY <1>6, <1>7 DEF Solutions

-----------------------------------------------------------------------------
(* Sequences and what is in them                                           *)

LEMMA ToSetIn ==
  ASSUME NEW T, NEW s \in Seq(T)
  PROVE  /\ ToSet(s) \subseteq T
         /\ DOMAIN s = 1..Len(s) /\ Len(s) \in Nat
         /\ \A i \in 1..Len(s) : s[i] \in ToSet(s)
         /\ \A x \in ToSet(s) : \E i \in 1..Len(s) : x = s[i]
  BY DEF ToSet

LEMMA AppendElements ==
  ASSUME NEW T, NEW s \in Seq(T), NEW x \in T
  PROVE  /\ Append(s, x) \in Seq(T)
         /\ ToSet(Append(s, x)) = ToSet(s) \cup {x}
         /\ IsInjective(s) /\ x \notin ToSet(s) => IsInjective(Append(s, x))
<1>1. /\ Append(s, x) \in Seq(T) /\ Len(Append(s, x)) = Len(s) + 1
      /\ DOMAIN Append(s, x) = 1..(Len(s) + 1) /\ DOMAIN s = 1..Len(s) /\ Len(s) \in Nat
      /\ \A i \in 1..Len(s) : Append(s, x)[i] = s[i]
      /\ Append(s, x)[Len(s) + 1] = x
  BY AppendProperties
<1>2. ToSet(Append(s, x)) = ToSet(s) \cup {x}
  <2>1. \A y \in ToSet(s) \cup {x} : \E i \in 1..(Len(s) + 1) : Append(s, x)[i] = y
    BY <1>1 DEF ToSet
  <2>2. \A i \in 1..(Len(s) + 1) : Append(s, x)[i] \in ToSet(s) \cup {x}
    BY <1>1 DEF ToSet
  <2> QED
    BY <1>1, <2>1, <2>2 DEF ToSet
<1>3. ASSUME IsInjective(s), x \notin ToSet(s) PROVE IsInjective(Append(s, x))
  BY <1>1, <1>3 DEF ToSet, IsInjective
<1> QED
  BY <1>1, <1>2, <1>3

LEMMA ConcatElements ==
  ASSUME NEW T, NEW s \in Seq(T), NEW t \in Seq(T)
  PROVE  /\ s \o t \in Seq(T)
         /\ ToSet(s \o t) = ToSet(s) \cup ToSet(t)
         /\ IsInjective(s) /\ IsInjective(t) /\ ToSet(s) \cap ToSet(t) = {}
              => IsInjective(s \o t)
<1>1. /\ s \o t \in Seq(T) /\ Len(s \o t) = Len(s) + Len(t)
      /\ DOMAIN (s \o t) = 1..(Len(s) + Len(t))
      /\ DOMAIN s = 1..Len(s) /\ DOMAIN t = 1..Len(t)
      /\ Len(s) \in Nat /\ Len(t) \in Nat
      /\ \A i \in 1..(Len(s) + Len(t)) :
           (s \o t)[i] = IF i <= Len(s) THEN s[i] ELSE t[i - Len(s)]
  BY ConcatProperties
<1>2. ToSet(s \o t) = ToSet(s) \cup ToSet(t)
  <2>1. ASSUME NEW i \in 1..Len(s) PROVE s[i] \in ToSet(s \o t)
    BY <1>1 DEF ToSet
  <2>2. ASSUME NEW i \in 1..Len(t) PROVE t[i] \in ToSet(s \o t)
    <3>1. i + Len(s) \in 1..(Len(s) + Len(t)) /\ (i + Len(s)) - Len(s) = i /\ ~(i + Len(s) <= Len(s))
      BY <1>1
    <3>2. (s \o t)[i + Len(s)] = t[i]
      BY <1>1, <3>1
    <3> QED
      BY <1>1, <3>1, <3>2 DEF ToSet
  <2>3. ASSUME NEW i \in 1..(Len(s) + Len(t)) PROVE (s \o t)[i] \in ToSet(s) \cup ToSet(t)
    BY <1>1 DEF ToSet
  <2> QED
    BY <1>1, <2>1, <2>2, <2>3 DEF ToSet
<1>3. ASSUME IsInjective(s), IsInjective(t), ToSet(s) \cap ToSet(t) = {}
      PROVE  IsInjective(s \o t)
  <2> SUFFICES ASSUME NEW i \in 1..(Len(s) + Len(t)), NEW j \in 1..(Len(s) + Len(t)),
                      (s \o t)[i] = (s \o t)[j]
               PROVE  i = j
    BY <1>1 DEF IsInjective
  <2>1. CASE i <= Len(s) /\ j <= Len(s)
    BY <1>1, <1>3, <2>1 DEF IsInjective
  <2>2. CASE ~(i <= Len(s)) /\ ~(j <= Len(s))
    <3>1. i - Len(s) \in 1..Len(t) /\ j - Len(s) \in 1..Len(t)
      BY <1>1, <2>2
    <3>2. t[i - Len(s)] = t[j - Len(s)]
      BY <1>1, <2>2
    <3>3. i - Len(s) = j - Len(s)
      BY <1>1, <1>3, <3>1, <3>2 DEF IsInjective
    <3> QED
      BY <1>1, <3>3
  <2>3. ASSUME NEW k \in 1..Len(s), NEW l \in 1..Len(t) PROVE s[k] # t[l]
    BY <1>1, <1>3 DEF ToSet
  <2>4. CASE i <= Len(s) /\ ~(j <= Len(s))
    BY <1>1, <2>3, <2>4
  <2>5. CASE ~(i <= Len(s)) /\ j <= Len(s)
    BY <1>1, <2>3, <2>5
  <2> QED
    BY <2>1, <2>2, <2>4, <2>5
<1> QED
  BY <1>1, <1>2, <1>3

\* The elements of a sequence are finitely many.
LEMMA ToSetFinite ==
  ASSUME NEW T, NEW s \in Seq(T)
  PROVE  IsFiniteSet(ToSet(s)) /\ Cardinality(ToSet(s)) \in Nat
<1>1. s \in Surjection(1..Len(s), ToSet(s))
  BY ToSetIn DEF Surjection, ToSet
<1>2. IsFiniteSet(1..Len(s))
  BY FS_Interval, ToSetIn
<1>3. IsFiniteSet(ToSet(s))
  BY <1>1, <1>2, FS_Surjection
<1> QED
  BY <1>3, FS_CardinalityType

\* A finite set in any order: all its elements, each once.
LEMMA AnyOrder ==
  ASSUME NEW S, IsFiniteSet(S), NEW s \in SetToSeqs(S)
  PROVE  /\ s \in Seq(S) /\ Len(s) = Cardinality(S)
         /\ ToSet(s) = S /\ IsInjective(s)
<1> DEFINE n == Cardinality(S)
<1>1. n \in Nat
  BY FS_CardinalityType
<1>2. s \in [1..n -> S] /\ \A i, j \in 1..n : i # j => s[i] # s[j]
  BY DEF SetToSeqs
<1>3. s \in Seq(S) /\ Len(s) = n /\ IsInjective(s)
  BY <1>1, <1>2 DEF IsInjective
<1>4. s \in Injection(1..n, S)
  BY <1>2, <1>3 DEF Injection
<1>5. Cardinality(1..n) = n
  BY <1>1, FS_Interval
<1>6. s \in Surjection(1..n, S)
  <2> HIDE DEF n
  <2>1. n = Cardinality(S)
    BY DEF n
  <2> QED
    BY <1>4, <1>5, <2>1, FS_Injection
<1>7. ToSet(s) = S
  BY <1>2, <1>3, <1>6 DEF ToSet, Surjection
<1> QED
  BY <1>3, <1>7

\* A concatenation has the elements of its parts.
LEMMA FlattenElements ==
  ASSUME NEW T, NEW s \in Seq(Seq(T))
  PROVE  /\ FlattenSeq(s) \in Seq(T)
         /\ ToSet(FlattenSeq(s)) = UNION {ToSet(s[i]) : i \in 1..Len(s)}
<1> DEFINE N == Len(s)
    Body(f) == [i \in 1..N |-> IF i = 1 THEN s[i] ELSE f[i - 1] \o s[i]]
    G == [i \in 1..N |-> [u \in Seq(T) |-> IF i = 1 THEN s[i] ELSE u \o s[i]]]
<1>1. N \in Nat /\ << >> \in Seq(T) /\ \A i \in 1..N : s[i] \in Seq(T)
  OBVIOUS
<1>2. CASE N = 0
  <2>1. FlattenSeq(s) = s /\ s = << >>
    BY <1>2 DEF FlattenSeq
  <2> QED
    BY <1>1, <1>2, <2>1 DEF ToSet
<1>3. CASE N # 0
  <2>1. G \in [1..N -> [Seq(T) -> Seq(T)]]
    BY <1>1
  <2>2. PICK f \in Iterations(N, Seq(T), << >>, G) : TRUE
    <3> HIDE DEF G, N
    <3> QED
      BY <1>1, <2>1, PrimitiveRecursion, ZenonT(60)
  <2>3. f \in [0..N -> Seq(T)]
    BY <2>2 DEF Iterations
  <2>4. \A i \in 1..N : f[i] = IF i = 1 THEN s[i] ELSE f[i - 1] \o s[i]
    <3>1. \A i \in 1..N : i - 1 \in 0..N
      BY <1>1
    <3>2. \A i \in 1..N : f[i - 1] \in Seq(T)
      BY <2>3, <3>1
    <3> QED
      BY <2>2, <3>2 DEF Iterations
  <2> DEFINE h == [i \in 1..N |-> f[i]]
  <2>5. h = Body(h)
    <3>1. \A i \in 1..N : i = 1 \/ i - 1 \in 1..N
      BY <1>1
    <3>2. \A i \in 1..N : h[i] = Body(h)[i]
      BY <2>4, <3>1
    <3> QED
      BY <3>2
  <2>6. PICK g : g = Body(g) /\ FlattenSeq(s) = g[N]
    <3> HIDE DEF h
    <3> QED
      BY <1>3, <2>5, Zenon DEF FlattenSeq
  <2>7. \A i \in 1..N : g[i] = IF i = 1 THEN s[i] ELSE g[i - 1] \o s[i]
    BY <2>6
  <2> DEFINE Sets(i) == UNION {ToSet(s[k]) : k \in 1..i}
             Good == {i \in 0..N : i = 0 \/ (g[i] \in Seq(T) /\ ToSet(g[i]) = Sets(i))}
  <2>8. 0 \in Good
    BY <1>1
  <2>9. ASSUME NEW i \in 1..N, i - 1 \in Good PROVE i \in Good
    <3>1. i \in 0..N /\ s[i] \in Seq(T)
      BY <1>1
    <3>2. CASE i = 1
      <4>1. g[1] = s[1]
        BY <2>7, <3>2
      <4>2. Sets(1) = ToSet(s[1])
        <5>1. \A k \in 1..1 : k = 1
          OBVIOUS
        <5> QED
          BY <5>1
      <4> QED
        BY <3>1, <3>2, <4>1, <4>2
    <3>3. CASE i # 1
      <4>1. g[i - 1] \in Seq(T) /\ ToSet(g[i - 1]) = Sets(i - 1)
        BY <2>9, <3>3
      <4>2. g[i] = g[i - 1] \o s[i]
        BY <2>7, <3>3
      <4>3. g[i] \in Seq(T) /\ ToSet(g[i]) = Sets(i - 1) \cup ToSet(s[i])
        BY <3>1, <4>1, <4>2, ConcatElements
      <4>4. Sets(i) = Sets(i - 1) \cup ToSet(s[i])
        <5>1. \A k \in 1..i : k \in 1..(i - 1) \/ k = i
          BY <1>1
        <5>2. 1..(i - 1) \subseteq 1..i /\ i \in 1..i
          BY <1>1
        <5> QED
          BY <5>1, <5>2
      <4> QED
        BY <3>1, <4>3, <4>4
    <3> QED
      BY <3>2, <3>3
  <2>10. \A i \in 0..N : i \in Good
    <3> HIDE DEF Good
    <3> QED
      BY <1>1, <2>8, <2>9, UpToN
  <2>11. g[N] \in Seq(T) /\ ToSet(g[N]) = Sets(N)
    <3>1. N \in 0..N /\ N \in Good
      <4> HIDE DEF Good
      <4> QED
        BY <1>1, <2>10
    <3> HIDE DEF Sets
    <3> QED
      BY <1>3, <3>1
  <2> QED
    BY <2>6, <2>11
<1> QED
  BY <1>2, <1>3
=============================================================================
