------------------------------ MODULE SearchProofs ------------------------------
(***************************************************************************)
(* What the index run and the search tools guarantee, for any words,       *)
(* pages, navigations, queries and limits.  First of the operators of      *)
(* Documents: how a text is selected from, that the exchange sort sorts,   *)
(* and what the keywords of a page are; then of buildExcerpt alone, for    *)
(* any content, place of a match and length wanted; then of Search.        *)
(***************************************************************************)
EXTENDS Search, Recursion

-----------------------------------------------------------------------------
(* Keep and Map                                                            *)

\* The elements of the first i places of s.
Upto(s, i) == {s[k] : k \in 1..i}

LEMMA UptoStep ==
  ASSUME NEW T, NEW s \in Seq(T), NEW i \in 1..Len(s)
  PROVE  /\ Upto(s, i) = Upto(s, i - 1) \cup {s[i]}
         /\ IsInjective(s) => s[i] \notin Upto(s, i - 1)
<1>1. Len(s) \in Nat /\ DOMAIN s = 1..Len(s)
  OBVIOUS
<1>2. \A k \in 1..i : k \in 1..(i - 1) \/ k = i
  BY <1>1
<1>3. 1..(i - 1) \subseteq 1..i /\ i \in 1..i /\ i \notin 1..(i - 1)
  BY <1>1
<1>4. Upto(s, i) = Upto(s, i - 1) \cup {s[i]}
  BY <1>2, <1>3 DEF Upto
<1>5. 1..(i - 1) \subseteq 1..Len(s)
  BY <1>1
<1>6. IsInjective(s) => s[i] \notin Upto(s, i - 1)
  BY <1>1, <1>3, <1>5 DEF Upto, IsInjective
<1> QED
  BY <1>4, <1>6

LEMMA KeepElements ==
  ASSUME NEW T, NEW s \in Seq(T), NEW S
  PROVE  /\ Keep(s, S) \in Seq(T)
         /\ ToSet(Keep(s, S)) = ToSet(s) \cap S
         /\ IsInjective(s) => IsInjective(Keep(s, S))
<1> DEFINE N == Len(s)
    Kept(k, x) == IF x \in S THEN Append(k, x) ELSE k
    Body(f) == [i \in 0..N |-> IF i = 0 THEN << >> ELSE Kept(f[i - 1], s[i])]
    G == [i \in 1..N |-> [k \in Seq(T) |-> Kept(k, s[i])]]
<1>1. N \in Nat /\ << >> \in Seq(T) /\ \A i \in 1..N : s[i] \in T
  OBVIOUS
<1>2. G \in [1..N -> [Seq(T) -> Seq(T)]]
  BY <1>1
<1>3. PICK f \in Iterations(N, Seq(T), << >>, G) : TRUE
  <2> HIDE DEF G, N
  <2> QED
    BY <1>1, <1>2, PrimitiveRecursion, ZenonT(60)
<1>4. f \in [0..N -> Seq(T)] /\ f[0] = << >>
  BY <1>3 DEF Iterations
<1>5. \A i \in 1..N : f[i] = Kept(f[i - 1], s[i])
  <2>1. \A i \in 1..N : i - 1 \in 0..N
    BY <1>1
  <2>2. \A i \in 1..N : f[i - 1] \in Seq(T)
    BY <1>4, <2>1
  <2> QED
    BY <1>3, <2>2 DEF Iterations
<1>6. f = Body(f)
  <2> HIDE DEF Kept
  <2>1. \A i \in 0..N : f[i] = Body(f)[i]
    BY <1>1, <1>4, <1>5
  <2> QED
    BY <1>4, <2>1
<1>7. PICK g : g = Body(g) /\ Keep(s, S) = g[N]
  BY <1>6, Zenon DEF Keep
<1>8. g[0] = << >> /\ \A i \in 1..N : g[i] = Kept(g[i - 1], s[i])
  <2> HIDE DEF Kept
  <2> QED
    BY <1>1, <1>7
<1> DEFINE Good == {i \in 0..N : /\ g[i] \in Seq(T)
                                 /\ ToSet(g[i]) = Upto(s, i) \cap S
                                 /\ IsInjective(s) => IsInjective(g[i])}
<1>9. 0 \in Good
  <2>1. Upto(s, 0) = {} /\ ToSet(<< >>) = {} /\ IsInjective(<< >>)
    BY DEF Upto, ToSet, IsInjective
  <2> QED
    <3>1. g[0] \in Seq(T) /\ ToSet(g[0]) = Upto(s, 0) \cap S /\ IsInjective(g[0])
      BY <1>1, <1>8, <2>1
    <3>2. 0 \in 0..N
      BY <1>1
    <3> QED
      BY <3>1, <3>2
<1>10. ASSUME NEW i \in 1..N, i - 1 \in Good PROVE i \in Good
  <2>1. /\ g[i - 1] \in Seq(T) /\ s[i] \in T
        /\ ToSet(g[i - 1]) = Upto(s, i - 1) \cap S
        /\ IsInjective(s) => IsInjective(g[i - 1])
        /\ i \in 0..N
    BY <1>1, <1>10
  <2>2. /\ Upto(s, i) = Upto(s, i - 1) \cup {s[i]}
        /\ IsInjective(s) => s[i] \notin Upto(s, i - 1)
    BY UptoStep
  <2>3. CASE s[i] \in S
    <3>1. g[i] = Append(g[i - 1], s[i])
      BY <1>8, <2>3
    <3>2. /\ g[i] \in Seq(T)
          /\ ToSet(g[i]) = ToSet(g[i - 1]) \cup {s[i]}
          /\ IsInjective(g[i - 1]) /\ s[i] \notin ToSet(g[i - 1]) => IsInjective(g[i])
      BY <2>1, <3>1, AppendElements
    <3>3. ToSet(g[i]) = Upto(s, i) \cap S
      BY <2>1, <2>2, <2>3, <3>2
    <3>4. IsInjective(s) => IsInjective(g[i])
      BY <2>1, <2>2, <3>2
    <3> QED
      BY <2>1, <3>2, <3>3, <3>4
  <2>4. CASE s[i] \notin S
    <3>1. g[i] = g[i - 1]
      BY <1>8, <2>4
    <3> QED
      BY <2>1, <2>2, <2>4, <3>1
  <2> QED
    BY <2>3, <2>4
<1>11. \A i \in 0..N : i \in Good
  <2> HIDE DEF Good
  <2> QED
    BY <1>1, <1>9, <1>10, UpToN
<1>12. Upto(s, N) = ToSet(s)
  BY DEF Upto, ToSet
<1> QED
  BY <1>1, <1>7, <1>11, <1>12

LEMMA MapType ==
  ASSUME NEW T, NEW U, NEW f \in [T -> U], NEW s \in Seq(T)
  PROVE  /\ Map(f, s) \in Seq(U) /\ Len(Map(f, s)) = Len(s)
         /\ \A i \in 1..Len(s) : Map(f, s)[i] = f[s[i]]
  BY DEF Map

\* An element is counted if it is there.
LEMMA CountedTimes ==
  ASSUME NEW T, NEW s \in Seq(T), NEW x
  PROVE  /\ TimesIn(x, s) \in Nat
         /\ TimesIn(x, s) > 0 <=> x \in ToSet(s)
<1> DEFINE P == {i \in DOMAIN s : s[i] = x}
<1>1. IsFiniteSet(1..Len(s))
  BY FS_Interval, ToSetIn
<1>2. P \subseteq 1..Len(s)
  OBVIOUS
<1>3. IsFiniteSet(P)
  BY <1>1, <1>2, FS_Subset
<1>4. Cardinality(P) \in Nat /\ (Cardinality(P) = 0 <=> P = {})
  BY <1>3, FS_CardinalityType, FS_EmptySet
<1>5. P = {} <=> x \notin ToSet(s)
  BY DEF ToSet
<1>6. TimesIn(x, s) = Cardinality(P)
  BY DEF TimesIn
<1> HIDE DEF P
<1> QED
  BY <1>4, <1>5, <1>6

-----------------------------------------------------------------------------
(* The exchange sort                                                       *)

\* t has the elements of s, as often as s when s has each once.
Rearranged(T, s, t) ==
  /\ t \in Seq(T) /\ Len(t) = Len(s) /\ ToSet(t) = ToSet(s)
  /\ IsInjective(s) => IsInjective(t)

LEMMA RearrangedTwice ==
  ASSUME NEW T, NEW s, NEW t, NEW u, Rearranged(T, s, t), Rearranged(T, t, u)
  PROVE  Rearranged(T, s, u)
  BY DEF Rearranged

\* t is s with the words at i and j in order.
Ordered(T, val, s, i, j, t) ==
  /\ Rearranged(T, s, t)
  /\ val[t[i]] >= val[s[i]] /\ val[t[i]] >= val[t[j]]
  /\ \A k \in 1..Len(s) : k # i /\ k # j => t[k] = s[k]
  /\ {t[i], t[j]} = {s[i], s[j]}

LEMMA InOrderStep ==
  ASSUME NEW T, NEW val \in [T -> Nat], NEW s \in Seq(T),
         NEW i \in 1..Len(s), NEW j \in 1..Len(s), i < j
  PROVE  Ordered(T, val, s, i, j, InOrder(val, s, i, j))
<1> DEFINE t == InOrder(val, s, i, j)
<1>1. s \in [1..Len(s) -> T] /\ Len(s) \in Nat /\ s[i] \in T /\ s[j] \in T
  OBVIOUS
<1>2. val[s[i]] \in Nat /\ val[s[j]] \in Nat
  BY <1>1
<1>3. CASE val[s[j]] > val[s[i]]
  <2>1. t = [s EXCEPT ![i] = s[j], ![j] = s[i]]
    BY <1>3 DEF InOrder
  <2>2. t \in Seq(T) /\ Len(t) = Len(s) /\ DOMAIN t = 1..Len(s) /\ DOMAIN s = 1..Len(s)
    BY <1>1, <2>1
  <2>3. t[i] = s[j] /\ t[j] = s[i] /\ \A k \in 1..Len(s) : k # i /\ k # j => t[k] = s[k]
    BY <1>1, <2>1
  <2> HIDE DEF t
  <2>4. ToSet(t) = ToSet(s)
    <3>1. \A k \in 1..Len(s) : t[k] \in ToSet(s)
      BY <2>2, <2>3 DEF ToSet
    <3>2. \A k \in 1..Len(s) : s[k] \in ToSet(t)
      BY <2>2, <2>3 DEF ToSet
    <3> QED
      BY <2>2, <3>1, <3>2 DEF ToSet
  <2>5. IsInjective(s) => IsInjective(t)
    <3> SUFFICES ASSUME IsInjective(s), NEW k \in 1..Len(s), NEW l \in 1..Len(s), t[k] = t[l]
                 PROVE  k = l
      BY <2>2 DEF IsInjective
    <3> DEFINE from(m) == IF m = i THEN j ELSE IF m = j THEN i ELSE m
    <3>1. from(k) \in 1..Len(s) /\ from(l) \in 1..Len(s) /\ s[from(k)] = s[from(l)]
      BY <2>3
    <3>2. from(k) = from(l)
      <4> HIDE DEF from
      <4> QED
        BY <2>2, <3>1 DEF IsInjective
    <3> QED
      BY <3>2
  <2>6. Rearranged(T, s, t)
    BY <2>2, <2>4, <2>5 DEF Rearranged
  <2> QED
    BY <1>2, <1>3, <2>3, <2>6 DEF t, Ordered
<1>4. CASE ~(val[s[j]] > val[s[i]])
  <2>1. t = s
    BY <1>4 DEF InOrder
  <2>2. Rearranged(T, s, t)
    BY <2>1 DEF Rearranged
  <2> QED
    BY <1>2, <1>4, <2>1, <2>2 DEF Ordered
<1> QED
  BY <1>3, <1>4

\* t is s after the inner loop at i: place i has the greatest of those from i
\* on, and the places before i are as they were.
Passed(T, val, s, i, t) ==
  /\ Rearranged(T, s, t)
  /\ \A k \in 1..(i - 1) : t[k] = s[k]
  /\ \A k \in i..Len(s) : \E m \in i..Len(s) : t[k] = s[m]
  /\ \A k \in i..Len(s) : val[t[i]] >= val[t[k]]

LEMMA PassResult ==
  ASSUME NEW T, NEW val \in [T -> Nat], NEW s \in Seq(T), NEW i \in 1..Len(s)
  PROVE  Passed(T, val, s, i, Pass(val, s, i))
<1> DEFINE N == Len(s)
    V == {u \in Seq(T) : Len(u) = N}
    Body(f) == [j \in 0..N |-> IF j <= i THEN s ELSE InOrder(val, f[j - 1], i, j)]
    G == [j \in 1..N |-> [u \in V |-> IF j <= i THEN s ELSE InOrder(val, u, i, j)]]
<1>1. N \in Nat /\ s \in V /\ i \in 1..N /\ i \in Nat
  OBVIOUS
<1>2. ASSUME NEW j \in 1..N, NEW u \in V, ~(j <= i)
      PROVE  InOrder(val, u, i, j) \in V
  <2>1. u \in Seq(T) /\ i \in 1..Len(u) /\ j \in 1..Len(u) /\ i < j
    BY <1>1, <1>2
  <2>2. Rearranged(T, u, InOrder(val, u, i, j))
    BY <2>1, InOrderStep DEF Ordered
  <2> QED
    BY <2>2 DEF Rearranged
<1>3. G \in [1..N -> [V -> V]]
  <2> HIDE DEF V, N
  <2> QED
    BY <1>1, <1>2
<1>4. PICK f \in Iterations(N, V, s, G) : TRUE
  <2> HIDE DEF G, V, N
  <2> QED
    BY <1>1, <1>3, PrimitiveRecursion, ZenonT(60)
<1>5. f \in [0..N -> V] /\ f[0] = s
  BY <1>4 DEF Iterations
<1>6. \A j \in 1..N : f[j] = IF j <= i THEN s ELSE InOrder(val, f[j - 1], i, j)
  <2> HIDE DEF V
  <2>1. \A j \in 1..N : j - 1 \in 0..N
    BY <1>1
  <2>2. \A j \in 1..N : f[j - 1] \in V
    BY <1>5, <2>1
  <2> QED
    BY <1>4, <2>2 DEF Iterations
<1>7. f = Body(f)
  <2> HIDE DEF V
  <2>1. \A j \in 0..N : f[j] = Body(f)[j]
    BY <1>1, <1>5, <1>6
  <2> QED
    BY <1>5, <2>1
<1>8. PICK g : g = Body(g) /\ Pass(val, s, i) = g[N]
  BY <1>7, Zenon DEF Pass
<1>9. \A j \in 0..N : g[j] = IF j <= i THEN s ELSE InOrder(val, g[j - 1], i, j)
  BY <1>8
<1> DEFINE Good == {j \in 0..N :
      /\ Rearranged(T, s, g[j])
      /\ \A k \in 1..(i - 1) : g[j][k] = s[k]
      /\ \A k \in i..N : \E m \in i..N : g[j][k] = s[m]
      /\ \A k \in i..N : k <= j => val[g[j][i]] >= val[g[j][k]]}
<1>10. ASSUME NEW j \in 0..N, j <= i PROVE j \in Good
  <2>1. g[j] = s
    BY <1>9, <1>10
  <2>2. Rearranged(T, s, s)
    BY DEF Rearranged
  <2>3. \A k \in i..N : k <= j => k = i
    BY <1>1, <1>10
  <2>4. val[s[i]] \in Nat
    OBVIOUS
  <2> QED
    BY <2>1, <2>2, <2>3, <2>4
<1>11. ASSUME NEW j \in 1..N, j - 1 \in Good, ~(j <= i) PROVE j \in Good
  <2> DEFINE u == g[j - 1]
             w == g[j]
  <2>1. w = InOrder(val, u, i, j)
    BY <1>9, <1>11, SMTT(30)
  <2>2. /\ Rearranged(T, s, u)
        /\ \A k \in 1..(i - 1) : u[k] = s[k]
        /\ \A k \in i..N : \E m \in i..N : u[k] = s[m]
        /\ \A k \in i..N : k <= j - 1 => val[u[i]] >= val[u[k]]
    BY <1>11
  <2>3. /\ u \in Seq(T) /\ Len(u) = N /\ i < j /\ i \in 1..N /\ j \in i..N /\ i \in i..N
        /\ i \in 1..Len(u) /\ j \in 1..Len(u)
    BY <1>1, <1>11, <2>2 DEF Rearranged
  <2>4. /\ Rearranged(T, u, w)
        /\ val[w[i]] >= val[u[i]] /\ val[w[i]] >= val[w[j]]
        /\ \A k \in 1..N : k # i /\ k # j => w[k] = u[k]
        /\ {w[i], w[j]} = {u[i], u[j]}
    <3> HIDE DEF u, w
    <3>1. Ordered(T, val, u, i, j, w)
      BY <2>1, <2>3, InOrderStep
    <3> QED
      BY <2>3, <3>1 DEF Ordered
  <2> HIDE DEF u, w
  <2>5. Rearranged(T, s, w)
    BY <2>2, <2>4, RearrangedTwice
  <2>6. \A k \in 1..(i - 1) : w[k] = s[k]
    BY <1>1, <2>2, <2>3, <2>4
  <2>7. ASSUME NEW k \in i..N PROVE \E m \in i..N : w[k] = s[m]
    <3>1. CASE k = i \/ k = j
      <4>1. w[k] = u[i] \/ w[k] = u[j]
        BY <2>4, <3>1
      <4> QED
        BY <2>2, <2>3, <4>1
    <3>2. CASE k # i /\ k # j
      <4>1. w[k] = u[k]
        BY <1>1, <2>4, <3>2
      <4> QED
        BY <2>2, <4>1
    <3> QED
      BY <3>1, <3>2
  <2>8. ASSUME NEW k \in i..N, k <= j PROVE val[w[i]] >= val[w[k]]
    <3>1. w \in [1..N -> T] /\ u \in [1..N -> T]
      <4>1. w \in Seq(T) /\ Len(w) = N
        BY <2>5 DEF Rearranged
      <4> QED
        BY <2>3, <4>1, LenProperties
    <3>2. val[w[i]] \in Nat /\ val[u[i]] \in Nat /\ val[w[k]] \in Nat /\ val[u[k]] \in Nat
      <4>1. k \in 1..N
        BY <1>1
      <4> QED
        BY <2>3, <3>1, <4>1
    <3>3. CASE k = i \/ k = j
      BY <2>4, <3>2, <3>3
    <3>4. CASE k # i /\ k # j
      <4>1. w[k] = u[k] /\ k <= j - 1
        BY <1>1, <2>4, <2>8, <3>4
      <4>2. val[u[i]] >= val[u[k]] /\ val[w[i]] >= val[u[i]]
        BY <2>2, <2>4, <4>1
      <4> QED
        BY <3>2, <4>1, <4>2
    <3> QED
      BY <3>3, <3>4
  <2> QED
    BY <1>1, <2>5, <2>6, <2>7, <2>8 DEF w
<1>12. \A j \in 0..N : j \in Good
  <2>1. 0 \in Good
    <3>1. 0 \in 0..N /\ 0 <= i
      BY <1>1
    <3> HIDE DEF Good
    <3> QED
      BY <1>10, <3>1
  <2>2. ASSUME NEW j \in 1..N, j - 1 \in Good PROVE j \in Good
    <3>1. j \in 0..N
      BY <1>1
    <3> HIDE DEF Good
    <3> QED
      BY <1>10, <1>11, <2>2, <3>1
  <2> HIDE DEF Good
  <2> QED
    BY <1>1, <2>1, <2>2, UpToN
<1>13. N \in Good
  <2> HIDE DEF Good
  <2> QED
    BY <1>1, <1>12
<1>14. /\ Rearranged(T, s, g[N])
       /\ \A k \in 1..(i - 1) : g[N][k] = s[k]
       /\ \A k \in i..N : \E m \in i..N : g[N][k] = s[m]
  BY <1>13
<1>15. \A k \in i..N : val[g[N][i]] >= val[g[N][k]]
  <2>1. \A k \in i..N : k <= N
    BY <1>1
  <2> QED
    BY <1>13, <2>1
<1>16. Passed(T, val, s, i, g[N])
  BY <1>14, <1>15, Zenon DEF Passed
<1> QED
  BY <1>8, <1>16

\* The sort sorts, by descending values.
LEMMA ExchangeSorts ==
  ASSUME NEW T, NEW val \in [T -> Nat], NEW s \in Seq(T)
  PROVE  /\ Rearranged(T, s, Exchange(val, s))
         /\ \A k, l \in 1..Len(s) :
              k <= l => val[Exchange(val, s)[k]] >= val[Exchange(val, s)[l]]
<1> DEFINE N == Len(s)
    V == {u \in Seq(T) : Len(u) = N}
    Body(f) == [i \in 0..N |-> IF i = 0 THEN s ELSE Pass(val, f[i - 1], i)]
    G == [i \in 1..N |-> [u \in V |-> Pass(val, u, i)]]
<1>1. N \in Nat /\ s \in V
  OBVIOUS
<1>2. ASSUME NEW i \in 1..N, NEW u \in V
      PROVE  Pass(val, u, i) \in V
  <2>1. Rearranged(T, u, Pass(val, u, i))
    BY PassResult DEF Passed
  <2> QED
    BY <2>1 DEF Rearranged
<1>3. G \in [1..N -> [V -> V]]
  <2> HIDE DEF V, N
  <2> QED
    BY <1>1, <1>2
<1>4. PICK f \in Iterations(N, V, s, G) : TRUE
  <2> HIDE DEF G, V, N
  <2> QED
    BY <1>1, <1>3, PrimitiveRecursion, ZenonT(60)
<1>5. f \in [0..N -> V] /\ f[0] = s
  BY <1>4 DEF Iterations
<1>6. \A i \in 1..N : f[i] = Pass(val, f[i - 1], i)
  <2> HIDE DEF V
  <2>1. \A i \in 1..N : i - 1 \in 0..N
    BY <1>1
  <2>2. \A i \in 1..N : f[i - 1] \in V
    BY <1>5, <2>1
  <2> QED
    BY <1>4, <2>2 DEF Iterations
<1>7. f = Body(f)
  <2> HIDE DEF V
  <2>1. \A i \in 0..N : f[i] = Body(f)[i]
    BY <1>1, <1>5, <1>6
  <2> QED
    BY <1>5, <2>1
<1>8. PICK g : g = Body(g) /\ Exchange(val, s) = g[N]
  BY <1>7, Zenon DEF Exchange
<1>9. g[0] = s /\ \A i \in 1..N : g[i] = Pass(val, g[i - 1], i)
  <2>1. \A i \in 0..N : g[i] = IF i = 0 THEN s ELSE Pass(val, g[i - 1], i)
    BY <1>8
  <2>2. 0 \in 0..N /\ \A i \in 1..N : i \in 0..N /\ i # 0
    BY <1>1
  <2> QED
    BY <2>1, <2>2
<1> DEFINE Good == {i \in 0..N :
      /\ Rearranged(T, s, g[i])
      /\ \A k \in 1..i, l \in 1..N : k <= l => val[g[i][k]] >= val[g[i][l]]}
<1>10. 0 \in Good
  <2>1. Rearranged(T, s, s)
    BY DEF Rearranged
  <2>2. \A k \in 1..0 : FALSE
    OBVIOUS
  <2> QED
    BY <1>1, <1>9, <2>1, <2>2
<1>11. ASSUME NEW i \in 1..N, i - 1 \in Good PROVE i \in Good
  <2> DEFINE u == g[i - 1]
             w == g[i]
  <2>1. w = Pass(val, u, i)
    BY <1>9
  <2>2. /\ Rearranged(T, s, u)
        /\ \A k \in 1..(i - 1), l \in 1..N : k <= l => val[u[k]] >= val[u[l]]
    BY <1>11
  <2>3. u \in Seq(T) /\ Len(u) = N /\ i \in 1..Len(u)
    BY <2>2 DEF Rearranged
  <2>4. /\ Rearranged(T, u, w)
        /\ \A k \in 1..(i - 1) : w[k] = u[k]
        /\ \A k \in i..N : \E m \in i..N : w[k] = u[m]
        /\ \A k \in i..N : val[w[i]] >= val[w[k]]
    <3> HIDE DEF u, w
    <3>1. Passed(T, val, u, i, w)
      BY <2>1, <2>3, PassResult
    <3> QED
      BY <2>3, <3>1 DEF Passed
  <2> HIDE DEF u, w
  <2>5. Rearranged(T, s, w)
    BY <2>2, <2>4, RearrangedTwice
  <2>6. ASSUME NEW k \in 1..i, NEW l \in 1..N, k <= l
        PROVE  val[w[k]] >= val[w[l]]
    <3>1. CASE k = i
      <4>1. l \in i..N
        BY <1>1, <2>6, <3>1
      <4> QED
        BY <2>4, <3>1, <4>1
    <3>2. CASE k # i
      <4>1. k \in 1..(i - 1) /\ w[k] = u[k]
        BY <1>1, <2>4, <3>2
      <4>2. CASE l < i
        <5>1. l \in 1..(i - 1)
          BY <1>1, <4>2
        <5> QED
          BY <2>2, <2>4, <2>6, <4>1, <5>1
      <4>3. CASE ~(l < i)
        <5>1. l \in i..N
          BY <1>1, <4>3
        <5>2. PICK m \in i..N : w[l] = u[m]
          BY <2>4, <5>1
        <5>3. m \in 1..N /\ k <= m
          BY <1>1, <4>1, <5>2
        <5> QED
          BY <2>2, <4>1, <5>2, <5>3
      <4> QED
        BY <4>2, <4>3
    <3> QED
      BY <3>1, <3>2
  <2> QED
    BY <1>1, <2>5, <2>6 DEF w
<1>12. N \in Good
  <2> HIDE DEF Good
  <2>1. \A i \in 0..N : i \in Good
    BY <1>1, <1>10, <1>11, UpToN
  <2> QED
    BY <1>1, <2>1
<1> QED
  BY <1>8, <1>12

-----------------------------------------------------------------------------
(* The texts of a page                                                     *)

LEMMA HeadingsType ==
  ASSUME NEW body \in Seq(Line)
  PROVE  Headings(body) \in Seq(Line)
  BY KeepElements DEF Headings

LEMMA HeadingTextType ==
  ASSUME NEW heads \in Seq(Line)
  PROVE  HeadingText(heads) \in Text
<1>1. [i \in DOMAIN heads |-> heads[i].text] \in Seq(Seq(Words))
  <2>1. \A l \in Line : l.text \in Seq(Words)
    BY DEF Line, Text
  <2>2. DOMAIN heads = 1..Len(heads) /\ Len(heads) \in Nat /\ \A i \in 1..Len(heads) : heads[i] \in Line
    OBVIOUS
  <2>3. [i \in 1..Len(heads) |-> heads[i].text] \in [1..Len(heads) -> Seq(Words)]
    BY <2>1, <2>2
  <2> QED
    BY <2>2, <2>3
<1> QED
  BY <1>1, FlattenElements DEF HeadingText, Text

\* A line of the prose keeps its words, in number and in place.
LEMMA StrippedType ==
  ASSUME NEW t \in Seq(Words)
  PROVE  /\ Stripped(t) \in Seq(Words) /\ Len(Stripped(t)) = Len(t)
         /\ \A i \in 1..Len(t) :
              Stripped(t)[i] = IF i = 1 THEN First[t[i]] ELSE Plain[t[i]]
<1> DEFINE s == [i \in DOMAIN t |-> IF i = 1 THEN First[t[i]] ELSE Plain[t[i]]]
<1>1. DOMAIN t = 1..Len(t) /\ Len(t) \in Nat /\ \A i \in 1..Len(t) : t[i] \in Words
  OBVIOUS
<1>2. \A i \in 1..Len(t) : First[t[i]] \in Words /\ Plain[t[i]] \in Words
  BY <1>1, DocumentsAssumption
<1>3. s \in [1..Len(t) -> Words]
  BY <1>1, <1>2
<1>4. s \in Seq(Words) /\ Len(s) = Len(t)
  <2> HIDE DEF s
  <2> QED
    BY <1>1, <1>3
<1> QED
  BY <1>1, <1>4 DEF Stripped

LEMMA PlainTextType ==
  ASSUME NEW body \in Seq(Line)
  PROVE  PlainText(body) \in Text
<1> DEFINE plain(l) == IF l.kind = "code" THEN << >> ELSE Stripped(l.text)
    texts == [i \in DOMAIN body |-> plain(body[i])]
<1>1. ASSUME NEW l \in Line PROVE plain(l) \in Seq(Words)
  <2>1. l.text \in Seq(Words) /\ << >> \in Seq(Words)
    BY DEF Line, Text
  <2>2. Stripped(l.text) \in Seq(Words)
    BY <2>1, StrippedType
  <2> QED
    BY <2>1, <2>2
<1>2. texts \in Seq(Seq(Words))
  <2>1. DOMAIN body = 1..Len(body) /\ Len(body) \in Nat /\ \A i \in 1..Len(body) : body[i] \in Line
    OBVIOUS
  <2> HIDE DEF plain
  <2>2. texts \in [1..Len(body) -> Seq(Words)]
    BY <1>1, <2>1
  <2> HIDE DEF texts
  <2> QED
    BY <2>1, <2>2
<1>3. PlainText(body) = FlattenSeq(texts)
  BY DEF PlainText
<1> HIDE DEF texts
<1> QED
  BY <1>2, <1>3, FlattenElements DEF Text

LEMMA CountedType ==
  ASSUME NEW text \in Text
  PROVE  Counted(text) \in Text
<1> DEFINE forms == [i \in DOMAIN text |-> Map(Fold, Parts[text[i]])]
<1>1. ASSUME NEW w \in Words PROVE Map(Fold, Parts[w]) \in Seq(Words)
  BY MapType, DocumentsAssumption
<1>2. forms \in Seq(Seq(Words))
  BY <1>1 DEF Text
<1>3. FlattenSeq(forms) \in Seq(Words)
  <2> HIDE DEF forms
  <2> QED
    BY <1>2, FlattenElements
<1>4. Counted(text) = Keep(FlattenSeq(forms), {w \in Words : Size[w] >= 3} \ StopWords)
  BY DEF Counted
<1> HIDE DEF forms
<1> QED
  BY <1>3, <1>4, KeepElements DEF Text

LEMMA TitleType ==
  ASSUME NEW p \in Pages, NEW page \in Page
  PROVE  TitleOf(p, page) \in Text
<1>1. page.title \in Text /\ Headings(page.body) \in Seq(Line) /\ FileTitle[p] \in Text
  BY HeadingsType, DocumentsAssumption DEF Page, Text
<1>2. Headings(page.body) # << >> => Headings(page.body)[1].text \in Text
  <2>1. Headings(page.body) # << >> => Headings(page.body)[1] \in Line
    BY <1>1
  <2> QED
    BY <2>1 DEF Line
<1> QED
  BY <1>1, <1>2 DEF TitleOf

LEMMA FrequencyType ==
  ASSUME NEW w, NEW title \in Text, NEW heads \in Seq(Line), NEW content \in Text
  PROVE  Frequency(w, title, heads, content) \in Nat
<1>1. /\ Counted(title) \in Seq(Words) /\ Counted(content) \in Seq(Words)
      /\ Counted(HeadingText(heads)) \in Seq(Words)
  BY CountedType, HeadingTextType DEF Text
<1>2. /\ TimesIn(w, Counted(title)) \in Nat /\ TimesIn(w, Counted(content)) \in Nat
      /\ TimesIn(w, Counted(HeadingText(heads))) \in Nat
  BY <1>1, CountedTimes
<1> QED
  BY <1>2 DEF Frequency

-----------------------------------------------------------------------------
(* The keywords                                                            *)

\* No word that is left out is more frequent than a keyword.
TopWords(keywords, title, heads, content) ==
  LET words == ToSet(Counted(title \o HeadingText(heads) \o content)) IN
  /\ ToSet(keywords) \subseteq words
  /\ \A k \in ToSet(keywords), w \in words \ ToSet(keywords) :
       /\ Len(keywords) = MaxKeywords
       /\ Frequency(k, title, heads, content) >= Frequency(w, title, heads, content)

LEMMA KeywordsTop ==
  ASSUME NEW title \in Text, NEW heads \in Seq(Line), NEW content \in Text,
         NEW keywords \in ExtractKeywords(title, heads, content)
  PROVE  keywords \in Text /\ TopWords(keywords, title, heads, content)
<1> DEFINE found == ToSet(Counted(title \o HeadingText(heads) \o content))
    val == [w \in found |-> Frequency(w, title, heads, content)]
    top == IF Cardinality(found) > MaxKeywords THEN MaxKeywords ELSE Cardinality(found)
<1>1. Counted(title \o HeadingText(heads) \o content) \in Seq(Words)
  <2>1. title \o HeadingText(heads) \o content \in Text
    BY HeadingTextType DEF Text
  <2> QED
    BY <2>1, CountedType DEF Text
<1>2. found \subseteq Words /\ IsFiniteSet(found) /\ Cardinality(found) \in Nat
  BY <1>1, ToSetIn, ToSetFinite
<1>3. val \in [found -> Nat]
  BY FrequencyType
<1>4. PICK s \in SetToSeqs(found) : keywords = SubSeq(Exchange(val, s), 1, top)
  BY DEF ExtractKeywords
<1> DEFINE e == Exchange(val, s)
<1>5. s \in Seq(found) /\ Len(s) = Cardinality(found) /\ ToSet(s) = found
  <2> HIDE DEF found
  <2> QED
    BY <1>2, AnyOrder
<1>6. /\ Rearranged(found, s, e)
      /\ \A k, l \in 1..Len(s) : k <= l => val[e[k]] >= val[e[l]]
  <2> HIDE DEF found, val
  <2> QED
    BY <1>3, <1>5, ExchangeSorts
<1>7. e \in Seq(found) /\ Len(e) = Cardinality(found) /\ ToSet(e) = found
  BY <1>5, <1>6 DEF Rearranged
<1>8. top \in 0..Cardinality(found) /\ top \in Nat /\ (top < Cardinality(found) => top = MaxKeywords)
  BY <1>2, DocumentsAssumption
<1> HIDE DEF e, top
<1>9. /\ keywords \in Seq(found) /\ Len(keywords) = top
      /\ \A i \in 1..top : keywords[i] = e[i]
  <2> HIDE DEF found, val
  <2>1. \A i \in 1..top : e[i] \in found
    BY <1>2, <1>7, <1>8
  <2> QED
    BY <1>4, <1>8, <2>1, SubSeqProperties, SMTT(30) DEF e
<1>10. keywords \in Text
  BY <1>2, <1>9 DEF Text
<1>11. ToSet(keywords) \subseteq found
  BY <1>9, ToSetIn
<1>12. ASSUME NEW k \in ToSet(keywords), NEW w \in found \ ToSet(keywords)
       PROVE  Len(keywords) = MaxKeywords /\ val[k] >= val[w]
  <2> HIDE DEF found, val
  <2>1. PICK i \in 1..top : k = e[i]
    BY <1>9, ToSetIn
  <2>2. PICK l \in 1..Cardinality(found) : w = e[l]
    BY <1>7, ToSetIn
  <2>3. ~(l <= top)
    <3>1. ASSUME l <= top PROVE FALSE
      <4>1. l \in 1..top
        BY <1>8, <2>2, <3>1
      <4>2. w \in ToSet(keywords)
        BY <1>9, <2>2, <4>1, ToSetIn
      <4> QED
        BY <4>2
    <3> QED
      BY <3>1
  <2>4. top = MaxKeywords /\ i <= l /\ i \in 1..Len(s) /\ l \in 1..Len(s)
    BY <1>2, <1>5, <1>8, <2>1, <2>2, <2>3
  <2> QED
    BY <1>6, <1>9, <2>1, <2>2, <2>4
<1>13. TopWords(keywords, title, heads, content)
  <2>1. ASSUME NEW k \in ToSet(keywords), NEW w \in found \ ToSet(keywords)
        PROVE  Frequency(k, title, heads, content) >= Frequency(w, title, heads, content)
    BY <1>11, <1>12
  <2> QED
    BY <1>11, <1>12, <2>1 DEF TopWords
<1> QED
  BY <1>10, <1>13

-----------------------------------------------------------------------------
(* ParseBytes                                                              *)

Document ==
  [path : Pages, title : Text, headings : Seq(Line), content : Text, tags : Text,
   keywords : Text, related : Seq(Pages), titleLower : Text, contentLower : Text,
   headingsLower : Seq(Text), keywordsLower : Text, tagsLower : Text]

\* d is a document page can become at p, before computeRelated.
Parsed(d, p, page) ==
  /\ d \in Document
  /\ d.path = p /\ d.tags = page.tags /\ d.related = << >>
  /\ d.content = PlainText(page.body)
  /\ page.title # << >> => d.title = page.title
  /\ d.titleLower = Map(Lower, d.title) /\ d.contentLower = Map(Lower, d.content)
  /\ page.keywords = << >> => TopWords(d.keywords, d.title, d.headings, d.content)

LEMMA ParseResult ==
  ASSUME NEW p \in Pages, NEW page \in Page, NEW d \in ParseBytes(p, page)
  PROVE  Parsed(d, p, page)
<1> DEFINE title == TitleOf(p, page)
    heads == Headings(page.body)
    content == PlainText(page.body)
    lower(t) == Map(Lower, t)
    headsLower == [i \in DOMAIN heads |-> lower(heads[i].text)]
<1>1. page.tags \in Text /\ page.keywords \in Text /\ page.body \in Seq(Line)
  BY DEF Page
<1>2. title \in Text /\ heads \in Seq(Line) /\ content \in Text
  BY <1>1, TitleType, HeadingsType, PlainTextType
<1>3. PICK k \in IF page.keywords # << >> THEN {page.keywords}
                 ELSE ExtractKeywords(title, heads, content) :
        d = [path |-> p, title |-> title, headings |-> heads, content |-> content,
             tags |-> page.tags, keywords |-> k, related |-> << >>,
             titleLower |-> lower(title), contentLower |-> lower(content),
             headingsLower |-> headsLower,
             keywordsLower |-> lower(k), tagsLower |-> lower(page.tags)]
  BY DEF ParseBytes, Prepare
<1> HIDE DEF title, heads, content
<1>4. /\ k \in Text
      /\ page.keywords = << >> => TopWords(k, title, heads, content)
  BY <1>1, <1>2, KeywordsTop
<1>5. ASSUME NEW t \in Text PROVE lower(t) \in Text
  <2>1. t \in Seq(Words)
    BY DEF Text
  <2>2. Map(Lower, t) \in Seq(Words)
    BY <2>1, MapType, DocumentsAssumption
  <2> QED
    BY <2>2 DEF Text
<1> HIDE DEF lower
<1>6. headsLower \in Seq(Text)
  <2>1. DOMAIN heads = 1..Len(heads) /\ Len(heads) \in Nat /\ \A i \in 1..Len(heads) : heads[i] \in Line
    BY <1>2
  <2>2. \A l \in Line : l.text \in Text
    BY DEF Line
  <2>3. headsLower \in [1..Len(heads) -> Text]
    BY <1>5, <2>1, <2>2
  <2> HIDE DEF headsLower
  <2> QED
    BY <2>1, <2>3
<1> HIDE DEF headsLower
<1>7. lower(title) \in Text /\ lower(content) \in Text /\ lower(k) \in Text /\ lower(page.tags) \in Text
  BY <1>1, <1>2, <1>4, <1>5
<1>8. << >> \in Seq(Pages)
  OBVIOUS
<1>9. d \in Document
  BY <1>1, <1>2, <1>3, <1>4, <1>6, <1>7, <1>8 DEF Document
<1>10. /\ d.path = p /\ d.tags = page.tags /\ d.related = << >> /\ d.keywords = k
       /\ d.title = title /\ d.headings = heads /\ d.content = content
       /\ d.titleLower = lower(title) /\ d.contentLower = lower(content)
  BY <1>3
<1>11. page.title # << >> => title = page.title
  BY DEF title, TitleOf
<1> QED
  BY <1>4, <1>9, <1>10, <1>11 DEF Parsed, content, lower

-----------------------------------------------------------------------------
(* buildExcerpt                                                            *)

LEMMA ExcerptInit == Init => TypeOK
  BY ExcerptAssumption DEF Init, TypeOK

\* The window before Clamp has begun within reach of the match.
LEMMA Quarter == maxLen \div 4 \in Nat /\ maxLen \div 4 <= maxLen
  BY ExcerptAssumption

LEMMA ExcerptNext == TypeOK /\ [Next]_vars => TypeOK'
<1> SUFFICES ASSUME TypeOK, [Next]_vars PROVE TypeOK'
  OBVIOUS
<1> USE ExcerptAssumption DEF TypeOK
<1>1. CASE NoMatch
  BY <1>1 DEF NoMatch
<1>2. CASE AroundMatch
  <2>1. start' \in Nat
    BY <1>2, Quarter DEF AroundMatch
  <2> QED
    BY <1>2, <2>1 DEF AroundMatch
<1>3. CASE Clamp
  BY <1>3 DEF Clamp
<1>4. CASE SnapLeft
  BY <1>4 DEF SnapLeft
<1>5. CASE SnapRight
  BY <1>5 DEF SnapRight
<1>6. CASE UNCHANGED vars
  BY <1>6 DEF vars
<1> QED
  BY <1>1, <1>2, <1>3, <1>4, <1>5, <1>6 DEF Next

\* The offsets keep their bounds.
THEOREM ExcerptTypeCorrect == Spec => []TypeOK
<1> QED
  BY ExcerptInit, ExcerptNext, PTL DEF Spec

\* The window is empty at first; before Clamp it has its full length; from
\* then on it lies in the content.
InContent ==
  /\ WindowInContent
  /\ pc = "search" => start = 0
  /\ pc = "clamp" => end = start + maxLen

LEMMA InContentStep == TypeOK /\ InContent /\ [Next]_vars => InContent'
  BY ExcerptAssumption
     DEF TypeOK, InContent, WindowInContent, Next, vars, NoMatch, AroundMatch,
         Clamp, SnapLeft, SnapRight

LEMMA InContentAlways == Spec => []InContent
<1>1. Init => InContent
  BY ExcerptAssumption DEF Init, InContent, WindowInContent
<1> QED
  BY <1>1, InContentStep, ExcerptTypeCorrect, PTL DEF Spec

\* Neither the indexing of the snap loops nor the slice is out of bounds.
THEOREM WindowInContentAlways == Spec => []WindowInContent
<1>1. InContent => WindowInContent
  BY DEF InContent
<1> QED
  BY <1>1, InContentAlways, PTL

-----------------------------------------------------------------------------
\* A match of up to three quarters of the window that lies in the content is
\* in the window.
Shows(tok) == pos + tok <= len => start <= pos /\ pos + tok <= end

\* Before Clamp the match is in the first quarter of the window.
MatchInWindow ==
  /\ pc # "search" /\ pc # "done" => pos >= 0
  /\ pc = "clamp" =>
       start <= pos /\ pos <= start + maxLen \div 4 /\ end = start + maxLen
  /\ pc \in {"left", "right", "done"} /\ pos >= 0 =>
       \A tok \in 1..(maxLen - maxLen \div 4) : Shows(tok)

LEMMA MatchInWindowStep ==
  ASSUME TypeOK, MatchInWindow, [Next]_vars
  PROVE  MatchInWindow'
<1> DEFINE quarter == maxLen \div 4
<1> maxLen \in Nat /\ quarter \in Nat /\ quarter <= maxLen
  BY Quarter, ExcerptAssumption
<1> USE DEF TypeOK
<1>1. CASE NoMatch
  BY <1>1 DEF NoMatch, MatchInWindow
<1>2. CASE AroundMatch
  <2> HIDE DEF quarter
  <2>1. /\ pc' = "clamp" /\ pos' = pos /\ pos >= 0
        /\ start' = IF pos < quarter THEN 0 ELSE pos - quarter
        /\ end' = start' + maxLen
    BY <1>2 DEF AroundMatch, quarter
  <2>2. start' <= pos /\ pos <= start' + quarter
    BY <2>1
  <2> QED
    BY <2>1, <2>2 DEF MatchInWindow, quarter
<1>3. CASE Clamp
  <2>1. pos >= 0 /\ pos \in Nat /\ start <= pos /\ pos <= start + quarter /\ end = start + maxLen
    BY <1>3 DEF Clamp, MatchInWindow
  <2> HIDE DEF quarter
  <2>2. ASSUME NEW tok \in 1..(maxLen - quarter), pos + tok <= len
        PROVE  start' <= pos /\ pos + tok <= end'
    BY <1>3, <2>1, <2>2 DEF Clamp
  <2> QED
    BY <1>3, <2>1, <2>2 DEF Clamp, MatchInWindow, Shows, quarter
<1>4. CASE SnapLeft
  <2> HIDE DEF quarter
  <2>1. pos' = pos /\ len' = len /\ start' <= start /\ end <= end'
    BY <1>4 DEF SnapLeft
  <2>2. ASSUME NEW tok \in 1..(maxLen - quarter), pos >= 0 PROVE Shows(tok)'
    BY <1>4, <2>1, <2>2 DEF SnapLeft, MatchInWindow, Shows, quarter
  <2> QED
    BY <1>4, <2>1, <2>2 DEF SnapLeft, MatchInWindow, quarter
<1>5. CASE SnapRight
  <2> HIDE DEF quarter
  <2>1. pos' = pos /\ len' = len /\ start' <= start /\ end <= end'
    BY <1>5 DEF SnapRight
  <2>2. ASSUME NEW tok \in 1..(maxLen - quarter), pos >= 0 PROVE Shows(tok)'
    BY <1>5, <2>1, <2>2 DEF SnapRight, MatchInWindow, Shows, quarter
  <2> QED
    BY <1>5, <2>1, <2>2 DEF SnapRight, MatchInWindow, quarter
<1>6. CASE UNCHANGED vars
  BY <1>6 DEF vars, MatchInWindow, Shows
<1> QED
  BY <1>1, <1>2, <1>3, <1>4, <1>5, <1>6 DEF Next

\* The excerpt shows the match it was made for.
THEOREM MatchShownAlways == Spec => []MatchShown
<1>1. Init => MatchInWindow
  BY DEF Init, MatchInWindow
<1>2. TypeOK /\ MatchInWindow /\ [Next]_vars => MatchInWindow'
  BY MatchInWindowStep
<1>3. MatchInWindow => MatchShown
  BY DEF MatchInWindow, MatchShown, Shows
<1> QED
  BY <1>1, <1>2, <1>3, ExcerptTypeCorrect, PTL DEF Spec

-----------------------------------------------------------------------------
\* The window has been moved to the beginning of a word, then to the end of
\* one; without a match it is not moved at all.
Snapped ==
  /\ pc \notin {"search", "done"} => pos >= 0
  /\ pc = "right" \/ (pc = "done" /\ pos >= 0) => start = 0 \/ start - 1 \in spaces
  /\ pc = "done" /\ pos >= 0 => end = len \/ end \in spaces

LEMMA SnappedStep == TypeOK /\ InContent /\ Snapped /\ [Next]_vars => Snapped'
  BY ExcerptAssumption
     DEF TypeOK, InContent, WindowInContent, Snapped, Next, vars, NoMatch,
         AroundMatch, Clamp, SnapLeft, SnapRight

\* An excerpt around a match consists of whole words.
THEOREM WholeWordsAlways == Spec => []WholeWords
<1>1. Init => Snapped
  BY DEF Init, Snapped
<1>2. Snapped => WholeWords
  BY DEF Snapped, WholeWords
<1> QED
  BY <1>1, <1>2, SnappedStep, ExcerptTypeCorrect, InContentAlways, PTL DEF Spec

-----------------------------------------------------------------------------
(* Scores                                                                  *)

\* A sum is no less than what is added.
LEMMA TotalType ==
  ASSUME NEW f \in Seq(Nat)
  PROVE  Total(f) \in Nat /\ \A k \in 1..Len(f) : f[k] <= Total(f)
<1> DEFINE N == Len(f)
    Body(h) == [i \in 0..N |-> IF i = 0 THEN 0 ELSE h[i - 1] + f[i]]
    G == [i \in 1..N |-> [x \in Nat |-> x + f[i]]]
<1>1. N \in Nat /\ 0 \in Nat /\ \A i \in 1..N : f[i] \in Nat
  OBVIOUS
<1>2. G \in [1..N -> [Nat -> Nat]]
  BY <1>1
<1>3. PICK h \in Iterations(N, Nat, 0, G) : TRUE
  <2> HIDE DEF G, N
  <2> QED
    BY <1>1, <1>2, PrimitiveRecursion, ZenonT(60)
<1>4. h \in [0..N -> Nat] /\ h[0] = 0
  BY <1>3 DEF Iterations
<1>5. \A i \in 1..N : h[i] = h[i - 1] + f[i]
  <2>1. \A i \in 1..N : i - 1 \in 0..N
    BY <1>1
  <2>2. \A i \in 1..N : h[i - 1] \in Nat
    BY <1>4, <2>1
  <2> QED
    BY <1>3, <2>2 DEF Iterations
<1>6. h = Body(h)
  <2>1. \A i \in 0..N : h[i] = Body(h)[i]
    BY <1>1, <1>4, <1>5
  <2> QED
    BY <1>4, <2>1
<1>7. PICK g : g = Body(g) /\ Total(f) = g[N]
  BY <1>6, Zenon DEF Total
<1>8. g[0] = 0 /\ \A i \in 1..N : g[i] = g[i - 1] + f[i]
  <2>1. \A i \in 0..N : g[i] = IF i = 0 THEN 0 ELSE g[i - 1] + f[i]
    BY <1>7
  <2>2. 0 \in 0..N /\ \A i \in 1..N : i \in 0..N /\ i # 0
    BY <1>1
  <2> QED
    BY <2>1, <2>2
<1> DEFINE S == {i \in 0..N : g[i] \in Nat /\ \A k \in 1..i : f[k] <= g[i]}
<1>9. 0 \in S
  <2>1. \A k \in 1..0 : FALSE
    OBVIOUS
  <2> QED
    BY <1>1, <1>8, <2>1
<1>10. ASSUME NEW i \in 1..N, i - 1 \in S PROVE i \in S
  <2>1. /\ g[i] = g[i - 1] + f[i] /\ g[i - 1] \in Nat /\ f[i] \in Nat
        /\ \A k \in 1..(i - 1) : f[k] <= g[i - 1] /\ f[k] \in Nat
    BY <1>1, <1>8, <1>10
  <2> DEFINE a == g[i - 1]
             b == f[i]
  <2>2. a + b \in Nat /\ a <= a + b /\ b <= a + b
    <3>1. a \in Nat /\ b \in Nat
      BY <2>1
    <3> HIDE DEF a, b
    <3> QED
      BY <3>1
  <2>3. i \in 0..N
    BY <1>1
  <2>4. ASSUME NEW k \in 1..i PROVE f[k] <= g[i]
    <3>1. CASE k = i
      BY <2>1, <2>2, <3>1
    <3>2. CASE k # i
      <4>1. k \in 1..(i - 1)
        BY <1>1, <3>2
      <4> DEFINE c == f[k]
      <4>2. c <= a /\ c \in Nat /\ a \in Nat
        BY <2>1, <4>1
      <4> HIDE DEF a, b, c
      <4>3. c <= a + b
        BY <2>2, <4>2
      <4> QED
        BY <2>1, <4>3 DEF a, b, c
    <3> QED
      BY <3>1, <3>2
  <2> QED
    BY <2>1, <2>2, <2>3, <2>4
<1>11. N \in S
  <2> HIDE DEF S
  <2>1. \A i \in 0..N : i \in S
    BY <1>1, <1>9, <1>10, UpToN
  <2> QED
    BY <1>1, <2>1
<1>12. Total(f) \in Nat /\ \A k \in 1..N : f[k] <= Total(f)
  <2>1. g[N] \in Nat /\ \A k \in 1..N : f[k] <= g[N]
    BY <1>11
  <2> QED
    BY <1>7, <2>1
<1> QED
  BY <1>12

LEMMA OccurrencesType ==
  ASSUME NEW q, NEW t, Len(q) \in Nat, Len(t) \in Nat
  PROVE  /\ Cardinality(Occurrences(q, t)) \in Nat
         /\ Occurrences(q, t) # {} => Cardinality(Occurrences(q, t)) > 0
<1>1. Occurrences(q, t) \subseteq 0..(Len(t) - Len(q))
  BY DEF Occurrences
<1>2. IsFiniteSet(0..(Len(t) - Len(q)))
  BY FS_Interval
<1>3. IsFiniteSet(Occurrences(q, t))
  BY <1>1, <1>2, FS_Subset
<1>4. Cardinality(Occurrences(q, t)) \in Nat
  BY <1>3, FS_CardinalityType
<1>5. Cardinality(Occurrences(q, t)) = 0 <=> Occurrences(q, t) = {}
  BY <1>3, FS_EmptySet
<1> QED
  BY <1>4, <1>5

\* A sequence of numbers, one for each element of another.
LEMMA NumberSeq ==
  ASSUME NEW T, NEW s \in Seq(T), NEW F \in [DOMAIN s -> Nat]
  PROVE  F \in Seq(Nat)
<1>1. DOMAIN s = 1..Len(s) /\ Len(s) \in Nat
  OBVIOUS
<1> QED
  BY <1>1

LEMMA DocumentParts ==
  ASSUME NEW d \in Document
  PROVE  /\ d.path \in Pages /\ d.headings \in Seq(Line) /\ d.keywords \in Seq(Words)
         /\ d.tags \in Seq(Words) /\ d.content \in Seq(Words) /\ d.contentLower \in Seq(Words)
         /\ d.related \in Seq(Pages)
  BY DEF Document, Text

\* A word of the title or of the content adds to the score.
LEMMA ScoreTokenType ==
  ASSUME NEW d \in Document, NEW tok
  PROVE  /\ ScoreToken(d, tok) \in Nat
         /\ HasWord(d.titleLower, tok) \/ HasWord(d.contentLower, tok) => ScoreToken(d, tok) > 0
<1> DEFINE title == IF HasWord(d.titleLower, tok) THEN 100
               ELSE IF Near(d.titleLower, tok, 2) /\ Size[tok] >= 4 THEN 40 ELSE 0
      path == IF HasWord(PathWords[d.path], tok) THEN 40 ELSE 0
      heading(i) == IF HasWord(d.headingsLower[i], tok)
                    THEN HeadingWeight(d.headings[i].level) ELSE 0
      keyword(i) == IF HasWord(<<d.keywordsLower[i]>>, tok) THEN 40
                    ELSE IF Near(<<d.keywordsLower[i]>>, tok, 1) /\ Size[tok] >= 4
                    THEN 16 ELSE 0
      tag(i) == IF HasWord(<<d.tagsLower[i]>>, tok) THEN 30 ELSE 0
      times == Cardinality(Occurrences(<<tok>>, d.contentLower))
      fuzzy == \E i \in DOMAIN d.contentLower :
                 Near(<<d.contentLower[i]>>, tok, 1) /\ Size[tok] >= 5
      last == IF times > 0 THEN 5 * times ELSE IF fuzzy THEN 2 ELSE 0
      headingSeq == [i \in DOMAIN d.headings |-> heading(i)]
      keywordSeq == [i \in DOMAIN d.keywords |-> keyword(i)]
      tagSeq == [i \in DOMAIN d.tags |-> tag(i)]
<1>1. ScoreToken(d, tok) = title + path + Total(headingSeq) + Total(keywordSeq)
                             + Total(tagSeq) + last
  BY DEF ScoreToken
<1>2. title \in Nat /\ path \in Nat /\ (HasWord(d.titleLower, tok) => title > 0)
  OBVIOUS
<1>3. \A i : heading(i) \in Nat /\ keyword(i) \in Nat /\ tag(i) \in Nat
  BY DEF HeadingWeight
<1>4. last \in Nat /\ (HasWord(d.contentLower, tok) => last > 0)
  <2>1. times \in Nat /\ (HasWord(d.contentLower, tok) => times > 0)
    <3>1. Len(<<tok>>) \in Nat /\ Len(d.contentLower) \in Nat
      BY DocumentParts
    <3> QED
      BY <3>1, OccurrencesType DEF HasWord, HasPhrase
  <2> HIDE DEF times, fuzzy
  <2> QED
    BY <2>1
<1> HIDE DEF title, path, heading, keyword, tag, last
<1>5. headingSeq \in Seq(Nat) /\ keywordSeq \in Seq(Nat) /\ tagSeq \in Seq(Nat)
  <2>1. /\ headingSeq \in [DOMAIN d.headings -> Nat] /\ keywordSeq \in [DOMAIN d.keywords -> Nat]
        /\ tagSeq \in [DOMAIN d.tags -> Nat]
    BY <1>3
  <2> HIDE DEF headingSeq, keywordSeq, tagSeq
  <2> QED
    BY <2>1, DocumentParts, NumberSeq
<1> HIDE DEF headingSeq, keywordSeq, tagSeq
<1>6. Total(headingSeq) \in Nat /\ Total(keywordSeq) \in Nat /\ Total(tagSeq) \in Nat
  BY <1>5, TotalType
<1> QED
  BY <1>1, <1>2, <1>4, <1>6

LEMMA ScoreSymbolsType ==
  ASSUME NEW d \in Document, NEW q \in Seq(Words)
  PROVE  /\ ScoreSymbols(d, q) \in Nat
         /\ HasPhrase(d.titleLower, q) \/ HasPhrase(d.contentLower, q) => ScoreSymbols(d, q) > 0
<1> DEFINE keyword(i) == IF HasPhrase(<<d.keywordsLower[i]>>, q) \/ HasWord(q, d.keywordsLower[i])
                    THEN 80 ELSE 0
      heading(i) == IF HasPhrase(d.headingsLower[i], q)
                    THEN 2 * HeadingWeight(d.headings[i].level) ELSE 0
      title == IF HasPhrase(d.titleLower, q) THEN 200 ELSE 0
      path == IF HasPhrase(PathWords[d.path], q) THEN 60 ELSE 0
      times == Cardinality(Occurrences(q, d.contentLower))
      headingSeq == [i \in DOMAIN d.headings |-> heading(i)]
      keywordSeq == [i \in DOMAIN d.keywords |-> keyword(i)]
      exact == title + Total(keywordSeq) + Total(headingSeq) + path + 15 * times
<1>1. ScoreSymbols(d, q) = IF exact = 0 /\ Dist(q, d.titleLower) <= 2 THEN 20 ELSE exact
  BY DEF ScoreSymbols
<1>2. title \in Nat /\ path \in Nat /\ (HasPhrase(d.titleLower, q) => title > 0)
  OBVIOUS
<1>3. \A i : heading(i) \in Nat /\ keyword(i) \in Nat
  BY DEF HeadingWeight
<1>4. times \in Nat /\ (HasPhrase(d.contentLower, q) => times > 0)
  <2>1. Len(q) \in Nat /\ Len(d.contentLower) \in Nat
    BY DocumentParts
  <2> QED
    BY <2>1, OccurrencesType DEF HasPhrase
<1> HIDE DEF title, path, heading, keyword, times
<1>5. headingSeq \in Seq(Nat) /\ keywordSeq \in Seq(Nat)
  <2>1. headingSeq \in [DOMAIN d.headings -> Nat] /\ keywordSeq \in [DOMAIN d.keywords -> Nat]
    BY <1>3
  <2> HIDE DEF headingSeq, keywordSeq
  <2> QED
    BY <2>1, DocumentParts, NumberSeq
<1> HIDE DEF headingSeq, keywordSeq
<1>6. Total(headingSeq) \in Nat /\ Total(keywordSeq) \in Nat
  BY <1>5, TotalType
<1>7. /\ exact \in Nat
      /\ HasPhrase(d.titleLower, q) \/ HasPhrase(d.contentLower, q) => exact > 0
  BY <1>2, <1>4, <1>6
<1> HIDE DEF exact
<1> QED
  BY <1>1, <1>7

\* The tokens of a query are the long ones among the pieces of its words.
LEMMA TokenizeType ==
  ASSUME NEW q \in Seq(Words)
  PROVE  /\ Tokenize(q) \in Seq(Words)
         /\ \A i \in 1..Len(q) : \A v \in ToSet(Split[Fold[q[i]]]) \cap Long :
              v \in ToSet(Tokenize(q))
<1> DEFINE pieces == [i \in DOMAIN q |-> Split[Fold[q[i]]]]
<1>1. DOMAIN q = 1..Len(q) /\ Len(q) \in Nat /\ \A i \in 1..Len(q) : q[i] \in Words
  OBVIOUS
<1>2. \A i \in 1..Len(q) : Split[Fold[q[i]]] \in Seq(Words)
  BY <1>1, DocumentsAssumption, SearchAssumption
<1>3. pieces \in [1..Len(q) -> Seq(Words)] /\ \A i \in 1..Len(q) : pieces[i] = Split[Fold[q[i]]]
  BY <1>1, <1>2
<1>4. Tokenize(q) = Keep(FlattenSeq(pieces), Long)
  BY DEF Tokenize
<1> HIDE DEF pieces
<1>5. pieces \in Seq(Seq(Words)) /\ Len(pieces) = Len(q)
  BY <1>1, <1>3
<1>6. /\ FlattenSeq(pieces) \in Seq(Words)
      /\ ToSet(FlattenSeq(pieces)) = UNION {ToSet(pieces[i]) : i \in 1..Len(pieces)}
  BY <1>5, FlattenElements
<1>7. /\ Tokenize(q) \in Seq(Words)
      /\ ToSet(Tokenize(q)) = ToSet(FlattenSeq(pieces)) \cap Long
  BY <1>4, <1>6, KeepElements
<1> QED
  BY <1>3, <1>5, <1>6, <1>7

\* A score is a number that is not negative.
LEMMA ScoreType ==
  ASSUME NEW tool, NEW d \in Document, NEW q \in Text
  PROVE  Score(tool, d, q) \in Nat
<1>1. Map(Fold, q) \in Seq(Words)
  BY MapType, DocumentsAssumption DEF Text
<1>2. Tokenize(q) \in Seq(Words)
  BY TokenizeType DEF Text
<1> DEFINE toks == Tokenize(q)
    scores == [i \in DOMAIN toks |-> ScoreToken(d, toks[i])]
<1>3. scores \in Seq(Nat)
  <2>1. DOMAIN toks = 1..Len(toks) /\ Len(toks) \in Nat
    BY <1>2
  <2> HIDE DEF toks
  <2>2. scores \in [1..Len(toks) -> Nat]
    BY <2>1, ScoreTokenType
  <2> QED
    BY <2>1, <2>2
<1>4. ScoreDocument(d, toks) = (IF HasPhrase(d.titleLower, toks) THEN 500 ELSE 0) + Total(scores)
  BY DEF ScoreDocument
<1>5. ScoreDocument(d, toks) \in Nat
  <2> HIDE DEF scores
  <2>1. Total(scores) \in Nat
    BY <1>3, TotalType
  <2> QED
    BY <1>4, <2>1
<1> QED
  BY <1>1, <1>5, ScoreSymbolsType DEF Score

-----------------------------------------------------------------------------
(* Pages related by tag                                                    *)

LEMMA DistinctElements ==
  ASSUME NEW T, NEW s \in Seq(T)
  PROVE  Distinct(s) \in Seq(T) /\ ToSet(Distinct(s)) = ToSet(s) /\ IsInjective(Distinct(s))
<1> DEFINE N == Len(s)
    Body(f) == [i \in 0..N |-> IF i = 0 THEN << >> ELSE Add(f[i - 1], s[i])]
    G == [i \in 1..N |-> [u \in Seq(T) |-> Add(u, s[i])]]
<1>1. N \in Nat /\ << >> \in Seq(T) /\ \A i \in 1..N : s[i] \in T
  OBVIOUS
<1>2. ASSUME NEW u \in Seq(T), NEW x \in T
      PROVE  /\ Add(u, x) \in Seq(T) /\ ToSet(Add(u, x)) = ToSet(u) \cup {x}
             /\ IsInjective(u) => IsInjective(Add(u, x))
  <2>1. CASE x \in ToSet(u)
    BY <2>1 DEF Add
  <2>2. CASE x \notin ToSet(u)
    BY <2>2, AppendElements DEF Add
  <2> QED
    BY <2>1, <2>2
<1>3. G \in [1..N -> [Seq(T) -> Seq(T)]]
  BY <1>1, <1>2
<1>4. PICK f \in Iterations(N, Seq(T), << >>, G) : TRUE
  <2> HIDE DEF G, N
  <2> QED
    BY <1>1, <1>3, PrimitiveRecursion, ZenonT(60)
<1>5. f \in [0..N -> Seq(T)] /\ f[0] = << >>
  BY <1>4 DEF Iterations
<1>6. \A i \in 1..N : f[i] = Add(f[i - 1], s[i])
  <2>1. \A i \in 1..N : i - 1 \in 0..N
    BY <1>1
  <2>2. \A i \in 1..N : f[i - 1] \in Seq(T)
    BY <1>5, <2>1
  <2> QED
    BY <1>4, <2>2 DEF Iterations
<1>7. f = Body(f)
  <2>1. \A i \in 0..N : f[i] = Body(f)[i]
    BY <1>1, <1>5, <1>6
  <2> QED
    BY <1>5, <2>1
<1>8. PICK g : g = Body(g) /\ Distinct(s) = g[N]
  BY <1>7, Zenon DEF Distinct
<1>9. g[0] = << >> /\ \A i \in 1..N : g[i] = Add(g[i - 1], s[i])
  <2>1. \A i \in 0..N : g[i] = IF i = 0 THEN << >> ELSE Add(g[i - 1], s[i])
    BY <1>8
  <2>2. 0 \in 0..N /\ \A i \in 1..N : i \in 0..N /\ i # 0
    BY <1>1
  <2> QED
    BY <2>1, <2>2
<1> DEFINE Good == {i \in 0..N : /\ g[i] \in Seq(T)
                                 /\ ToSet(g[i]) = Upto(s, i)
                                 /\ IsInjective(g[i])}
<1>10. 0 \in Good
  <2>1. Upto(s, 0) = {} /\ ToSet(<< >>) = {} /\ IsInjective(<< >>)
    BY DEF Upto, ToSet, IsInjective
  <2>2. 0 \in 0..N
    BY <1>1
  <2> QED
    BY <1>1, <1>9, <2>1, <2>2
<1>11. ASSUME NEW i \in 1..N, i - 1 \in Good PROVE i \in Good
  <2>1. /\ g[i - 1] \in Seq(T) /\ s[i] \in T /\ i \in 0..N
        /\ ToSet(g[i - 1]) = Upto(s, i - 1) /\ IsInjective(g[i - 1])
    BY <1>1, <1>11
  <2>2. Upto(s, i) = Upto(s, i - 1) \cup {s[i]}
    BY UptoStep
  <2>3. g[i] = Add(g[i - 1], s[i])
    BY <1>9
  <2>4. g[i] \in Seq(T) /\ ToSet(g[i]) = ToSet(g[i - 1]) \cup {s[i]} /\ IsInjective(g[i])
    BY <1>2, <2>1, <2>3
  <2> QED
    BY <2>1, <2>2, <2>4
<1>12. \A i \in 0..N : i \in Good
  <2> HIDE DEF Good
  <2> QED
    BY <1>1, <1>10, <1>11, UpToN
<1>13. Upto(s, N) = ToSet(s)
  BY DEF Upto, ToSet
<1> QED
  BY <1>1, <1>8, <1>12, <1>13

\* tagDocs[t] has the pages tagged t.
LEMMA TagDocsElements ==
  ASSUME docs \in Seq(Document), NEW t
  PROVE  /\ TagDocs(t) \in Seq(Pages)
         /\ ToSet(TagDocs(t)) = {docs[i].path : i \in {j \in DOMAIN docs : t \in ToSet(docs[j].tags)}}
<1> DEFINE copies(d) == [k \in 1..TimesIn(t, d.tags) |-> d.path]
    all == [i \in DOMAIN docs |-> copies(docs[i])]
<1>1. ASSUME NEW d \in Document
      PROVE  /\ copies(d) \in Seq(Pages)
             /\ ToSet(copies(d)) = IF t \in ToSet(d.tags) THEN {d.path} ELSE {}
  <2>1. /\ TimesIn(t, d.tags) \in Nat /\ d.path \in Pages
        /\ TimesIn(t, d.tags) > 0 <=> t \in ToSet(d.tags)
    BY DocumentParts, CountedTimes
  <2> DEFINE n == TimesIn(t, d.tags)
  <2> HIDE DEF n
  <2>2. [k \in 1..n |-> d.path] \in Seq(Pages)
    BY <2>1 DEF n
  <2>3. n > 0 => 1 \in 1..n
    BY <2>1 DEF n
  <2>4. n = 0 => 1..n = {}
    BY <2>1 DEF n
  <2>5. n = 0 \/ n > 0
    BY <2>1 DEF n
  <2>6. ToSet([k \in 1..n |-> d.path]) = IF n > 0 THEN {d.path} ELSE {}
    BY <2>3, <2>4, <2>5 DEF ToSet
  <2> QED
    BY <2>1, <2>2, <2>6 DEF n
<1>2. DOMAIN docs = 1..Len(docs) /\ Len(docs) \in Nat /\ \A i \in 1..Len(docs) : docs[i] \in Document
  OBVIOUS
<1>3. all \in [1..Len(docs) -> Seq(Pages)]
  <2> HIDE DEF copies
  <2> QED
    BY <1>1, <1>2
<1>4. \A i \in 1..Len(docs) : ToSet(all[i]) = IF t \in ToSet(docs[i].tags) THEN {docs[i].path} ELSE {}
  <2> HIDE DEF copies
  <2> QED
    BY <1>1, <1>2
<1>5. TagDocs(t) = FlattenSeq(all)
  BY DEF TagDocs
<1> HIDE DEF all
<1>6. all \in Seq(Seq(Pages)) /\ Len(all) = Len(docs)
  BY <1>2, <1>3
<1>7. /\ TagDocs(t) \in Seq(Pages)
      /\ ToSet(TagDocs(t)) = UNION {ToSet(all[i]) : i \in 1..Len(docs)}
  BY <1>5, <1>6, FlattenElements
<1>8. UNION {ToSet(all[i]) : i \in 1..Len(docs)}
        = {docs[i].path : i \in {j \in DOMAIN docs : t \in ToSet(docs[j].tags)}}
  BY <1>2, <1>4
<1> QED
  BY <1>7, <1>8

\* The paths of the pages that share a tag with d.
Sharing(d) == {docs[i].path : i \in {j \in DOMAIN docs : ToSet(docs[j].tags) \cap ToSet(d.tags) # {}}}

LEMMA RelatedElements ==
  ASSUME docs \in Seq(Document), NEW d \in Document
  PROVE  /\ Related(d) \in Seq(Pages) /\ IsInjective(Related(d))
         /\ ToSet(Related(d)) = Sharing(d) \ {d.path}
<1> DEFINE all == [i \in DOMAIN d.tags |-> TagDocs(d.tags[i])]
<1>1. d.tags \in Seq(Words) /\ DOMAIN d.tags = 1..Len(d.tags) /\ Len(d.tags) \in Nat
  BY DocumentParts
<1>2. all \in [1..Len(d.tags) -> Seq(Pages)]
  BY <1>1, TagDocsElements
<1>3. \A i \in 1..Len(d.tags) :
        ToSet(all[i]) = {docs[j].path : j \in {k \in DOMAIN docs : d.tags[i] \in ToSet(docs[k].tags)}}
  BY <1>1, TagDocsElements
<1>4. Related(d) = Keep(Distinct(FlattenSeq(all)), Pages \ {d.path})
  BY DEF Related
<1> HIDE DEF all
<1>5. all \in Seq(Seq(Pages)) /\ Len(all) = Len(d.tags)
  BY <1>1, <1>2
<1>6. FlattenSeq(all) \in Seq(Pages) /\ ToSet(FlattenSeq(all)) = UNION {ToSet(all[i]) : i \in 1..Len(d.tags)}
  BY <1>5, FlattenElements
<1>7. UNION {ToSet(all[i]) : i \in 1..Len(d.tags)} = Sharing(d)
  <2>1. ASSUME NEW i \in 1..Len(d.tags), NEW p \in ToSet(all[i]) PROVE p \in Sharing(d)
    <3>1. PICK k \in DOMAIN docs : p = docs[k].path /\ d.tags[i] \in ToSet(docs[k].tags)
      BY <1>3
    <3>2. d.tags[i] \in ToSet(d.tags)
      BY <1>1, ToSetIn
    <3> QED
      BY <3>1, <3>2 DEF Sharing
  <2>2. ASSUME NEW p \in Sharing(d) PROVE \E i \in 1..Len(d.tags) : p \in ToSet(all[i])
    <3>1. PICK k \in DOMAIN docs : p = docs[k].path /\ ToSet(docs[k].tags) \cap ToSet(d.tags) # {}
      BY <2>2 DEF Sharing
    <3>2. PICK i \in 1..Len(d.tags) : d.tags[i] \in ToSet(docs[k].tags)
      BY <1>1, <3>1, ToSetIn
    <3> QED
      BY <1>3, <3>1, <3>2
  <2> QED
    BY <2>1, <2>2
<1> DEFINE flat == FlattenSeq(all)
<1> HIDE DEF flat
<1>8. Distinct(flat) \in Seq(Pages) /\ ToSet(Distinct(flat)) = Sharing(d) /\ IsInjective(Distinct(flat))
  BY <1>6, <1>7, DistinctElements DEF flat
<1> DEFINE once == Distinct(flat)
<1> HIDE DEF once
<1>9. /\ Keep(once, Pages \ {d.path}) \in Seq(Pages)
      /\ ToSet(Keep(once, Pages \ {d.path})) = ToSet(once) \cap (Pages \ {d.path})
      /\ IsInjective(Keep(once, Pages \ {d.path}))
  BY <1>8, KeepElements DEF once
<1>10. Sharing(d) \subseteq Pages
  <2>1. \A i \in DOMAIN docs : docs[i].path \in Pages
    BY DocumentParts
  <2> QED
    BY <2>1 DEF Sharing
<1> QED
  BY <1>4, <1>8, <1>9, <1>10 DEF once, flat

-----------------------------------------------------------------------------
(* The invariant of the index run                                          *)

\* d is what the page at its path becomes, until computeRelated.
Faithful(d) ==
  /\ d.path \in DOMAIN disk /\ d.path \in Pages /\ disk[d.path] \in Page
  /\ d.tags = disk[d.path].tags
  /\ d.content = PlainText(disk[d.path].body)
  /\ disk[d.path].title # << >> => d.title = disk[d.path].title
  /\ d.titleLower = Map(Lower, d.title) /\ d.contentLower = Map(Lower, d.content)
  /\ disk[d.path].keywords = << >> => TopWords(d.keywords, d.title, d.headings, d.content)

Corpus ==
  /\ DOMAIN disk \subseteq Pages /\ \A p \in DOMAIN disk : disk[p] \in Library
  /\ nav \in NavLists
  /\ todo \in Seq(Pages) /\ docs \in Seq(Document)
  /\ phase \in {"parse", "related", "ready"}
  /\ \A i \in DOMAIN docs : Faithful(docs[i])
  /\ \A i \in DOMAIN docs : phase # "ready" => docs[i].related = << >>
  /\ \A i \in DOMAIN docs : phase = "ready" =>
       /\ IsInjective(docs[i].related)
       /\ ToSet(docs[i].related) = Sharing(docs[i]) \ {docs[i].path}

\* The paths of the documents and those to come.
Paths == [i \in DOMAIN docs |-> docs[i].path]
NoRepeat ==
  IsInjective(nav) => /\ IsInjective(Paths) /\ IsInjective(todo)
                      /\ ToSet(Paths) \cap ToSet(todo) = {}

LEMMA MergedPaths ==
  ASSUME NEW navPaths \in Seq(Pages), NEW allPaths \in Seq(Pages), IsInjective(allPaths)
  PROVE  /\ MergePathOrder(navPaths, allPaths) \in Seq(Pages)
         /\ IsInjective(navPaths) => IsInjective(MergePathOrder(navPaths, allPaths))
<1> DEFINE rest == Keep(allPaths, Pages \ ToSet(navPaths))
<1>1. /\ rest \in Seq(Pages) /\ IsInjective(rest)
      /\ ToSet(rest) = ToSet(allPaths) \cap (Pages \ ToSet(navPaths))
  BY KeepElements
<1>2. MergePathOrder(navPaths, allPaths) = navPaths \o rest
  BY DEF MergePathOrder
<1> HIDE DEF rest
<1>3. ToSet(navPaths) \cap ToSet(rest) = {}
  BY <1>1
<1> QED
  BY <1>1, <1>2, <1>3, ConcatElements

LEMMA CorpusInit == SearchInit => Corpus /\ NoRepeat
<1> SUFFICES ASSUME SearchInit PROVE Corpus /\ NoRepeat
  OBVIOUS
<1>1. PICK D \in SUBSET Pages : disk \in [D -> Library]
  BY DEF SearchInit
<1>2. DOMAIN disk \subseteq Pages /\ \A p \in DOMAIN disk : disk[p] \in Library
  BY <1>1
<1>3. nav \in NavLists /\ nav \in Seq(Pages) /\ docs = << >> /\ phase = "parse"
  BY SearchAssumption DEF SearchInit
<1>4. PICK found \in SetToSeqs(DOMAIN disk) : todo = MergePathOrder(nav, found)
  BY DEF SearchInit
<1>5. IsFiniteSet(DOMAIN disk)
  BY <1>2, SearchAssumption, FS_Subset
<1>6. found \in Seq(DOMAIN disk) /\ IsInjective(found)
  BY <1>5, AnyOrder
<1>7. found \in Seq(Pages)
  BY <1>2, <1>6
<1>8. todo \in Seq(Pages) /\ (IsInjective(nav) => IsInjective(todo))
  BY <1>3, <1>4, <1>6, <1>7, MergedPaths
<1>9. docs \in Seq(Document) /\ DOMAIN docs = {}
  BY <1>3
<1>10. IsInjective(Paths) /\ ToSet(Paths) = {}
  BY <1>9 DEF Paths, IsInjective, ToSet
<1> QED
  BY <1>2, <1>3, <1>8, <1>9, <1>10 DEF Corpus, NoRepeat

LEMMA TailElements ==
  ASSUME NEW T, NEW s \in Seq(T), s # << >>
  PROVE  /\ Tail(s) \in Seq(T) /\ Head(s) \in T /\ Head(s) \in ToSet(s)
         /\ ToSet(Tail(s)) \subseteq ToSet(s)
         /\ IsInjective(s) => IsInjective(Tail(s)) /\ Head(s) \notin ToSet(Tail(s))
<1>1. /\ Tail(s) \in Seq(T) /\ Head(s) = s[1] /\ Len(Tail(s)) = Len(s) - 1
      /\ \A i \in 1..(Len(s) - 1) : Tail(s)[i] = s[i + 1]
      /\ Len(s) \in Nat \ {0} /\ DOMAIN s = 1..Len(s) /\ DOMAIN Tail(s) = 1..(Len(s) - 1)
  BY HeadTailProperties, EmptySeq
<1>2. \A i \in 1..(Len(s) - 1) : i + 1 \in 1..Len(s) /\ i + 1 # 1
  BY <1>1
<1>3. Head(s) \in T /\ Head(s) \in ToSet(s)
  BY <1>1 DEF ToSet
<1>4. ToSet(Tail(s)) \subseteq ToSet(s)
  BY <1>1, <1>2 DEF ToSet
<1>5. ASSUME IsInjective(s) PROVE IsInjective(Tail(s)) /\ Head(s) \notin ToSet(Tail(s))
  <2>1. \A i, j \in 1..(Len(s) - 1) : i + 1 = j + 1 => i = j
    BY <1>1
  <2>2. IsInjective(Tail(s))
    BY <1>1, <1>2, <1>5, <2>1 DEF IsInjective
  <2>3. 1 \in 1..Len(s)
    BY <1>1
  <2>4. Head(s) \notin ToSet(Tail(s))
    BY <1>1, <1>2, <1>5, <2>3 DEF IsInjective, ToSet
  <2> QED
    BY <2>2, <2>4
<1> QED
  BY <1>1, <1>3, <1>4, <1>5

LEMMA ParseNextCorpus ==
  ASSUME Corpus, NoRepeat, ParseNext
  PROVE  Corpus' /\ NoRepeat'
<1> USE DEF ParseNext
<1>1. /\ todo' = Tail(todo) /\ todo \in Seq(Pages) /\ todo # << >>
      /\ disk' = disk /\ nav' = nav /\ phase' = phase /\ phase = "parse"
      /\ docs \in Seq(Document) /\ DOMAIN docs = 1..Len(docs) /\ Len(docs) \in Nat
  BY DEF Corpus
<1> DEFINE p == Head(todo)
<1>2. /\ todo' \in Seq(Pages) /\ p \in Pages /\ p \in ToSet(todo)
      /\ ToSet(todo') \subseteq ToSet(todo)
      /\ IsInjective(todo) => IsInjective(todo') /\ p \notin ToSet(todo')
  BY <1>1, TailElements
<1> HIDE DEF p
<1>3. /\ DOMAIN disk \subseteq Pages /\ \A x \in DOMAIN disk : disk[x] \in Library
      /\ nav \in NavLists
      /\ \A i \in DOMAIN docs : Faithful(docs[i]) /\ docs[i].related = << >>
  BY <1>1 DEF Corpus
<1>4. CASE p \notin DOMAIN disk
  <2>1. docs' = docs
    BY <1>4 DEF p
  <2>2. Corpus'
    BY <1>1, <1>2, <1>3, <2>1, ZenonT(60) DEF Corpus, Faithful
  <2>3. Paths' = Paths
    BY <2>1 DEF Paths
  <2>4. NoRepeat'
    BY <1>1, <1>2, <2>3 DEF NoRepeat
  <2> QED
    BY <2>2, <2>4
<1>5. CASE p \in DOMAIN disk
  <2>1. disk[p] \in Page
    BY <1>3, <1>5, SearchAssumption
  <2>2. PICK d \in ParseBytes(p, disk[p]) : docs' = Append(docs, d)
    BY <1>5 DEF p
  <2>3. Parsed(d, p, disk[p])
    BY <1>2, <2>1, ParseResult
  <2>4. d \in Document /\ d.path = p /\ d.related = << >> /\ Faithful(d)
    BY <1>2, <1>5, <2>1, <2>3 DEF Parsed, Faithful
  <2>5. /\ docs' \in Seq(Document) /\ DOMAIN docs' = 1..(Len(docs) + 1)
        /\ \A i \in 1..Len(docs) : docs'[i] = docs[i]
        /\ docs'[Len(docs) + 1] = d
    <3> DEFINE longer == Append(docs, d)
    <3>1. /\ longer \in Seq(Document) /\ Len(longer) = Len(docs) + 1
          /\ \A i \in 1..Len(docs) : longer[i] = docs[i]
          /\ longer[Len(docs) + 1] = d
      BY <1>1, <2>4, AppendProperties
    <3> HIDE DEF longer
    <3>2. DOMAIN longer = 1..(Len(docs) + 1)
      BY <3>1
    <3>3. docs' = longer
      BY <2>2 DEF longer
    <3> QED
      BY <3>1, <3>2, <3>3
  <2>6. ASSUME NEW i \in DOMAIN docs' PROVE Faithful(docs'[i]) /\ docs'[i].related = << >>
    <3>1. i \in 1..Len(docs) \/ i = Len(docs) + 1
      BY <1>1, <2>5
    <3> QED
      BY <1>1, <1>3, <2>4, <2>5, <3>1
  <2>7. ASSUME NEW i \in DOMAIN docs' PROVE Faithful(docs[i])'
    BY <1>1, <2>6 DEF Faithful
  <2>8. Corpus'
    <3>1. \A i \in DOMAIN docs' : docs'[i].related = << >>
      BY <2>6
    <3> QED
      BY <1>1, <1>2, <1>3, <2>5, <2>7, <3>1 DEF Corpus
  <2>9. Paths \in Seq(Pages) /\ Len(Paths) = Len(docs)
    <3>1. \A i \in 1..Len(docs) : docs[i].path \in Pages
      BY <1>1, <1>3 DEF Faithful
    <3>2. Paths = [i \in 1..Len(docs) |-> docs[i].path]
      BY <1>1 DEF Paths
    <3> QED
      BY <1>1, <3>1, <3>2
  <2>10. Paths' = Append(Paths, p)
    <3>1. Append(Paths, p) = [i \in 1..(Len(docs) + 1) |-> IF i <= Len(docs) THEN docs[i].path ELSE p]
      BY <1>1, <1>2, <2>9 DEF Paths
    <3>2. \A i \in 1..(Len(docs) + 1) : docs'[i].path = IF i <= Len(docs) THEN docs[i].path ELSE p
      BY <1>1, <2>4, <2>5
    <3>3. Paths' = [i \in 1..(Len(docs) + 1) |-> docs'[i].path]
      BY <2>5 DEF Paths
    <3> QED
      BY <3>1, <3>2, <3>3
  <2>11. /\ ToSet(Append(Paths, p)) = ToSet(Paths) \cup {p}
         /\ IsInjective(Paths) /\ p \notin ToSet(Paths) => IsInjective(Append(Paths, p))
    BY <1>2, <2>9, AppendElements
  <2>12. NoRepeat'
    <3> SUFFICES ASSUME IsInjective(nav)
                 PROVE  /\ IsInjective(Paths') /\ IsInjective(todo')
                        /\ ToSet(Paths') \cap ToSet(todo') = {}
      BY <1>1 DEF NoRepeat
    <3>1. IsInjective(Paths) /\ IsInjective(todo) /\ ToSet(Paths) \cap ToSet(todo) = {}
      BY DEF NoRepeat
    <3> QED
      BY <1>2, <2>10, <2>11, <3>1
  <2> QED
    BY <2>8, <2>12
<1> QED
  BY <1>4, <1>5

LEMMA ParseDoneCorpus ==
  ASSUME Corpus, NoRepeat, ParseDone
  PROVE  Corpus' /\ NoRepeat'
<1>1. /\ phase = "parse" /\ phase' = "related" /\ disk' = disk /\ nav' = nav
      /\ todo' = todo /\ docs' = docs
  BY DEF ParseDone
<1>2. Corpus'
  BY <1>1 DEF Corpus, Faithful
<1>3. Paths' = Paths
  BY <1>1 DEF Paths
<1> QED
  BY <1>1, <1>2, <1>3 DEF NoRepeat

LEMMA ComputeRelatedCorpus ==
  ASSUME Corpus, NoRepeat, ComputeRelated
  PROVE  Corpus' /\ NoRepeat'
<1>1. /\ phase = "related" /\ phase' = "ready" /\ disk' = disk /\ nav' = nav /\ todo' = todo
      /\ docs' = [i \in DOMAIN docs |-> [docs[i] EXCEPT !.related = Related(docs[i])]]
  BY DEF ComputeRelated
<1>2. docs \in Seq(Document) /\ DOMAIN docs = 1..Len(docs) /\ Len(docs) \in Nat
  BY DEF Corpus
<1>3. ASSUME NEW d \in Document
      PROVE  /\ [d EXCEPT !.related = Related(d)] \in Document
             /\ [d EXCEPT !.related = Related(d)].related = Related(d)
             /\ [d EXCEPT !.related = Related(d)].path = d.path
             /\ [d EXCEPT !.related = Related(d)].tags = d.tags
  <2>1. Related(d) \in Seq(Pages)
    BY <1>2, RelatedElements
  <2> DEFINE r == Related(d)
  <2> HIDE DEF r
  <2>2. r \in Seq(Pages)
    BY <2>1 DEF r
  <2>3. /\ [d EXCEPT !.related = r] \in Document /\ [d EXCEPT !.related = r].related = r
        /\ [d EXCEPT !.related = r].path = d.path /\ [d EXCEPT !.related = r].tags = d.tags
    BY <2>2 DEF Document
  <2> QED
    BY <2>3 DEF r
<1>4. ASSUME NEW d \in Document, Faithful(d) PROVE Faithful([d EXCEPT !.related = Related(d)])
  <2> DEFINE r == Related(d)
  <2> HIDE DEF r
  <2>1. Faithful([d EXCEPT !.related = r])
    BY <1>4 DEF Faithful, Document
  <2> QED
    BY <2>1 DEF r
<1>5. docs' \in Seq(Document) /\ DOMAIN docs' = DOMAIN docs
  <2> DEFINE new(d) == [d EXCEPT !.related = Related(d)]
  <2>1. \A d \in Document : new(d) \in Document
    BY <1>3
  <2>2. docs' = [i \in 1..Len(docs) |-> new(docs[i])]
    BY <1>1, <1>2
  <2> HIDE DEF new
  <2>3. \A i \in 1..Len(docs) : docs[i] \in Document
    BY <1>2
  <2>4. docs' \in [1..Len(docs) -> Document]
    BY <2>1, <2>2, <2>3
  <2> QED
    BY <1>2, <2>4
<1>6. ASSUME NEW i \in DOMAIN docs
      PROVE  /\ Faithful(docs'[i]) /\ docs'[i].related = Related(docs[i])
             /\ docs'[i].path = docs[i].path /\ docs'[i].tags = docs[i].tags
  <2>1. docs[i] \in Document /\ Faithful(docs[i])
    BY <1>2 DEF Corpus
  <2>2. docs'[i] = [docs[i] EXCEPT !.related = Related(docs[i])]
    BY <1>1
  <2> QED
    BY <1>3, <1>4, <2>1, <2>2
<1>7. ASSUME NEW i \in DOMAIN docs PROVE Sharing(docs[i])' = Sharing(docs[i])
  <2>1. docs'[i].tags = docs[i].tags
    BY <1>6
  <2>2. \A j \in DOMAIN docs : docs'[j].path = docs[j].path /\ docs'[j].tags = docs[j].tags
    BY <1>6
  <2> QED
    BY <1>5, <2>1, <2>2 DEF Sharing
<1>8. ASSUME NEW i \in DOMAIN docs'
      PROVE  /\ Faithful(docs[i])'
             /\ IsInjective(docs'[i].related)
             /\ ToSet(docs'[i].related) = Sharing(docs[i])' \ {docs'[i].path}
  <2>1. i \in DOMAIN docs
    BY <1>5
  <2>2. Faithful(docs[i])'
    BY <1>1, <1>6, <2>1 DEF Faithful
  <2>3. docs[i] \in Document
    BY <1>2, <2>1
  <2>4. IsInjective(Related(docs[i])) /\ ToSet(Related(docs[i])) = Sharing(docs[i]) \ {docs[i].path}
    BY <1>2, <2>3, RelatedElements
  <2> QED
    BY <1>6, <1>7, <2>1, <2>2, <2>4
<1>9. Corpus'
  <2>1. /\ DOMAIN disk \subseteq Pages /\ \A x \in DOMAIN disk : disk[x] \in Library
        /\ nav \in NavLists /\ todo \in Seq(Pages)
    BY DEF Corpus
  <2> QED
    BY <1>1, <1>5, <1>8, <2>1 DEF Corpus
<1>10. Paths' = Paths
  BY <1>5, <1>6 DEF Paths
<1> QED
  BY <1>1, <1>9, <1>10 DEF NoRepeat

LEMMA CorpusUnchanged ==
  ASSUME Corpus, NoRepeat, UNCHANGED corpusVars
  PROVE  Corpus' /\ NoRepeat'
<1>1. disk' = disk /\ nav' = nav /\ todo' = todo /\ docs' = docs /\ phase' = phase
  BY DEF corpusVars
<1>2. Corpus'
  BY <1>1, ZenonT(60) DEF Corpus, Faithful, Sharing
<1>3. Paths' = Paths
  BY <1>1 DEF Paths
<1> QED
  BY <1>1, <1>2, <1>3 DEF NoRepeat

-----------------------------------------------------------------------------
(* The answers of a call                                                   *)

Hits(tool, q) == {i \in DOMAIN docs : Score(tool, docs[i], q) > 0}

Ranked(tool, q, s) == [i \in DOMAIN s |-> Hit(tool, s[i], q)]

\* The results are those of the latest call.
Answered ==
  /\ ask = NoCall => results = << >>
  /\ ask # NoCall =>
       /\ phase = "ready"
       /\ ask.tool \in Tools /\ ask.query \in Queries /\ ask.limit \in Int
       /\ \E s \in SetToSeqs(Hits(ask.tool, ask.query)) :
            /\ Sorted(Ranked(ask.tool, ask.query, s))
            /\ results = Cut(Ranked(ask.tool, ask.query, s), ask.limit)

LEMMA CallAnswered ==
  ASSUME Corpus, NEW tool \in Tools, NEW q \in Queries, NEW limit \in Limits,
         Call(tool, q, limit)
  PROVE  Answered'
<1>1. /\ phase' = "ready" /\ docs' = docs
      /\ ask' = [tool |-> tool, query |-> q, limit |-> Effective(limit)]
  BY DEF Call, Indexed, corpusVars
<1>2. PICK s \in SetToSeqs(Hits(tool, q)) :
        /\ Sorted(Ranked(tool, q, s))
        /\ results' = Cut(Ranked(tool, q, s), Effective(limit))
  BY DEF Call, Hits, Ranked
<1>3. Effective(limit) \in Int
  BY SearchAssumption DEF Effective
<1>4. ask' # NoCall
  <2>1. "query" \in DOMAIN ask' /\ "query" \notin DOMAIN NoCall
    BY <1>1 DEF NoCall
  <2> QED
    BY <2>1
<1>5. ask'.tool = tool /\ ask'.query = q /\ ask'.limit = Effective(limit)
  BY <1>1
<1>6. Hits(tool, q)' = Hits(tool, q) /\ Ranked(tool, q, s)' = Ranked(tool, q, s)
  BY <1>1 DEF Hits, Ranked, Hit
<1>7. /\ Hits(ask.tool, ask.query)' = Hits(tool, q)
      /\ Ranked(ask.tool, ask.query, s)' = Ranked(tool, q, s)
  BY <1>1, <1>5 DEF Hits, Ranked, Hit
<1> QED
  BY <1>1, <1>2, <1>3, <1>4, <1>5, <1>7 DEF Answered, Sorted

LEMMA AnswerUnchanged ==
  ASSUME Answered, UNCHANGED callVars, ask = NoCall \/ UNCHANGED corpusVars
  PROVE  Answered'
<1>1. ask' = ask /\ results' = results
  BY DEF callVars
<1>2. CASE ask = NoCall
  BY <1>1, <1>2 DEF Answered
<1>3. CASE ask # NoCall
  <2>1. docs' = docs /\ phase' = phase
    BY <1>3 DEF corpusVars
  <2> QED
    BY <1>1, <1>3, <2>1, ZenonT(60) DEF Answered, Hits, Ranked, Hit, Sorted
<1> QED
  BY <1>2, <1>3

\* What the results of a call are.
LEMMA AnswerElements ==
  ASSUME Corpus, Answered, ask # NoCall
  PROVE  \E s \in Seq(Hits(ask.tool, ask.query)) :
           /\ ToSet(s) = Hits(ask.tool, ask.query) /\ IsInjective(s)
           /\ Len(results) \in 0..Len(s) /\ DOMAIN results = 1..Len(results)
           /\ Len(results) < Len(s) => ask.limit > 0 /\ Len(results) = ask.limit
           /\ \A k \in 1..Len(results) :
                /\ results[k].doc = s[k]
                /\ results[k].score = Score(ask.tool, docs[s[k]], ask.query)
           /\ \A k, l \in 1..Len(s) : k < l =>
                Score(ask.tool, docs[s[k]], ask.query) >= Score(ask.tool, docs[s[l]], ask.query)
<1> DEFINE tool == ask.tool
    q == ask.query
    limit == ask.limit
    hits == Hits(tool, q)
<1>1. PICK s \in SetToSeqs(hits) :
        Sorted(Ranked(tool, q, s)) /\ results = Cut(Ranked(tool, q, s), limit)
  BY DEF Answered
<1>2. limit \in Int
  BY DEF Answered
<1>3. IsFiniteSet(hits)
  <2>1. hits \subseteq 1..Len(docs)
    BY DEF Hits, Corpus
  <2>2. IsFiniteSet(1..Len(docs))
    BY FS_Interval DEF Corpus
  <2> QED
    BY <2>1, <2>2, FS_Subset
<1> HIDE DEF tool, q, limit, hits
<1>4. s \in Seq(hits) /\ ToSet(s) = hits /\ IsInjective(s)
  BY <1>1, <1>3, AnyOrder
<1> DEFINE r == Ranked(tool, q, s)
    N == Len(s)
<1>5. N \in Nat /\ DOMAIN s = 1..N
  BY <1>4
<1>6. /\ DOMAIN r = 1..N
      /\ \A k \in 1..N : r[k].doc = s[k] /\ r[k].score = Score(tool, docs[s[k]], q)
  BY <1>5 DEF Ranked, Hit
<1>7. r \in Seq({r[k] : k \in 1..N}) /\ Len(r) = N
  <2>1. r = [k \in 1..N |-> r[k]]
    BY <1>5 DEF Ranked
  <2> HIDE DEF r, N
  <2>2. r \in [1..N -> {r[k] : k \in 1..N}]
    BY <2>1
  <2> QED
    BY <1>5, <1>6, <2>2
<1>8. results = Cut(r, limit) /\ Sorted(r)
  BY <1>1
<1> HIDE DEF r, N
<1>9. \A k, l \in 1..N : k < l => r[k].score >= r[l].score
  BY <1>6, <1>8 DEF Sorted
<1>10. /\ Len(results) \in 0..N /\ DOMAIN results = 1..Len(results)
       /\ Len(results) < N => limit > 0 /\ Len(results) = limit
       /\ \A k \in 1..Len(results) : results[k] = r[k]
  <2>1. CASE limit > 0 /\ N > limit
    <3>1. results = SubSeq(r, 1, limit)
      BY <1>7, <1>8, <2>1 DEF Cut
    <3>2. limit \in 1..N /\ 1 \in 1..(N + 1) /\ \A i \in 1..limit : i \in 1..N
      BY <1>2, <1>5, <2>1
    <3>3. Len(results) = limit /\ DOMAIN results = 1..limit /\ \A k \in 1..limit : results[k] = r[k]
      BY <1>2, <1>5, <1>7, <2>1, <3>1, <3>2
    <3> QED
      BY <1>2, <1>5, <2>1, <3>3
  <2>2. CASE ~(limit > 0 /\ N > limit)
    <3>1. results = r
      BY <1>7, <1>8, <2>2 DEF Cut
    <3> QED
      BY <1>5, <1>6, <1>7, <3>1
  <2> QED
    BY <2>1, <2>2
<1>11. \A k \in 1..Len(results) : k \in 1..N
  BY <1>5, <1>10
<1>12. /\ \A k \in 1..Len(results) :
            results[k].doc = s[k] /\ results[k].score = Score(tool, docs[s[k]], q)
       /\ \A k, l \in 1..N : k < l => Score(tool, docs[s[k]], q) >= Score(tool, docs[s[l]], q)
  BY <1>6, <1>9, <1>10, <1>11
<1> QED
  BY <1>4, <1>10, <1>12 DEF tool, q, limit, hits, N

LEMMA AnswerRanked ==
  ASSUME Corpus, NoRepeat, Answered
  PROVE  ResultsRanked
<1>1. CASE ask = NoCall
  <2>1. results = << >>
    BY <1>1 DEF Answered
  <2> QED
    BY <1>1, <2>1 DEF ResultsRanked, Sorted
<1>2. CASE ask # NoCall
  <2> DEFINE score(i) == Score(ask.tool, docs[i], ask.query)
             hits == Hits(ask.tool, ask.query)
  <2>1. PICK s \in Seq(hits) :
           /\ ToSet(s) = hits /\ IsInjective(s)
           /\ Len(results) \in 0..Len(s) /\ DOMAIN results = 1..Len(results)
           /\ Len(results) < Len(s) => ask.limit > 0 /\ Len(results) = ask.limit
           /\ \A k \in 1..Len(results) : results[k].doc = s[k] /\ results[k].score = score(s[k])
           /\ \A k, l \in 1..Len(s) : k < l => score(s[k]) >= score(s[l])
    BY <1>2, AnswerElements
  <2> DEFINE N == Len(s)
             M == Len(results)
  <2>2. N \in Nat /\ M \in Nat /\ M <= N /\ DOMAIN s = 1..N
    BY <2>1
  <2>3. \A i \in hits : i \in DOMAIN docs /\ score(i) \in Nat /\ score(i) > 0
    <3>1. ask.query \in Text
      BY <1>2, SearchAssumption DEF Answered
    <3>2. \A i \in DOMAIN docs : docs[i] \in Document
      BY DEF Corpus
    <3> QED
      BY <3>1, <3>2, ScoreType DEF Hits
  <2>4. \A k \in 1..N : s[k] \in hits
    BY <2>1
  <2>5. \A i \in DOMAIN docs : score(i) > 0 => i \in hits
    BY DEF Hits
  <2> HIDE DEF score, hits
  <2>6. Sorted(results)
    <3>1. \A k \in 1..M : k \in 1..N
      BY <2>2
    <3> QED
      BY <2>1, <3>1 DEF Sorted
  <2>7. ASSUME NEW i \in DOMAIN docs \ {results[k].doc : k \in DOMAIN results}, score(i) > 0
        PROVE  /\ ask.limit > 0 /\ Len(results) = ask.limit
               /\ score(i) <= results[ask.limit].score
    <3>1. PICK k \in 1..N : i = s[k]
      BY <2>1, <2>5, <2>7, ToSetIn
    <3>2. ~(k <= M)
      <4>1. ASSUME k <= M PROVE FALSE
        <5>1. k \in 1..M
          BY <2>2, <4>1
        <5>2. results[k].doc = i
          BY <2>1, <3>1, <5>1
        <5> QED
          BY <2>1, <2>7, <5>1, <5>2
      <4> QED
        BY <4>1
    <3>3. ask.limit > 0 /\ M = ask.limit /\ M < k
      BY <2>1, <2>2, <3>2
    <3>4. M \in 1..M /\ M \in 1..N
      BY <2>2, <3>3
    <3>5. results[M].score = score(s[M])
      BY <2>1, <3>4
    <3>6. score(s[M]) >= score(s[k])
      BY <2>1, <3>3, <3>4
    <3>7. score(s[M]) \in Nat /\ score(s[k]) \in Nat
      BY <2>3, <2>4, <3>4
    <3>8. score(i) <= results[M].score
      BY <3>1, <3>5, <3>6, <3>7
    <3> QED
      BY <3>3, <3>8
  <2>8. ASSUME IsInjective(nav), NEW i \in DOMAIN results, NEW j \in DOMAIN results, i # j
        PROVE  docs[results[i].doc].path # docs[results[j].doc].path
    <3>1. i \in 1..N /\ j \in 1..N /\ results[i].doc = s[i] /\ results[j].doc = s[j]
      BY <2>1, <2>2
    <3>2. s[i] # s[j] /\ s[i] \in DOMAIN docs /\ s[j] \in DOMAIN docs
      BY <2>1, <2>2, <2>3, <2>4, <2>8, <3>1 DEF IsInjective
    <3>3. IsInjective(Paths)
      BY <2>8 DEF NoRepeat
    <3> QED
      BY <3>1, <3>2, <3>3 DEF Paths, IsInjective
  <2> QED
    BY <2>6, <2>7, <2>8 DEF ResultsRanked, score
<1> QED
  BY <1>1, <1>2

LEMMA AnswerType ==
  ASSUME TypeOK, Corpus, Answered
  PROVE  SearchTypeOK
<1>1. /\ DOMAIN disk \subseteq Pages /\ \A p \in DOMAIN disk : disk[p] \in Library
      /\ nav \in NavLists /\ phase \in {"parse", "related", "ready"}
  BY DEF Corpus
<1>2. ToSet(todo) \subseteq Pages
  BY ToSetIn DEF Corpus
<1>3. ASSUME NEW i \in DOMAIN docs
      PROVE  docs[i].path \in DOMAIN disk /\ ToSet(docs[i].related) \subseteq DOMAIN disk
  <2>1. \A j \in DOMAIN docs : docs[j].path \in DOMAIN disk
    BY DEF Corpus, Faithful
  <2>2. docs[i].related = << >> \/ ToSet(docs[i].related) \subseteq Sharing(docs[i])
    BY DEF Corpus
  <2>3. Sharing(docs[i]) \subseteq DOMAIN disk
    BY <2>1 DEF Sharing
  <2>4. ToSet(<< >>) = {}
    BY DEF ToSet
  <2> QED
    BY <2>1, <2>2, <2>3, <2>4
<1>4. ask.tool \in Tools \cup {"none"}
  BY DEF Answered, NoCall
<1>5. \A i \in DOMAIN results : results[i].doc \in DOMAIN docs /\ results[i].score \in Nat
  <2>1. CASE ask = NoCall
    BY <2>1 DEF Answered
  <2>2. CASE ask # NoCall
    <3>1. PICK s \in Seq(Hits(ask.tool, ask.query)) :
            /\ Len(results) \in 0..Len(s) /\ DOMAIN results = 1..Len(results)
            /\ \A k \in 1..Len(results) :
                 /\ results[k].doc = s[k]
                 /\ results[k].score = Score(ask.tool, docs[s[k]], ask.query)
      BY <2>2, AnswerElements
    <3>2. \A k \in 1..Len(results) : s[k] \in Hits(ask.tool, ask.query)
      BY <3>1
    <3>3. ask.query \in Text /\ \A i \in DOMAIN docs : docs[i] \in Document
      BY <2>2, SearchAssumption DEF Answered, Corpus
    <3> QED
      BY <3>1, <3>2, <3>3, ScoreType DEF Hits
  <2> QED
    BY <2>1, <2>2
<1> QED
  BY <1>1, <1>2, <1>3, <1>4, <1>5 DEF SearchTypeOK

LEMMA CorpusKeywords ==
  ASSUME Corpus
  PROVE  KeywordsAreTop
  BY DEF Corpus, Faithful, KeywordsAreTop, TopWords

LEMMA CorpusRelated ==
  ASSUME Corpus
  PROVE  RelatedMutual
<1> SUFFICES ASSUME phase = "ready", NEW i \in DOMAIN docs, NEW j \in DOMAIN docs
             PROVE  /\ docs[i].path \notin ToSet(docs[i].related)
                    /\ IsInjective(docs[i].related)
                    /\ docs[j].path \in ToSet(docs[i].related)
                         <=> docs[i].path \in ToSet(docs[j].related)
  BY DEF RelatedMutual, Indexed
<1>1. \A k \in DOMAIN docs :
        /\ IsInjective(docs[k].related)
        /\ ToSet(docs[k].related) = Sharing(docs[k]) \ {docs[k].path}
        /\ docs[k].tags = disk[docs[k].path].tags
  BY DEF Corpus, Faithful
<1>2. ASSUME NEW k \in DOMAIN docs, NEW l \in DOMAIN docs
      PROVE  docs[l].path \in Sharing(docs[k])
               <=> ToSet(docs[l].tags) \cap ToSet(docs[k].tags) # {}
  <2>1. ASSUME docs[l].path \in Sharing(docs[k])
        PROVE  ToSet(docs[l].tags) \cap ToSet(docs[k].tags) # {}
    <3>1. PICK m \in DOMAIN docs : /\ docs[m].path = docs[l].path
                                   /\ ToSet(docs[m].tags) \cap ToSet(docs[k].tags) # {}
      BY <2>1 DEF Sharing
    <3> QED
      BY <1>1, <3>1
  <2> QED
    BY <2>1 DEF Sharing
<1> QED
  BY <1>1, <1>2

-----------------------------------------------------------------------------
(* A word of the prose is found                                            *)

LEMMA PieceThere ==
  ASSUME NEW t \in Seq(Words), NEW w \in ToSet(t), NEW v, Within(v, w) # {}
  PROVE  HasWord(t, v)
<1>1. PICK k \in 1..Len(t) : t[k] = w
  BY ToSetIn
<1>2. k - 1 \in 0..(Len(t) - 1) /\ (k - 1) + 1 = k /\ Len(<<v>>) = 1
  OBVIOUS
<1>3. PICK o : o \in Within(v, w)
  OBVIOUS
<1>4. ASSUME NEW i \in 1..1
      PROVE  \E at \in Within(<<v>>[i], t[(k - 1) + i]) :
               (i > 1 => at = 0) /\ (i < 1 => at + Size[<<v>>[i]] = Size[t[(k - 1) + i]])
  <2>1. i = 1 /\ <<v>>[i] = v /\ t[(k - 1) + i] = w
    BY <1>1, <1>2
  <2> QED
    BY <1>3, <2>1
<1>5. k - 1 \in Occurrences(<<v>>, t)
  BY <1>2, <1>4 DEF Occurrences
<1> QED
  BY <1>5 DEF HasWord, HasPhrase

\* Prose goes into the text that is indexed.
LEMMA ProseIndexed ==
  ASSUME NEW body \in Seq(Line), NEW l \in ToSet(body), l.kind # "code",
         NEW w \in ToSet(l.text), Plain[w] = w, First[w] = w
  PROVE  w \in ToSet(PlainText(body))
<1> DEFINE plain(x) == IF x.kind = "code" THEN << >> ELSE Stripped(x.text)
    texts == [i \in DOMAIN body |-> plain(body[i])]
<1>1. ASSUME NEW x \in Line PROVE plain(x) \in Seq(Words)
  <2>1. x.text \in Seq(Words) /\ << >> \in Seq(Words)
    BY DEF Line, Text
  <2>2. Stripped(x.text) \in Seq(Words)
    BY <2>1, StrippedType
  <2> QED
    BY <2>1, <2>2
<1>2. DOMAIN body = 1..Len(body) /\ Len(body) \in Nat /\ \A i \in 1..Len(body) : body[i] \in Line
  OBVIOUS
<1>3. PICK n \in 1..Len(body) : l = body[n]
  BY ToSetIn
<1>4. w \in ToSet(plain(l))
  <2>1. l \in Line /\ l.text \in Seq(Words)
    BY <1>2, <1>3 DEF Line, Text
  <2>2. PICK k \in 1..Len(l.text) : l.text[k] = w
    BY <2>1, ToSetIn
  <2>3. /\ Stripped(l.text) \in Seq(Words) /\ Len(Stripped(l.text)) = Len(l.text)
        /\ Stripped(l.text)[k] = w
    BY <2>1, <2>2, StrippedType
  <2>4. w \in ToSet(Stripped(l.text))
    BY <2>2, <2>3, ToSetIn
  <2> QED
    BY <2>4
<1> HIDE DEF plain
<1>5. texts \in [1..Len(body) -> Seq(Words)] /\ texts[n] = plain(l)
  BY <1>1, <1>2, <1>3
<1>6. PlainText(body) = FlattenSeq(texts)
  BY DEF PlainText, plain
<1> HIDE DEF texts
<1>7. texts \in Seq(Seq(Words)) /\ Len(texts) = Len(body)
  BY <1>2, <1>5
<1>8. ToSet(FlattenSeq(texts)) = UNION {ToSet(texts[i]) : i \in 1..Len(texts)}
  BY <1>7, FlattenElements
<1> QED
  BY <1>4, <1>5, <1>6, <1>7, <1>8

\* In lower case too.
LEMMA LowerThere ==
  ASSUME NEW t \in Seq(Words), NEW w \in ToSet(t)
  PROVE  Map(Lower, t) \in Seq(Words) /\ Lower[w] \in ToSet(Map(Lower, t))
<1>1. PICK k \in 1..Len(t) : t[k] = w
  BY ToSetIn
<1>2. /\ Map(Lower, t) \in Seq(Words) /\ Len(Map(Lower, t)) = Len(t)
      /\ Map(Lower, t)[k] = Lower[t[k]]
  <2>1. Map(Lower, t) \in Seq(Words)
    BY MapType, DocumentsAssumption
  <2> QED
    BY <2>1 DEF Map
<1> QED
  BY <1>1, <1>2, ToSetIn

\* A word occurs in itself, and so does every piece it is split into.
LEMMA PieceWithin ==
  ASSUME NEW w \in Words
  PROVE  /\ Within(w, w) # {}
         /\ \A v \in ToSet(Split[w]) : Within(v, w) # {}
<1>1. 0 \in Within(w, w)
  BY DEF Within
<1>2. ASSUME NEW v \in ToSet(Split[w]), v # w
      PROVE  Within(v, w) # {}
  <2>1. PICK x \in Inside : x[1] = v /\ x[2] = w
    BY <1>2, SearchAssumption
  <2>2. x[3] \in Within(v, w)
    BY <2>1 DEF Within
  <2> QED
    BY <2>2
<1> QED
  BY <1>1, <1>2

LEMMA CorpusProse ==
  ASSUME Corpus
  PROVE  ProseFound
<1> SUFFICES ASSUME NEW i \in DOMAIN docs, NEW w \in Words, NEW asked \in Words,
                    Simple(w), Fold[w] = Fold[asked],
                    \/ w \in ToSet(disk[docs[i].path].title)
                    \/ \E l \in ToSet(disk[docs[i].path].body) :
                         l.kind # "code" /\ w \in ToSet(l.text),
                    NEW tool \in Tools,
                    tool = "symbols" \/ ToSet(Split[Fold[w]]) \cap Long # {}
             PROVE  Score(tool, docs[i], <<asked>>) > 0
  BY DEF ProseFound
<1> DEFINE d == docs[i]
    page == disk[d.path]
    f == Fold[asked]
<1>1. Lower[w] = f /\ Plain[w] = w /\ First[w] = w /\ f \in Words
  BY DocumentsAssumption DEF Simple
<1>2. d \in Document /\ Faithful(d) /\ page \in Page
  BY DEF Corpus, Faithful
<1> HIDE DEF d, page, f
<1>3. \/ d.titleLower \in Seq(Words) /\ f \in ToSet(d.titleLower)
      \/ d.contentLower \in Seq(Words) /\ f \in ToSet(d.contentLower)
  <2>1. CASE w \in ToSet(page.title)
    <3>1. page.title \in Seq(Words)
      BY <1>2 DEF Page, Text
    <3>2. page.title # << >>
      BY <2>1, <3>1, ToSetIn
    <3>3. d.titleLower = Map(Lower, page.title)
      BY <1>2, <3>2 DEF Faithful, page
    <3> QED
      BY <1>1, <2>1, <3>1, <3>3, LowerThere
  <2>2. CASE \E l \in ToSet(page.body) : l.kind # "code" /\ w \in ToSet(l.text)
    <3>1. page.body \in Seq(Line)
      BY <1>2 DEF Page
    <3>2. w \in ToSet(PlainText(page.body)) /\ PlainText(page.body) \in Seq(Words)
      BY <1>1, <2>2, <3>1, ProseIndexed, PlainTextType DEF Text
    <3>3. d.contentLower = Map(Lower, PlainText(page.body))
      BY <1>2 DEF Faithful, page
    <3> QED
      BY <1>1, <3>2, <3>3, LowerThere
  <2> QED
    BY <2>1, <2>2 DEF d, page
<1>4. \A v : Within(v, f) # {} => HasWord(d.titleLower, v) \/ HasWord(d.contentLower, v)
  BY <1>3, PieceThere
<1>5. CASE tool = "symbols"
  <2>1. <<f>> \in Seq(Words) /\ Map(Fold, <<asked>>) = <<f>>
    BY <1>1 DEF Map, f
  <2>2. HasWord(d.titleLower, f) \/ HasWord(d.contentLower, f)
    BY <1>1, <1>4, PieceWithin
  <2>3. ScoreSymbols(d, <<f>>) > 0
    BY <1>2, <2>1, <2>2, ScoreSymbolsType DEF HasWord
  <2> QED
    BY <1>5, <2>1, <2>3 DEF Score, d
<1>6. CASE tool = "search"
  <2> DEFINE toks == Tokenize(<<asked>>)
             scores == [k \in DOMAIN toks |-> ScoreToken(d, toks[k])]
             phrase == IF HasPhrase(d.titleLower, toks) THEN 500 ELSE 0
  <2>1. PICK v : v \in ToSet(Split[f]) \cap Long
    BY <1>6 DEF f
  <2>2. toks \in Seq(Words) /\ v \in ToSet(toks)
    <3>1. <<asked>> \in Seq(Words) /\ 1 \in 1..Len(<<asked>>) /\ <<asked>>[1] = asked
      OBVIOUS
    <3> QED
      BY <2>1, <3>1, TokenizeType DEF f
  <2> HIDE DEF toks
  <2>3. ScoreToken(d, v) > 0
    BY <1>1, <1>2, <1>4, <2>1, PieceWithin, ScoreTokenType
  <2>4. PICK k \in 1..Len(toks) : toks[k] = v
    BY <2>2, ToSetIn
  <2>5. \A n \in DOMAIN toks : ScoreToken(d, toks[n]) \in Nat
    BY <1>2, ScoreTokenType
  <2>6. scores \in Seq(Nat) /\ Len(scores) = Len(toks) /\ scores[k] = ScoreToken(d, v)
    <3>1. scores \in [DOMAIN toks -> Nat]
      BY <2>5
    <3>2. scores \in Seq(Nat)
      <4> HIDE DEF scores
      <4> QED
        BY <2>2, <3>1, NumberSeq
    <3> QED
      BY <2>2, <2>4, <3>2
  <2>7. ScoreDocument(d, toks) = phrase + Total(scores)
    BY DEF ScoreDocument
  <2> HIDE DEF scores
  <2>8. Total(scores) \in Nat /\ scores[k] <= Total(scores)
    BY <2>4, <2>6, TotalType
  <2>9. phrase \in Nat
    OBVIOUS
  <2> HIDE DEF phrase
  <2>10. ScoreDocument(d, toks) > 0
    BY <1>2, <2>3, <2>4, <2>5, <2>6, <2>7, <2>8, <2>9
  <2>11. toks # << >>
    BY <2>4
  <2> QED
    BY <1>6, <2>10, <2>11 DEF Score, d, toks
<1> QED
  BY <1>5, <1>6 DEF Tools

-----------------------------------------------------------------------------
(* An excerpt is begun with offsets of the text it is from                 *)

\* The ends of the words of t: each word has a byte at least, and a space.
Grows(e, t) ==
  /\ e[0] = 0 /\ \A k \in 0..Len(t) : e[k] \in Nat
  /\ \A k \in 1..Len(t) : e[k] = e[k - 1] + Size[t[k]] + 1
  /\ \A k \in 0..Len(t) : \A j \in 0..k : e[j] + 2 * (k - j) <= e[k]

LEMMA EndsGrow ==
  ASSUME NEW t \in Seq(Words)
  PROVE  Grows(Ends(t), t)
<1> DEFINE N == Len(t)
    Body(h) == [k \in 0..N |-> IF k = 0 THEN 0 ELSE h[k - 1] + Size[t[k]] + 1]
    G == [k \in 1..N |-> [x \in Nat |-> x + Size[t[k]] + 1]]
<1>1. N \in Nat /\ 0 \in Nat /\ \A k \in 1..N : Size[t[k]] \in Nat /\ Size[t[k]] >= 1
  BY DocumentsAssumption
<1>2. G \in [1..N -> [Nat -> Nat]]
  BY <1>1
<1>3. PICK h \in Iterations(N, Nat, 0, G) : TRUE
  <2> HIDE DEF G, N
  <2> QED
    BY <1>1, <1>2, PrimitiveRecursion, ZenonT(60)
<1>4. h \in [0..N -> Nat] /\ h[0] = 0
  BY <1>3 DEF Iterations
<1>5. \A k \in 1..N : h[k] = h[k - 1] + Size[t[k]] + 1
  <2>1. \A k \in 1..N : k - 1 \in 0..N
    BY <1>1
  <2>2. \A k \in 1..N : h[k - 1] \in Nat
    BY <1>4, <2>1
  <2> QED
    BY <1>3, <2>2 DEF Iterations
<1>6. h = Body(h)
  <2>1. \A k \in 0..N : h[k] = Body(h)[k]
    BY <1>1, <1>4, <1>5
  <2> QED
    BY <1>4, <2>1
<1>7. PICK e : e = Body(e) /\ Ends(t) = e
  BY <1>6, Zenon DEF Ends
<1>8. e[0] = 0 /\ \A k \in 1..N : e[k] = e[k - 1] + Size[t[k]] + 1
  <2>1. \A k \in 0..N : e[k] = IF k = 0 THEN 0 ELSE e[k - 1] + Size[t[k]] + 1
    BY <1>7
  <2>2. 0 \in 0..N /\ \A k \in 1..N : k \in 0..N /\ k # 0
    BY <1>1
  <2> QED
    BY <2>1, <2>2
<1> DEFINE S == {k \in 0..N : e[k] \in Nat /\ \A j \in 0..k : e[j] + 2 * (k - j) <= e[k]}
<1>9. 0 \in S
  <2>1. \A j \in 0..0 : j = 0
    OBVIOUS
  <2> QED
    BY <1>1, <1>8, <2>1
<1>10. ASSUME NEW k \in 1..N, k - 1 \in S, \A j \in 0..(k - 1) : e[j] \in Nat
       PROVE  k \in S
  <2> DEFINE a == e[k - 1]
             b == Size[t[k]]
  <2>1. a \in Nat /\ b \in Nat /\ b >= 1 /\ e[k] = a + b + 1 /\ k \in 0..N /\ k \in Nat
    BY <1>1, <1>8, <1>10
  <2>2. \A j \in 0..(k - 1) : e[j] + 2 * ((k - 1) - j) <= a
    BY <1>10
  <2> HIDE DEF a, b
  <2>3. e[k] \in Nat /\ a + 2 <= e[k]
    BY <2>1
  <2>4. ASSUME NEW j \in 0..k PROVE e[j] + 2 * (k - j) <= e[k]
    <3>1. CASE j = k
      <4>1. 2 * (k - k) = 0
        BY <2>1
      <4> DEFINE c == e[k]
      <4>2. c \in Nat
        BY <2>3
      <4> HIDE DEF c
      <4>3. c + 0 <= c
        BY <4>2
      <4> QED
        BY <3>1, <4>1, <4>3 DEF c
    <3>2. CASE j # k
      <4>1. j \in 0..(k - 1)
        BY <2>1, <3>2
      <4> DEFINE c == e[j]
                 c2 == e[k]
      <4>2. c \in Nat /\ c2 \in Nat /\ c + 2 * ((k - 1) - j) <= a /\ a + 2 <= c2
        BY <1>10, <2>2, <2>3, <4>1
      <4> HIDE DEF c, c2
      <4>3. c + 2 * (k - j) <= c2
        BY <2>1, <4>1, <4>2
      <4> QED
        BY <4>3 DEF c, c2
    <3> QED
      BY <3>1, <3>2
  <2> QED
    BY <2>1, <2>3, <2>4
<1> DEFINE R == {k \in 0..N : \A j \in 0..k : j \in S}
<1>11. \A k \in 0..N : k \in R
  <2>1. 0 \in R
    <3>1. 0 \in 0..N /\ \A j \in 0..0 : j = 0
      BY <1>1
    <3> HIDE DEF S
    <3> QED
      BY <1>9, <3>1
  <2>2. ASSUME NEW k \in 1..N, k - 1 \in R PROVE k \in R
    <3>1. \A j \in 0..(k - 1) : j \in S
      BY <2>2
    <3>2. \A j \in 0..(k - 1) : e[j] \in Nat
      BY <3>1
    <3>3. k - 1 \in 0..(k - 1) /\ k \in 0..N /\ \A j \in 0..k : j \in 0..(k - 1) \/ j = k
      BY <1>1
    <3> HIDE DEF S
    <3>4. k \in S
      BY <1>10, <3>1, <3>2, <3>3
    <3> QED
      BY <3>1, <3>3, <3>4
  <2> HIDE DEF R
  <2> QED
    BY <1>1, <2>1, <2>2, UpToN
<1>12. \A k \in 0..N : k \in S
  <2>1. \A k \in 0..N : k \in 0..k
    BY <1>1
  <2> HIDE DEF S
  <2> QED
    BY <1>11, <2>1
<1>13. Grows(e, t)
  BY <1>8, <1>12 DEF Grows
<1> QED
  BY <1>7, <1>13

LEMMA EarliestType ==
  ASSUME NEW t \in Seq(Words), NEW phrases \in SUBSET Seq(Words), Ends(t)[Len(t)] <= MaxLower
  PROVE  Earliest(t, phrases) \in -1..MaxLower
<1> DEFINE e == Ends(t)
    N == Len(t)
    found == {x \in phrases \X (0..Len(t)) : x[2] \in Occurrences(x[1], t)}
    first(x) == IF x[1] = << >> THEN {0} ELSE Within(x[1][1], t[x[2] + 1])
    at == UNION {{Offset(t, x[2] + 1) + o : o \in first(x)} : x \in found}
<1>1. N \in Nat /\ e[N] <= MaxLower /\ MaxLower \in Nat
  BY ExcerptAssumption
<1>2. /\ \A k \in 0..N : e[k] \in Nat /\ e[k] <= e[N]
      /\ \A k \in 1..N : e[k - 1] + Size[t[k]] <= e[k]
  <2> HIDE DEF e
  <2>1. Grows(e, t)
    BY EndsGrow DEF e
  <2>2. N \in 0..N /\ \A k \in 1..N : k \in 0..N /\ k - 1 \in 0..N /\ Size[t[k]] \in Nat
    BY <1>1, DocumentsAssumption
  <2>3. ASSUME NEW k \in 0..N PROVE e[k] \in Nat /\ e[k] <= e[N]
    <3>1. e[k] \in Nat /\ e[N] \in Nat /\ N - k \in Nat
      BY <1>1, <2>1, <2>2 DEF Grows
    <3>2. \A j \in 0..N : e[j] + 2 * (N - j) <= e[N]
      BY <2>1, <2>2 DEF Grows
    <3>3. e[k] + 2 * (N - k) <= e[N]
      BY <3>2
    <3> DEFINE a == e[k]
               b == e[N]
               c == N - k
    <3>4. a \in Nat /\ b \in Nat /\ c \in Nat /\ a + 2 * c <= b
      BY <3>1, <3>3
    <3> HIDE DEF a, b, c
    <3>5. a <= b
      BY <3>4
    <3> QED
      BY <3>1, <3>5 DEF a, b
  <2>4. ASSUME NEW k \in 1..N PROVE e[k - 1] + Size[t[k]] <= e[k]
    <3>1. e[k] = e[k - 1] + Size[t[k]] + 1 /\ e[k - 1] \in Nat /\ Size[t[k]] \in Nat
      BY <2>1, <2>2 DEF Grows
    <3> QED
      BY <3>1
  <2> QED
    BY <2>3, <2>4
<1> HIDE DEF e
<1>3. ASSUME NEW x \in found, NEW o \in first(x)
      PROVE  Offset(t, x[2] + 1) + o \in 0..MaxLower
  <2> DEFINE k == x[2]
  <2>1. k \in 0..N /\ x[1] \in Seq(Words) /\ k \in Occurrences(x[1], t)
    OBVIOUS
  <2>2. Offset(t, k + 1) = e[k]
    <3>1. (k + 1) - 1 = k
      BY <2>1
    <3> QED
      BY <3>1 DEF Offset, e
  <2>3. CASE x[1] = << >>
    <3>1. o = 0
      BY <2>3
    <3> HIDE DEF k
    <3>2. e[k] \in Nat /\ e[k] <= e[N] /\ e[N] \in Nat
      BY <1>1, <1>2, <2>1
    <3>3. e[k] + 0 \in 0..MaxLower
      BY <1>1, <3>2
    <3> QED
      BY <2>2, <3>1, <3>3 DEF k
  <2>4. CASE x[1] # << >>
    <3>1. Len(x[1]) \in Nat /\ Len(x[1]) # 0
      BY <2>1, <2>4, EmptySeq
    <3>2. k \in 0..(Len(t) - Len(x[1]))
      BY <2>1 DEF Occurrences
    <3>3. k + 1 \in 1..N /\ (k + 1) - 1 = k /\ k + 1 \in 0..N
      BY <1>1, <2>1, <3>1, <3>2
    <3>4. o \in Within(x[1][1], t[k + 1])
      BY <2>4
    <3> HIDE DEF k
    <3>5. o \in Nat /\ o <= Size[t[k + 1]] /\ Size[t[k + 1]] \in Nat
      <4>1. t[k + 1] \in Words
        BY <3>3
      <4>2. Size[t[k + 1]] \in Nat
        BY <4>1, DocumentsAssumption
      <4>3. CASE o = 0
        BY <4>2, <4>3
      <4>4. CASE o # 0
        <5>1. PICK y \in Inside : y[1] = x[1][1] /\ y[2] = t[k + 1] /\ o = y[3]
          BY <3>4, <4>4 DEF Within
        <5>2. y[1] \in Words /\ y[3] \in Nat /\ Size[y[1]] \in Nat
          BY DocumentsAssumption
        <5>3. y[3] + Size[y[1]] <= Size[y[2]]
          BY SearchAssumption
        <5> DEFINE u == Size[y[1]]
                   v == Size[y[2]]
        <5>4. o \in Nat /\ u \in Nat /\ v \in Nat /\ o + u <= v
          BY <4>2, <5>1, <5>2, <5>3
        <5>5. v = Size[t[k + 1]]
          BY <5>1
        <5> HIDE DEF u, v
        <5>6. o <= v
          BY <5>4
        <5> QED
          BY <4>2, <5>4, <5>5, <5>6
      <4> QED
        BY <4>3, <4>4
    <3> DEFINE a == e[k]
               b == Size[t[k + 1]]
               c == e[k + 1]
               z == e[N]
    <3>6. a \in Nat /\ b \in Nat /\ c \in Nat /\ a + b <= c /\ c <= z /\ z <= MaxLower /\ z \in Nat
      <4>1. a \in Nat /\ c \in Nat /\ c <= z /\ z \in Nat
        BY <1>1, <1>2, <2>1, <3>3
      <4>2. e[(k + 1) - 1] + Size[t[k + 1]] <= e[k + 1]
        BY <1>2, <3>3
      <4> QED
        BY <1>1, <3>3, <3>5, <4>1, <4>2
    <3>7. o \in Nat /\ o <= b
      BY <3>5
    <3> HIDE DEF a, b, c, z
    <3>8. a + o \in 0..MaxLower
      BY <1>1, <3>6, <3>7
    <3> QED
      BY <2>2, <3>8 DEF a, k
  <2> QED
    BY <2>3, <2>4
<1>4. Earliest(t, phrases) = IF at = {} THEN -1 ELSE CHOOSE n \in at : \A m \in at : n <= m
  BY DEF Earliest
<1> HIDE DEF found, first
<1>5. at \subseteq 0..MaxLower
  BY <1>3
<1> HIDE DEF at
<1>6. at # {} => \E n \in at : \A m \in at : n <= m
  BY <1>1, <1>5, Smallest
<1>7. CASE at = {}
  BY <1>1, <1>4, <1>7
<1>8. CASE at # {}
  <2> DEFINE least == CHOOSE n \in at : \A m \in at : n <= m
  <2>1. least \in at
    BY <1>6, <1>8
  <2>2. Earliest(t, phrases) = least
    BY <1>4, <1>8
  <2> HIDE DEF least
  <2> QED
    BY <1>1, <1>5, <2>1, <2>2
<1> QED
  BY <1>7, <1>8

\* The content of a document, and its lower-case form, are within the bounds.
LEMMA ContentFits ==
  ASSUME Corpus, NEW i \in DOMAIN docs
  PROVE  /\ docs[i].content \in Seq(Words) /\ Map(Fold, docs[i].content) \in Seq(Words)
         /\ Ends(docs[i].content)[Len(docs[i].content)] <= MaxContent + 1
         /\ Ends(Map(Fold, docs[i].content))[Len(Map(Fold, docs[i].content))] <= MaxLower
<1> DEFINE page == disk[docs[i].path]
    t == docs[i].content
<1>1. page \in Library /\ t = PlainText(page.body)
  BY DEF Corpus, Faithful
<1>2. t \in Seq(Words)
  BY DocumentParts DEF Corpus
<1>3. Map(Fold, t) \in Seq(Words)
  BY <1>2, MapType, DocumentsAssumption
<1>4. DOMAIN Map(Fold, t) = DOMAIN t
  BY DEF Map
<1>5. Len(Map(Fold, t)) = Len(t)
  <2> DEFINE u == Map(Fold, t)
  <2> HIDE DEF u, t
  <2> QED
    BY <1>2, <1>3, <1>4 DEF u
<1>6. /\ Ends(t)[Len(t)] <= MaxContent + 1
      /\ Ends(Map(Fold, t))[Len(t)] <= MaxLower
  BY <1>1, LibraryFits
<1> QED
  BY <1>2, <1>3, <1>5, <1>6

LEMMA ExcerptBegins ==
  ASSUME TypeOK, Corpus, Answered, NEW i \in DOMAIN results, BuildExcerpt(i)
  PROVE  TypeOK' /\ pc' = "search" /\ start' = 0 /\ end' = 0
<1> DEFINE t == docs[results[i].doc].content
    e == Ends(t)
    n == Len(t)
<1>1. /\ pc' = "search" /\ start' = 0 /\ end' = 0 /\ t # << >>
      /\ len' = Offset(t, n + 1) - 1
      /\ spaces' = {Offset(t, k) - 1 : k \in 2..n}
      /\ pos' = Earliest(Map(Fold, t), Phrases)
  BY DEF BuildExcerpt
<1>2. results[i].doc \in DOMAIN docs
  BY AnswerType DEF SearchTypeOK
<1>3. /\ t \in Seq(Words) /\ Map(Fold, t) \in Seq(Words)
      /\ e[n] <= MaxContent + 1
      /\ Ends(Map(Fold, t))[Len(Map(Fold, t))] <= MaxLower
  BY <1>2, ContentFits
<1> HIDE DEF t
<1>4. n \in Nat /\ n >= 1
  BY <1>1, <1>3, EmptySeq
<1>5. Grows(e, t)
  BY <1>3, EndsGrow
<1> HIDE DEF e
<1>6. len' = e[n] - 1 /\ spaces' = {e[k - 1] - 1 : k \in 2..n}
  <2>1. (n + 1) - 1 = n
    BY <1>4
  <2> QED
    BY <1>1, <2>1 DEF Offset, e
<1>7. /\ e[0] = 0 /\ \A k \in 0..n : e[k] \in Nat
      /\ \A k \in 0..n : \A j \in 0..k : e[j] + 2 * (k - j) <= e[k]
  BY <1>5 DEF Grows
<1> HIDE DEF n
<1>8. e[n] \in Nat /\ e[n] >= 2
  <2>1. e[0] + 2 * (n - 0) <= e[n] /\ e[n] \in Nat
    BY <1>4, <1>7
  <2> DEFINE z == e[n]
  <2>2. z \in Nat /\ 0 + 2 * (n - 0) <= z
    BY <1>7, <2>1
  <2> HIDE DEF z
  <2>3. z >= 2
    BY <1>4, <2>2
  <2> QED
    BY <2>1, <2>3 DEF z
<1>9. len' \in 1..MaxContent
  <2> DEFINE z == e[n]
  <2>1. z \in Nat /\ z >= 2 /\ z <= MaxContent + 1 /\ MaxContent \in Nat /\ len' = z - 1
    BY <1>3, <1>6, <1>8, ExcerptAssumption DEF n
  <2> HIDE DEF z
  <2> QED
    BY <2>1
<1>10. spaces' \subseteq 0..(len' - 1)
  <2> SUFFICES ASSUME NEW k \in 2..n PROVE e[k - 1] - 1 \in 0..(len' - 1)
    BY <1>6
  <2>1. k - 1 \in 0..n /\ 0 \in 0..(k - 1) /\ k - 1 \in Nat /\ k - 1 >= 1 /\ n - (k - 1) >= 1 /\ n \in 0..n
    BY <1>4
  <2>2. e[0] + 2 * ((k - 1) - 0) <= e[k - 1] /\ e[k - 1] \in Nat
    BY <1>7, <2>1
  <2>3. \A j \in 0..n : e[j] + 2 * (n - j) <= e[n]
    BY <1>7, <2>1
  <2>4. e[k - 1] + 2 * (n - (k - 1)) <= e[n]
    BY <2>1, <2>3
  <2> DEFINE a == e[k - 1]
             z == e[n]
             c == k - 1
  <2>5. /\ a \in Nat /\ z \in Nat /\ c \in Nat /\ c >= 1 /\ n - c >= 1
        /\ 0 + 2 * (c - 0) <= a /\ a + 2 * (n - c) <= z /\ len' = z - 1
    BY <1>6, <1>7, <1>8, <2>1, <2>2, <2>4
  <2> HIDE DEF a, z, c
  <2>6. a - 1 \in 0..(len' - 1)
    BY <1>4, <2>5
  <2> QED
    BY <2>6 DEF a, c
<1>11. Phrases \in SUBSET Seq(Words)
  <2>1. ask # NoCall
    <3>1. results # << >>
      OBVIOUS
    <3> QED
      BY <3>1 DEF Answered
  <2>2. ask.query \in Seq(Words)
    BY <2>1, SearchAssumption DEF Answered, Text
  <2>3. Map(Fold, ask.query) \in Seq(Words)
    BY <2>2, MapType, DocumentsAssumption
  <2>4. Tokenize(ask.query) \in Seq(Words)
    BY <2>2, TokenizeType
  <2>5. \A tok \in ToSet(Tokenize(ask.query)) : <<tok>> \in Seq(Words)
    BY <2>4, ToSetIn
  <2> QED
    BY <2>3, <2>5 DEF Phrases
<1>12. pos' \in -1..MaxLower
  BY <1>1, <1>3, <1>11, EarliestType
<1> QED
  BY <1>1, <1>9, <1>10, <1>12 DEF TypeOK

-----------------------------------------------------------------------------
(* The specification as a whole                                            *)

SearchInv == TypeOK /\ Corpus /\ NoRepeat /\ Answered

\* Of buildExcerpt: what holds of the window at each of its steps.
Window == InContent /\ MatchInWindow /\ Snapped

LEMMA SearchInitInv == SearchInit => SearchInv /\ Window
<1> SUFFICES ASSUME SearchInit PROVE SearchInv /\ Window
  OBVIOUS
<1>1. /\ len = 1 /\ spaces = {} /\ pos = -1 /\ start = 0 /\ end = 0 /\ pc = "done"
      /\ ask = NoCall /\ results = << >>
  BY DEF SearchInit
<1>2. TypeOK
  BY <1>1, ExcerptAssumption, SearchAssumption DEF TypeOK
<1>3. Window
  BY <1>1, ExcerptAssumption DEF Window, InContent, WindowInContent, MatchInWindow, Snapped
<1>4. Answered
  BY <1>1 DEF Answered
<1> QED
  BY <1>2, <1>3, <1>4, CorpusInit DEF SearchInv

LEMMA WindowStep ==
  ASSUME TypeOK, Window, [Next]_vars
  PROVE  TypeOK' /\ Window'
  BY ExcerptNext, InContentStep, MatchInWindowStep, SnappedStep DEF Window

LEMMA WindowBegins ==
  ASSUME TypeOK', pc' = "search", start' = 0, end' = 0
  PROVE  Window'
  BY DEF Window, InContent, WindowInContent, MatchInWindow, Snapped

LEMMA SearchNextInv ==
  ASSUME SearchInv, Window, [SearchNext]_searchVars
  PROVE  SearchInv' /\ Window'
<1> USE DEF SearchInv
<1>1. CASE ParseNext
  <2>1. UNCHANGED vars /\ UNCHANGED callVars /\ ask = NoCall
    BY <1>1 DEF ParseNext, Answered
  <2> QED
    BY <1>1, <2>1, ParseNextCorpus, AnswerUnchanged, WindowStep
<1>2. CASE ParseDone
  <2>1. UNCHANGED vars /\ UNCHANGED callVars /\ ask = NoCall
    BY <1>2 DEF ParseDone, Answered
  <2> QED
    BY <1>2, <2>1, ParseDoneCorpus, AnswerUnchanged, WindowStep
<1>3. CASE ComputeRelated
  <2>1. UNCHANGED vars /\ UNCHANGED callVars /\ ask = NoCall
    BY <1>3 DEF ComputeRelated, Answered
  <2> QED
    BY <1>3, <2>1, ComputeRelatedCorpus, AnswerUnchanged, WindowStep
<1>4. ASSUME NEW tool \in Tools, NEW q \in Queries, NEW limit \in Limits, Call(tool, q, limit)
      PROVE  SearchInv' /\ Window'
  <2>1. UNCHANGED vars /\ UNCHANGED corpusVars
    BY <1>4 DEF Call
  <2>2. Answered'
    BY <1>4, CallAnswered
  <2> QED
    BY <2>1, <2>2, CorpusUnchanged, WindowStep
<1>5. ASSUME NEW i \in DOMAIN results, BuildExcerpt(i)
      PROVE  SearchInv' /\ Window'
  <2>1. UNCHANGED corpusVars /\ UNCHANGED callVars
    BY <1>5 DEF BuildExcerpt
  <2>2. TypeOK' /\ pc' = "search" /\ start' = 0 /\ end' = 0
    BY <1>5, ExcerptBegins
  <2> QED
    BY <2>1, <2>2, CorpusUnchanged, AnswerUnchanged, WindowBegins
<1>6. CASE (NoMatch \/ AroundMatch \/ Clamp \/ SnapLeft \/ SnapRight)
             /\ UNCHANGED <<corpusVars, callVars>>
  <2>1. Next /\ UNCHANGED corpusVars /\ UNCHANGED callVars
    BY <1>6 DEF Next
  <2> QED
    BY <2>1, CorpusUnchanged, AnswerUnchanged, WindowStep
<1>7. CASE UNCHANGED searchVars
  <2>1. UNCHANGED vars /\ UNCHANGED corpusVars /\ UNCHANGED callVars
    BY <1>7 DEF searchVars
  <2> QED
    BY <2>1, CorpusUnchanged, AnswerUnchanged, WindowStep
<1> QED
  BY <1>1, <1>2, <1>3, <1>4, <1>5, <1>6, <1>7 DEF SearchNext

LEMMA SearchInductive == SearchSpec => [](SearchInv /\ Window)
<1>1. SearchInv /\ Window /\ [SearchNext]_searchVars => (SearchInv /\ Window)'
  BY SearchNextInv
<1> QED
  BY <1>1, SearchInitInv, PTL DEF SearchSpec

\* The state of an index run, of a call and of an excerpt keep their types.
THEOREM SearchTypeCorrect == SearchSpec => []SearchTypeOK
<1>1. SearchInv => SearchTypeOK
  BY AnswerType DEF SearchInv
<1> QED
  BY <1>1, SearchInductive, PTL

\* Search returns the top results, in order, whatever the corpus, the query
\* and the limit.
THEOREM ResultsRankedAlways == SearchSpec => []ResultsRanked
<1>1. SearchInv => ResultsRanked
  BY AnswerRanked DEF SearchInv
<1> QED
  BY <1>1, SearchInductive, PTL

\* No word of the prose is lost between the page and the query.
THEOREM ProseFoundAlways == SearchSpec => []ProseFound
<1>1. SearchInv => ProseFound
  BY CorpusProse DEF SearchInv
<1> QED
  BY <1>1, SearchInductive, PTL

\* The keywords of a page are its most frequent words.
THEOREM KeywordsAreTopAlways == SearchSpec => []KeywordsAreTop
<1>1. SearchInv => KeywordsAreTop
  BY CorpusKeywords DEF SearchInv
<1> QED
  BY <1>1, SearchInductive, PTL

\* Related pages are related both ways.
THEOREM RelatedMutualAlways == SearchSpec => []RelatedMutual
<1>1. SearchInv => RelatedMutual
  BY CorpusRelated DEF SearchInv
<1> QED
  BY <1>1, SearchInductive, PTL

\* The window of every excerpt that is built for a hit lies in its content,
\* shows the match and consists of whole words.
THEOREM ExcerptsAlways == SearchSpec => [](WindowInContent /\ MatchShown /\ WholeWords)
<1>1. Window => WindowInContent /\ MatchShown /\ WholeWords
  BY DEF Window, InContent, MatchInWindow, MatchShown, Shows, Snapped, WholeWords
<1> QED
  BY <1>1, SearchInductive, PTL
=============================================================================
