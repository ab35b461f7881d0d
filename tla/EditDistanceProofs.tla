--------------------------- MODULE EditDistanceProofs ---------------------------
(***************************************************************************)
(* levenshtein computes the edit distance, for strings of any characters,  *)
(* widths and lengths.  The table is defined by recursion, so its          *)
(* equations come from module Recursion; that the code may take the value  *)
(* above and to the left when two characters match, without looking at the *)
(* other two, follows from neighbouring cells differing by at most one.    *)
(***************************************************************************)
EXTENDS EditDistance, Recursion

LEMMA StringsAreSeqs ==
  ASSUME NEW s \in Strings
  PROVE  s \in Seq(Chars) /\ Len(s) \in Nat
  BY DEF Strings

LEMMA LeastType ==
  ASSUME NEW x \in Nat, NEW y \in Nat
  PROVE  Least(x, y) \in Nat
  BY DEF Least

-----------------------------------------------------------------------------
(* ByteLen                                                                 *)

\* Only the empty string has no bytes.
LEMMA ByteLenZero ==
  ASSUME NEW s \in Strings
  PROVE  ByteLen(s) \in Nat /\ (ByteLen(s) = 0 <=> s = << >>)
<1> DEFINE N == Len(s)
    Body(f) == [n \in 0..N |-> IF n = 0 THEN 0 ELSE f[n - 1] + Width[s[n]]]
    G == [n \in 1..N |-> [x \in Nat |-> x + Width[s[n]]]]
<1>1. s \in Seq(Chars) /\ N \in Nat
  BY StringsAreSeqs
<1>2. \A n \in 1..N : Width[s[n]] \in 1..4
  BY <1>1, EditDistanceAssumption
<1>3. G \in [1..N -> [Nat -> Nat]]
  BY <1>2
<1>4. PICK f \in Iterations(N, Nat, 0, G) : TRUE
  <2>1. 0 \in Nat /\ N \in Nat
    BY <1>1
  <2> HIDE DEF G, N
  <2> QED
    BY <1>3, <2>1, PrimitiveRecursion, ZenonT(60)
<1>5. \A n \in 1..N : f[n] = f[n - 1] + Width[s[n]]
  <2>1. \A n \in 1..N : n - 1 \in 0..N
    BY <1>1
  <2>2. \A n \in 1..N : f[n - 1] \in Nat
    BY <1>4, <2>1 DEF Iterations
  <2> QED
    BY <1>1, <1>4, <2>2 DEF Iterations
<1>6. f = Body(f)
  <2>1. \A n \in 0..N : f[n] = Body(f)[n]
    BY <1>1, <1>4, <1>5 DEF Iterations
  <2> QED
    BY <1>4, <2>1 DEF Iterations
<1>7. PICK g : g = Body(g) /\ ByteLen(s) = g[N]
  BY <1>6, Zenon DEF ByteLen
<1>8. \A n \in 0..N : g[n] \in Nat /\ g[n] >= n
  <2> DEFINE S == {n \in 0..N : g[n] \in Nat /\ g[n] >= n}
  <2>1. g[0] = 0
    BY <1>1, <1>7
  <2>2. \A n \in 1..N : g[n] = g[n - 1] + Width[s[n]]
    BY <1>1, <1>7
  <2>3. 0 \in S
    BY <1>1, <2>1
  <2>4. ASSUME NEW n \in 1..N, n - 1 \in S PROVE n \in S
    <3>1. g[n] = g[n - 1] + Width[s[n]] /\ Width[s[n]] \in 1..4
      BY <2>2, <1>2
    <3>2. n \in Nat /\ g[n - 1] \in Nat /\ g[n - 1] >= n - 1
      BY <1>1, <2>4
    <3> DEFINE w == Width[s[n]]
           before == g[n - 1]
    <3>3. g[n] = before + w /\ w \in 1..4 /\ before \in Nat /\ before >= n - 1
      BY <3>1, <3>2
    <3> HIDE DEF w, before
    <3>4. g[n] \in Nat /\ g[n] >= n
      BY <3>2, <3>3
    <3> QED
      BY <1>1, <3>4
  <2>5. \A n \in 0..N : n \in S
    <3> HIDE DEF S
    <3> QED
      BY <1>1, <2>3, <2>4, UpToN
  <2> QED
    BY <2>5
<1>9. ByteLen(s) \in Nat /\ ByteLen(s) >= Len(s)
  BY <1>1, <1>7, <1>8
<1>10. s = << >> => ByteLen(s) = 0
  BY <1>1, <1>7
<1> QED
  BY <1>1, <1>9, <1>10

-----------------------------------------------------------------------------
(* The table                                                               *)

\* The value of cell m of row n, below the row above and right of left.
Cell(s, t, n, m, above, left) ==
  Least(above[m - 1] + (IF s[n] = t[m] THEN 0 ELSE 1), Least(above[m], left) + 1)

LEMMA CellType ==
  ASSUME NEW s, NEW t, NEW n, NEW M \in Nat, NEW m \in 1..M,
         NEW above \in [0..M -> Nat], NEW left \in Nat
  PROVE  Cell(s, t, n, m, above, left) \in Nat
<1>1. above[m - 1] \in Nat /\ above[m] \in Nat
  OBVIOUS
<1> QED
  BY <1>1 DEF Cell, Least

\* A row is what TableRow says of each of its cells.
LEMMA RowCells ==
  ASSUME NEW s \in Strings, NEW t \in Strings, NEW n \in Nat,
         NEW above \in [0..Len(t) -> Nat]
  PROVE  /\ TableRow(s, t, n, above) \in [0..Len(t) -> Nat]
         /\ TableRow(s, t, n, above)[0] = n
         /\ \A m \in 1..Len(t) :
              TableRow(s, t, n, above)[m]
                = Cell(s, t, n, m, above, TableRow(s, t, n, above)[m - 1])
<1> DEFINE M == Len(t)
    Body(f) == [m \in 0..M |-> IF m = 0 THEN n ELSE Cell(s, t, n, m, above, f[m - 1])]
    G == [m \in 1..M |-> [left \in Nat |-> Cell(s, t, n, m, above, left)]]
<1>1. M \in Nat
  BY StringsAreSeqs
<1>2. G \in [1..M -> [Nat -> Nat]]
  BY <1>1, CellType
<1>3. PICK f \in Iterations(M, Nat, n, G) : TRUE
  <2> HIDE DEF G, M
  <2> QED
    BY <1>1, <1>2, PrimitiveRecursion, SMTT(60)
<1>4. f \in [0..M -> Nat] /\ f[0] = n
  BY <1>3 DEF Iterations
<1>5. \A m \in 1..M : f[m] = Cell(s, t, n, m, above, f[m - 1])
  <2>1. \A m \in 1..M : m - 1 \in 0..M
    BY <1>1
  <2>2. \A m \in 1..M : f[m - 1] \in Nat
    BY <1>4, <2>1
  <2> QED
    BY <1>3, <2>2 DEF Iterations
<1>6. f = Body(f)
  <2>1. \A m \in 0..M : f[m] = Body(f)[m]
    BY <1>1, <1>4, <1>5
  <2> QED
    BY <1>4, <2>1
<1>7. PICK g : g = Body(g) /\ TableRow(s, t, n, above) = g
  BY <1>6, Zenon DEF TableRow, Cell
<1>8. g[0] = n /\ \A m \in 1..M : g[m] = Cell(s, t, n, m, above, g[m - 1])
  BY <1>1, <1>7
<1>9. \A m \in 0..M : g[m] \in Nat
  <2> DEFINE S == {m \in 0..M : g[m] \in Nat}
  <2>1. 0 \in S
    BY <1>1, <1>8
  <2>2. ASSUME NEW m \in 1..M, m - 1 \in S PROVE m \in S
    <3>1. g[m] = Cell(s, t, n, m, above, g[m - 1]) /\ g[m - 1] \in Nat
      BY <1>8, <2>2
    <3>2. Cell(s, t, n, m, above, g[m - 1]) \in Nat
      BY <1>1, <3>1, CellType
    <3> QED
      BY <1>1, <3>1, <3>2
  <2>3. \A m \in 0..M : m \in S
    <3> HIDE DEF S
    <3> QED
      BY <1>1, <2>1, <2>2, UpToN
  <2> QED
    BY <2>3
<1>10. g \in [0..M -> Nat]
  BY <1>7, <1>9
<1> QED
  BY <1>7, <1>8, <1>10

\* Every row of the table is a row of numbers, the next one below it.
LEMMA TableRows ==
  ASSUME NEW s \in Strings, NEW t \in Strings
  PROVE  /\ DistanceTable(s, t) \in [0..Len(s) -> [0..Len(t) -> Nat]]
         /\ \A m \in 0..Len(t) : DistanceTable(s, t)[0][m] = m
         /\ \A n \in 1..Len(s) :
              DistanceTable(s, t)[n] = TableRow(s, t, n, DistanceTable(s, t)[n - 1])
<1> DEFINE N == Len(s)
    Row == [0..Len(t) -> Nat]
    first == [m \in 0..Len(t) |-> m]
    Body(f) == [n \in 0..N |-> IF n = 0 THEN first ELSE TableRow(s, t, n, f[n - 1])]
    G == [n \in 1..N |-> [above \in Row |-> TableRow(s, t, n, above)]]
<1>1. N \in Nat /\ Len(t) \in Nat
  BY StringsAreSeqs
<1>2. first \in Row
  BY <1>1
<1>3. \A n \in Nat, above \in Row : TableRow(s, t, n, above) \in Row
  BY RowCells
<1>4. G \in [1..N -> [Row -> Row]]
  BY <1>1, <1>3
<1>5. PICK f \in Iterations(N, Row, first, G) : TRUE
  <2> HIDE DEF G, N, Row, first
  <2> QED
    BY <1>1, <1>2, <1>4, PrimitiveRecursion, ZenonT(60)
<1> HIDE DEF first
<1>6. f \in [0..N -> Row] /\ f[0] = first
  BY <1>5 DEF Iterations
<1>7. \A n \in 1..N : f[n] = TableRow(s, t, n, f[n - 1])
  <2> HIDE DEF Row
  <2>1. \A n \in 1..N : n - 1 \in 0..N
    BY <1>1
  <2>2. \A n \in 1..N : f[n - 1] \in Row
    BY <1>6, <2>1
  <2> QED
    BY <1>5, <2>2 DEF Iterations
<1>8. f = Body(f)
  <2> HIDE DEF Row
  <2>1. \A n \in 0..N : f[n] = Body(f)[n]
    BY <1>1, <1>6, <1>7
  <2> QED
    BY <1>6, <2>1
<1>9. PICK d : d = Body(d) /\ DistanceTable(s, t) = d
  BY <1>8, Zenon DEF DistanceTable, first
<1>10. d[0] = first /\ \A n \in 1..N : d[n] = TableRow(s, t, n, d[n - 1])
  BY <1>1, <1>9
<1>11. \A n \in 0..N : d[n] \in Row
  <2> DEFINE S == {n \in 0..N : d[n] \in Row}
  <2> HIDE DEF Row
  <2>1. 0 \in S
    BY <1>1, <1>2, <1>10
  <2>2. ASSUME NEW n \in 1..N, n - 1 \in S PROVE n \in S
    <3>1. d[n] = TableRow(s, t, n, d[n - 1]) /\ d[n - 1] \in Row /\ n \in Nat
      BY <1>10, <2>2
    <3>2. TableRow(s, t, n, d[n - 1]) \in Row
      BY <1>3, <3>1
    <3> QED
      BY <1>1, <3>1, <3>2
  <2>3. \A n \in 0..N : n \in S
    <3> HIDE DEF S
    <3> QED
      BY <1>1, <2>1, <2>2, UpToN
  <2> QED
    BY <2>3
<1>12. d \in [0..N -> Row]
  <2> HIDE DEF Row
  <2> QED
    BY <1>9, <1>11
<1> QED
  BY <1>9, <1>10, <1>12 DEF first

\* The equations of the table, cell by cell.
LEMMA TableCells ==
  ASSUME NEW s \in Strings, NEW t \in Strings, NEW d, d = DistanceTable(s, t)
  PROVE  /\ \A n \in 0..Len(s), m \in 0..Len(t) : d[n][m] \in Nat
         /\ \A m \in 0..Len(t) : d[0][m] = m
         /\ \A n \in 0..Len(s) : d[n][0] = n
         /\ \A n \in 1..Len(s), m \in 1..Len(t) :
              d[n][m] = Cell(s, t, n, m, d[n - 1], d[n][m - 1])
<1>1. Len(s) \in Nat /\ Len(t) \in Nat
  BY StringsAreSeqs
<1>2. /\ d \in [0..Len(s) -> [0..Len(t) -> Nat]]
      /\ \A m \in 0..Len(t) : d[0][m] = m
      /\ \A n \in 1..Len(s) : d[n] = TableRow(s, t, n, d[n - 1])
  BY TableRows
<1>3. ASSUME NEW n \in 1..Len(s)
      PROVE  /\ d[n][0] = n
             /\ \A m \in 1..Len(t) : d[n][m] = Cell(s, t, n, m, d[n - 1], d[n][m - 1])
  <2>1. n \in Nat /\ n - 1 \in 0..Len(s)
    BY <1>1
  <2>2. d[n - 1] \in [0..Len(t) -> Nat]
    BY <1>2, <2>1
  <2> QED
    BY <1>2, <2>1, <2>2, RowCells
<1>4. \A n \in 0..Len(s), m \in 0..Len(t) : d[n][m] \in Nat
  BY <1>2
<1>5. \A n \in 0..Len(s) : d[n][0] = n
  BY <1>1, <1>2, <1>3
<1> QED
  BY <1>2, <1>3, <1>4, <1>5

\* A cell is one of its three neighbours with the edit that leads from there,
\* and no dearer than any of them.
OneEdit(s, t, d, n, m) ==
  /\ d[n][m] \in Nat /\ d[n][m - 1] \in Nat
  /\ d[n - 1][m] \in Nat /\ d[n - 1][m - 1] \in Nat
  /\ d[n][m] <= d[n - 1][m - 1] + 1
  /\ s[n] = t[m] => d[n][m] <= d[n - 1][m - 1]
  /\ d[n][m] <= d[n - 1][m] + 1
  /\ d[n][m] <= d[n][m - 1] + 1
  /\ \/ /\ d[n][m] >= d[n - 1][m - 1]
        /\ s[n] # t[m] => d[n][m] >= d[n - 1][m - 1] + 1
     \/ d[n][m] = d[n - 1][m] + 1
     \/ d[n][m] = d[n][m - 1] + 1

LEMMA CellSteps ==
  ASSUME NEW s \in Strings, NEW t \in Strings, NEW d, d = DistanceTable(s, t),
         NEW n \in 1..Len(s), NEW m \in 1..Len(t)
  PROVE  OneEdit(s, t, d, n, m)
<1>1. n - 1 \in 0..Len(s) /\ m - 1 \in 0..Len(t) /\ n \in 0..Len(s) /\ m \in 0..Len(t)
  BY StringsAreSeqs
<1>2. /\ d[n][m] \in Nat /\ d[n][m - 1] \in Nat
      /\ d[n - 1][m] \in Nat /\ d[n - 1][m - 1] \in Nat
  BY <1>1, TableCells
<1>3. d[n][m] = Cell(s, t, n, m, d[n - 1], d[n][m - 1])
  BY TableCells
<1> DEFINE v == d[n][m]
    diag == d[n - 1][m - 1]
    above == d[n - 1][m]
    left == d[n][m - 1]
    c == IF s[n] = t[m] THEN 0 ELSE 1
<1>4. v = Least(diag + c, Least(above, left) + 1)
  BY <1>3 DEF Cell
<1>5. v \in Nat /\ diag \in Nat /\ above \in Nat /\ left \in Nat /\ c \in {0, 1}
  BY <1>2
<1>6. IF s[n] = t[m] THEN c = 0 ELSE c = 1
  OBVIOUS
<1> HIDE DEF v, diag, above, left, c
<1>7. /\ v <= diag + 1 /\ v <= above + 1 /\ v <= left + 1
      /\ s[n] = t[m] => v <= diag
      /\ \/ v >= diag /\ (s[n] # t[m] => v >= diag + 1)
         \/ v = above + 1
         \/ v = left + 1
  BY <1>4, <1>5, <1>6 DEF Least
<1> QED
  BY <1>5, <1>7 DEF v, diag, above, left, OneEdit

\* One character more makes a difference of at most one: neither the cell to
\* the left nor the one above exceeds a cell by more than 1.
LEMMA LeftNeighbour ==
  ASSUME NEW s \in Strings, NEW t \in Strings, NEW d, d = DistanceTable(s, t)
  PROVE  \A n \in 0..Len(s), m \in 1..Len(t) : d[n][m - 1] <= d[n][m] + 1
<1> DEFINE S == {n \in 0..Len(s) : \A m \in 1..Len(t) : d[n][m - 1] <= d[n][m] + 1}
<1>1. Len(s) \in Nat /\ Len(t) \in Nat
  BY StringsAreSeqs
<1>2. 0 \in S
  <2>1. \A m \in 1..Len(t) : m - 1 \in 0..Len(t) /\ m \in 0..Len(t)
    BY <1>1
  <2>2. \A m \in 1..Len(t) : d[0][m - 1] = m - 1 /\ d[0][m] = m
    BY <2>1, TableCells
  <2> QED
    BY <1>1, <2>2
<1>3. ASSUME NEW n \in 1..Len(s), n - 1 \in S PROVE n \in S
  <2>1. ASSUME NEW m \in 1..Len(t) PROVE d[n][m - 1] <= d[n][m] + 1
    <3>1. OneEdit(s, t, d, n, m)
      BY CellSteps
    <3>2. d[n - 1][m - 1] <= d[n - 1][m] + 1
      BY <1>3
    <3>3. d[n][m - 1] <= d[n - 1][m - 1] + 1
      <4>1. CASE m = 1
        <5>1. n - 1 \in 0..Len(s) /\ n \in 0..Len(s) /\ n \in Nat
          BY <1>1
        <5>2. d[n][0] = n /\ d[n - 1][0] = n - 1
          BY <5>1, TableCells
        <5> QED
          BY <4>1, <5>1, <5>2
      <4>2. CASE m - 1 \in 1..Len(t)
        <5> DEFINE p == m - 1
        <5>1. p \in 1..Len(t)
          BY <4>2
        <5> HIDE DEF p
        <5>2. OneEdit(s, t, d, n, p)
          BY <5>1, CellSteps
        <5>3. d[n][p] <= d[n - 1][p] + 1
          BY <5>2 DEF OneEdit
        <5> QED
          BY <5>3 DEF p
      <4> QED
        BY <1>1, <4>1, <4>2
    <3> DEFINE v == d[n][m]
               diag == d[n - 1][m - 1]
               above == d[n - 1][m]
               left == d[n][m - 1]
    <3>4. /\ v \in Nat /\ left \in Nat /\ above \in Nat /\ diag \in Nat
          /\ v >= diag \/ v = above + 1 \/ v = left + 1
      BY <3>1 DEF OneEdit
    <3>5. diag <= above + 1 /\ left <= diag + 1
      BY <3>2, <3>3
    <3> HIDE DEF v, diag, above, left
    <3>6. left <= v + 1
      BY <3>4, <3>5
    <3> QED
      BY <3>6 DEF v, left
  <2> QED
    BY <1>1, <2>1
<1>4. \A n \in 0..Len(s) : n \in S
  <2> HIDE DEF S
  <2> QED
    BY <1>1, <1>2, <1>3, UpToN
<1> QED
  BY <1>4

LEMMA AboveNeighbour ==
  ASSUME NEW s \in Strings, NEW t \in Strings, NEW d, d = DistanceTable(s, t)
  PROVE  \A n \in 1..Len(s), m \in 0..Len(t) : d[n - 1][m] <= d[n][m] + 1
<1> DEFINE S == {m \in 0..Len(t) : \A n \in 1..Len(s) : d[n - 1][m] <= d[n][m] + 1}
<1>1. Len(s) \in Nat /\ Len(t) \in Nat
  BY StringsAreSeqs
<1>2. 0 \in S
  <2>1. \A n \in 1..Len(s) : n - 1 \in 0..Len(s) /\ n \in 0..Len(s)
    BY <1>1
  <2>2. \A n \in 1..Len(s) : d[n - 1][0] = n - 1 /\ d[n][0] = n
    BY <2>1, TableCells
  <2> QED
    BY <1>1, <2>2
<1>3. ASSUME NEW m \in 1..Len(t), m - 1 \in S PROVE m \in S
  <2>1. ASSUME NEW n \in 1..Len(s) PROVE d[n - 1][m] <= d[n][m] + 1
    <3>1. OneEdit(s, t, d, n, m)
      BY CellSteps
    <3>2. d[n - 1][m - 1] <= d[n][m - 1] + 1
      BY <1>3
    <3>3. d[n - 1][m] <= d[n - 1][m - 1] + 1
      <4>1. CASE n = 1
        <5>1. m - 1 \in 0..Len(t) /\ m \in 0..Len(t) /\ m \in Nat
          BY <1>1
        <5>2. d[0][m] = m /\ d[0][m - 1] = m - 1
          BY <5>1, TableCells
        <5> QED
          BY <4>1, <5>1, <5>2
      <4>2. CASE n - 1 \in 1..Len(s)
        <5> DEFINE p == n - 1
        <5>1. p \in 1..Len(s)
          BY <4>2
        <5> HIDE DEF p
        <5>2. OneEdit(s, t, d, p, m)
          BY <5>1, CellSteps
        <5>3. d[p][m] <= d[p][m - 1] + 1
          BY <5>2 DEF OneEdit
        <5> QED
          BY <5>3 DEF p
      <4> QED
        BY <1>1, <4>1, <4>2
    <3> DEFINE v == d[n][m]
               diag == d[n - 1][m - 1]
               above == d[n - 1][m]
               left == d[n][m - 1]
    <3>4. /\ v \in Nat /\ left \in Nat /\ above \in Nat /\ diag \in Nat
          /\ v >= diag \/ v = above + 1 \/ v = left + 1
      BY <3>1 DEF OneEdit
    <3>5. diag <= left + 1 /\ above <= diag + 1
      BY <3>2, <3>3
    <3> HIDE DEF v, diag, above, left
    <3>6. above <= v + 1
      BY <3>4, <3>5
    <3> QED
      BY <3>6 DEF v, above
  <2> QED
    BY <1>1, <2>1
<1>4. \A m \in 0..Len(t) : m \in S
  <2> HIDE DEF S
  <2> QED
    BY <1>1, <1>2, <1>3, UpToN
<1> QED
  BY <1>4

\* So when the characters match, no edit is cheaper than none: the code may
\* take the value above and to the left at once.  Otherwise the least of the
\* three counts.
LEMMA CodesCell ==
  ASSUME NEW s \in Strings, NEW t \in Strings, NEW d, d = DistanceTable(s, t),
         NEW n \in 1..Len(s), NEW m \in 1..Len(t)
  PROVE  d[n][m] = IF s[n] = t[m] THEN d[n - 1][m - 1]
                   ELSE 1 + Least(d[n - 1][m - 1], Least(d[n - 1][m], d[n][m - 1]))
<1>1. n - 1 \in 0..Len(s) /\ m - 1 \in 0..Len(t) /\ n \in 0..Len(s) /\ m \in 0..Len(t)
  BY StringsAreSeqs
<1>2. d[n - 1][m - 1] <= d[n - 1][m] + 1 /\ d[n - 1][m - 1] <= d[n][m - 1] + 1
  BY <1>1, LeftNeighbour, AboveNeighbour
<1> DEFINE v == d[n][m]
    diag == d[n - 1][m - 1]
    above == d[n - 1][m]
    left == d[n][m - 1]
<1>3. /\ v \in Nat /\ diag \in Nat /\ above \in Nat /\ left \in Nat
      /\ v <= diag + 1 /\ v <= above + 1 /\ v <= left + 1
      /\ s[n] = t[m] => v <= diag
      /\ \/ v >= diag /\ (s[n] # t[m] => v >= diag + 1)
         \/ v = above + 1
         \/ v = left + 1
  <2>1. OneEdit(s, t, d, n, m)
    BY CellSteps
  <2> QED
    BY <2>1 DEF OneEdit
<1>4. diag <= above + 1 /\ diag <= left + 1
  BY <1>2
<1> HIDE DEF v, diag, above, left
<1>5. CASE s[n] = t[m]
  <2>1. v = diag
    BY <1>3, <1>4, <1>5
  <2> QED
    BY <1>5, <2>1 DEF v, diag
<1>6. CASE s[n] # t[m]
  <2>1. v = 1 + Least(diag, Least(above, left))
    BY <1>3, <1>6 DEF Least
  <2> QED
    BY <1>6, <2>1 DEF v, diag, above, left
<1> QED
  BY <1>5, <1>6

\* No distance exceeds the lengths together.
LEMMA TableBound ==
  ASSUME NEW s \in Strings, NEW t \in Strings, NEW d, d = DistanceTable(s, t)
  PROVE  \A n \in 0..Len(s), m \in 0..Len(t) : d[n][m] <= n + m
<1> DEFINE S == {m \in 0..Len(t) : \A n \in 0..Len(s) : d[n][m] <= n + m}
<1>1. Len(s) \in Nat /\ Len(t) \in Nat
  BY StringsAreSeqs
<1>2. 0 \in S
  BY <1>1, TableCells
<1>3. ASSUME NEW m \in 1..Len(t), m - 1 \in S PROVE m \in S
  <2>1. ASSUME NEW n \in 0..Len(s) PROVE d[n][m] <= n + m
    <3>1. CASE n = 0
      BY <1>1, <3>1, TableCells
    <3>2. CASE n \in 1..Len(s)
      <4> DEFINE v == d[n][m]
                 left == d[n][m - 1]
      <4>1. OneEdit(s, t, d, n, m)
        BY <3>2, CellSteps
      <4>2. v <= left + 1 /\ v \in Nat /\ left \in Nat
        BY <4>1 DEF OneEdit
      <4>3. left <= n + (m - 1)
        BY <1>3
      <4>4. n \in Nat /\ m \in Nat
        BY <1>1
      <4> HIDE DEF v, left
      <4>5. v <= n + m
        BY <4>2, <4>3, <4>4
      <4> QED
        BY <4>5 DEF v
    <3> QED
      BY <1>1, <3>1, <3>2
  <2> QED
    BY <1>1, <2>1
<1>4. \A m \in 0..Len(t) : m \in S
  <2> HIDE DEF S
  <2> QED
    BY <1>1, <1>2, <1>3, UpToN
<1> QED
  BY <1>4

\* A string is at distance 0 from itself.
LEMMA NoDistance ==
  ASSUME NEW s \in Strings
  PROVE  DistanceTable(s, s)[Len(s)][Len(s)] = 0
<1> DEFINE d == DistanceTable(s, s)
    S == {n \in 0..Len(s) : d[n][n] = 0}
<1>1. Len(s) \in Nat
  BY StringsAreSeqs
<1>2. 0 \in S
  BY <1>1, TableCells
<1>3. ASSUME NEW n \in 1..Len(s), n - 1 \in S PROVE n \in S
  <2>1. d[n][n] = d[n - 1][n - 1]
    BY CodesCell
  <2> QED
    BY <1>1, <1>3, <2>1
<1>4. \A n \in 0..Len(s) : n \in S
  <2> HIDE DEF S
  <2> QED
    BY <1>1, <1>2, <1>3, UpToN
<1> QED
  BY <1>1, <1>4

-----------------------------------------------------------------------------
(* The loops                                                               *)

\* Between two passes of the outer loop the row is a row of the table.
IInv ==
  /\ TypeOK
  /\ pc = "start" => i = 1
  /\ pc = "rows" => \A k \in 0..Len(b) : row[k] = DistanceTable(a, b)[i - 1][k]
  /\ pc = "cells" => i <= Len(a)
  /\ RowIsTwoRows
  /\ ComputesDistance

LEMMA Initially == Init => IInv
<1> SUFFICES ASSUME Init PROVE IInv
  OBVIOUS
<1>1. Len(a) \in Nat /\ Len(b) \in Nat
  BY StringsAreSeqs DEF Init
<1> QED
  BY <1>1 DEF Init, IInv, TypeOK, RowIsTwoRows, ComputesDistance

LEMMA EarlyReturnStep ==
  ASSUME IInv, EarlyReturn
  PROVE  IInv'
<1>1. a \in Strings /\ b \in Strings
  BY DEF IInv, TypeOK
<1>2. ByteLen(a) \in Nat /\ ByteLen(b) \in Nat
  BY <1>1, ByteLenZero
<1>3. pc' = "done" /\ result' \in Nat
  BY <1>2 DEF EarlyReturn, Return
<1>4. ASSUME a # << >>, b # << >>
      PROVE  result' = DistanceTable(a, b)[Len(a)][Len(b)]
  <2>1. ByteLen(a) # 0 /\ ByteLen(b) # 0
    BY <1>1, <1>4, ByteLenZero
  <2>2. a = b /\ result' = 0
    BY <2>1 DEF EarlyReturn, Return
  <2> QED
    BY <1>1, <2>2, NoDistance
<1> QED
  BY <1>3, <1>4 DEF IInv, TypeOK, RowIsTwoRows, ComputesDistance, EarlyReturn

LEMMA FillRowStep ==
  ASSUME IInv, FillRow
  PROVE  IInv'
<1>1. Len(a) \in Nat /\ Len(b) \in Nat /\ a \in Strings /\ b \in Strings
  BY StringsAreSeqs DEF IInv, TypeOK
<1>2. i = 1 /\ i' = 1 /\ a' = a /\ b' = b /\ row' = [k \in 0..Len(b) |-> k] /\ pc' = "rows"
  BY DEF FillRow, IInv
<1>3. \A k \in 0..Len(b) : row'[k] = DistanceTable(a, b)[0][k]
  BY <1>1, <1>2, TableCells
<1>4. row' \in [0..Len(b) -> 0..(Len(a) + Len(b))]
  BY <1>1, <1>2
<1>5. TypeOK'
  BY <1>2, <1>4 DEF IInv, TypeOK, FillRow
<1> QED
  BY <1>2, <1>3, <1>5 DEF IInv, RowIsTwoRows, ComputesDistance

LEMMA NextRowStep ==
  ASSUME IInv, NextRow
  PROVE  IInv'
<1> DEFINE d == DistanceTable(a, b)
<1>1. Len(a) \in Nat /\ Len(b) \in Nat /\ a \in Strings /\ b \in Strings
  BY StringsAreSeqs DEF IInv, TypeOK
<1>2. /\ a' = a /\ b' = b /\ i' = i /\ i \in 1..(Len(a) + 1)
      /\ j \in 1..(Len(b) + 1) /\ prev \in Nat /\ result \in Nat
      /\ row \in [0..Len(b) -> 0..(Len(a) + Len(b))]
      /\ \A k \in 0..Len(b) : row[k] = d[i - 1][k]
  BY DEF NextRow, IInv, TypeOK, Return
<1>3. CASE i <= Len(a)
  <2>1. /\ prev' = row[0] /\ row' = [row EXCEPT ![0] = i] /\ j' = 1
        /\ pc' = "cells" /\ result' = result
    BY <1>3 DEF NextRow
  <2>2. i \in 0..Len(a) /\ 0 \in 0..Len(b) /\ i \in 0..(Len(a) + Len(b))
    BY <1>1, <1>2, <1>3
  <2>3. row' \in [0..Len(b) -> 0..(Len(a) + Len(b))] /\ prev' \in Nat
    BY <1>2, <2>1, <2>2
  <2>4. d[i][0] = i
    BY <1>1, <2>2, TableCells
  <2>5. \A k \in 0..Len(b) : row'[k] = IF k < 1 THEN d[i][k] ELSE d[i - 1][k]
    BY <1>1, <1>2, <2>1, <2>4
  <2>6. prev' = d[i - 1][0]
    BY <1>2, <2>1, <2>2
  <2>7. TypeOK'
    BY <1>1, <1>2, <2>1, <2>3 DEF TypeOK
  <2>8. RowIsTwoRows'
    BY <1>2, <2>1, <2>5, <2>6 DEF RowIsTwoRows
  <2> QED
    BY <1>2, <1>3, <2>1, <2>7, <2>8 DEF IInv, ComputesDistance
<1>4. CASE ~(i <= Len(a))
  <2>1. pc' = "done" /\ result' = row[Len(b)] /\ j' = j /\ row' = row /\ prev' = prev
    BY <1>4 DEF NextRow, Return
  <2>2. i - 1 = Len(a)
    BY <1>1, <1>2, <1>4
  <2>3. result' = d[Len(a)][Len(b)] /\ result' \in Nat
    BY <1>1, <1>2, <2>1, <2>2
  <2>4. TypeOK'
    BY <1>1, <1>2, <2>1, <2>3 DEF TypeOK
  <2> QED
    BY <1>2, <2>1, <2>3, <2>4 DEF IInv, RowIsTwoRows, ComputesDistance
<1> QED
  BY <1>3, <1>4

LEMMA NextCellStep ==
  ASSUME IInv, NextCell
  PROVE  IInv'
<1> DEFINE d == DistanceTable(a, b)
<1>1. Len(a) \in Nat /\ Len(b) \in Nat /\ a \in Strings /\ b \in Strings
  BY StringsAreSeqs DEF IInv, TypeOK
<1>2. /\ a' = a /\ b' = b /\ result' = result
      /\ i \in 1..Len(a) /\ j \in 1..(Len(b) + 1) /\ prev \in Nat /\ result \in Nat
      /\ row \in [0..Len(b) -> 0..(Len(a) + Len(b))]
      /\ \A k \in 0..Len(b) : row[k] = IF k < j THEN d[i][k] ELSE d[i - 1][k]
      /\ prev = d[i - 1][j - 1]
  BY <1>1 DEF NextCell, IInv, TypeOK, RowIsTwoRows
<1>3. CASE j <= Len(b)
  <2> DEFINE cell == IF a[i] = b[j] THEN prev
                     ELSE 1 + Least(prev, Least(row[j], row[j - 1]))
  <2>1. /\ row' = [row EXCEPT ![j] = cell] /\ prev' = row[j]
        /\ j' = j + 1 /\ i' = i /\ pc' = "cells"
    BY <1>3 DEF NextCell
  <2>2. j \in 1..Len(b) /\ j \in 0..Len(b) /\ j - 1 \in 0..Len(b) /\ i \in 0..Len(a)
    BY <1>1, <1>2, <1>3
  <2>3. row[j] = d[i - 1][j] /\ row[j - 1] = d[i][j - 1]
    BY <1>2, <2>2
  <2>4. cell = d[i][j]
    <3>1. d[i][j] = IF a[i] = b[j] THEN d[i - 1][j - 1]
                    ELSE 1 + Least(d[i - 1][j - 1], Least(d[i - 1][j], d[i][j - 1]))
      BY <1>1, <1>2, <2>2, CodesCell
    <3> QED
      BY <1>2, <2>3, <3>1
  <2>5. cell \in 0..(Len(a) + Len(b))
    <3>1. d[i][j] \in Nat /\ d[i][j] <= i + j
      BY <1>1, <2>2, TableCells, TableBound
    <3> QED
      BY <1>1, <1>2, <2>2, <2>4, <3>1
  <2> HIDE DEF cell
  <2>6. row' \in [0..Len(b) -> 0..(Len(a) + Len(b))] /\ prev' \in Nat
    BY <1>2, <2>1, <2>2, <2>5
  <2>7. \A k \in 0..Len(b) : row'[k] = IF k < j + 1 THEN d[i][k] ELSE d[i - 1][k]
    BY <1>2, <2>1, <2>2, <2>4
  <2>8. prev' = d[i - 1][(j + 1) - 1]
    BY <2>1, <2>2, <2>3
  <2>9. TypeOK'
    BY <1>1, <1>2, <2>1, <2>2, <2>6 DEF TypeOK
  <2>10. RowIsTwoRows'
    BY <1>2, <2>1, <2>7, <2>8 DEF RowIsTwoRows
  <2> QED
    BY <1>1, <1>2, <2>1, <2>9, <2>10 DEF IInv, ComputesDistance
<1>4. CASE ~(j <= Len(b))
  <2>1. i' = i + 1 /\ pc' = "rows" /\ j' = j /\ row' = row /\ prev' = prev
    BY <1>4 DEF NextCell
  <2>2. \A k \in 0..Len(b) : row[k] = d[(i + 1) - 1][k]
    <3>1. \A k \in 0..Len(b) : k < j /\ (i + 1) - 1 = i
      BY <1>1, <1>2, <1>4
    <3> QED
      BY <1>2, <3>1
  <2>3. TypeOK'
    BY <1>1, <1>2, <2>1 DEF TypeOK
  <2> QED
    BY <1>2, <2>1, <2>2, <2>3 DEF IInv, RowIsTwoRows, ComputesDistance
<1> QED
  BY <1>3, <1>4

THEOREM Inductive == IInv /\ [Next]_vars => IInv'
<1> SUFFICES ASSUME IInv, [Next]_vars PROVE IInv'
  OBVIOUS
<1>1. CASE UNCHANGED vars
  BY <1>1 DEF vars, IInv, TypeOK, RowIsTwoRows, ComputesDistance
<1> QED
  BY <1>1, EarlyReturnStep, FillRowStep, NextRowStep, NextCellStep DEF Next

LEMMA Invariant == Spec => []IInv
  BY Initially, Inductive, PTL DEF Spec

\* The indexes of the loops stay in the strings and in the row, and no cell
\* exceeds the lengths together.
THEOREM TypeCorrect == Spec => []TypeOK
<1>1. IInv => TypeOK
  BY DEF IInv
<1> QED
  BY <1>1, Invariant, PTL

\* One row, updated in place, and prev are enough for two rows of the table.
THEOREM RowIsTwoRowsAlways == Spec => []RowIsTwoRows
<1>1. IInv => RowIsTwoRows
  BY DEF IInv
<1> QED
  BY <1>1, Invariant, PTL

\* What is returned is the edit distance.
THEOREM ComputesDistanceAlways == Spec => []ComputesDistance
<1>1. IInv => ComputesDistance
  BY DEF IInv
<1> QED
  BY <1>1, Invariant, PTL
=============================================================================
