------------------------------ MODULE EditDistance ------------------------------
(***************************************************************************)
(* levenshtein of internal/search/fuzzy.go, cell by cell: one row of the   *)
(* table, updated in place, and the value of the cell above and to the     *)
(* left kept aside in prev.  A string is a sequence of characters; Width   *)
(* says how many bytes each takes in UTF-8.                                *)
(***************************************************************************)
EXTENDS Naturals, Sequences

CONSTANTS
  Chars,  \* the characters of the strings compared
  Width,  \* Width[c]: the bytes of c in UTF-8
  MaxLen  \* bound on the length of a string

ASSUME EditDistanceAssumption ==
  Width \in [Chars -> 1..4] /\ MaxLen \in Nat

VARIABLES
  a, b,    \* the arguments
  i, j,    \* the cell the loops are at
  row,     \* row[0..lb]
  prev,    \* the cell above and to the left
  pc,      \* "start", "rows", "cells" or "done"
  result   \* what is returned

vars == <<a, b, i, j, row, prev, pc, result>>

Strings == UNION {[1..n -> Chars] : n \in 0..MaxLen}
Least(x, y) == IF x < y THEN x ELSE y

TypeOK ==
  /\ a \in Strings /\ b \in Strings
  /\ i \in 1..(Len(a) + 1) /\ j \in 1..(Len(b) + 1)
  /\ pc \in {"rows", "cells"} => row \in [0..Len(b) -> 0..(Len(a) + Len(b))]
  /\ prev \in Nat /\ result \in Nat
  /\ pc \in {"start", "rows", "cells", "done"}

Init ==
  /\ a \in Strings /\ b \in Strings
  /\ i = 1 /\ j = 1
  /\ row = [k \in 0..Len(b) |-> 0]
  /\ prev = 0
  /\ pc = "start"
  /\ result = 0

Return(n) == pc' = "done" /\ result' = n

\* len(s) of a Go string.
ByteLen(s) ==
  LET upTo[n \in 0..Len(s)] == IF n = 0 THEN 0 ELSE upTo[n - 1] + Width[s[n]]
  IN upTo[Len(s)]

\* Equal strings and empty strings are answered at once.
EarlyReturn ==
  /\ pc = "start"
  /\ \/ a = b /\ Return(0)
     \/ a # b /\ ByteLen(a) = 0 /\ Return(ByteLen(b))
     \/ a # b /\ ByteLen(a) # 0 /\ ByteLen(b) = 0 /\ Return(ByteLen(a))
  /\ UNCHANGED <<a, b, i, j, row, prev>>

\* The first row of the table.
FillRow ==
  /\ pc = "start"
  /\ a # b /\ ByteLen(a) # 0 /\ ByteLen(b) # 0
  /\ row' = [k \in 0..Len(b) |-> k]
  /\ pc' = "rows"
  /\ UNCHANGED <<a, b, i, j, prev, result>>

\* Mutant: the new row keeps the first cell of the old one.
NextRowKeepsFirst ==
  /\ pc = "rows"
  /\ IF i <= Len(a)
     THEN prev' = row[0] /\ j' = 1 /\ pc' = "cells" /\ UNCHANGED <<i, result>>
     ELSE Return(row[Len(b)]) /\ UNCHANGED <<i, j, prev>>
  /\ UNCHANGED <<a, b, row>>

\* The head of the outer loop.
NextRow ==
  /\ pc = "rows"
  /\ IF i <= Len(a)
     THEN /\ prev' = row[0]
          /\ row' = [row EXCEPT ![0] = i]
          /\ j' = 1
          /\ pc' = "cells"
          /\ UNCHANGED <<i, result>>
     ELSE Return(row[Len(b)]) /\ UNCHANGED <<i, j, row, prev>>
  /\ UNCHANGED <<a, b>>

\* Mutant: prev takes the cell after it was overwritten.
NextCellSwapped ==
  /\ pc = "cells"
  /\ IF j <= Len(b)
     THEN LET cell == IF a[i] = b[j] THEN prev
                      ELSE 1 + Least(prev, Least(row[j], row[j - 1]))
          IN /\ row' = [row EXCEPT ![j] = cell]
             /\ prev' = cell
             /\ j' = j + 1
             /\ UNCHANGED <<i, pc>>
     ELSE i' = i + 1 /\ pc' = "rows" /\ UNCHANGED <<j, row, prev>>
  /\ UNCHANGED <<a, b, result>>

\* Mutant: the inner loop runs one cell too far.
NextCellPastEnd ==
  /\ pc = "cells"
  /\ IF j <= Len(b) + 1
     THEN /\ row' = [row EXCEPT ![j - 1] = 1 + Least(prev, row[j - 1])]
          /\ prev' = row[j - 1]
          /\ j' = j + 1
          /\ UNCHANGED <<i, pc>>
     ELSE i' = i + 1 /\ pc' = "rows" /\ UNCHANGED <<j, row, prev>>
  /\ UNCHANGED <<a, b, result>>

\* The inner loop: one cell, or the end of the row.
NextCell ==
  /\ pc = "cells"
  /\ IF j <= Len(b)
     THEN /\ row' = [row EXCEPT ![j] =
                       IF a[i] = b[j] THEN prev
                       ELSE 1 + Least(prev, Least(@, row[j - 1]))]
          /\ prev' = row[j]
          /\ j' = j + 1
          /\ UNCHANGED <<i, pc>>
     ELSE i' = i + 1 /\ pc' = "rows" /\ UNCHANGED <<j, row, prev>>
  /\ UNCHANGED <<a, b, result>>

Next == EarlyReturn \/ FillRow \/ NextRow \/ NextCell

Spec == Init /\ [][Next]_vars /\ WF_vars(Next)

-----------------------------------------------------------------------------
\* Row n of the table, below the row above: by the cheapest last edit,
\* whether or not characters match.
TableRow(s, t, n, above) ==
  LET r[m \in 0..Len(t)] ==
        IF m = 0 THEN n
        ELSE Least(above[m - 1] + (IF s[n] = t[m] THEN 0 ELSE 1),
                   Least(above[m], r[m - 1]) + 1)
  IN r

\* The edit distance of the first n characters of s and the first m of t, by
\* its definition.
DistanceTable(s, t) ==
  LET d[n \in 0..Len(s)] ==
        IF n = 0 THEN [m \in 0..Len(t) |-> m] ELSE TableRow(s, t, n, d[n - 1])
  IN d

\* levenshtein "computes the edit distance between two strings", counted in
\* characters whatever their width.  Only the answer for an empty argument is
\* the number of bytes of the other one.
ComputesDistance ==
  pc = "done" /\ a # << >> /\ b # << >> =>
    result = DistanceTable(a, b)[Len(a)][Len(b)]

\* While the loops run, the single row holds the new row of the table to the
\* left of column j and the old one from there on, and prev the old value the
\* row no longer has.
RowIsTwoRows ==
  pc = "cells" =>
    LET d == DistanceTable(a, b) IN
    /\ \A k \in 0..Len(b) : row[k] = IF k < j THEN d[i][k] ELSE d[i - 1][k]
    /\ prev = d[i - 1][j - 1]
=============================================================================
