-------------------------------- MODULE Excerpt --------------------------------
(***************************************************************************)
(* buildExcerpt of internal/search/engine.go: the window of text around    *)
(* the first match of a query.  Positions are byte offsets.  What the      *)
(* function computes with are the length of the content, the places of its *)
(* spaces and the offset of the earliest match in its lower-case form,     *)
(* which need not be as long as the content.                               *)
(***************************************************************************)
EXTENDS Integers

CONSTANTS
  MaxContent,  \* bound on the length of the content
  MaxLower,    \* bound on the length of its lower-case form
  maxLen       \* the length wanted: 280

ASSUME ExcerptAssumption ==
  MaxContent \in Nat /\ MaxLower \in Nat /\ maxLen \in Nat \ {0}

VARIABLES
  len,     \* len(content)
  spaces,  \* the offsets of its spaces
  pos,     \* offset of the earliest match, -1 if there is none
  start, end,  \* the window
  pc       \* "search", "clamp", "left", "right" or "done"

vars == <<len, spaces, pos, start, end, pc>>

TypeOK ==
  /\ len \in 1..MaxContent
  /\ spaces \subseteq 0..(len - 1)
  /\ pos \in -1..MaxLower
  /\ start \in Nat /\ end \in Nat
  /\ pc \in {"search", "clamp", "left", "right", "done"}

\* Empty content is answered before anything else.
Init ==
  /\ len \in 1..MaxContent
  /\ spaces \in SUBSET (0..(len - 1))
  /\ pos \in -1..MaxLower
  /\ start = 0 /\ end = 0
  /\ pc = "search"

\* No token occurs: the beginning of the content.
NoMatch ==
  /\ pc = "search"
  /\ pos < 0
  /\ end' = IF len <= maxLen THEN len ELSE maxLen
  /\ pc' = "done"
  /\ UNCHANGED <<len, spaces, pos, start>>

\* Mutant: the window may begin before the content.
AroundMatchUnclamped ==
  /\ pc = "search"
  /\ pos >= 0
  /\ start' = pos - maxLen \div 4
  /\ end' = start' + maxLen
  /\ pc' = "clamp"
  /\ UNCHANGED <<len, spaces, pos>>

\* Mutant: three quarters of the window before the match.
AroundMatchLate ==
  /\ pc = "search"
  /\ pos >= 0
  /\ start' = IF pos < (3 * maxLen) \div 4 THEN 0 ELSE pos - (3 * maxLen) \div 4
  /\ end' = start' + maxLen
  /\ pc' = "clamp"
  /\ UNCHANGED <<len, spaces, pos>>

\* A quarter of the window before the match, the rest from there on.
AroundMatch ==
  /\ pc = "search"
  /\ pos >= 0
  /\ start' = IF pos < maxLen \div 4 THEN 0 ELSE pos - maxLen \div 4
  /\ end' = start' + maxLen
  /\ pc' = "clamp"
  /\ UNCHANGED <<len, spaces, pos>>

\* Mutant: the window is cut at the end, and not moved to the left.
ClampEndOnly ==
  /\ pc = "clamp"
  /\ end' = IF end > len THEN len ELSE end
  /\ pc' = "left"
  /\ UNCHANGED <<len, spaces, pos, start>>

\* A window that reaches beyond the content is moved back into it.
Clamp ==
  /\ pc = "clamp"
  /\ IF end > len
     THEN end' = len /\ start' = IF len < maxLen THEN 0 ELSE len - maxLen
     ELSE UNCHANGED <<start, end>>
  /\ pc' = "left"
  /\ UNCHANGED <<len, spaces, pos>>

\* Mutant: looks at the byte at start, not at the one before.
SnapLeftInside ==
  /\ pc = "left"
  /\ IF start > 0 /\ start \notin spaces
     THEN start' = start - 1 /\ pc' = pc
     ELSE start' = start /\ pc' = "right"
  /\ UNCHANGED <<len, spaces, pos, end>>

\* The start goes left to the beginning of a word.
SnapLeft ==
  /\ pc = "left"
  /\ IF start > 0 /\ start - 1 \notin spaces
     THEN start' = start - 1 /\ pc' = pc
     ELSE start' = start /\ pc' = "right"
  /\ UNCHANGED <<len, spaces, pos, end>>

\* The end goes right to the end of a word.
SnapRight ==
  /\ pc = "right"
  /\ IF end < len /\ end \notin spaces
     THEN end' = end + 1 /\ pc' = pc
     ELSE end' = end /\ pc' = "done"
  /\ UNCHANGED <<len, spaces, pos, start>>

Next == NoMatch \/ AroundMatch \/ Clamp \/ SnapLeft \/ SnapRight

Spec == Init /\ [][Next]_vars

-----------------------------------------------------------------------------
\* The window lies in the content whenever the content is indexed or sliced
\* with it, wherever the lower-case form put the match.
WindowInContent ==
  pc \in {"left", "right", "done"} => 0 <= start /\ start <= end /\ end <= len

\* A match of up to three quarters of the window is shown whole, when lower
\* case did not change the length of the content.
MatchShown ==
  pc = "done" =>
    \A tok \in 1..(maxLen - maxLen \div 4) :
      pos >= 0 /\ pos + tok <= len => start <= pos /\ pos + tok <= end

\* An excerpt around a match consists of whole words.
WholeWords ==
  pc = "done" /\ pos >= 0 =>
    /\ start = 0 \/ start - 1 \in spaces
    /\ end = len \/ end \in spaces
=============================================================================
