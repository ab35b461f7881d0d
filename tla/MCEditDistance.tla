---------------------------- MODULE MCEditDistance ----------------------------
(***************************************************************************)
(* All pairs of strings of up to MaxLen characters.                        *)
(***************************************************************************)
EXTENDS EditDistance

CONSTANTS x, y

MCChars == {x, y}
\* y is an accented letter.
MCWidth == [c \in MCChars |-> IF c = y THEN 2 ELSE 1]
=============================================================================
