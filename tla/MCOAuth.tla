-------------------------------- MODULE MCOAuth --------------------------------
(***************************************************************************)
(* Small instances of OAuth.                                               *)
(***************************************************************************)
EXTENDS OAuth, TLC

Symmetry ==
  Permutations(Clients) \cup Permutations(Codes) \cup Permutations(Tokens)
    \cup Permutations(Requests)
=============================================================================
