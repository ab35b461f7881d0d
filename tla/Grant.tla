--------------------------------- MODULE Grant ---------------------------------
(***************************************************************************)
(* What the authorization code grant promises, with neither clock nor      *)
(* store: a code is offered to one client, redeemed by one request, and    *)
(* buys at most one token, for that client, or is lost.  No way leads      *)
(* back, and no token is sold twice.  OAuth implements it.                 *)
(***************************************************************************)
CONSTANTS Codes, Clients, Tokens

VARIABLES
  fate,   \* where each code is on its way
  offers, \* the client each code was offered to
  sales   \* the token each redeemed code bought, and for which client

vars == <<fate, offers, sales>>

Fates == {"new", "offered", "taken", "sold", "lost"}

Init ==
  /\ fate = [k \in Codes |-> "new"]
  /\ offers = {} /\ sales = {}

Moves(k, from, to) == fate[k] = from /\ fate' = [fate EXCEPT ![k] = to]

Offer(k, c) ==
  /\ Moves(k, "new", "offered")
  /\ offers' = offers \cup {[code |-> k, client |-> c]}
  /\ UNCHANGED sales

Take(k) == Moves(k, "offered", "taken") /\ UNCHANGED <<offers, sales>>

Sell(k, c, t) ==
  /\ Moves(k, "taken", "sold")
  /\ [code |-> k, client |-> c] \in offers
  /\ \A s \in sales : s.token # t
  /\ sales' = sales \cup {[code |-> k, client |-> c, token |-> t]}
  /\ UNCHANGED offers

\* Codes expire, are refused or die with the process, any number at once.
Lose(S) ==
  /\ \A k \in S : fate[k] \in {"offered", "taken"}
  /\ fate' = [k \in Codes |-> IF k \in S THEN "lost" ELSE fate[k]]
  /\ UNCHANGED <<offers, sales>>

Next ==
  \/ \E k \in Codes : Take(k)
  \/ \E k \in Codes, c \in Clients : Offer(k, c)
  \/ \E k \in Codes, c \in Clients, t \in Tokens : Sell(k, c, t)
  \/ \E S \in SUBSET Codes : Lose(S)

Spec == Init /\ [][Next]_vars
=============================================================================
