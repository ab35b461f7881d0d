------------------------------- MODULE ToolCalls -------------------------------
(***************************************************************************)
(* internal/mcp's tool handlers against internal/cache and the document    *)
(* slice of internal/search, while the indexer publishes new indexes.      *)
(*                                                                         *)
(* The cache is behind a lock: each of its methods is one step.  The       *)
(* engine has none: e.docs is a slice header of two words, the array and   *)
(* the length, that Rebuild writes and Search reads word by word, in an    *)
(* order the compiler chooses.  A search that has loaded a length beyond   *)
(* its array reads what lies behind the array: Go does not define what     *)
(* that is.  The process dies of it, or the search goes on with documents  *)
(* that are none of its index's.                                           *)
(*                                                                         *)
(* An index is [docs, order]: the pages that were parsed, in the order     *)
(* mergePathOrder gave them, and cache.pathOrder, the order of mkdocs.yml. *)
(* Indexes are numbered as they are published; a page read from index g is *)
(* identified with g.                                                      *)
(***************************************************************************)
EXTENDS Naturals, Sequences

CONSTANTS
  Pages,      \* the paths there can be, as navigation and walk give them
  Normalise,  \* Normalise[p]: p with no leading slash and .md at its end
  Clients,    \* MCP sessions; each makes one call at a time
  Indexes,    \* the indexes a run can build
  MaxIndexes  \* bound on the number of indexes published

ASSUME ToolCallsAssumption ==
  /\ Indexes \subseteq [docs : Seq(Pages), order : Seq(Pages)]
  /\ MaxIndexes \in Nat \ {0}

VARIABLES
  published,  \* history: published[g] is the g-th index
  cached,     \* the index in the cache
  array,      \* e.docs, the first word: whose documents it points to
  len,        \* e.docs, the second word: whose length it is
  writing,    \* the words Rebuild has still to write
  call,       \* what each client's handler is doing
  seen,       \* seen[c][p]: the newest p that client c was shown, 0 if none
  stray,      \* history: clients shown what lies behind the engine's array
  down        \* the process has died

indexVars == <<published, cached, array, len, writing>>
callVars == <<call, seen>>
faultVars == <<stray, down>>
vars == <<indexVars, callVars, faultVars>>

Words == {"array", "len"}
Latest == Len(published)
PagesOf(s) == {s[i] : i \in 1..Len(s)}

Idle == [tool |-> "none"]
Piece == [page : Pages, from : Nat]
Call ==
  {Idle}
  \cup [tool : {"search"}, toRead : SUBSET Words, array : Nat, len : Nat]
  \cup [tool : {"full"}, began : Nat, rest : Seq(Pages), out : Seq(Piece)]

TypeOK ==
  /\ published \in Seq(Indexes)
  /\ cached \in 1..Latest /\ array \in 1..Latest /\ len \in 1..Latest
  /\ writing \subseteq Words
  /\ call \in [Clients -> Call]
  /\ seen \in [Clients -> [Pages -> 0..Latest]]
  /\ stray \subseteq Clients /\ down \in BOOLEAN

\* Mutant: main serves before the first index is there.
InitUnindexed ==
  /\ published = << >>
  /\ cached = 0 /\ array = 0 /\ len = 0
  /\ writing = {}
  /\ call = [c \in Clients |-> Idle]
  /\ seen = [c \in Clients |-> [p \in Pages |-> 0]]
  /\ stray = {} /\ down = FALSE

\* main indexes once before it serves.
Init ==
  /\ published \in {<<i>> : i \in Indexes}
  /\ cached = 1 /\ array = 1 /\ len = 1
  /\ writing = {}
  /\ call = [c \in Clients |-> Idle]
  /\ seen = [c \in Clients |-> [p \in Pages |-> 0]]
  /\ stray = {} /\ down = FALSE

-----------------------------------------------------------------------------
\* Mutant: the engine gets the run's documents at once, the cache only when
\* the next run ends.
UpdateAfterRebuild(i) ==
  /\ ~down /\ Latest < MaxIndexes
  /\ published' = Append(published, i)
  /\ cached' = Latest
  /\ array' = Latest + 1 /\ len' = Latest + 1
  /\ UNCHANGED <<writing, callVars, faultVars>>

\* Index, its last two steps: cache.Update under the write lock ...
Update(i) ==
  /\ ~down /\ writing = {}
  /\ Latest < MaxIndexes
  /\ published' = Append(published, i)
  /\ cached' = Latest + 1
  /\ writing' = Words
  /\ UNCHANGED <<array, len, callVars, faultVars>>

\* ... and engine.Rebuild with a copy of the cache's documents.
Rebuild(w) ==
  /\ w \in writing
  /\ writing' = writing \ {w}
  /\ array' = IF w = "array" THEN cached ELSE array
  /\ len' = IF w = "len" THEN cached ELSE len
  /\ UNCHANGED <<published, cached, callVars, faultVars>>

-----------------------------------------------------------------------------
\* Client c is shown the pages in S, as index g has them.
Show(c, S, g) ==
  seen' = [seen EXCEPT ![c] = [p \in Pages |->
             IF p \in S /\ g > seen[c][p] THEN g ELSE seen[c][p]]]

Return(c) == call' = [call EXCEPT ![c] = Idle]

\* handleReadPage: one GetDocument, of the path asked for in its normal form;
\* an unknown path is an error result.
HandleReadPage(c, p) ==
  /\ ~down /\ call[c] = Idle
  /\ Show(c, {Normalise[p]} \cap PagesOf(published[cached].docs), cached)
  /\ UNCHANGED <<indexVars, call, faultVars>>

\* handleSearchDocs and handleSearchSymbols call into the engine.
HandleSearch(c) ==
  /\ ~down /\ call[c] = Idle
  /\ call' = [call EXCEPT ![c] =
                [tool |-> "search", toRead |-> Words, array |-> 0, len |-> 0]]
  /\ UNCHANGED <<indexVars, seen, faultVars>>

\* The range over e.docs loads one word of the slice header.
LoadHeader(c, w) ==
  LET k == call[c]
  IN /\ k.tool = "search"
     /\ w \in k.toRead
     /\ call' = [call EXCEPT ![c] =
          [tool |-> "search", toRead |-> k.toRead \ {w},
           array |-> IF w = "array" THEN array ELSE k.array,
           len |-> IF w = "len" THEN len ELSE k.len]]
     /\ UNCHANGED <<indexVars, seen, faultVars>>

\* The header is loaded; its length is within its array, or it is not.
Loaded(c) == call[c].tool = "search" /\ call[c].toRead = {}
WithinArray(c) ==
  Len(published[call[c].len].docs) <= Len(published[call[c].array].docs)

\* The documents of the array up to the length; every one may match.
Scanned(c) ==
  LET docs == published[call[c].array].docs
  IN {docs[i] : i \in 1..Len(published[call[c].len].docs)}

\* The loop over the documents, and the handler's answer.
Search(c) ==
  /\ Loaded(c) /\ WithinArray(c)
  /\ Show(c, Scanned(c), call[c].array)
  /\ Return(c)
  /\ UNCHANGED <<indexVars, faultVars>>

\* The loop goes past the end of the array and finds documents there: all of
\* the array's are shown, and others, of which nothing is known.
SearchPastEnd(c) ==
  /\ Loaded(c) /\ ~WithinArray(c)
  /\ Show(c, PagesOf(published[call[c].array].docs), call[c].array)
  /\ stray' = stray \cup {c}
  /\ Return(c)
  /\ UNCHANGED <<indexVars, down>>

\* Or there is no document where it looks: nothing recovers from the panic,
\* which ends the process, and with it every call and a rebuild under way.
SearchPanics(c) ==
  /\ Loaded(c) /\ ~WithinArray(c)
  /\ down' = TRUE
  /\ call' = [d \in Clients |-> Idle]
  /\ writing' = {}
  /\ UNCHANGED <<published, cached, array, len, seen, stray>>

\* handleGetFullDocumentation: PathOrder copies the navigation order ...
HandleGetFullDocumentation(c) ==
  /\ ~down /\ call[c] = Idle
  /\ call' = [call EXCEPT ![c] =
                [tool |-> "full", began |-> cached,
                 rest |-> published[cached].order, out |-> << >>]]
  /\ UNCHANGED <<indexVars, seen, faultVars>>

\* Mutant: documents come from a copy taken with the order, and from the
\* cache only where the copy has none.
AppendPageFromCopy(c) ==
  LET k == call[c]
      p == Head(k.rest)
      g == IF p \in PagesOf(published[k.began].docs) THEN k.began ELSE cached
  IN /\ k.tool = "full" /\ k.rest # << >>
     /\ call' = [call EXCEPT ![c] =
          [k EXCEPT !.rest = Tail(@),
                    !.out = IF p \in PagesOf(published[g].docs)
                            THEN Append(@, [page |-> p, from |-> g])
                            ELSE @]]
     /\ UNCHANGED <<indexVars, seen, faultVars>>

\* ... then each path is looked up, under a lock of its own; a path that has
\* no document now is left out.
AppendPage(c) ==
  LET k == call[c]
      p == Head(k.rest)
  IN /\ k.tool = "full" /\ k.rest # << >>
     /\ call' = [call EXCEPT ![c] =
          [tool |-> "full", began |-> k.began, rest |-> Tail(k.rest),
           out |-> IF p \in PagesOf(published[cached].docs)
                   THEN Append(k.out, [page |-> p, from |-> cached])
                   ELSE k.out]]
     /\ UNCHANGED <<indexVars, seen, faultVars>>

\* The text is complete and the client gets it.
Finished(c) == call[c].tool = "full" /\ call[c].rest = << >>

ReturnDocumentation(c) ==
  LET out == call[c].out
      From(p) == {out[i].from : i \in {j \in 1..Len(out) : out[j].page = p}}
  IN /\ Finished(c)
     /\ seen' = [seen EXCEPT ![c] = [p \in Pages |->
          CHOOSE g \in From(p) \cup {seen[c][p]} :
            \A h \in From(p) \cup {seen[c][p]} : h <= g]]
     /\ Return(c)
     /\ UNCHANGED <<indexVars, faultVars>>

\* docker-compose starts the process again, and main indexes before it serves;
\* the sessions remember what they were shown.
Restart(i) ==
  /\ down
  /\ Latest < MaxIndexes
  /\ down' = FALSE
  /\ published' = Append(published, i)
  /\ cached' = Latest + 1 /\ array' = Latest + 1 /\ len' = Latest + 1
  /\ UNCHANGED <<writing, callVars, stray>>

Handler(c) ==
  \/ \E p \in Pages : HandleReadPage(c, p)
  \/ HandleSearch(c) \/ (\E w \in Words : LoadHeader(c, w))
  \/ Search(c) \/ SearchPastEnd(c) \/ SearchPanics(c)
  \/ HandleGetFullDocumentation(c) \/ AppendPage(c) \/ ReturnDocumentation(c)

Next ==
  \/ \E i \in Indexes : Update(i) \/ Restart(i)
  \/ \E w \in Words : Rebuild(w)
  \/ \E c \in Clients : Handler(c)

Spec == Init /\ [][Next]_vars

-----------------------------------------------------------------------------
\* A page a client was shown, by a search or by a longer read, can be opened
\* as it was shown or newer: read_page answers from an index that is no older,
\* and finds the page under the path it was shown with, unless a later index
\* has dropped it or the path is not in normal form.  A client is left out
\* once a search of its has read past the array: nothing is promised of what
\* that showed.
ShownPagesCanBeRead ==
  \A c \in Clients \ stray, p \in Pages :
    /\ seen[c][p] <= cached
    /\ seen[c][p] = cached /\ Normalise[p] = p =>
         Normalise[p] \in PagesOf(published[cached].docs)

\* The concatenated documentation never steps back in time: each piece comes
\* from an index at least as new as the piece before it, and as the order.
FullNeverStepsBack ==
  \A c \in Clients : call[c].tool = "full" =>
    LET out == call[c].out IN
    \A i \in 1..Len(out) :
      /\ out[i].from >= call[c].began
      /\ \A j \in 1..i : out[j].from <= out[i].from

-----------------------------------------------------------------------------
(* What the documentation says of the tools, as it says it.                *)

\* indexer.go: "It is safe to call concurrently with search operations".  No
\* search reads past the array of documents, however its loads of the slice
\* header fall among Rebuild's stores.
SearchWithinArray == \A c \in Clients : Loaded(c) => WithinArray(c)
=============================================================================
