----------------------------- MODULE ToolCallsProofs -----------------------------
(***************************************************************************)
(* What the tool handlers guarantee for any pages, normal forms, indexes,  *)
(* sessions and number of publications.                                    *)
(***************************************************************************)
EXTENDS ToolCalls, Recursion, TLAPS

\* What each kind of call holds.
LEMMA CallKinds ==
  ASSUME NEW k \in Call
  PROVE  /\ k.tool = "search" =>
              /\ k = [tool |-> "search", toRead |-> k.toRead,
                      array |-> k.array, len |-> k.len]
              /\ k.toRead \subseteq Words /\ k.array \in Nat /\ k.len \in Nat
         /\ k.tool = "full" =>
              /\ k = [tool |-> "full", began |-> k.began, rest |-> k.rest,
                      out |-> k.out]
              /\ k.began \in Nat /\ k.rest \in Seq(Pages) /\ k.out \in Seq(Piece)
  BY DEF Call, Idle

\* A call made by a handler is one of those.
LEMMA CallRecords ==
  /\ Idle \in Call
  /\ \A S \in SUBSET Words, a, n \in Nat :
       [tool |-> "search", toRead |-> S, array |-> a, len |-> n] \in Call
  /\ \A g \in Nat, r \in Seq(Pages), o \in Seq(Piece) :
       [tool |-> "full", began |-> g, rest |-> r, out |-> o] \in Call
  BY DEF Call

-----------------------------------------------------------------------------
(* The inductive invariant.                                                *)

\* What the cache has is the last that was published.
CacheIsLatest == cached = Latest

\* What a search has of the header is of an index that was published.
HeaderPublished ==
  \A c \in Clients : call[c].tool = "search" =>
    /\ "array" \notin call[c].toRead => call[c].array \in 1..Latest
    /\ "len" \notin call[c].toRead => call[c].len \in 1..Latest

\* A piece of a text is a page of a published index, the one it is from.
PiecesPublished ==
  \A c \in Clients : call[c].tool = "full" =>
    /\ call[c].began \in 1..Latest
    /\ \A i \in 1..Len(call[c].out) :
         LET x == call[c].out[i] IN
         x.from \in 1..Latest /\ x.page \in PagesOf(published[x.from].docs)

\* A page was shown as a published index has it.
ShownPublished ==
  \A c \in Clients, p \in Pages :
    seen[c][p] # 0 => p \in PagesOf(published[seen[c][p]].docs)

IInv ==
  /\ TypeOK
  /\ CacheIsLatest
  /\ HeaderPublished
  /\ PiecesPublished
  /\ ShownPublished
  /\ FullNeverStepsBack

THEOREM Initially == Init => IInv
<1> SUFFICES ASSUME Init PROVE IInv
  OBVIOUS
<1>1. PICK i \in Indexes : published = <<i>>
  BY DEF Init
<1>2. published \in Seq(Indexes) /\ Latest = 1
  BY <1>1 DEF Latest
<1>3. \A c \in Clients : call[c] = Idle /\ call[c].tool = "none"
  BY DEF Init, Idle
<1>4. call \in [Clients -> Call]
  BY CallRecords DEF Init
<1>5. seen \in [Clients -> [Pages -> 0..Latest]]
  BY <1>2 DEF Init
<1>6. TypeOK
  <2>1. stray \subseteq Clients /\ down \in BOOLEAN /\ writing \subseteq Words
    BY DEF Init
  <2> QED
    BY <1>2, <1>4, <1>5, <2>1 DEF Init, TypeOK
<1>7. \A c \in Clients, p \in Pages : seen[c][p] = 0
  BY DEF Init
<1> QED
  BY <1>2, <1>3, <1>6, <1>7 DEF Init, IInv, CacheIsLatest, HeaderPublished,
     PiecesPublished, ShownPublished, FullNeverStepsBack

-----------------------------------------------------------------------------
(* The actions.                                                            *)

\* A new index changes nothing for the calls under way, whether it is in the
\* engine at once, as after a restart, or not.
LEMMA PublishStep ==
  ASSUME IInv, NEW i \in Indexes, published' = Append(published, i),
         cached' = Latest + 1, writing' \subseteq Words, down' \in BOOLEAN,
         \/ UNCHANGED <<array, len>>
         \/ array' = Latest + 1 /\ len' = Latest + 1,
         UNCHANGED <<callVars, stray>>
  PROVE  IInv'
<1> USE DEF IInv, TypeOK, callVars
<1>1. /\ published' \in Seq(Indexes) /\ Latest' = Latest + 1 /\ Latest \in Nat
      /\ \A g \in 1..Latest : published'[g] = published[g]
  BY DEF Latest
<1>2. TypeOK'
  <2>1. cached' \in 1..Latest' /\ array' \in 1..Latest' /\ len' \in 1..Latest'
    BY <1>1 DEF CacheIsLatest
  <2>2. seen' \in [Clients -> [Pages -> 0..Latest']]
    <3>1. 0..Latest \subseteq 0..Latest'
      BY <1>1
    <3> QED
      BY <3>1
  <2> QED
    BY <1>1, <2>1, <2>2
<1>3. CacheIsLatest'
  BY <1>1 DEF CacheIsLatest
<1>4. HeaderPublished'
  BY <1>1 DEF HeaderPublished
<1>5. PiecesPublished'
  <2> SUFFICES ASSUME NEW c \in Clients, call[c].tool = "full"
               PROVE  /\ call[c].began \in 1..Latest'
                      /\ \A j \in 1..Len(call[c].out) :
                           /\ call[c].out[j].from \in 1..Latest'
                           /\ call[c].out[j].page \in
                                PagesOf(published'[call[c].out[j].from].docs)
    BY DEF PiecesPublished
  <2>1. 1..Latest \subseteq 1..Latest'
    BY <1>1
  <2>2. call[c].began \in 1..Latest
    BY DEF PiecesPublished
  <2>3. \A j \in 1..Len(call[c].out) :
          /\ call[c].out[j].from \in 1..Latest
          /\ call[c].out[j].page \in PagesOf(published[call[c].out[j].from].docs)
    BY DEF PiecesPublished
  <2> QED
    BY <1>1, <2>1, <2>2, <2>3
<1>6. ShownPublished'
  <2> SUFFICES ASSUME NEW c \in Clients, NEW p \in Pages, seen[c][p] # 0
               PROVE  p \in PagesOf(published'[seen[c][p]].docs)
    BY DEF ShownPublished
  <2>1. seen[c][p] \in 1..Latest
    BY <1>1
  <2> QED
    BY <1>1, <2>1 DEF ShownPublished
<1>7. FullNeverStepsBack'
  BY DEF FullNeverStepsBack
<1> QED
  BY <1>2, <1>3, <1>4, <1>5, <1>6, <1>7

LEMMA UpdateStep ==
  ASSUME IInv, NEW i \in Indexes, Update(i)
  PROVE  IInv'
<1>1. UNCHANGED <<callVars, stray>> /\ UNCHANGED <<array, len, down>>
  BY DEF Update, callVars, faultVars
<1>2. down' \in BOOLEAN /\ writing' \subseteq Words
  BY <1>1 DEF Update, IInv, TypeOK
<1> QED
  BY <1>1, <1>2, PublishStep DEF Update

LEMMA RestartStep ==
  ASSUME IInv, NEW i \in Indexes, Restart(i)
  PROVE  IInv'
<1>1. UNCHANGED <<callVars, stray>> /\ down' \in BOOLEAN /\ writing' \subseteq Words
  BY DEF Restart, callVars, IInv, TypeOK
<1> QED
  BY <1>1, PublishStep DEF Restart

LEMMA RebuildStep ==
  ASSUME IInv, NEW w \in Words, Rebuild(w)
  PROVE  IInv'
<1> USE DEF IInv, Rebuild, callVars, faultVars
<1>1. Latest' = Latest
  BY DEF Latest
<1>2. TypeOK'
  BY <1>1 DEF TypeOK
<1> QED
  BY <1>1, <1>2 DEF CacheIsLatest, HeaderPublished, PiecesPublished,
     ShownPublished, FullNeverStepsBack

\* A step of one handler that leaves the indexes alone keeps the invariant if
\* its call and what its client has seen keep their parts.
LEMMA HandlerStep ==
  ASSUME IInv, NEW c \in Clients, UNCHANGED <<indexVars, down>>,
         stray' \in {stray, stray \cup {c}},
         NEW k \in Call, call' = [call EXCEPT ![c] = k],
         NEW s \in [Pages -> 0..Latest], seen' = [seen EXCEPT ![c] = s],
         k.tool = "search" =>
           /\ "array" \notin k.toRead => k.array \in 1..Latest
           /\ "len" \notin k.toRead => k.len \in 1..Latest,
         k.tool = "full" =>
           /\ k.began \in 1..Latest
           /\ \A i \in 1..Len(k.out) :
                /\ k.out[i].from \in 1..Latest
                /\ k.out[i].page \in PagesOf(published[k.out[i].from].docs)
                /\ k.out[i].from >= k.began
                /\ \A j \in 1..i : k.out[j].from <= k.out[i].from,
         \A p \in Pages : s[p] # 0 => p \in PagesOf(published[s[p]].docs)
  PROVE  IInv'
<1> USE DEF IInv, indexVars
<1>1. Latest' = Latest
  BY DEF Latest
<1>2. call \in [Clients -> Call] /\ seen \in [Clients -> [Pages -> 0..Latest]]
  BY DEF TypeOK
<1>3. \A d \in Clients : /\ call'[d] = IF d = c THEN k ELSE call[d]
                         /\ seen'[d] = IF d = c THEN s ELSE seen[d]
  BY <1>2
<1>4. TypeOK'
  BY <1>1, <1>2 DEF TypeOK
<1>5. CacheIsLatest'
  BY <1>1 DEF CacheIsLatest
<1>6. HeaderPublished'
  BY <1>1, <1>3 DEF HeaderPublished
<1>7. PiecesPublished'
  BY <1>1, <1>3 DEF PiecesPublished
<1>8. ShownPublished'
  BY <1>3 DEF ShownPublished
<1>9. FullNeverStepsBack'
  BY <1>3 DEF FullNeverStepsBack
<1> QED
  BY <1>4, <1>5, <1>6, <1>7, <1>8, <1>9

\* Showing pages of index g keeps ShownPublished.
LEMMA ShowStep ==
  ASSUME IInv, NEW c \in Clients, NEW g \in 1..Latest, NEW S,
         S \subseteq PagesOf(published[g].docs), Show(c, S, g)
  PROVE  \E s \in [Pages -> 0..Latest] :
           /\ seen' = [seen EXCEPT ![c] = s]
           /\ \A p \in Pages : s[p] # 0 => p \in PagesOf(published[s[p]].docs)
<1> DEFINE s == [p \in Pages |-> IF p \in S /\ g > seen[c][p] THEN g ELSE seen[c][p]]
<1>1. seen \in [Clients -> [Pages -> 0..Latest]]
  BY DEF IInv, TypeOK
<1>2. s \in [Pages -> 0..Latest]
  BY <1>1
<1>3. \A p \in Pages : s[p] # 0 => p \in PagesOf(published[s[p]].docs)
  BY DEF IInv, ShownPublished
<1> QED
  BY <1>2, <1>3 DEF Show

\* The call of a client that steps no handler's text keeps its parts.
LEMMA CallKept ==
  ASSUME IInv, NEW c \in Clients
  PROVE  /\ call[c] \in Call /\ call = [call EXCEPT ![c] = call[c]]
         /\ seen[c] \in [Pages -> 0..Latest] /\ seen = [seen EXCEPT ![c] = seen[c]]
         /\ \A p \in Pages :
              seen[c][p] # 0 => p \in PagesOf(published[seen[c][p]].docs)
  BY DEF IInv, TypeOK, ShownPublished

LEMMA HandleReadPageStep ==
  ASSUME IInv, NEW c \in Clients, NEW p \in Pages, HandleReadPage(c, p)
  PROVE  IInv'
<1>1. cached \in 1..Latest
  BY DEF IInv, TypeOK
<1> DEFINE S == {Normalise[p]} \cap PagesOf(published[cached].docs)
<1>2. S \subseteq PagesOf(published[cached].docs) /\ Show(c, S, cached)
  BY DEF HandleReadPage
<1>3. PICK s \in [Pages -> 0..Latest] :
        /\ seen' = [seen EXCEPT ![c] = s]
        /\ \A q \in Pages : s[q] # 0 => q \in PagesOf(published[s[q]].docs)
  <2> HIDE DEF S
  <2> QED
    BY <1>1, <1>2, ShowStep
<1>4. call' = [call EXCEPT ![c] = Idle] /\ UNCHANGED <<indexVars, faultVars>>
  BY CallKept DEF HandleReadPage
<1> QED
  BY <1>3, <1>4, CallRecords, HandlerStep DEF Idle, faultVars

LEMMA HandleSearchStep ==
  ASSUME IInv, NEW c \in Clients, HandleSearch(c)
  PROVE  IInv'
<1> DEFINE k == [tool |-> "search", toRead |-> Words, array |-> 0, len |-> 0]
<1>1. k \in Call
  BY CallRecords
<1>2. call' = [call EXCEPT ![c] = k] /\ UNCHANGED <<indexVars, faultVars, seen>>
  BY DEF HandleSearch
<1>3. k.tool = "search" /\ "array" \in k.toRead /\ "len" \in k.toRead
  BY DEF Words
<1> HIDE DEF k
<1> QED
  BY <1>1, <1>2, <1>3, CallKept, HandlerStep DEF faultVars

LEMMA LoadHeaderStep ==
  ASSUME IInv, NEW c \in Clients, NEW w \in Words, LoadHeader(c, w)
  PROVE  IInv'
<1> DEFINE k == [tool |-> "search", toRead |-> call[c].toRead \ {w},
                 array |-> IF w = "array" THEN array ELSE call[c].array,
                 len |-> IF w = "len" THEN len ELSE call[c].len]
<1>1. call[c] \in Call /\ call[c].tool = "search"
  BY CallKept DEF LoadHeader
<1>2. /\ call[c] = [tool |-> "search", toRead |-> call[c].toRead,
                    array |-> call[c].array, len |-> call[c].len]
      /\ call[c].toRead \subseteq Words
      /\ call[c].array \in Nat /\ call[c].len \in Nat
  BY <1>1, CallKinds
<1>3. array \in 1..Latest /\ len \in 1..Latest /\ Latest \in Nat
  BY DEF IInv, TypeOK, Latest
<1>4. /\ call[c].toRead \ {w} \in SUBSET Words
      /\ (IF w = "array" THEN array ELSE call[c].array) \in Nat
      /\ (IF w = "len" THEN len ELSE call[c].len) \in Nat
  BY <1>2, <1>3
<1>5. k \in Call
  BY <1>4, CallRecords
<1>6. /\ k.tool = "search"
      /\ "array" \notin k.toRead => k.array \in 1..Latest
      /\ "len" \notin k.toRead => k.len \in 1..Latest
  BY <1>1, <1>3 DEF IInv, HeaderPublished
<1>7. call' = [call EXCEPT ![c] = k] /\ UNCHANGED <<indexVars, faultVars, seen>>
  BY DEF LoadHeader
<1> HIDE DEF k
<1> QED
  BY <1>5, <1>6, <1>7, CallKept, HandlerStep DEF faultVars

\* The end of a search that shows documents of its array.
LEMMA SearchEnds ==
  ASSUME IInv, NEW c \in Clients, Loaded(c),
         NEW S, S \subseteq PagesOf(published[call[c].array].docs),
         Show(c, S, call[c].array), Return(c), UNCHANGED <<indexVars, down>>,
         stray' \in {stray, stray \cup {c}}
  PROVE  IInv'
<1>1. call[c].array \in 1..Latest
  BY DEF Loaded, IInv, HeaderPublished
<1>2. PICK s \in [Pages -> 0..Latest] :
        /\ seen' = [seen EXCEPT ![c] = s]
        /\ \A q \in Pages : s[q] # 0 => q \in PagesOf(published[s[q]].docs)
  BY <1>1, ShowStep
<1>3. call' = [call EXCEPT ![c] = Idle]
  BY DEF Return
<1> QED
  BY <1>2, <1>3, CallRecords, HandlerStep DEF Idle

LEMMA SearchStep ==
  ASSUME IInv, NEW c \in Clients, Search(c)
  PROVE  IInv'
<1>1. Loaded(c) /\ WithinArray(c)
  BY DEF Search
<1>2. call[c].array \in 1..Latest /\ call[c].len \in 1..Latest
  BY <1>1 DEF Loaded, IInv, HeaderPublished
<1>3. /\ published[call[c].array].docs \in Seq(Pages)
      /\ published[call[c].len].docs \in Seq(Pages)
  <2>1. \A g \in 1..Latest : published[g] \in Indexes
    BY DEF IInv, TypeOK, Latest
  <2> QED
    BY <1>2, <2>1, ToolCallsAssumption
<1>4. 1..Len(published[call[c].len].docs) \subseteq 1..Len(published[call[c].array].docs)
  BY <1>1, <1>3 DEF WithinArray
<1>5. Scanned(c) \subseteq PagesOf(published[call[c].array].docs)
  BY <1>4 DEF Scanned, PagesOf
<1> QED
  BY <1>1, <1>5, SearchEnds DEF Search, faultVars

LEMMA SearchPastEndStep ==
  ASSUME IInv, NEW c \in Clients, SearchPastEnd(c)
  PROVE  IInv'
  BY SearchEnds DEF SearchPastEnd

\* A panic, and the restart after it, leave what was shown as it was.
LEMMA SearchPanicsStep ==
  ASSUME IInv, NEW c \in Clients, SearchPanics(c)
  PROVE  IInv'
<1> USE DEF IInv, SearchPanics
<1>1. Latest' = Latest
  BY DEF Latest
<1>2. \A d \in Clients : call'[d] = Idle /\ call'[d].tool = "none"
  BY DEF Idle
<1>3. call' \in [Clients -> Call]
  BY CallRecords
<1>4. TypeOK'
  BY <1>1, <1>3 DEF TypeOK
<1> QED
  BY <1>1, <1>2, <1>4 DEF CacheIsLatest, HeaderPublished, PiecesPublished,
     ShownPublished, FullNeverStepsBack

LEMMA HandleGetFullDocumentationStep ==
  ASSUME IInv, NEW c \in Clients, HandleGetFullDocumentation(c)
  PROVE  IInv'
<1> DEFINE k == [tool |-> "full", began |-> cached,
                 rest |-> published[cached].order, out |-> << >>]
<1>1. published[cached] \in Indexes /\ cached \in 1..Latest /\ cached \in Nat
  BY DEF IInv, TypeOK, Latest
<1>2. published[cached].order \in Seq(Pages)
  BY <1>1, ToolCallsAssumption
<1>3. k \in Call
  <2>1. << >> \in Seq(Piece)
    OBVIOUS
  <2> QED
    BY <1>1, <1>2, <2>1, CallRecords
<1>4. k.tool = "full" /\ k.began \in 1..Latest /\ Len(k.out) = 0
  BY <1>1
<1>5. call' = [call EXCEPT ![c] = k] /\ UNCHANGED <<indexVars, faultVars, seen>>
  BY DEF HandleGetFullDocumentation
<1> HIDE DEF k
<1>6. 1..Len(k.out) = {} /\ k.tool # "search"
  BY <1>4
<1> QED
  BY <1>3, <1>4, <1>5, <1>6, CallKept, HandlerStep DEF faultVars

\* A page is looked up in what is the latest index now, which is at least as
\* new as any the text has pieces from.
LEMMA AppendPageStep ==
  ASSUME IInv, NEW c \in Clients, AppendPage(c)
  PROVE  IInv'
<1> DEFINE x == [page |-> Head(call[c].rest), from |-> cached]
           out == IF x.page \in PagesOf(published[cached].docs)
                  THEN Append(call[c].out, x) ELSE call[c].out
           k == [tool |-> "full", began |-> call[c].began,
                 rest |-> Tail(call[c].rest), out |-> out]
<1>1. call[c] \in Call /\ call[c].tool = "full" /\ call[c].rest # << >>
  BY CallKept DEF AppendPage
<1>2. /\ call[c] = [tool |-> "full", began |-> call[c].began,
                    rest |-> call[c].rest, out |-> call[c].out]
      /\ call[c].began \in Nat
      /\ call[c].rest \in Seq(Pages) /\ call[c].out \in Seq(Piece)
  BY <1>1, CallKinds
<1>3. cached = Latest /\ cached \in 1..Latest /\ Latest \in Nat
  BY DEF IInv, TypeOK, CacheIsLatest, Latest
<1>4. x \in Piece /\ x.from = Latest
  BY <1>1, <1>2, <1>3 DEF Piece
<1>5. out \in Seq(Piece) /\ Tail(call[c].rest) \in Seq(Pages)
  <2> HIDE DEF x
  <2> QED
    BY <1>1, <1>2, <1>4
<1>6. call' = [call EXCEPT ![c] = k] /\ UNCHANGED <<indexVars, faultVars, seen>>
  BY DEF AppendPage
<1>7. /\ call[c].began \in 1..Latest
      /\ \A i \in 1..Len(call[c].out) :
           /\ call[c].out[i].from \in 1..Latest
           /\ call[c].out[i].page \in PagesOf(published[call[c].out[i].from].docs)
           /\ call[c].out[i].from >= call[c].began
           /\ \A j \in 1..i : call[c].out[j].from <= call[c].out[i].from
  BY <1>1 DEF IInv, PiecesPublished, FullNeverStepsBack
<1>8. k \in Call /\ k.tool = "full" /\ k.began = call[c].began /\ k.out = out
  <2> HIDE DEF x, out
  <2> QED
    BY <1>2, <1>5, CallRecords
<1> HIDE DEF x, k
<1>9. \A i \in 1..Len(k.out) :
        /\ k.out[i].from \in 1..Latest
        /\ k.out[i].page \in PagesOf(published[k.out[i].from].docs)
        /\ k.out[i].from >= k.began
        /\ \A j \in 1..i : k.out[j].from <= k.out[i].from
  <2>1. CASE x.page \in PagesOf(published[cached].docs)
    <3>1. k.out = Append(call[c].out, x)
      BY <1>8, <2>1
    <3>2. /\ Len(k.out) = Len(call[c].out) + 1
          /\ Len(call[c].out) \in Nat
          /\ k.out[Len(call[c].out) + 1] = x
          /\ \A i \in 1..Len(call[c].out) : k.out[i] = call[c].out[i]
      BY <1>2, <1>4, <3>1
    <3>3. \A i \in 1..Len(call[c].out) : call[c].out[i].from <= Latest
      BY <1>3, <1>7
    <3> SUFFICES ASSUME NEW i \in 1..Len(k.out)
                 PROVE  /\ k.out[i].from \in 1..Latest
                        /\ k.out[i].page \in PagesOf(published[k.out[i].from].docs)
                        /\ k.out[i].from >= k.began
                        /\ \A j \in 1..i : k.out[j].from <= k.out[i].from
      OBVIOUS
    <3>4. CASE i \in 1..Len(call[c].out)
      <4>1. k.out[i] = call[c].out[i]
        BY <3>2, <3>4
      <4>2. \A j \in 1..i : k.out[j] = call[c].out[j]
        BY <3>2, <3>4
      <4> QED
        BY <1>7, <1>8, <3>4, <4>1, <4>2
    <3>5. CASE i = Len(call[c].out) + 1
      <4>1. k.out[i] = x
        BY <3>2, <3>5
      <4>2. x.from >= k.began
        BY <1>3, <1>4, <1>7, <1>8
      <4>3. \A j \in 1..i : k.out[j].from <= x.from
        <5> TAKE j \in 1..i
        <5>1. CASE j \in 1..Len(call[c].out)
          BY <1>4, <3>2, <3>3, <5>1
        <5>2. CASE j = i
          BY <1>3, <1>4, <4>1, <5>2
        <5> QED
          BY <3>2, <3>5, <5>1, <5>2
      <4> QED
        BY <1>3, <1>4, <2>1, <4>1, <4>2, <4>3
    <3> QED
      BY <3>2, <3>4, <3>5
  <2>2. CASE x.page \notin PagesOf(published[cached].docs)
    BY <1>7, <1>8, <2>2
  <2> QED
    BY <2>1, <2>2
<1> QED
  BY <1>6, <1>7, <1>8, <1>9, CallKept, HandlerStep DEF faultVars

\* What a session has seen of a page becomes the newest of its pieces, which
\* is one of them or what was seen before.
LEMMA ReturnDocumentationStep ==
  ASSUME IInv, NEW c \in Clients, ReturnDocumentation(c)
  PROVE  IInv'
<1> DEFINE out == call[c].out
           From(p) == {out[i].from : i \in {j \in 1..Len(out) : out[j].page = p}}
           s == [p \in Pages |->
                  CHOOSE g \in From(p) \cup {seen[c][p]} :
                    \A h \in From(p) \cup {seen[c][p]} : h <= g]
<1>1. seen' = [seen EXCEPT ![c] = s]
  BY DEF ReturnDocumentation
<1>2. call' = [call EXCEPT ![c] = Idle] /\ UNCHANGED <<indexVars, faultVars>>
  BY DEF ReturnDocumentation, Return
<1>3. \A i \in 1..Len(out) :
        out[i].from \in 1..Latest /\ out[i].page \in PagesOf(published[out[i].from].docs)
  BY DEF IInv, PiecesPublished, ReturnDocumentation, Finished
<1>4. Latest \in Nat
  BY DEF IInv, TypeOK, Latest
<1>5. ASSUME NEW p \in Pages
      PROVE  s[p] \in 0..Latest /\ (s[p] # 0 => p \in PagesOf(published[s[p]].docs))
  <2> DEFINE T == From(p) \cup {seen[c][p]}
  <2>1. seen[c][p] \in 0..Latest
    BY CallKept
  <2>2. T \subseteq 0..Latest /\ T # {}
    BY <1>3, <1>4, <2>1
  <2>3. \A g \in T : g # 0 => p \in PagesOf(published[g].docs)
    BY <1>3, CallKept
  <2>4. s[p] = CHOOSE g \in T : \A h \in T : h <= g
    OBVIOUS
  <2> HIDE DEF T, s
  <2>5. \E g \in T : \A h \in T : h <= g
    BY <1>4, <2>2, Greatest
  <2>6. s[p] \in T
    BY <2>4, <2>5
  <2> QED
    BY <2>2, <2>3, <2>6
<1>6. s \in [Pages -> 0..Latest]
  BY <1>5
<1> HIDE DEF s
<1> QED
  BY <1>1, <1>2, <1>5, <1>6, CallRecords, HandlerStep DEF Idle, faultVars

THEOREM Inductive == IInv /\ [Next]_vars => IInv'
<1> SUFFICES ASSUME IInv, [Next]_vars PROVE IInv'
  OBVIOUS
<1>1. CASE UNCHANGED vars
  BY <1>1 DEF vars, indexVars, callVars, faultVars, IInv, TypeOK, CacheIsLatest, HeaderPublished,
     PiecesPublished, ShownPublished, FullNeverStepsBack, Latest
<1>2. CASE \E i \in Indexes : Update(i) \/ Restart(i)
  BY <1>2, UpdateStep, RestartStep
<1>3. CASE \E w \in Words : Rebuild(w)
  BY <1>3, RebuildStep
<1>4. ASSUME NEW c \in Clients, Handler(c)
      PROVE  IInv'
  BY <1>4, HandleReadPageStep, HandleSearchStep, LoadHeaderStep, SearchStep,
     SearchPastEndStep, SearchPanicsStep,
     HandleGetFullDocumentationStep, AppendPageStep, ReturnDocumentationStep
     DEF Handler
<1> QED
  BY <1>1, <1>2, <1>3, <1>4 DEF Next

LEMMA Invariant == Spec => []IInv
  BY Initially, Inductive, PTL DEF Spec

-----------------------------------------------------------------------------
(* The theorems.                                                           *)

\* Every state has the types the module states.
THEOREM TypeCorrect == Spec => []TypeOK
<1>1. IInv => TypeOK
  BY DEF IInv
<1> QED
  BY <1>1, Invariant, PTL

\* What a session was shown can be opened, as it was shown or newer.
THEOREM ShownPagesCanBeReadAlways == Spec => []ShownPagesCanBeRead
<1>1. IInv => ShownPagesCanBeRead
  <2> SUFFICES ASSUME IInv, NEW c \in Clients \ stray, NEW p \in Pages
               PROVE  /\ seen[c][p] <= cached
                      /\ seen[c][p] = cached =>
                           p \in PagesOf(published[cached].docs)
    BY DEF ShownPagesCanBeRead
  <2>1. seen[c][p] \in 0..Latest /\ cached = Latest /\ cached \in 1..Latest
    BY CallKept DEF IInv, TypeOK, CacheIsLatest
  <2> QED
    BY <2>1, CallKept
<1> QED
  BY <1>1, Invariant, PTL

\* The text of get_full_documentation never steps back in time.
THEOREM FullNeverStepsBackAlways == Spec => []FullNeverStepsBack
<1>1. IInv => FullNeverStepsBack
  BY DEF IInv
<1> QED
  BY <1>1, Invariant, PTL
=============================================================================
