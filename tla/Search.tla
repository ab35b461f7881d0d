--------------------------------- MODULE Search ---------------------------------
(***************************************************************************)
(* From the pages on disk to the answers of search_documentation and       *)
(* search_symbols: one index run merges the navigation with the files      *)
(* found, parses page after page and relates them by tag; then internal/   *)
(* search scores the documents against a query, and buildExcerpt (module   *)
(* Excerpt) cuts a window for a hit.  Scores count in tenths.              *)
(***************************************************************************)
EXTENDS Excerpt, Documents

CONSTANTS
  Library,    \* the pages people write
  NavLists,   \* the path orders mkdocs.yml can give
  Queries,    \* what the tools are asked for, as texts; << >> is a blank
  Limits,     \* the limits the tools are given
  MaxResults, \* cfg.Search.MaxResults
  Split,      \* Split[w]: w split at what is no letter, digit, _ or -
  Dist(_, _)  \* Dist(t, u): levenshtein of two texts

ASSUME SearchAssumption ==
  /\ Library \subseteq Page
  /\ NavLists \subseteq Seq(Pages)
  /\ Queries \subseteq Text
  /\ Limits \subseteq Int /\ MaxResults \in Int
  /\ IsFiniteSet(Pages) /\ MaxContent > 0
  /\ \A x \in Inside : x[3] + Size[x[1]] <= Size[x[2]]
  /\ Split \in [Words -> Seq(Words)]
  /\ \A w \in Words : \A v \in ToSet(Split[w]) :
       v = w \/ \E x \in Inside : x[1] = v /\ x[2] = w

VARIABLES
  disk,    \* the files that can be read, with their pages
  nav,     \* mkResult.PathOrder
  todo,    \* paths the run has still to parse
  docs,    \* the documents, in order
  phase,   \* "parse", "related" or "ready"
  ask,     \* the latest call: tool, query and effective limit
  results  \* its results

corpusVars == <<disk, nav, todo, docs, phase>>
callVars == <<ask, results>>
searchVars == <<vars, corpusVars, callVars>>

Tools == {"search", "symbols"}
NoCall == [tool |-> "none"]

SearchTypeOK ==
  /\ TypeOK
  /\ DOMAIN disk \subseteq Pages /\ \A p \in DOMAIN disk : disk[p] \in Library
  /\ nav \in NavLists
  /\ ToSet(todo) \subseteq Pages
  /\ \A i \in DOMAIN docs :
       docs[i].path \in DOMAIN disk /\ ToSet(docs[i].related) \subseteq DOMAIN disk
  /\ phase \in {"parse", "related", "ready"}
  /\ ask.tool \in Tools \cup {"none"}
  /\ \A i \in DOMAIN results : results[i].doc \in DOMAIN docs /\ results[i].score \in Nat

\* mergePathOrder: the paths of the navigation, then the files not in it.
MergePathOrder(navPaths, allPaths) ==
  navPaths \o Keep(allPaths, Pages \ ToSet(navPaths))

\* No excerpt is under way: the window of a text of one byte.
SearchInit ==
  /\ len = 1 /\ spaces = {} /\ pos = -1 /\ start = 0 /\ end = 0 /\ pc = "done"
  /\ \E D \in SUBSET Pages : disk \in [D -> Library]
  /\ nav \in NavLists
  /\ \E found \in SetToSeqs(DOMAIN disk) : todo = MergePathOrder(nav, found)
  /\ docs = << >> /\ phase = "parse"
  /\ ask = NoCall /\ results = << >>

-----------------------------------------------------------------------------
(* The index run                                                           *)

\* Mutant: a file that cannot be read gives an empty document.
ParseNextOrEmpty ==
  /\ phase = "parse"
  /\ todo # << >>
  /\ todo' = Tail(todo)
  /\ IF Head(todo) \in DOMAIN disk
     THEN \E d \in ParseBytes(Head(todo), disk[Head(todo)]) : docs' = Append(docs, d)
     ELSE docs' = Append(docs, [path |-> Head(todo), related |-> << >>])
  /\ UNCHANGED <<vars, disk, nav, phase, callVars>>

\* ParseFile of the next path; a path the navigation lists and the disk does
\* not have is skipped.
ParseNext ==
  /\ phase = "parse"
  /\ todo # << >>
  /\ todo' = Tail(todo)
  /\ IF Head(todo) \in DOMAIN disk
     THEN \E d \in ParseBytes(Head(todo), disk[Head(todo)]) : docs' = Append(docs, d)
     ELSE docs' = docs
  /\ UNCHANGED <<vars, disk, nav, phase, callVars>>

ParseDone ==
  /\ phase = "parse" /\ todo = << >>
  /\ phase' = "related"
  /\ UNCHANGED <<vars, disk, nav, todo, docs, callVars>>

\* related = append(related, p), unless p was seen.
Add(s, p) == IF p \in ToSet(s) THEN s ELSE Append(s, p)

\* The paths of s, each where it first comes.
Distinct(s) ==
  LET seen[i \in 0..Len(s)] == IF i = 0 THEN << >> ELSE Add(seen[i - 1], s[i])
  IN seen[Len(s)]

\* tagDocs[t]
TagDocs(t) ==
  FlattenSeq([i \in DOMAIN docs |->
                [k \in 1..TimesIn(t, docs[i].tags) |-> docs[i].path]])

\* Mutant: a page is related to itself.
RelatedToSelf(d) == Distinct(FlattenSeq([i \in DOMAIN d.tags |-> TagDocs(d.tags[i])]))

\* The pages that share a tag with d, each once.
Related(d) ==
  Keep(Distinct(FlattenSeq([i \in DOMAIN d.tags |-> TagDocs(d.tags[i])])),
       Pages \ {d.path})

\* computeRelated; the keywords it adds come after Prepare, so that search
\* never sees them.
ComputeRelated ==
  /\ phase = "related"
  /\ phase' = "ready"
  /\ docs' = [i \in DOMAIN docs |-> [docs[i] EXCEPT !.related = Related(docs[i])]]
  /\ UNCHANGED <<vars, disk, nav, todo, callVars>>

-----------------------------------------------------------------------------
(* Scoring                                                                 *)

\* The offsets at which word v occurs in word w.
Within(v, w) == (IF v = w THEN {0} ELSE {}) \cup
                {x[3] : x \in {y \in Inside : y[1] = v /\ y[2] = w}}

\* The words of text t before which phrase q occurs, q's first word perhaps
\* at the end of a longer one and its last word at the beginning.
Occurrences(q, t) ==
  {k \in 0..(Len(t) - Len(q)) :
     \A i \in 1..Len(q) : \E at \in Within(q[i], t[k + i]) :
       (i > 1 => at = 0) /\ (i < Len(q) => at + Size[q[i]] = Size[t[k + i]])}

\* strings.Contains; a blank is in every text (and counts once a word here,
\* once a character in the code).
HasPhrase(t, q) == Occurrences(q, t) # {}
HasWord(t, w) == HasPhrase(t, <<w>>)

\* A token against a whole text, its spaces included.
Near(t, w, n) == Dist(<<w>>, t) <= n

\* What tokenize keeps of the pieces: words of one byte are dropped.
Long == {w \in Words : Size[w] >= 2}

\* Mutant: no lower case.
TokenizeAsWritten(q) == Keep(FlattenSeq([i \in DOMAIN q |-> Split[q[i]]]), Long)

\* tokenize: every capital is lowered, then the words are split.
Tokenize(q) == Keep(FlattenSeq([i \in DOMAIN q |-> Split[Fold[q[i]]]]), Long)

\* weightHeading1Word, weightHeading2Word, weightHeadingWord
HeadingWeight(level) == CASE level = 1 -> 60 [] level = 2 -> 40 [] OTHER -> 25

\* The sum of the numbers f[1], ..., f[n].
Total(f) ==
  LET upTo[i \in 0..Len(f)] == IF i = 0 THEN 0 ELSE upTo[i - 1] + f[i]
  IN upTo[Len(f)]

\* What one token adds to the score of d; a fuzzy match counts 0.4.  Contents
\* are shorter than the 50,000 bytes that put an end to fuzzy matching.
ScoreToken(d, tok) ==
  LET title == IF HasWord(d.titleLower, tok) THEN 100
               ELSE IF Near(d.titleLower, tok, 2) /\ Size[tok] >= 4 THEN 40 ELSE 0
      path == IF HasWord(PathWords[d.path], tok) THEN 40 ELSE 0
      heading(i) == IF HasWord(d.headingsLower[i], tok)
                    THEN HeadingWeight(d.headings[i].level) ELSE 0
      keyword(i) == IF HasWord(<<d.keywordsLower[i]>>, tok) THEN 40
                    ELSE IF Near(<<d.keywordsLower[i]>>, tok, 1) /\ Size[tok] >= 4
                    THEN 16 ELSE 0
      tag(i) == IF HasWord(<<d.tagsLower[i]>>, tok) THEN 30 ELSE 0
      times == Cardinality(Occurrences(<<tok>>, d.contentLower))
      fuzzy == \E i \in DOMAIN d.contentLower :
                 Near(<<d.contentLower[i]>>, tok, 1) /\ Size[tok] >= 5
  IN title + path + Total([i \in DOMAIN d.headings |-> heading(i)])
       + Total([i \in DOMAIN d.keywords |-> keyword(i)])
       + Total([i \in DOMAIN d.tags |-> tag(i)])
       + IF times > 0 THEN 5 * times ELSE IF fuzzy THEN 2 ELSE 0

ScoreDocument(d, toks) ==
  (IF HasPhrase(d.titleLower, toks) THEN 500 ELSE 0)
    + Total([i \in DOMAIN toks |-> ScoreToken(d, toks[i])])

\* matchSet, as phrases.
Matches(d, toks) ==
  {<<tok>> : tok \in {t \in ToSet(toks) : ScoreToken(d, t) > 0}}
    \cup {q \in {toks} : HasPhrase(d.titleLower, toks)}

\* The score of d in SearchSymbols, for the whole query in lower case.
ScoreSymbols(d, q) ==
  LET keyword(i) == IF HasPhrase(<<d.keywordsLower[i]>>, q) \/ HasWord(q, d.keywordsLower[i])
                    THEN 80 ELSE 0
      heading(i) == IF HasPhrase(d.headingsLower[i], q)
                    THEN 2 * HeadingWeight(d.headings[i].level) ELSE 0
      exact == (IF HasPhrase(d.titleLower, q) THEN 200 ELSE 0)
                 + Total([i \in DOMAIN d.keywords |-> keyword(i)])
                 + Total([i \in DOMAIN d.headings |-> heading(i)])
                 + (IF HasPhrase(PathWords[d.path], q) THEN 60 ELSE 0)
                 + 15 * Cardinality(Occurrences(q, d.contentLower))
  IN IF exact = 0 /\ Dist(q, d.titleLower) <= 2 THEN 20 ELSE exact

Score(tool, d, q) ==
  IF tool = "symbols" THEN ScoreSymbols(d, Map(Fold, q))
  ELSE IF Tokenize(q) = << >> THEN 0 ELSE ScoreDocument(d, Tokenize(q))

-----------------------------------------------------------------------------
(* A call of a tool                                                        *)

\* handleSearchDocs, handleSearchSymbols: the limit that is not positive.
Effective(limit) == IF limit <= 0 THEN MaxResults ELSE limit

\* results[:limit]; a limit that is still not positive cuts nothing.
Cut(s, limit) == IF limit > 0 /\ Len(s) > limit THEN SubSeq(s, 1, limit) ELSE s

Hit(tool, i, q) ==
  [doc |-> i, score |-> Score(tool, docs[i], q),
   matches |-> IF tool = "symbols" THEN {q} ELSE Matches(docs[i], Tokenize(q))]

\* The index is built and no call was made; the engine keeps nothing from one
\* call to the next, so a behaviour follows one call to its end.
Indexed == phase = "ready" /\ ask = NoCall

Sorted(s) == \A i, j \in DOMAIN s : i < j => s[i].score >= s[j].score

\* Mutant: the limit is applied before the hits are sorted.
CallCutsFirst(tool, q, limit) ==
  LET hits == {i \in DOMAIN docs : Score(tool, docs[i], q) > 0} IN
  /\ Indexed
  /\ ask' = [tool |-> tool, query |-> q, limit |-> Effective(limit)]
  /\ \E s \in SetToSeqs(hits) :
       results' = Cut([i \in DOMAIN s |-> Hit(tool, s[i], q)], Effective(limit))
  /\ UNCHANGED <<vars, corpusVars>>

\* Search or SearchSymbols: score, sort, cut.  sort.Slice leaves equal
\* scores in any order.
Call(tool, q, limit) ==
  LET hits == {i \in DOMAIN docs : Score(tool, docs[i], q) > 0} IN
  /\ Indexed
  /\ ask' = [tool |-> tool, query |-> q, limit |-> Effective(limit)]
  /\ \E s \in SetToSeqs(hits) :
       LET ranked == [i \in DOMAIN s |-> Hit(tool, s[i], q)] IN
       Sorted(ranked) /\ results' = Cut(ranked, Effective(limit))
  /\ UNCHANGED <<vars, corpusVars>>

\* The bytes of the first k words of t, each with the space after it.
Ends(t) ==
  LET upTo[k \in 0..Len(t)] == IF k = 0 THEN 0 ELSE upTo[k - 1] + Size[t[k]] + 1
  IN upTo

\* The byte offset of the k-th word of t, or of its end.
Offset(t, k) == Ends(t)[k - 1]

\* The bounds of module Excerpt are not reached.
ASSUME LibraryFits ==
  \A p \in Library : LET t == PlainText(p.body) IN
    Ends(t)[Len(t)] <= MaxContent + 1 /\ Ends(Map(Fold, t))[Len(t)] <= MaxLower

\* strings.Index of the phrases in the lower-case content, the earliest.
Earliest(t, phrases) ==
  LET found == {x \in phrases \X (0..Len(t)) : x[2] \in Occurrences(x[1], t)}
      first(x) == IF x[1] = << >> THEN {0} ELSE Within(x[1][1], t[x[2] + 1])
      at == UNION {{Offset(t, x[2] + 1) + o : o \in first(x)} : x \in found}
  IN IF at = {} THEN -1 ELSE CHOOSE n \in at : \A m \in at : n <= m

Phrases == IF ask.tool = "symbols" THEN {Map(Fold, ask.query)}
           ELSE {<<tok>> : tok \in ToSet(Tokenize(ask.query))}

\* buildExcerpt for the i-th hit.  It is called as the hit is found; it is a
\* function of content and query, and is looked at here for those returned.
BuildExcerpt(i) ==
  LET content == docs[results[i].doc].content IN
  /\ pc = "done" /\ content # << >>
  /\ pc' = "search"
  /\ len' = Offset(content, Len(content) + 1) - 1
  /\ spaces' = {Offset(content, k) - 1 : k \in 2..Len(content)}
  /\ pos' = Earliest(Map(Fold, content), Phrases)
  /\ start' = 0 /\ end' = 0
  /\ UNCHANGED <<corpusVars, callVars>>

SearchNext ==
  \/ ParseNext \/ ParseDone \/ ComputeRelated
  \/ \E tool \in Tools, q \in Queries, limit \in Limits : Call(tool, q, limit)
  \/ \E i \in DOMAIN results : BuildExcerpt(i)
  \/ (NoMatch \/ AroundMatch \/ Clamp \/ SnapLeft \/ SnapRight)
       /\ UNCHANGED <<corpusVars, callVars>>

SearchSpec == SearchInit /\ [][SearchNext]_searchVars

-----------------------------------------------------------------------------
\* "returns the top-limit results": they come in order, nothing left out
\* beats the last, and a page is there once unless mkdocs.yml lists it twice.
ResultsRanked ==
  /\ Sorted(results)
  /\ ask # NoCall =>
       \A i \in DOMAIN docs \ {results[k].doc : k \in DOMAIN results} :
         LET s == Score(ask.tool, docs[i], ask.query) IN
         s > 0 => /\ ask.limit > 0 /\ Len(results) = ask.limit
                  /\ s <= results[ask.limit].score
  /\ IsInjective(nav) => \A i, j \in DOMAIN results :
       i # j => docs[results[i].doc].path # docs[results[j].doc].path

\* A word that has no capital but ASCII ones, no emphasis marker in it and no
\* marker of a heading or a quote before it.
Simple(w) == Lower[w] = Fold[w] /\ Plain[w] = w /\ First[w] = w

\* A word of a title, a heading or the prose is found by both tools, in
\* whichever capitals it was written and is asked for: what parser, Prepare
\* and tokenize each do to its letters agrees.  search_docs needs a piece of
\* two bytes; "I/O" has none and is for search_symbols.  (Words in code are
\* not found.)
ProseFound ==
  Indexed => \A i \in DOMAIN docs : \A w, asked \in Words :
    /\ Simple(w) /\ Fold[w] = Fold[asked]
    /\ LET page == disk[docs[i].path] IN
         \/ w \in ToSet(page.title)
         \/ \E l \in ToSet(page.body) : l.kind # "code" /\ w \in ToSet(l.text)
    => \A tool \in Tools :
         tool = "symbols" \/ ToSet(Split[Fold[w]]) \cap Long # {} =>
           Score(tool, docs[i], <<asked>>) > 0

\* "the most frequent meaningful words": no word that is left out is more
\* frequent than a keyword.
KeywordsAreTop ==
  phase = "related" => \A i \in DOMAIN docs :
    LET d == docs[i]
        words == ToSet(Counted(d.title \o HeadingText(d.headings) \o d.content))
        freq(w) == Frequency(w, d.title, d.headings, d.content)
    IN disk[d.path].keywords = << >> =>
         /\ ToSet(d.keywords) \subseteq words
         /\ \A k \in ToSet(d.keywords), w \in words \ ToSet(d.keywords) :
              Len(d.keywords) = MaxKeywords /\ freq(k) >= freq(w)

\* Pages are related both ways, never to themselves and never twice.
RelatedMutual ==
  Indexed => \A i, j \in DOMAIN docs :
    /\ docs[i].path \notin ToSet(docs[i].related)
    /\ IsInjective(docs[i].related)
    /\ docs[j].path \in ToSet(docs[i].related)
         <=> docs[i].path \in ToSet(docs[j].related)
=============================================================================
