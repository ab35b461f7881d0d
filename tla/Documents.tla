------------------------------- MODULE Documents -------------------------------
(***************************************************************************)
(* internal/markdown and internal/models: how a page as it is written      *)
(* becomes the Document that is indexed.  A word is an opaque value; what  *)
(* the code does to its letters is given by the constants.  A text is a    *)
(* sequence of words, one space apart.                                     *)
(***************************************************************************)
EXTENDS Naturals, SequencesExt

CONSTANTS
  Words,       \* words as they are written, and their other forms
  Lower,       \* Lower[w]: models.toLower, which changes ASCII capitals only
  Fold,        \* Fold[w]: strings.ToLower, which changes every capital
  Plain,       \* Plain[w]: w without the emphasis markers ** __ * _
  First,       \* First[w]: Plain[w], and w is the first of its line: no leading # or >
  Parts,       \* Parts[w]: w split at what is neither letter nor digit
  Size,        \* Size[w]: length in bytes
  Inside,      \* <<v, w, at>>: v occurs within the longer w, at this offset
  StopWords,   \* stopWords
  Pages,       \* the paths of the Markdown files
  PathWords,   \* PathWords[p]: path p in lower case, as a text
  FileTitle,   \* FileTitle[p]: titleFromPath
  MaxKeywords  \* maxKeywords: 20

ASSUME DocumentsAssumption ==
  /\ Lower \in [Words -> Words] /\ Fold \in [Words -> Words]
  /\ Plain \in [Words -> Words] /\ First \in [Words -> Words]
  /\ Parts \in [Words -> Seq(Words)]
  /\ Size \in [Words -> Nat \ {0}] /\ \A w \in Words : Size[Lower[w]] = Size[w]
  /\ Inside \subseteq Words \X Words \X Nat
  /\ PathWords \in [Pages -> Seq(Words)]
  /\ FileTitle \in [Pages -> Seq(Words)]
  /\ MaxKeywords \in Nat

Text == Seq(Words)
Map(f, t) == [i \in DOMAIN t |-> f[t[i]]]
TimesIn(w, t) == Cardinality({i \in DOMAIN t : t[i] = w})

\* The elements of s that are in S, in their order.
Keep(s, S) ==
  LET kept[i \in 0..Len(s)] ==
        IF i = 0 THEN << >>
        ELSE IF s[i] \in S THEN Append(kept[i - 1], s[i]) ELSE kept[i - 1]
  IN kept[Len(s)]

\* A page as it is written: its front matter and its lines.
Line == [kind : {"heading", "prose", "code"}, level : 0..6, text : Text]
Page == [title : Text, tags : Text, keywords : Text, body : Seq(Line)]

\* extractHeadings keeps the text of a heading as it is.
Headings(body) == Keep(body, {l \in ToSet(body) : l.kind = "heading"})

\* A line of extractPlainText: emphasis markers are removed even from within
\* a word, those of headings and quotes from its beginning.
Stripped(text) == [i \in DOMAIN text |-> IF i = 1 THEN First[text[i]] ELSE Plain[text[i]]]

\* extractPlainText: code goes, headings stay.
PlainText(body) ==
  FlattenSeq([i \in DOMAIN body |->
                IF body[i].kind = "code" THEN << >> ELSE Stripped(body[i].text)])

\* The title of the front matter, else an H1 that comes first, else the
\* name of the file.
TitleOf(p, page) ==
  LET heads == Headings(page.body) IN
  IF page.title # << >> THEN page.title
  ELSE IF heads # << >> /\ heads[1].level = 1 /\ heads[1].text # << >>
       THEN heads[1].text
       ELSE FileTitle[p]

-----------------------------------------------------------------------------
(* extractKeywords                                                         *)

\* The words countWords counts in a text.
Counted(text) ==
  Keep(FlattenSeq([i \in DOMAIN text |-> Map(Fold, Parts[text[i]])]),
       {w \in Words : Size[w] >= 3} \ StopWords)

HeadingText(heads) == FlattenSeq([i \in DOMAIN heads |-> heads[i].text])

\* freq[w]
Frequency(w, title, heads, content) ==
  5 * TimesIn(w, Counted(title)) + 3 * TimesIn(w, Counted(HeadingText(heads)))
    + TimesIn(w, Counted(content))

\* The greater of the words at places i < j comes first.
InOrder(val, s, i, j) ==
  IF val[s[j]] > val[s[i]] THEN [s EXCEPT ![i] = s[j], ![j] = s[i]] ELSE s

\* The inner loop compares place i with those after it.
Pass(val, s, i) ==
  LET t[j \in 0..Len(s)] == IF j <= i THEN s ELSE InOrder(val, t[j - 1], i, j)
  IN t[Len(s)]

\* Mutant: only the first pass is made.
ExchangeOnce(val, s) == IF s = << >> THEN s ELSE Pass(val, s, 1)

\* The exchange sort, descending, of words by val.
Exchange(val, s) ==
  LET t[i \in 0..Len(s)] == IF i = 0 THEN s ELSE Pass(val, t[i - 1], i)
  IN t[Len(s)]

\* What extractKeywords can return: a Go map is walked in any order.
ExtractKeywords(title, heads, content) ==
  LET found == ToSet(Counted(title \o HeadingText(heads) \o content))
      val == [w \in found |-> Frequency(w, title, heads, content)]
      top == IF Cardinality(found) > MaxKeywords THEN MaxKeywords ELSE Cardinality(found)
  IN {SubSeq(Exchange(val, s), 1, top) : s \in SetToSeqs(found)}

-----------------------------------------------------------------------------
\* Prepare: with the lower-case copies search works on.
Prepare(d) ==
  [path |-> d.path, title |-> d.title, headings |-> d.headings,
   content |-> d.content, tags |-> d.tags, keywords |-> d.keywords,
   related |-> d.related,
   titleLower |-> Map(Lower, d.title),
   contentLower |-> Map(Lower, d.content),
   headingsLower |-> [i \in DOMAIN d.headings |-> Map(Lower, d.headings[i].text)],
   keywordsLower |-> Map(Lower, d.keywords),
   tagsLower |-> Map(Lower, d.tags)]

\* ParseBytes: the documents page p can become, one for each outcome of
\* extractKeywords.  computeRelated adds to related later.
ParseBytes(p, page) ==
  LET title == TitleOf(p, page)
      heads == Headings(page.body)
      content == PlainText(page.body)
      doc(keywords) == [path |-> p, title |-> title, headings |-> heads,
                        content |-> content, tags |-> page.tags,
                        keywords |-> keywords, related |-> << >>]
  IN {Prepare(doc(k)) : k \in IF page.keywords # << >> THEN {page.keywords}
                              ELSE ExtractKeywords(title, heads, content)}
=============================================================================
