# Verification of the EERP documentation MCP server

This directory holds TLA+ models of the Go program in `src/`, the TLC
configurations that check them on small instances, and proofs, checked by
TLAPS, that hold for every instance.

The server reads `mkdocs.yml` and a tree of Markdown files, keeps the pages in
memory, answers MCP tool calls (search, read, list) from there, and watches the
files to index them again when they change. Over HTTP it can ask for an OAuth
token, which it issues itself.

## 1. Inventory

| Component | State | Operations | Talks to |
|---|---|---|---|
| `cmd/server/main.go` | none of its own | flags, configuration, `-gen-hash`, index once, create the MCP server, catch signals, start the watcher goroutine, run a transport, close `stopWatcher`, exit status | everything |
| `internal/watcher` | fsnotify watches, debounce timer, `pending` flag | `Run` (registration, then a select over stop, events, errors, timer), `addSubdirs`, `isRelevant` | calls `indexer.Index` from inside its loop |
| `internal/indexer` | none between runs | `Index`: parse mkdocs.yml, resolve docs_dir, walk, parse pages, place them in the navigation, update the cache, rebuild the engine | parser, markdown, cache, search |
| `internal/cache` | documents, index by path, navigation, sections, path order, under an RWMutex | `Update` and accessors | written by the indexer, read by the tools |
| `internal/search` | `Engine.docs`, no lock | `Rebuild`, `Search`, `SearchSymbols`, with `scoreDocument`, `buildExcerpt`, `tokenize`, `levenshtein` | written by the indexer, read by the tools |
| `internal/parser` | none | `ParseMkDocs`, section and path collection, breadcrumbs | called by the indexer |
| `internal/markdown` | none | `ParseFile`, `ParseBytes` | called by the indexer |
| `internal/mcp` | none (HTTP sessions are the SDK's) | six tool handlers; `RunHTTP`, `RunStdio` | cache, engine, oauth |
| `internal/oauth` | clients, codes, tokens, under a mutex | `/register`, `/authorize`, `/token`, the Bearer middleware, the cleanup goroutine | reached by HTTP clients |
| `internal/models` | the lower-case copies in `Document` | `Prepare` | called by the parser, read by the search |
| `internal/config` | none | `Load`, `Default`, `applyDefaults` | called by main |

Three goroutines and any number of handlers share this state. What is hard:

* **Live index.** The disk changes while an index run reads it, and the loop
  that runs the index is the one that receives the events. Watches are
  registered after the first index, one at a time, while the tree changes. The
  kernel's queue can overflow; runs fail half-way; nothing is retried. *Correct*
  means: when the watcher has nothing left to do, no page is silently stale;
  what it hears of is indexed in the end.
* **Debounce.** A flag and a timer must stay in step. *Correct*: reindexes are
  spaced, and never starved by a burst.
* **Publication.** Cache and engine are replaced one after the other, the
  engine without a lock, and some tools take the cache's lock several times in
  one call. *Correct*: what a search shows can be read; one answer does not
  step back in time.
* **Life cycle.** Signals come at any moment, the listener may fail or never
  open, requests and event streams are under way when the server is told to
  stop. *Correct*: it stops, unless a client holds a stream open; success is
  reported only when nothing was cut.
* **Search.** What a page says passes through three functions that treat its
  letters differently, before a query that passed through a fourth is compared
  with it; keywords and results are cut off after sorts that leave ties open.
  *Correct*: the limit keeps the best; words of the prose are found in any
  capitals; keywords are the most frequent words.
* **OAuth.** A handler takes the store's lock twice, and other handlers, the
  cleanup, the clock and a crash come between. *Correct*: one code buys one
  token, for the client and verifier it was issued to, before it expires; no
  token is revoked early; what has expired leaves the store.
* **Algorithms.** Four separate traversals of one navigation tree must agree,
  on pages listed twice as well. The Levenshtein table is one row updated in
  place. The excerpt window is computed with an offset from another string.

`PROJECT.json` lists these hazards at their lines, each with the properties
that would catch it, or the reason why there is none yet.

## 2. Modules

```
FileEvents      disk, people who edit, fsnotify (external)
  |- Watcher    internal/watcher: loop and registration
  |- Indexer    internal/indexer.Index, cache and engine as stores
       LiveIndex  = Watcher + Indexer + main's start-up          <- LiveIndexProofs
         |          implements LiveReload (abstract)
         |- MCLiveIndex       instances
Debounce        the watcher's loop in time
  |- Lifecycle  main, config, RunHTTP/RunStdio, signals,
                connections, the goroutines; runs Debounce       <- LifecycleProofs
ToolCalls       internal/mcp handlers against cache and engine   <- MCToolCalls,
                                                                    ToolCallsProofs
OAuth           internal/oauth; implements Grant (abstract)      <- MCOAuth, OAuthProofs
NavTree         internal/parser, findSection, list_sections      <- MCNavTree,
                                                                    NavTreeProofs
EditDistance    search/fuzzy.go                                  <- MCEditDistance,
                                                                    EditDistanceProofs
Documents       internal/markdown, internal/models
Excerpt         buildExcerpt of search/engine.go
  |- Search     = Documents + one index run's order and relations
                  + tokenize, scoring, ranking + Excerpt         <- MCSearch, SearchProofs
Recursion       induction and recursion over 0..N and along a rank, elements of
                  sequences: lemmas for EditDistanceProofs, SearchProofs and
                  NavTreeProofs
```

**FileEvents** is the world around the program: a tree of files and
directories, what happens to it (write, atomic replace, create, remove, chmod,
mkdir, rmdir), and inotify through fsnotify: a watch of a directory reports the
names directly in it, a watch ends with the inode it was put on, the queue is
bounded and loses events when full. A file's content is its revision number. It
is external, modelled from what `watcher.go` and `indexer.go` ask of it.

**Watcher** has one action per arm of the select and one per step of the
registration. `loop` says where the goroutine is; `toAdd` is what the running
`addSubdirs` has still to visit; `pending` is the variable of that name; `armed`
says that the timer runs or has fired unreceived. `WatchRoot`, `WatchConf` and
`AddSubdir` are separate steps because the disk changes between them.
`RelevantNames` are the names whose extension passes `isRelevant`.

**Indexer** cuts `Index` at every system call: read mkdocs.yml, stat docs_dir,
read one directory, parse one page, update the cache, rebuild the engine. `view`
is what the run has read so far. Every error path is an action: a run that
fails keeps the stores and sets `errored`, a page that is skipped is dropped and
recorded there, a page that is gone is dropped. `errored` stands for the log.

**LiveIndex** composes them as `main` does: the first run happens before the
watcher exists, and every later run is a call of the loop, which receives
nothing meanwhile (`Receive` and `Reindex` need `step = "idle"`). `Shutdown`
is the stop arm of the loop or, for `main` waits for nobody, the end of the
process at whatever step loop and index run have come to (`ProcessEnds`). The
history variable `missed` holds the files whose latest change left no event in the
queue; it restricts nothing.

**Debounce** keeps only the loop's flag and timer and gives them a clock, in
fractions of the delay. `since` is the time since the last reindex started.

**Lifecycle** is the process around it: `main` says where `run()` is, from the
flags to the exit status, and there is an action for each way on. The watcher
goroutine runs Debounce's actions unchanged, while the process lives and
fsnotify could be started. `listener` is the goroutine of `ListenAndServe` with
its `errCh`; `conns` is what net/http does for each connection, modelled from
what `RunHTTP` asks of it: `Shutdown` closes the listener, then idle
connections, and waits for the rest. `Signal` may happen at any moment and does
what the operating system does with it before `NotifyContext` and after.

**ToolCalls** has a step per lock: `cache.Update`, each accessor call of a
handler, and, since `Engine.docs` has no lock and is a slice header of several
words, a step per word for `Rebuild` and for `Search`. Without synchronisation
Go fixes no order for those words, so the model takes any. A search whose length
is within its array (`Search`) may miss pages; one whose length is beyond it
reads what lies there, which Go does not define: it finds documents of which
nothing is known (`SearchPastEnd`, and the session is `stray` from then on), or
none, and the process dies, as nothing in `src/` recovers from a panic
(`SearchPanics`). `docker-compose.yml:5` starts it again (`Restart`), in the
middle of any session. Indexes are numbered; `seen` is what each session was
shown.

**OAuth** has, for each request in progress, a record of what its handler holds
and does next, and a step between any two accesses to the store. `Cleanup` is
the ticker, which drops a tick it was late for. `Restart` empties the memory at
any moment. `logins` and `grants` are histories. The lifetime of a code starts
when it is made, not when it is stored, as in the code.

**LiveReload** and **Grant** are what these two promise, with no watcher, timer
or run and no store, clock or handler. LiveReload: pages are served at revisions
that never step back, search follows, and whoever owes no work serves the disk,
but for the files it is excused for. Grant: a code is offered to one client,
taken by one request, and sold for one token or lost; no way leads back.
`LiveIndex` maps `owed` to "not at rest" and `excused` to `missed \cup errored`;
`OAuth` reads a code's fate off the store, the requests in progress and the
histories.

**Documents** and **Search** follow a page from its text to an answer. A word is
an opaque value: a run of characters without a blank. What `strings.ToLower`
(`Fold`) and `toLower` (`Lower`) make of it, what is left of it without emphasis
markers (`Plain`) and, at the beginning of a line, without those of headings and
quotes (`First`), and the pieces into which the keyword extraction (`Parts`) and
`tokenize` (`Split`) cut it are constant functions, so that an instance can have
a word for each way they disagree. A text is a sequence of words; `Dist` is the
edit distance of two texts.
Documents has the operators of the parser and `Prepare`; the set
`ExtractKeywords` holds one outcome for each order in which a Go map may be
walked. Search parses page after page, relates them, lets one call of
`search_documentation` or `search_symbols` come, and then cuts excerpts with the
actions of Excerpt. Scores count in tenths.

**NavTree** holds the parser's tree building and the four traversals, and
`ParseMkDocs` and `PlacePage` as the two steps that use them. What the code does
by recursion are recursive functions: of the nav lists there can be (`Navs`, a
list and with it the lists within it) and of the tree lists they become
(`Trees`). A title or a path may be empty, as YAML allows. The breadcrumb that
the calls of `findBreadcrumb` share through a pointer is handed down and comes
back with the result, cut off where the code cuts it off (`Turn`); `Loop` is the
loop over the nodes of a list, which ends with the first success.

**EditDistance** and **Excerpt** are the two functions with non-trivial index
arithmetic, a loop iteration at a time.

Operators whose comment begins with "Mutant" are plausible bugs, one for each
property; replacing the operator after it by the mutant makes the property
fail. They are used by no specification.

## 3. Runs

Every cfg is run as `tlc -workers 2 -config <run>.cfg <module>`.

| Run | Properties | States | What it shows |
|---|---|---|---|
| `live_safety` | `TypeOK`, `NoSilentStaleness`, `SearchFollowsCache`, `NothingLost`, `ImplementsLiveReload` | 4.3 M | Whatever happens to the disk during a run, and wherever the process ends, a file is stale at rest only if no event reported its change or the last run logged an error for it; no page is ever served older than before. |
| `live_updates` | `WatchedDirsMissNothing`, `Refreshes` | 138 k | In directories that were there at the start a change is missed only by overflow; every change heard of reaches cache and engine. |
| `lifecycle` | `LifeTypeOK`, `CleanExit`, `Spaced`, `ReindexStarts`, `StopsWhenAsked` | 50 k | Reindexes start a delay apart at least, and neither events that keep coming nor a shutdown under way put one off for ever. A server that is told to stop stops, unless a stream is open, and reports success only if it cut nothing. |
| `oauth_safety` | `TypeOK`, `OneTokenPerCode`, `TokensEarned`, `NoLateGrant`, `NoEarlyRevocation` | 6.1 M | Two racing requests, retries, two clients, two codes, cleanup, clock, restarts. |
| `oauth_cleanup` | `ExpiredEntriesGo`, `ImplementsGrant` | 1.0 M | Codes nobody redeems and tokens stored late leave the store too; each code goes its way once. |
| `tool_calls` | `TypeOK`, `ShownPagesCanBeRead`, `FullNeverStepsBack` | 1.6 M | Although the engine lags the cache, and although the process may die and start again between two calls, what a search within its array shows is not newer than what read_page has, and can be read. |
| `nav_tree` | `TypeOK`, `SectionHeadsBreadcrumb`, `BreadcrumbIsAWay`, `SectionsCoverPathOrder` | 32 k | The four traversals agree on every small tree, with pages listed twice, titles that repeat or are empty, and entries that are dropped. |
| `edit_distance` | `TypeOK`, `ComputesDistance`, `RowIsTwoRows` | 18 k | The row holds two rows of the table at every cell; the result is the distance. |
| `search` | `SearchTypeOK`, `ResultsRanked`, `ProseFound`, `KeywordsAreTop`, `RelatedMutual`, `WindowInContent`, `MatchShown`, `WholeWords` | 319 k | Every pair of pages from a small library, with any navigation, in any order of the files found, under any query: nothing better is cut off, prose is found in any capitals, keywords are the most frequent words, and no slice is out of bounds even when lower case changes the length of the text. |
| `doc_new_directory` | `NewDirectoriesWatched` | violated | `watcher.go:76` "Watch newly created directories": the extension filter of line 71 skips their create events. |
| `doc_mkdocs_replaced` | `MkDocsStaysWatched` | violated | `watcher.go:17`: in the default layout mkdocs.yml is watched as a single file, and the first save by rename ends that watch. |
| `doc_search_concurrent` | `SearchWithinArray` | violated | `indexer.go:41` "safe to call concurrently with search operations": a rebuild has written the length of two documents and not yet their array, and a search that loads both goes past the end of the old array of one. |

### Bounds and why they are enough

* *Live index.* The tree is the shipped layout (`configs/config.yaml`):
  `docs.root` is the project, mkdocs.yml and a README are in it, and `docs_dir`
  holds a sub-directory with a page. So there is a page that is watched and not
  indexed, one that is indexed, two levels below the root, and a docs_dir that
  can come and go. Four changes of the disk allow for a page removed, its
  directory removed and both made again; or for one change in each phase of a
  run; a queue of two overflows. At the start each file may be there or not,
  and mkdocs.yml may be broken. `live_updates` has three changes and no changes
  of directories, as its first property is about directories that stay, and no
  read errors, which would excuse the second.
* *Life cycle.* Three ticks per delay and two events waiting: before, at and
  after the timer's expiry are different moments; clocks stop at the delay
  because the loop compares nothing beyond it. Two connections can be in
  different states when the signal comes. Every flag, every transport and a
  configuration that does not load are initial states.
* *OAuth.* Two requests make every race of two steps, and a third one would only
  race on another code. Lifetimes of one tick and a clock of two make "before",
  "at" and "after" the expiry; `oauth_cleanup` has five ticks so that an entry
  can be stored late and a cleanup still follows, one client and one code, and a
  second token that must not be given for it. Symmetry is used in
  `oauth_safety` alone: its properties treat clients, codes, tokens and requests
  alike and none is a liveness property.
* *Tools.* Two pages, one of them also under a path with a leading slash; a
  navigation with an orphan, with a listed page that does not exist and with the
  path in that form; indexes of no, one and two documents, so that a length can
  be short of its array, equal and beyond; four publications, those of a restart
  counted, after which a process that dies stays down. Sessions share only the
  index and the process, and a panic is as well one's own as another's, so one
  is enough. `doc_search_concurrent` has no empty index, of which a search sees
  nothing, and two publications, so one rebuild.
* *Algorithms.* Strings of up to four characters, of one byte and of two;
  every nav list of two items, of which either may be a section of two items; and
  sections within sections within sections, before a last page. Two paths, so
  that pages are listed twice, before and after a section searched in vain.
* *Search.* Two pages out of a library of seven, of which each may be missing;
  words with an ASCII capital, with another capital, within another word,
  misspelt, with an underscore, with a marker before them, of several pieces
  (of which none or each has two bytes), and one that is longer in lower case;
  queries for each of these, and of two words of which one is misspelt; a window
  of 16 bytes over contents of up to 36, so that a match is near the beginning,
  in the middle and near the end; three keywords where some pages have five
  words; limits of zero, one and two. The Levenshtein distance is a table here;
  EditDistance is about how it is computed.

### Fairness

`LiveIndex`: the watcher goroutine and the index run are scheduled (weak
fairness). Go's select picks at random among the ready arms, so an armed timer
cannot lose to events for ever: strong fairness on `Reindex`, and likewise on
`LoopFires` in `Lifecycle`. The disk, the people who edit and the operator who
stops the server owe nothing. `Lifecycle`: `run()` and the goroutines are
scheduled, handlers that hold no stream answer, `Shutdown` closes idle
connections as it polls; stdio's reader returns once ctx is done, but need not
before. Clients never have to hang up: a stream can stay open for ever, and that
is the one exception in `StopsWhenAsked`. `OAuth`: time passes and the cleanup
goroutine runs; no client has to finish what it started. `ToolCalls`, `NavTree`,
`EditDistance` and `Search` state safety only.

Deadlock is checked except for `nav_tree`, `edit_distance` and `search`, which
model functions that return, and `tool_calls`, where a process that has died
stays down once the publications are used up. In `LiveIndex` and `Lifecycle` the end of the
program is a state of its own (`Ended`).

## 4. Proofs

Each proof module extends the module it is about and uses the assumptions
stated there with the constants.

| Module | Theorems |
|---|---|
| `LiveIndexProofs` | `TypeCorrect`, `SearchFollowsCacheAlways`, `NothingLostAlways`, `NoSilentStalenessAlways`, `WatchedDirsMissNothingAlways`, `LiveReloadImplemented` |
| `OAuthProofs` | `TypeCorrect`, `OneTokenPerCodeAlways`, `TokensEarnedAlways`, `NoLateGrantAlways`, `NoEarlyRevocationAlways`, `GrantImplemented` |
| `LifecycleProofs` | of Debounce: `TypeCorrect`, `SpacedAlways`; of Lifecycle: `LifeTypeCorrect`, `SpacedInProcess`, `CleanExitAlways` |
| `ToolCallsProofs` | `TypeCorrect`, `ShownPagesCanBeReadAlways`, `FullNeverStepsBackAlways` |
| `EditDistanceProofs` | `TypeCorrect`, `RowIsTwoRowsAlways`, `ComputesDistanceAlways` |
| `NavTreeProofs` | `TypeCorrect`, `SectionHeadsBreadcrumbAlways`, `BreadcrumbIsAWayAlways`, `SectionsCoverPathOrderAlways`; of the traversals alone: `ContainsWhatIsCollected`, `BreadcrumbFound`, `PageRefsAsPaths`, `SectionsCoverTree` |
| `SearchProofs` | `SearchTypeCorrect`, `ResultsRankedAlways`, `ProseFoundAlways`, `KeywordsAreTopAlways`, `RelatedMutualAlways`, `ExcerptsAlways`; of Excerpt alone: `ExcerptTypeCorrect`, `WindowInContentAlways`, `MatchShownAlways`, `WholeWordsAlways`; what the operators of Documents return, among them `ExchangeSorts` and `KeywordsTop` |
| `Recursion` | `UpToN`, `Greatest`, `Smallest`, `PrimitiveRecursion`, `IterationStays`, `RankInduction`, `RankRecursion` |

`XAlways` says that the specification implies the property `X` of section 3,
`XImplemented` that it implies the abstract specification `X`.

### The live index

The theorems hold for every tree, queue capacity, navigation, number of changes
and placement of docs_dir. `NothingLostAlways` and `NoSilentStalenessAlways`
assume `Files \subseteq RelevantNames`, every page and mkdocs.yml passing the
watcher's filter; without it they are false, see the extension case in
section 5.

`NoSilentStaleness` speaks only of states at rest and is not inductive: whether
the next rest is a good one depends on what the run under way has read and what
still waits in the queue. `NothingLost` says it for every step. Each difference
between the disk and what is or will be published is *accounted for*: there is
an event for it in the queue, or the timer is armed, or it is in `missed` or
`errored`. Its parts follow a run: the flag and the timer agree and runs do not
overlap (`RunAlone`); directories are closed upwards (`TreeClosed`); the root
the run resolved is still the right one (`RootKnown`); the configuration it read
is current (`ConfigKnown`); a page is still to be listed, still to be parsed,
or parsed as it is (`PagesKnown`); what is published is current
(`ServedKnown`). The step that carries the argument is `HandleEvent`: it may
take the last news of a change from the queue, and by then the timer is armed.
At rest the timer is not armed and no relevant event waits, so only `missed` and
`errored` are left.

`LiveReloadImplemented` adds that no page steps back. That is `NeverBack`: what
is served is no newer than the disk, and what a run is about to publish lies
between the two. A run reads each file after the last publication and revisions
only grow, but only because runs do not overlap, which is `RunAlone` again. The
word LiveReload keeps at rest is `NoSilentStaleness` with `SearchFollowsCache`.

`WatchedDirsMissNothing` is an action property: a change that enters `missed`
is in a directory made later, or the queue overflowed. Its invariant is
`DirsCovered`: every directory of the start is watched, or is still to be visited
by the registration that is under way, and once the loop runs every one is
watched. The theorem assumes that directories are not removed and that those of
the start are the documentation root and below it, as in the run.

### OAuth

For any clients, codes, tokens, requests and lifetimes, a negative token_ttl
included. `OneTokenPerCode` speaks of tokens that have been stored; what makes
it inductive is where each code can be (`InOnePlace`): on its way into the store
with one handler, in the store, with the one request that took it out, or spent;
never in two of these, and once it has been in the store it is never on its way
there again. `ConsumeAuthCode` moves it, in one step, because look-up and delete
are under one lock. `Traced` follows the data along the same path: what a
handler holds is what the store had, and from `CheckCode` on there is a login
that entitles the request. With the fact that no code is issued twice, which
again comes from `InOnePlace`, this gives `TokensEarned` and `NoLateGrant`.
`NoEarlyRevocation` needs `TokensFresh`: a token about to be stored is not in
the store, so storing it overwrites nothing. All of it rests on randomHex not
repeating itself, which the actions that draw from it assume.

`GrantImplemented` maps the four places of `InOnePlace` to the abstract fates.
`ConsumeAuthCode` is `Take`, `StoreToken` is `Sell`, `StoreAuthCode` is `Offer`;
a refusal, the cleanup and a restart are `Lose`, of one code or of many.

### Debounce and life cycle

`Spaced` follows from `TimerCoversDelay`: while a reindex is pending, the time
since the last one and what the timer has left make up the delay. In the process
it still holds, because every step of `Lifecycle` is a step of `Debounce` or
leaves its variables alone (`SpacedInProcess`). `CleanExit` is an invariant with
three more parts: a status is there when and only when `run()` has ended, only a
signal leads to `Shutdown`, and there is no listener before `Start` nor under
stdio.

### Tools

For any pages, indexes, sessions, publications, panics and restarts; the words of
the engine's slice header may be written and read in any order. `FullNeverStepsBack` and
`ShownPagesCanBeRead` are kept together: a call's text has only pieces of
published indexes (`PiecesPublished`), a search that has the array has one that
was published (`HeaderPublished`), so a session has seen each page as some
published index has it (`ShownPublished`). The cache has the last of them
(`CacheIsLatest`), which is therefore no older than anything shown, and if it is
the index a page was shown from, it has that page. The length of the slice may
belong to another index. Within the array it leaves pages out, and what is shown
is the array's all the same; beyond it nothing is known of what is shown, so the
property does not speak of a session to which this has happened (`stray`). That
it does happen is the finding of `doc_search_concurrent`. A restart publishes an
index before it serves, which is newer than all that was shown.

### Edit distance

For strings of any length, over any alphabet, with characters of any width in
bytes. The table is defined by the recurrence (`DistanceTable`, the reference);
the loops keep one row. `IInv` says, at each cell, which part of the row is
already of the new line of the table, what is left of the old one, and that
`prev` is the old value the new cell still needs. The bounds in `TypeOK` come
from the table: no cell exceeds the length of the longer string, because each
differs from its left neighbour and the one above by one at most
(`LeftNeighbour`, `AboveNeighbour`).

### Navigation

For nav lists of any length and depth, over any paths and titles, empty ones
included. `NavInv` says that the tree is what the parser made of the nav list,
and that each page placed is where the two searches of that tree put it; the
rest is about the traversals themselves.

* A recursive definition says nothing unless some function satisfies it.
  `ParseNavListIs` shows that for the parser, by the depth of the lists; a tree
  list then has the least depth of the lists that become it, above which none of
  its children is (`TreeRank`). So there is induction over trees
  (`TreeInduction`), and a function of trees may be defined by its values at the
  children (`TreeRecursion`); both are cases of `RankInduction` and
  `RankRecursion`.
* `collectPaths` is the reference. `ContainsWhatIsCollected`: `containsPath` is true
  of just its pages; so `findSection` ends at the first node that holds the page
  (`FindSectionIs`).
* `BreadcrumbFound`: whatever the breadcrumb so far, a search of a tree that holds
  the page appends the way by the first node that does, and a search in vain
  gives the breadcrumb back as it was. The second half is what makes the
  induction work: the next turn of the loop begins with the same breadcrumb
  (`TurnAnswers`, `LoopAnswers`). The first node that holds a page is one and the
  same for both searches, hence `SectionHeadsBreadcrumb`.
* That the cut-back has something to cut, and so is a breadcrumb again, needs
  that no search shortens it. This is in the type of a search (`Searches`), for
  which `FindBreadcrumbIs` shows that findBreadcrumb returns at all.
* `PageRefsAsPaths`: `collectPageRefs` on a node and `collectPaths` on its list come
  to the same, hence `SectionsCoverPathOrder`.

### Search

For any vocabulary and functions on its words, any library, navigation, queries
and limits. The invariant `SearchInv` has four parts. `Corpus`: each document is
what its page on disk becomes (`Faithful`), and once `computeRelated` has run its
related pages are the other pages that share a tag with it. `NoRepeat`: if the
navigation lists no page twice, neither do the documents and the paths still to
be parsed, taken together. `Answered`: the results are the hits of the latest
call, in an order by score, cut at its limit. `TypeOK`: an excerpt under way has
offsets of its content.

* `ResultsRanked` is then a statement about a sorted sequence that is cut, and,
  for the paths, `NoRepeat` again.
* `RelatedMutual` needs that the tags of a document are those of the page at its
  path, for a page that is indexed twice.
* `KeywordsAreTop` rests on the exchange sort of `extractKeywords`. Its loop is not
  the usual bubble: the place `i` is compared with all after it, and a swap moves
  an arbitrary word there. `PassResult` says that a pass leaves what is before
  `i`, only rearranges the rest and puts a greatest word at `i`; so after `i`
  passes the first `i` words are in order and none after them is greater.
* `ProseFound` follows a word: `PlainText` keeps it, `Prepare` lowers it as
  `tokenize` lowers the query. search_symbols looks for the word as it is. For
  search_docs it comes in pieces; one of two bytes or more is a token
  (`PieceThere`), and occurs within the word (`PieceWithin`). An occurrence in
  title or content makes the sum of the scores positive.
* The excerpt's invariants (`Window`) say what each phase leaves for the next: a
  full-length window that has the match in its first quarter, then a window in
  the content, then one that starts at a word. They hold for every content and
  every match offset (the theorems about Excerpt alone), and `ExcerptBegins`
  shows that what Search hands over is such a content and offset: spaces lie
  between words, and a match found in the lower-case form is within it.

Keeping, flattening, sorting and summing are recursive functions, and what they
compute is shown by induction: `PrimitiveRecursion` gives a function that
satisfies the equations, and `UpToN` is induction for a set of numbers.

### What is assumed of the constants

`DocumentsAssumption` types the functions on words and says that `toLower`, which
replaces single bytes, keeps the length of a word. `SearchAssumption` types the
library, the navigations and the queries, and says that a word that occurs within
another fits into it at its offset, and that the pieces `Split` gives of a word
occur within it. `LibraryFits` says that no page of the
library is longer than `MaxContent`, nor its lower-case form than `MaxLower`: the
two bound the offsets in Excerpt, they are not limits of the program. `NavAssumption` says what YAML gives for a
nav list: a sequence of paths, titled paths, titled lists and other things, in
which no list contains itself.

### Checked by TLC only

The liveness properties `Refreshes`, `ExpiredEntriesGo`, `ReindexStarts` and
`StopsWhenAsked`: they hold by fairness, about which TLAPS can prove nothing here.
The three runs that expect a violation have no theorem either.

## 5. Disagreements with the documentation

Three have a run (section 3) and are findings in `PROJECT.json`. While modelling
we also met these, which the models show without a run of their own:

* `README.md:15` "re-indexes on change": a change between the initial index
  (`main.go:65`) and the registration of the watches (`watcher.go:46-54`, in
  another goroutine) is noticed by nobody. In the model it enters `missed`.
* The same sentence: when `docs_dir` is outside `docs.root`, `indexer.go:57`
  indexes a tree that `main.go:79` does not have watched.
* The same sentence: `indexer.go:115` takes `.md` in any case, `watcher.go:118`
  only in lower case. A `GUIDE.MD` is served, and its changes are ignored: in
  the model, a page that is not in `RelevantNames`.
* `watcher.go:26` "how long to wait after the last change event": the delay runs
  from the first event of a burst (`watcher.go:81`), so a reindex may start at
  once after the last. This is what makes `ReindexStarts` hold; the mutant
  `ReceiveRestartsTimer` follows the comment and breaks it.
* `server.go:86` "blocks until ctx is cancelled": it blocks longer, until every
  client has closed its event stream (`server.go:105` gives `Shutdown` no
  deadline), and a second signal is swallowed. It is the exception in
  `StopsWhenAsked`.
* `document.go:41` "Must be called after all fields are set": `computeRelated`
  adds to `Keywords` afterwards (`indexer.go:195`), so the relations are not
  searched. Section and breadcrumb are set later as well, but have no copy.
* `tools.go:39` "specific identifiers": the parser takes underscores out of the
  content (`parser.go:166`) and code out with its text (`parser.go:154`), while
  `tokenize` keeps underscores. `user_entity` in the prose is indexed as
  `userentity` and found by its likeness only; what is only in code is not found.
  `ProseFound` leaves out such words, and words with a capital that is not ASCII:
  `Prepare` does not lower those (`document.go:88`) and `tokenize` does.
* `tools.go:19` "Search the documentation by keyword or phrase": `tokenize` cuts a
  query at everything that is not a letter, a digit, `_` or `-` and drops pieces
  of one byte (`engine.go:288-296`). Of `I/O` or `C#` nothing is left, and search_docs finds
  nothing, though the word is in a title. A `#` or `>` at the beginning of a line
  is taken for Markdown (`parser.go:164-171`), so `#tag` is indexed there as
  `tag`: search_symbols for `#tag` misses it. `ProseFound` asks for a piece of
  two bytes, and leaves out words that begin with a marker.
* `indexer.go:88` "by shared tags + section" and `indexer.go:170` "tag/section-based":
  `computeRelated` looks at tags alone. `indexer.go:171-172` "so the MCP tools can
  surface them": no tool shows keywords, and so no relation.
* `README.md:134` "Returns the complete raw Markdown for a given path": read_page
  looks up a normal form of the path (`tools.go:139-142`), pages are stored as
  the navigation (`indexer.go:70`) or the walk (`indexer.go:115`) gives them. A
  page that mkdocs.yml lists as `/index.md` is shown by search under that path,
  which then reads the copy the walk has indexed a second time; one that is
  named `GUIDE.MD` cannot be read at all. `ShownPagesCanBeRead` asks for pages
  whose path is in normal form.
* `README.md:138` "Concatenates all pages in nav order": pages the navigation
  does not list are left out (`tools.go:262`), though search and read_page serve
  them.
* `fuzzy.go:3` "computes the edit distance": with an empty argument the result
  is the number of bytes of the other, elsewhere it counts characters
  (`fuzzy.go:9-14`). `ComputesDistance` is stated for non-empty arguments.

## 6. What is left out, and the limits of the models

* mkdocs.yml's *content* is one revision: `docs_dir` and the navigation do not
  change when the file does. Which index a configuration belongs to is tracked;
  that an edit can rename docs_dir is not.
* Reading one directory and reading one file are atomic. A file read during a
  write in place gives the old or the new content.
* fsnotify's channels stay open until the watcher stops: the library closes them
  only in `Close`, which `Run` defers. In `LiveIndex` it always starts; that it
  may not is in `Lifecycle`.
* Neither JSON, HTML nor log text is modelled, nor the Markdown and YAML grammars:
  Documents begins with headings, prose, code and front matter. Links and slugs
  are left out, and no text is long enough to switch fuzzy matching off.
* A blank in a query counts once a word in `Occurrences`, once a character in the
  code; a result's place can depend on that only for a query that is all blanks.
* The JSON log goes to standard output (`main.go:119`), which is also where the
  stdio transport speaks; the models have no streams of bytes.
* The two reads of `len(e.docs)` at the head of `Search` (`engine.go:43`, `:51`) are
  folded into the loads of the loop: one decides whether there is anything to
  search, the other reserves space. Of the race on `e.docs` only the two words
  are modelled: whoever has the array is taken to find the documents of its
  index in it, although without a lock Go does not promise that either.
* That a panic ends the process is so as long as the MCP library, which calls the
  handlers, does not recover from it; it is not part of the repository.
* No word consists of markers only: `**` or `#` by itself is taken to belong to the
  Markdown grammar.
* In NavTree a nav item that is a map has one key; of several, the code takes
  one at random.
* The browser's part of OAuth (the login page, redirects) and the metadata
  endpoints keep no state and are left out; bcrypt is a yes or a no.
* The address, names and paths of the configuration, CORS headers, the health
  probe and the request routing have no state and are left out.

## 7. Plan

Done, in this order: the live index (the program's reason to exist and its
hardest part), its debounce, the OAuth store, the tool handlers, the navigation
and the two index-arithmetic algorithms; then the abstract specifications and
their refinements, the life cycle of the process, and documents and search.

Then the proofs: every safety property of section 3 is a theorem. What is left to
TLC is named at the end of section 4, what no model covers in section 6.
