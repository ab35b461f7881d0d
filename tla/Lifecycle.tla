------------------------------- MODULE Lifecycle -------------------------------
(***************************************************************************)
(* The life of the process: cmd/server loads the configuration, builds the *)
(* first index, starts the watcher goroutine and runs a transport until a  *)
(* signal or an error ends it.  The watcher's loop is Debounce; the HTTP   *)
(* server, its connections and the operating system's signals are          *)
(* modelled from what RunHTTP asks of net/http and main of os/signal.      *)
(***************************************************************************)
EXTENDS Debounce

CONSTANT Conns  \* client connections open at the same time

VARIABLES
  flags,     \* what the command line asks for: "hash", "stdio" or "none"
  file,      \* the configuration file
  cfg,       \* the configuration in force
  main,      \* where run() is
  exit,      \* exit status of the process, or "none"
  signalled, \* ctx is cancelled
  watcher,   \* the watcher goroutine
  cleaner,   \* the goroutine of StartCleanup
  listener,  \* the goroutine of ListenAndServe; errCh is full once it ended
  conns      \* what the HTTP server does for each connection

goroutines == <<watcher, cleaner, listener>>
setup == <<flags, file, cfg>>
lifeVars == <<setup, main, exit, signalled, goroutines, conns>>
allVars == <<vars, lifeVars>>

\* server.transport; an absent one is "", and "streamable-http" goes the way of
\* "sse".
Transport == {"", "stdio", "sse"}

\* The settings that steer the process; auth is auth.enabled.
Config == [transport : Transport, auth : BOOLEAN]
Unset == [transport |-> "", auth |-> FALSE]

LifeTypeOK ==
  /\ TypeOK
  /\ flags \in {"hash", "stdio", "none"}
  /\ file \in Config \cup {[loads |-> FALSE]}
  /\ cfg \in Config
  /\ main \in {"flags", "index", "start", "serve", "shutdown", "ended"}
  /\ exit \in {"none", "killed", "0", "1"}
  /\ signalled \in BOOLEAN
  /\ watcher \in {"off", "starting", "run", "ended"}
  /\ cleaner \in {"off", "run", "ended"}
  /\ listener \in {"off", "starting", "open", "failed", "closed"}
  /\ conns \in [Conns -> {"none", "idle", "active", "stream"}]

LifeInit ==
  /\ Init
  /\ flags \in {"hash", "stdio", "none"}
  /\ file \in Config \cup {[loads |-> FALSE]}
  /\ cfg = Unset
  /\ main = "flags" /\ exit = "none" /\ signalled = FALSE
  /\ watcher = "off" /\ cleaner = "off" /\ listener = "off"
  /\ conns = [c \in Conns |-> "none"]

End(status) == main' = "ended" /\ exit' = status

-----------------------------------------------------------------------------
(* main                                                                    *)

\* -gen-hash: print a hash and leave; bcrypt refuses a long password.
GenHash ==
  /\ main = "flags" /\ flags = "hash"
  /\ \E status \in {"0", "1"} : End(status)
  /\ UNCHANGED <<vars, setup, signalled, goroutines, conns>>

ApplyDefaults(c) ==
  [c EXCEPT !.transport = IF c.transport = "" THEN "sse" ELSE c.transport]

Default == ApplyDefaults(Unset)

\* Load, of a file that can be opened and decoded.
Load(f) == ApplyDefaults(f)

\* loadConfig: any other file is replaced by the defaults as a whole, which
\* run no authorization server.
Loaded == IF file \in Config THEN Load(file) ELSE Default

\* -stdio wins over the file.
LoadConfig ==
  /\ main = "flags" /\ flags # "hash"
  /\ main' = "index"
  /\ cfg' = IF flags = "stdio" THEN [Loaded EXCEPT !.transport = "stdio"] ELSE Loaded
  /\ UNCHANGED <<vars, flags, file, exit, signalled, goroutines, conns>>

\* The initial index ends the process if it fails.
InitialIndex ==
  /\ main = "index"
  /\ End("1") \/ (main' = "start" /\ UNCHANGED exit)
  /\ UNCHANGED <<vars, setup, signalled, goroutines, conns>>

\* RunHTTP before its select: with auth the cleanup goroutine, and the listener.
RunHTTP ==
  /\ cleaner' = IF cfg.auth THEN "run" ELSE "off"
  /\ listener' = "starting"

\* From here on ctx catches the signals; the watcher's goroutine is started,
\* and the transport is run.
Start ==
  /\ main = "start"
  /\ main' = "serve"
  /\ watcher' = "starting"
  /\ IF cfg.transport = "stdio" THEN UNCHANGED <<cleaner, listener>> ELSE RunHTTP
  /\ UNCHANGED <<vars, setup, exit, signalled, conns>>

\* RunStdio returns when the client closes stdin, or when ctx is done.
StdioReturns ==
  /\ main = "serve" /\ cfg.transport = "stdio"
  /\ \E status \in {"0", "1"} : End(status)
  /\ UNCHANGED <<vars, setup, signalled, goroutines, conns>>

\* Mutant: RunHTTP returns without shutting the server down.
SelectDoneReturns ==
  /\ main = "serve" /\ signalled /\ cfg.transport # "stdio"
  /\ End("0")
  /\ UNCHANGED <<vars, setup, signalled, goroutines, conns>>

\* Mutant: RunHTTP waits for the listener before it shuts the server down.
SelectDoneLate ==
  /\ main = "serve" /\ signalled /\ listener \in {"failed", "closed"}
  /\ main' = "shutdown"
  /\ UNCHANGED <<vars, setup, exit, signalled, goroutines, conns>>

\* The select of RunHTTP, ctx.Done arm: Shutdown closes the listener first.
SelectDone ==
  /\ main = "serve" /\ signalled /\ cfg.transport # "stdio"
  /\ main' = "shutdown"
  /\ listener' = IF listener = "open" THEN "closed" ELSE listener
  /\ UNCHANGED <<vars, setup, exit, signalled, watcher, cleaner, conns>>

\* The errCh arm: requests under way end with the process.
SelectErr ==
  /\ main = "serve" /\ listener = "failed"
  /\ End("1")
  /\ UNCHANGED <<vars, setup, signalled, goroutines, conns>>

\* Shutdown has no deadline: it returns once every connection is gone.
ShutdownReturns ==
  /\ main = "shutdown"
  /\ \A c \in Conns : conns[c] = "none"
  /\ End("0")
  /\ UNCHANGED <<vars, setup, signalled, goroutines, conns>>

\* SIGINT or SIGTERM: fatal before NotifyContext, swallowed after the first.
Signal ==
  /\ IF main \in {"serve", "shutdown"}
     THEN signalled' = TRUE /\ UNCHANGED <<main, exit>>
     ELSE main # "ended" /\ End("killed") /\ UNCHANGED signalled
  /\ UNCHANGED <<vars, setup, goroutines, conns>>

-----------------------------------------------------------------------------
(* The goroutines                                                          *)

Running == main \in {"serve", "shutdown"}

\* fsnotify.NewWatcher may fail: the server goes on without a watcher.
WatcherStarts ==
  /\ Running /\ watcher = "starting"
  /\ watcher' \in {"run", "ended"}
  /\ UNCHANGED <<vars, setup, main, exit, signalled, cleaner, listener, conns>>

\* An event finds the loop's watches, or the loop takes a step.
FileChanges == Running /\ watcher = "run" /\ Change /\ UNCHANGED lifeVars
LoopReceives == Running /\ watcher = "run" /\ Receive /\ UNCHANGED lifeVars
LoopFires == Running /\ watcher = "run" /\ Fire /\ UNCHANGED lifeVars
ReindexReturns == Running /\ Finish /\ UNCHANGED lifeVars
TimePasses == Running /\ Tick /\ UNCHANGED lifeVars

CleanerEnds ==
  /\ Running /\ cleaner = "run" /\ signalled
  /\ cleaner' = "ended"
  /\ UNCHANGED <<vars, setup, main, exit, signalled, watcher, listener, conns>>

\* ListenAndServe: the address may be taken; a server that is shut down
\* already does not listen.
Listen ==
  /\ Running /\ listener = "starting"
  /\ IF main = "shutdown" THEN listener' = "closed"
                          ELSE listener' \in {"open", "failed"}
  /\ UNCHANGED <<vars, setup, main, exit, signalled, watcher, cleaner, conns>>

AcceptFails ==
  /\ Running /\ listener = "open"
  /\ listener' = "failed"
  /\ UNCHANGED <<vars, setup, main, exit, signalled, watcher, cleaner, conns>>

-----------------------------------------------------------------------------
(* The connections                                                         *)

Becomes(c, from, to) ==
  /\ Running
  /\ conns[c] \in from
  /\ conns' = [conns EXCEPT ![c] = to]
  /\ UNCHANGED <<vars, setup, main, exit, signalled, goroutines>>

Connect(c) == listener = "open" /\ Becomes(c, {"none"}, "idle")
Request(c) == Becomes(c, {"idle"}, "active")

\* The handler of /sse, or of a GET of /mcp, holds the connection open ...
OpenStream(c) == Becomes(c, {"active"}, "stream")

\* ... every other one answers; a server that shuts down closes then.
Respond(c) == Becomes(c, {"active"}, IF main = "shutdown" THEN "none" ELSE "idle")

\* The client goes away.
HangUp(c) == Becomes(c, {"idle", "active", "stream"}, "none")

\* Shutdown closes what is idle.
CloseIdle(c) == main = "shutdown" /\ Becomes(c, {"idle"}, "none")

-----------------------------------------------------------------------------
Ended == main = "ended" /\ UNCHANGED allVars

MainStep ==
  \/ GenHash \/ LoadConfig \/ InitialIndex \/ Start
  \/ SelectDone \/ SelectErr \/ ShutdownReturns

LifeNext ==
  \/ MainStep \/ StdioReturns \/ Signal
  \/ WatcherStarts \/ CleanerEnds \/ Listen \/ AcceptFails
  \/ FileChanges \/ LoopReceives \/ LoopFires \/ ReindexReturns \/ TimePasses
  \/ \E c \in Conns : \/ Connect(c) \/ Request(c) \/ OpenStream(c)
                      \/ Respond(c) \/ HangUp(c) \/ CloseIdle(c)
  \/ Ended

\* The goroutines run and the handlers answer; clients and operators owe
\* nothing.  StdioReturns is fair once ctx is done, not before.  select, which
\* chooses at random among its ready arms, does not pass over the timer for ever.
LifeFairness ==
  /\ WF_allVars(MainStep) /\ WF_allVars(signalled /\ StdioReturns)
  /\ WF_allVars(WatcherStarts) /\ WF_allVars(Listen)
  /\ WF_allVars(LoopReceives) /\ SF_allVars(LoopFires)
  /\ WF_allVars(ReindexReturns) /\ WF_allVars(TimePasses)
  /\ \A c \in Conns : WF_allVars(Respond(c)) /\ WF_allVars(CloseIdle(c))

LifeSpec == LifeInit /\ [][LifeNext]_allVars /\ LifeFairness

-----------------------------------------------------------------------------
\* A burst of changes that never ends does not put the reindex off for ever,
\* and neither does a shutdown under way: as long as the process lives, the
\* watcher's loop reindexes.
ReindexStarts == waiting > 0 ~> busy \/ main = "ended"

\* A server that was told to stop stops, whenever the signal comes, unless a
\* client keeps an event stream open: nothing else can hold Shutdown up.
StopsWhenAsked ==
  signalled ~> main = "ended" \/ \E c \in Conns : conns[c] = "stream"

\* An HTTP server that reports success was told to stop and has cut no
\* connection: a listener that failed, or a request dropped, is an error.
CleanExit ==
  exit = "0" /\ listener # "off" =>
    signalled /\ \A c \in Conns : conns[c] = "none"
=============================================================================
