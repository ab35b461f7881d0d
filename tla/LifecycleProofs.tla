---------------------------- MODULE LifecycleProofs ----------------------------
(***************************************************************************)
(* The process keeps the debounce's spacing and never reports a success it *)
(* did not have, for every delay and any number of connections.            *)
(***************************************************************************)
EXTENDS Lifecycle, TLAPS

(* The debounce by itself: it spaces the reindexes for every delay and     *)
(* every number of events.                                                 *)

LEMMA InitType == Init => TypeOK
<1> SUFFICES ASSUME Init PROVE TypeOK
  OBVIOUS
<1>1. pending \in BOOLEAN /\ busy \in BOOLEAN
  BY DEF Init
<1>2. waiting \in 0..MaxWait /\ left \in 0..Delay /\ since \in 0..Delay
  BY DebounceAssumption DEF Init
<1> QED
  BY <1>1, <1>2 DEF TypeOK

LEMMA NextType == TypeOK /\ [Next]_vars => TypeOK'
<1> SUFFICES ASSUME TypeOK, [Next]_vars PROVE TypeOK'
  OBVIOUS
<1>1. pending' \in BOOLEAN /\ busy' \in BOOLEAN
  BY DEF TypeOK, Next, vars, Change, Receive, Fire, Finish, Tick
<1>2. waiting' \in 0..MaxWait
  BY DebounceAssumption
     DEF TypeOK, Next, vars, Change, Receive, Fire, Finish, Tick
<1>3. left' \in 0..Delay
  BY DebounceAssumption
     DEF TypeOK, Next, vars, Change, Receive, Fire, Finish, Tick
<1>4. since' \in 0..Delay
  BY DebounceAssumption
     DEF TypeOK, Next, vars, Change, Receive, Fire, Finish, Tick, Later
<1> QED
  BY <1>1, <1>2, <1>3, <1>4 DEF TypeOK

\* The clocks and the queue keep their bounds.
THEOREM TypeCorrect == Spec => []TypeOK
<1> QED
  BY InitType, NextType, PTL DEF Spec

\* The timer runs for what is left of the delay since the last reindex.
LEMMA TimerCoversDelayAlways == Spec => []TimerCoversDelay
<1>1. Init => TimerCoversDelay
  BY DEF Init, TimerCoversDelay
<1>2. TypeOK /\ TimerCoversDelay /\ [Next]_vars => TimerCoversDelay'
  <2> SUFFICES ASSUME TypeOK, TimerCoversDelay, [Next]_vars, pending'
               PROVE  since' + left' >= Delay
    BY DEF TimerCoversDelay
  <2>1. CASE Receive /\ ~ pending
    BY <2>1, DebounceAssumption DEF TypeOK, Receive
  <2>2. CASE (Receive /\ pending) \/ Change \/ Finish \/ UNCHANGED vars
    BY <2>2 DEF TimerCoversDelay, Receive, Change, Finish, vars
  <2>3. CASE Tick
    <3>1. pending
      BY <2>3 DEF Tick
    <3> QED
      BY <2>3, <3>1, DebounceAssumption DEF TypeOK, TimerCoversDelay, Tick, Later
  <2>4. CASE Fire
    BY <2>4 DEF Fire
  <2> QED
    BY <2>1, <2>2, <2>3, <2>4 DEF Next
<1> QED
  BY <1>1, <1>2, TypeCorrect, PTL DEF Spec

\* Two reindexes never start within Delay of each other.
THEOREM SpacedAlways == Spec => Spaced
<1>1. TypeOK /\ TimerCoversDelay /\ [Next]_vars => [Fire => since = Delay]_vars
  BY DebounceAssumption DEF TypeOK, TimerCoversDelay, Fire
<1> QED
  BY <1>1, TypeCorrect, TimerCoversDelayAlways, PTL DEF Spec, Spaced

-----------------------------------------------------------------------------
(* The process.                                                            *)

\* Every step of the process is a step of the debounce or leaves it alone.
LEMMA LifeStepIsLoopStep == [LifeNext]_allVars => [Next]_vars
<1> SUFFICES ASSUME [LifeNext]_allVars PROVE [Next]_vars
  OBVIOUS
<1> USE DEF Next
<1>1. CASE MainStep \/ StdioReturns \/ Signal
  BY <1>1 DEF MainStep, GenHash, LoadConfig, InitialIndex, Start, SelectDone,
              SelectErr, ShutdownReturns, StdioReturns, Signal
<1>2. CASE WatcherStarts \/ CleanerEnds \/ Listen \/ AcceptFails
  BY <1>2 DEF WatcherStarts, CleanerEnds, Listen, AcceptFails
<1>3. CASE FileChanges \/ LoopReceives \/ LoopFires \/ ReindexReturns \/ TimePasses
  BY <1>3 DEF FileChanges, LoopReceives, LoopFires, ReindexReturns, TimePasses
<1>4. ASSUME NEW c \in Conns,
             \/ Connect(c) \/ Request(c) \/ OpenStream(c)
             \/ Respond(c) \/ HangUp(c) \/ CloseIdle(c)
      PROVE  [Next]_vars
  BY <1>4 DEF Connect, Request, OpenStream, Respond, HangUp, CloseIdle, Becomes
<1>5. CASE Ended \/ UNCHANGED allVars
  BY <1>5 DEF Ended, allVars
<1> QED
  BY <1>1, <1>2, <1>3, <1>4, <1>5 DEF LifeNext

\* The settings that can be in force are settings.
LEMMA Settings ==
  ASSUME file \in Config \cup {[loads |-> FALSE]}
  PROVE  Loaded \in Config /\ [Loaded EXCEPT !.transport = "stdio"] \in Config
<1>1. Unset \in Config
  BY DEF Unset, Config, Transport
<1>2. \A c \in Config : ApplyDefaults(c) \in Config
  BY DEF ApplyDefaults, Config, Transport
<1>3. Loaded \in Config
  BY <1>1, <1>2 DEF Loaded, Load, Default
<1> QED
  BY <1>3 DEF Config, Transport

\* The process's own variables, and those of the debounce it runs.
LifeOwnTypes ==
  /\ flags \in {"hash", "stdio", "none"}
  /\ file \in Config \cup {[loads |-> FALSE]}
  /\ cfg \in Config
  /\ main \in {"flags", "index", "start", "serve", "shutdown", "ended"}
  /\ exit \in {"none", "killed", "0", "1"}
  /\ signalled \in BOOLEAN
  /\ watcher \in {"off", "starting", "run", "ended"}
  /\ cleaner \in {"off", "run", "ended"}
  /\ listener \in {"off", "starting", "open", "failed", "closed"}
  /\ conns \in [Conns -> {"none", "idle", "active", "stream"}]

LEMMA LifeNextOwn ==
  ASSUME LifeOwnTypes, [LifeNext]_allVars
  PROVE  LifeOwnTypes'
<1> USE DEF LifeOwnTypes, goroutines, setup, lifeVars
<1>1. CASE GenHash \/ InitialIndex \/ SelectErr \/ ShutdownReturns \/ StdioReturns
  BY <1>1 DEF GenHash, InitialIndex, SelectErr, ShutdownReturns, StdioReturns, End
<1>2. CASE LoadConfig
  <2>1. cfg' \in Config
    BY <1>2, Settings DEF LoadConfig
  <2> QED
    BY <1>2, <2>1 DEF LoadConfig
<1>3. CASE Start \/ SelectDone
  BY <1>3 DEF Start, RunHTTP, SelectDone
<1>4. CASE Signal
  BY <1>4, ZenonT(60) DEF Signal, End
<1>5. CASE WatcherStarts \/ CleanerEnds \/ Listen \/ AcceptFails
  BY <1>5 DEF WatcherStarts, CleanerEnds, Listen, AcceptFails
<1>6. CASE FileChanges \/ LoopReceives \/ LoopFires \/ ReindexReturns \/ TimePasses
  BY <1>6 DEF FileChanges, LoopReceives, LoopFires, ReindexReturns, TimePasses
<1>7. ASSUME NEW c \in Conns,
             \/ Connect(c) \/ Request(c) \/ OpenStream(c)
             \/ Respond(c) \/ HangUp(c) \/ CloseIdle(c)
      PROVE  LifeOwnTypes'
  BY <1>7 DEF Connect, Request, OpenStream, Respond, HangUp, CloseIdle, Becomes
<1>8. CASE Ended \/ UNCHANGED allVars
  BY <1>8 DEF Ended, allVars
<1> QED
  BY <1>1, <1>2, <1>3, <1>4, <1>5, <1>6, <1>7, <1>8 DEF LifeNext, MainStep

\* Every variable of the process, those of its debounce included, keeps its
\* type.
THEOREM LifeTypeCorrect == LifeSpec => []LifeTypeOK
<1>1. LifeTypeOK <=> TypeOK /\ LifeOwnTypes
  BY DEF LifeTypeOK, LifeOwnTypes
<1>2. LifeInit => TypeOK /\ LifeOwnTypes
  <2> SUFFICES ASSUME LifeInit PROVE TypeOK /\ LifeOwnTypes
    OBVIOUS
  <2>1. TypeOK
    BY InitType DEF LifeInit
  <2>2. cfg \in Config
    BY DEF LifeInit, Unset, Config, Transport
  <2> QED
    BY <2>1, <2>2 DEF LifeInit, LifeOwnTypes
<1>3. TypeOK /\ LifeOwnTypes /\ [LifeNext]_allVars => TypeOK' /\ LifeOwnTypes'
  BY LifeStepIsLoopStep, NextType, LifeNextOwn
<1> QED
  BY <1>1, <1>2, <1>3, PTL DEF LifeSpec

\* Two reindexes never start within Delay of each other, whatever main, the
\* HTTP server and its clients do in the meantime.
THEOREM SpacedInProcess == LifeSpec => Spaced
<1>1. LifeInit => Init
  BY DEF LifeInit
<1>2. LifeSpec => Spec
  BY <1>1, LifeStepIsLoopStep, PTL DEF LifeSpec, Spec
<1> QED
  BY <1>2, SpacedAlways

-----------------------------------------------------------------------------
\* What CleanExit rests on: run() has a status when it has ended, only a
\* signal leads to Shutdown, and only HTTP has a listener.
ExitKnown ==
  /\ exit = "none" <=> main # "ended"
  /\ main = "shutdown" => signalled
  /\ main \in {"flags", "index", "start"} => listener = "off"
  /\ main = "serve" /\ cfg.transport = "stdio" => listener = "off"
  /\ CleanExit

LEMMA ExitKnownInit == LifeInit => ExitKnown
  BY DEF LifeInit, ExitKnown, CleanExit

LEMMA ExitKnownMain ==
  ASSUME ExitKnown, MainStep \/ StdioReturns \/ Signal
  PROVE  ExitKnown'
<1> USE DEF ExitKnown, CleanExit, goroutines, setup
<1>1. CASE GenHash
  BY <1>1 DEF GenHash, End
<1>2. CASE LoadConfig
  BY <1>2 DEF LoadConfig
<1>3. CASE InitialIndex
  BY <1>3 DEF InitialIndex, End
<1>4. CASE Start
  BY <1>4 DEF Start
<1>5. CASE SelectDone
  BY <1>5 DEF SelectDone
<1>6. CASE SelectErr
  BY <1>6 DEF SelectErr, End
<1>7. CASE ShutdownReturns
  BY <1>7 DEF ShutdownReturns, End
<1>8. CASE StdioReturns
  BY <1>8 DEF StdioReturns, End
<1>9. CASE Signal
  BY <1>9 DEF Signal, End
<1> QED
  BY <1>1, <1>2, <1>3, <1>4, <1>5, <1>6, <1>7, <1>8, <1>9 DEF MainStep

\* While the process runs it has no status, so a goroutine or a client
\* disturbs only what is said of the listener.
LEMMA ExitKnownElse ==
  ASSUME ExitKnown, [LifeNext]_allVars, ~ (MainStep \/ StdioReturns \/ Signal)
  PROVE  ExitKnown'
<1> USE DEF ExitKnown, CleanExit, goroutines, setup, lifeVars
<1>1. CASE WatcherStarts \/ CleanerEnds \/ Listen \/ AcceptFails
  BY <1>1 DEF WatcherStarts, CleanerEnds, Listen, AcceptFails, Running
<1>2. CASE FileChanges \/ LoopReceives \/ LoopFires \/ ReindexReturns \/ TimePasses
  BY <1>2 DEF FileChanges, LoopReceives, LoopFires, ReindexReturns, TimePasses
<1>3. ASSUME NEW c \in Conns,
             \/ Connect(c) \/ Request(c) \/ OpenStream(c)
             \/ Respond(c) \/ HangUp(c) \/ CloseIdle(c)
      PROVE  ExitKnown'
  BY <1>3 DEF Connect, Request, OpenStream, Respond, HangUp, CloseIdle, Becomes,
              Running
<1>4. CASE Ended \/ UNCHANGED allVars
  BY <1>4 DEF Ended, allVars
<1> QED
  BY <1>1, <1>2, <1>3, <1>4 DEF LifeNext

\* An HTTP server reports success only if it was told to stop and has cut no
\* connection.
THEOREM CleanExitAlways == LifeSpec => []CleanExit
<1>1. ExitKnown /\ [LifeNext]_allVars => ExitKnown'
  BY ExitKnownMain, ExitKnownElse
<1>2. ExitKnown => CleanExit
  BY DEF ExitKnown
<1> QED
  BY <1>1, <1>2, ExitKnownInit, PTL DEF LifeSpec
=============================================================================
