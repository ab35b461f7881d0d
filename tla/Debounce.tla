-------------------------------- MODULE Debounce --------------------------------
(***************************************************************************)
(* The timing of the watcher's loop: when, after the first change event, a *)
(* reindex starts.  The disk and the index are left out; time is counted   *)
(* in fractions of the debounce delay, and every clock stops at Delay, for *)
(* more makes no difference to the loop.                                   *)
(***************************************************************************)
EXTENDS Integers

CONSTANTS
  Delay,   \* w.debounce
  MaxWait  \* bound on the events that wait to be received

ASSUME DebounceAssumption == Delay \in Nat \ {0} /\ MaxWait \in Nat

VARIABLES
  waiting,  \* relevant events fsnotify has yet to hand over
  pending,  \* the loop's flag
  left,     \* what the timer has left to run
  busy,     \* the reindex callback is running
  since     \* time since the last reindex started, at most Delay

vars == <<waiting, pending, left, busy, since>>

TypeOK ==
  /\ waiting \in 0..MaxWait
  /\ pending \in BOOLEAN
  /\ left \in 0..Delay
  /\ busy \in BOOLEAN
  /\ since \in 0..Delay

Init ==
  /\ waiting = 0
  /\ pending = FALSE
  /\ left = 0
  /\ busy = FALSE
  /\ since = Delay

\* A relevant file changes.
Change ==
  /\ waiting < MaxWait
  /\ waiting' = waiting + 1
  /\ UNCHANGED <<pending, left, busy, since>>

\* Mutant: every event starts the delay anew.
ReceiveRestartsTimer ==
  /\ ~ busy
  /\ waiting > 0
  /\ waiting' = waiting - 1
  /\ pending' = TRUE
  /\ left' = Delay
  /\ UNCHANGED <<busy, since>>

\* Mutant: the timer is left as it was created, with no delay.
ReceiveWithoutDelay ==
  /\ ~ busy
  /\ waiting > 0
  /\ waiting' = waiting - 1
  /\ pending' = TRUE
  /\ left' = IF pending THEN left ELSE 0
  /\ UNCHANGED <<busy, since>>

\* Mutant: a receive that brought nothing is taken for an event.
ReceiveNothing ==
  /\ ~ busy
  /\ waiting' = waiting - 1
  /\ pending' = TRUE
  /\ left' = IF pending THEN left ELSE Delay
  /\ UNCHANGED <<busy, since>>

\* The fw.Events arm: the first event starts the timer, later ones do not.
Receive ==
  /\ ~ busy
  /\ waiting > 0
  /\ waiting' = waiting - 1
  /\ pending' = TRUE
  /\ left' = IF pending THEN left ELSE Delay
  /\ UNCHANGED <<busy, since>>

\* The timer.C arm: the reindex callback starts.
Fire ==
  /\ ~ busy
  /\ pending
  /\ left = 0
  /\ pending' = FALSE
  /\ busy' = TRUE
  /\ since' = 0
  /\ UNCHANGED <<waiting, left>>

\* The callback returns to the loop.
Finish ==
  /\ busy
  /\ busy' = FALSE
  /\ UNCHANGED <<waiting, pending, left, since>>

Later(t) == IF t < Delay THEN t + 1 ELSE t

Tick ==
  /\ left' = IF left > 0 THEN left - 1 ELSE 0
  /\ since' = Later(since)
  /\ UNCHANGED <<waiting, pending, busy>>

Next == Change \/ Receive \/ Fire \/ Finish \/ Tick

Spec == Init /\ [][Next]_vars

-----------------------------------------------------------------------------
\* "prevents thrashing during bulk saves": however the events come, two
\* reindexes never start within Delay of each other.
Spaced == [][Fire => since = Delay]_vars

\* The timer runs for what is left of Delay since the last reindex, or longer.
TimerCoversDelay == pending => since + left >= Delay
=============================================================================
