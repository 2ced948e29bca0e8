--------------------------- MODULE BoundedProcess ---------------------------
(***************************************************************************)
(* runBoundedProcess of src/engine/index.ts, which every test execution    *)
(* and every container command goes through: a spawned process raced       *)
(* against a timeout, with its output pipes and, when there is one, the    *)
(* stream written to its standard input.  Each action is one callback of   *)
(* the event loop or one step of the processes outside.                    *)
(*                                                                         *)
(* "close" is emitted once the process is gone and its pipes are at their  *)
(* end, so a descendant that inherited the pipes can hold it back for ever *)
(* after the process itself has exited.                                    *)
(***************************************************************************)
EXTENDS Integers

CONSTANTS
  MaximumOutput,   \* maximumOutputBytes, a positive number
  Chunks,          \* the sizes a chunk of output may have, and
  MaximumTotal     \* how much output is produced at all: bounds of a model

VARIABLES
  child,        \* "running" | "exited"
  exit,         \* exit status: "zero" | "nonzero" | "null" (a signal, or not exited)
  descendants,  \* a descendant holds the pipes open
  input,        \* the input stream: "none" | "sending" | "delivered" | "failed"
  spawnError,
  closed,       \* "close" was emitted
  timedOut,
  timer,        \* the timeout: "armed" | "off"
  grace,        \* the termination timer: "armed" | "off"
  output,       \* totalBytes and capturedBytes of the output
  result        \* what the promise resolved to, or Unsettled

processVars == <<child, exit, descendants, spawnError>>
raceVars == <<timedOut, timer, grace, result>>
vars == <<processVars, input, closed, raceVars, output>>

Unsettled == [outcome |-> "unsettled"]
Settled == result # Unsettled

(* The process results that Adapter classifies. *)
A == INSTANCE Adapter WITH Counts <- {0}

-----------------------------------------------------------------------------
Init ==
  /\ child = "running" /\ exit = "null"
  /\ descendants \in BOOLEAN
  /\ input \in {"none", "sending"}
  /\ spawnError = FALSE
  /\ closed = FALSE
  /\ timedOut = FALSE /\ timer = "armed" /\ grace = "off"
  /\ output = [total |-> 0, captured |-> 0]
  /\ result = Unsettled

ResultOf(outcome, late) ==
  [outcome |-> outcome, exit |-> exit, timedOut |-> late,
   captured |-> output.captured, truncated |-> output.total > output.captured]

(* The first call resolves the promise and clears both timers, every later *)
(* one returns at once.                                                    *)
Finish(outcome, late) ==
  IF Settled THEN UNCHANGED <<result, timer, grace>>
  ELSE /\ result' = ResultOf(outcome, late)
       /\ timer' = "off"
       /\ grace' = "off"

(* Mutant: the input stream is not looked at. *)
OutcomeIgnoringInput ==
  CASE timedOut -> "TIMEOUT"
    [] ~timedOut /\ spawnError -> "INFRA_ERROR"
    [] OTHER -> IF exit = "zero" THEN "PASS" ELSE "PROCESS_CRASH"

(* The outcome once "close" was emitted. *)
Outcome ==
  CASE timedOut -> "TIMEOUT"
    [] ~timedOut /\ (spawnError \/ input = "failed") -> "INFRA_ERROR"
    [] OTHER -> IF exit = "zero" THEN "PASS" ELSE "PROCESS_CRASH"

-----------------------------------------------------------------------------
(* The processes and their pipes.                                          *)

(* The executable cannot be started: "error", and "close" will follow. *)
SpawnFails ==
  /\ child = "running" /\ output.total = 0 /\ ~timedOut
  /\ spawnError' = TRUE
  /\ child' = "exited" /\ exit' = "nonzero" /\ descendants' = FALSE
  /\ UNCHANGED <<input, closed, raceVars, output>>

ChildExits ==
  /\ child = "running"
  /\ child' = "exited"
  /\ exit' \in A!ExitCodes
  /\ UNCHANGED <<descendants, spawnError, input, closed, raceVars, output>>

DescendantsEnd ==
  /\ descendants
  /\ descendants' = FALSE
  /\ UNCHANGED <<child, exit, spawnError, input, closed, raceVars, output>>

(* What of a chunk is kept. *)
Kept(bytes) ==
  IF bytes <= MaximumOutput - output.captured THEN bytes ELSE MaximumOutput - output.captured

(* OutputAccumulator.add; the pipes are silent once they were destroyed. *)
OutputArrives(bytes) ==
  /\ ~closed /\ ~Settled /\ ~spawnError
  /\ output.total + bytes <= MaximumTotal
  /\ output' = [total |-> output.total + bytes, captured |-> output.captured + Kept(bytes)]
  /\ UNCHANGED <<processVars, input, closed, raceVars>>

(* The stream was written to its end, or its source or the pipe failed. *)
InputDelivered ==
  /\ input = "sending"
  /\ input' = "delivered"
  /\ UNCHANGED <<processVars, closed, raceVars, output>>

InputFails ==
  /\ input = "sending"
  /\ input' = "failed"
  /\ UNCHANGED <<processVars, closed, raceVars, output>>

-----------------------------------------------------------------------------
(* The callbacks.                                                          *)

(* Mutant: no termination timer. *)
TimerFiresOnly ==
  /\ timer = "armed"
  /\ timedOut' = TRUE /\ timer' = "off"
  /\ descendants' \in {descendants, FALSE}
  /\ UNCHANGED <<child, exit, spawnError, input, closed, grace, output, result>>

(* The process is killed, and its tree as far as it stayed in the group.   *)
(* The kill takes effect when it does: ChildExits.                         *)
TimerFires ==
  /\ timer = "armed"
  /\ timedOut' = TRUE /\ timer' = "off" /\ grace' = "armed"
  /\ descendants' \in {descendants, FALSE}
  /\ UNCHANGED <<child, exit, spawnError, input, closed, output, result>>

(* The pipes are destroyed and the result no longer waited for. *)
GraceFires ==
  /\ grace = "armed"
  /\ Finish("TIMEOUT", timedOut)
  /\ UNCHANGED <<processVars, input, closed, timedOut, output>>

PipesEnded == child = "exited" /\ (~descendants \/ Settled)

CloseEmitted ==
  /\ ~closed /\ PipesEnded
  /\ closed' = TRUE
  /\ IF input = "none" THEN Finish(Outcome, timedOut) ELSE UNCHANGED <<result, timer, grace>>
  /\ UNCHANGED <<processVars, input, timedOut, output>>

(* "close" waited for the input stream. *)
InputAwaited ==
  /\ closed /\ input \in {"delivered", "failed"} /\ ~Settled
  /\ Finish(Outcome, timedOut)
  /\ UNCHANGED <<processVars, input, closed, timedOut, output>>

Next ==
  \/ SpawnFails \/ ChildExits \/ DescendantsEnd
  \/ \E bytes \in Chunks : OutputArrives(bytes)
  \/ InputDelivered \/ InputFails
  \/ TimerFires \/ GraceFires \/ CloseEmitted \/ InputAwaited

-----------------------------------------------------------------------------
(* A result of PASS or PROCESS_CRASH is an answer of the process: it was   *)
(* started, it ended by itself, its pipes were read to their end and its   *)
(* whole input was taken, all before the timeout.  In particular a failed  *)
(* input stream is never a pass, even when the process exits zero, and the *)
(* result says so when it does not hold all that the process wrote.        *)
CompletionIsReal ==
  (Settled /\ result.outcome \in {"PASS", "PROCESS_CRASH"}) =>
    /\ closed /\ child = "exited" /\ ~spawnError /\ ~result.timedOut
    /\ input \in {"none", "delivered"}
    /\ result.truncated <=> result.captured < output.total
=============================================================================
