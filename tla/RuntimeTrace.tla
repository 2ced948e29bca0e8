---------------------------- MODULE RuntimeTrace ----------------------------
(* The diagnostics beside an execution (src/engine/runtime-trace.ts): the  *)
(* engine hands the records of its operations to a worker thread, which    *)
(* writes them to a fresh file.  The two exchange messages; the worker may *)
(* stop at any moment or never go on, and the execution must not notice.   *)
EXTENDS Naturals, FiniteSets, Sequences

CONSTANTS
  QueueLimit,     \* records that were not acknowledged (512)
  MaximumRecords  \* bound: traced operations of a run

VARIABLES
  at,          \* where withRuntimeTrace is
  scope,       \* the AsyncLocalStorage: no destination, tracing off (null), or a session
  recorded,    \* the traced operations that ended under a session
  accepted,    \* the records that the queue took, in order
  pending, failed, awaiting,   \* of the TraceSession and its queue
  toWorker, toSession,         \* messages under way
  thread,      \* the worker
  trace,       \* the file; Torn is a part of a record
  warnings

traceVars == <<at, scope, recorded, accepted, pending, failed, awaiting, toWorker, toSession, thread,
               trace, warnings>>

Torn == 0
Close == 0   \* null

TraceInit ==
  /\ at = "called" /\ scope = "none"
  /\ recorded = 0 /\ accepted = <<>>
  /\ pending = 0 /\ failed = FALSE /\ awaiting = "nothing"
  /\ toWorker = <<>> /\ toSession = <<>>
  /\ thread = "none" /\ trace = <<>> /\ warnings = {}

-----------------------------------------------------------------------------
(* withRuntimeTrace before its operation. *)

NotRequested ==
  /\ at = "called" /\ at' = "operating"
  /\ UNCHANGED <<scope, recorded, accepted, pending, failed, awaiting, toWorker, toSession, thread,
                 trace, warnings>>

(* safeDestination throws: below a forbidden root or not resolvable. *)
UnsafeDestination ==
  /\ at = "called" /\ at' = "operating"
  /\ scope' = "off"
  /\ warnings' = warnings \cup {"UNSAFE_DESTINATION"}
  /\ UNCHANGED <<recorded, accepted, pending, failed, awaiting, toWorker, toSession, thread, trace>>

StartWorker ==
  /\ at = "called" /\ at' = "opening"
  /\ thread' = "starting" /\ awaiting' = "ready"
  /\ UNCHANGED <<scope, recorded, accepted, pending, failed, toWorker, toSession, trace, warnings>>

StartFails ==
  /\ at = "called" /\ at' = "operating"
  /\ scope' = "off"
  /\ warnings' = warnings \cup {"WRITE_FAILED"}
  /\ UNCHANGED <<recorded, accepted, pending, failed, awaiting, toWorker, toSession, thread, trace>>

-----------------------------------------------------------------------------
(* The operation, which traceOperation observes. *)

Enqueue(oversized) ==
  LET taken == pending < QueueLimit /\ ~oversized
      record == recorded' IN
  /\ pending' = IF taken THEN pending + 1 ELSE pending
  /\ accepted' = IF taken THEN Append(accepted, record) ELSE accepted
  /\ toWorker' = IF taken /\ ~failed THEN Append(toWorker, record) ELSE toWorker
  /\ warnings' = IF taken THEN warnings ELSE warnings \cup {"DROPPED"}

(* One of the awaited operations of a campaign ends, or throws. *)
TraceOperation ==
  /\ at = "operating" /\ scope = "session" /\ recorded < MaximumRecords
  /\ recorded' = recorded + 1
  /\ \E oversized \in BOOLEAN : Enqueue(oversized)
  /\ UNCHANGED <<at, scope, failed, awaiting, toSession, thread, trace>>

(* ... below a withRuntimeTrace that forbids the destination. *)
TraceInReserved ==
  /\ at = "operating" /\ scope = "session" /\ recorded < MaximumRecords
  /\ recorded' = recorded + 1
  /\ warnings' = warnings \cup {"UNSAFE_DESTINATION"}
  /\ UNCHANGED <<at, scope, accepted, pending, failed, awaiting, toWorker, toSession, thread, trace>>

(* The operation ends, and finish() with it begins. *)
EndOperation ==
  /\ at = "operating"
  /\ IF scope = "session" /\ ~failed
     THEN /\ at' = "finishing" /\ awaiting' = "closed"
          /\ toWorker' = Append(toWorker, Close)
          /\ UNCHANGED thread
     ELSE /\ at' = "returned"
          /\ thread' = IF scope = "session" THEN "stopped" ELSE thread
          /\ UNCHANGED <<awaiting, toWorker>>
  /\ UNCHANGED <<scope, recorded, accepted, pending, failed, toSession, trace, warnings>>

-----------------------------------------------------------------------------
(* waitFor: what follows when it resolves, in the same turn.               *)

Continue(answered, broken) ==
  /\ awaiting' = "nothing"
  /\ at' = IF at = "opening" THEN "operating" ELSE "returned"
  /\ scope' = IF at # "opening" THEN scope ELSE IF answered THEN "session" ELSE "off"
  /\ thread' = IF at = "opening" /\ answered THEN thread ELSE "stopped"
  /\ failed' = (broken \/ (at = "finishing" /\ ~answered))
  /\ warnings' = IF answered THEN warnings ELSE warnings \cup {"WRITE_FAILED"}

(* The handlers of the worker's messages; an error event is a "failed" for *)
(* them.  Math.max keeps the counter at zero.                              *)
Receive ==
  /\ toSession # <<>>
  /\ LET message == Head(toSession)
         broken == failed \/ message = "failed" IN
     /\ toSession' = Tail(toSession)
     /\ pending' = IF message = "written" /\ pending > 0 THEN pending - 1 ELSE pending
     /\ IF awaiting # "nothing" /\ message \in {awaiting, "failed"}
        THEN Continue(message = awaiting, broken)
        ELSE /\ failed' = broken
             /\ warnings' = IF broken /\ ~failed THEN warnings \cup {"WRITE_FAILED"} ELSE warnings
             /\ UNCHANGED <<at, scope, awaiting, thread>>
  /\ UNCHANGED <<recorded, accepted, toWorker, trace>>


(* Mutant: a close that was not confirmed in time is taken for one. *)
WaitElapsesQuietly ==
  /\ awaiting # "nothing"
  /\ Continue(at = "finishing", failed)
  /\ UNCHANGED <<recorded, accepted, pending, toWorker, toSession, trace>>

(* Mutant: only the opening is limited in time. *)
WaitElapsesOnlyReady ==
  /\ awaiting = "ready"
  /\ Continue(FALSE, failed)
  /\ UNCHANGED <<recorded, accepted, pending, toWorker, toSession, trace>>

WaitElapses ==
  /\ awaiting # "nothing"
  /\ Continue(FALSE, failed)
  /\ UNCHANGED <<recorded, accepted, pending, toWorker, toSession, trace>>

-----------------------------------------------------------------------------
(* WRITER_SOURCE. *)

engineVars == <<at, scope, recorded, accepted, pending, failed, awaiting, warnings>>

Answer(message) == toSession' = Append(toSession, message)

OpenFile ==
  /\ thread = "starting" /\ thread' = "listening"
  /\ Answer("ready")
  /\ UNCHANGED <<engineVars, toWorker, trace>>

(* The file exists already, is no regular file, or cannot be made. *)
OpenFileFails ==
  /\ thread = "starting" /\ thread' = "ended"
  /\ Answer("failed")
  /\ UNCHANGED <<engineVars, toWorker, trace>>

Write ==
  /\ thread = "listening" /\ toWorker # <<>> /\ Head(toWorker) # Close
  /\ toWorker' = Tail(toWorker)
  /\ trace' = Append(trace, Head(toWorker))
  /\ Answer("written")
  /\ UNCHANGED <<engineVars, thread>>

(* writeSync throws, perhaps in the middle of a record. *)
WriteFails ==
  /\ thread = "listening" /\ toWorker # <<>> /\ Head(toWorker) # Close
  /\ thread' = "ended"
  /\ toWorker' = Tail(toWorker)
  /\ trace' \in {trace, Append(trace, Torn)}
  /\ Answer("failed")
  /\ UNCHANGED engineVars

CloseFile ==
  /\ thread = "listening" /\ toWorker # <<>> /\ Head(toWorker) = Close
  /\ thread' = "ended"
  /\ toWorker' = Tail(toWorker)
  /\ \E message \in {"closed", "failed"} : Answer(message)
  /\ UNCHANGED <<engineVars, trace>>

(* The "error" event: the thread ended by itself. *)
ThreadDies ==
  /\ thread \in {"starting", "listening"} /\ thread' = "ended"
  /\ Answer("failed")
  /\ UNCHANGED <<engineVars, toWorker, trace>>

Thread == OpenFile \/ OpenFileFails \/ Write \/ WriteFails \/ CloseFile \/ ThreadDies

TraceNext ==
  \/ NotRequested \/ UnsafeDestination \/ StartWorker \/ StartFails
  \/ TraceOperation \/ TraceInReserved \/ EndOperation
  \/ Receive \/ WaitElapses
  \/ Thread

-----------------------------------------------------------------------------
(* Without a warning on stderr the file holds every record of the run, in  *)
(* the order in which the operations ended (docs/container-runtime-        *)
(* performance.md 20-24); with one, it still begins with records that were *)
(* accepted, whole and in order, and only its end may be torn.  The worker *)
(* never has more than the limit before it.                                *)
TraceIsHonest ==
  /\ (at = "returned" /\ scope = "session" /\ warnings = {}) =>
       trace = [i \in 1 .. recorded |-> i]
  /\ \A i \in DOMAIN trace : trace[i] # Torn => i \in DOMAIN accepted /\ trace[i] = accepted[i]
  /\ \A i \in DOMAIN trace : trace[i] = Torn => i = Len(trace)
  /\ Cardinality({i \in DOMAIN toWorker : toWorker[i] # Close}) <= QueueLimit
=============================================================================
