---------------------------- MODULE MCExecutions ----------------------------
(* The two backends of an execution, and the trace beside it, one per      *)
(* behaviour: a process of this                                            *)
(* machine with the report it leaves, where counts are 0 and 1, because    *)
(* every comparison of the classifier is between two counts or between a   *)
(* count and zero; and the container executions of a campaign, with two    *)
(* archives that each fit the budget, but not together.                    *)
EXTENDS ContainerSession, TLC

CONSTANTS
  k1, k2,
  Counts, MaximumOutput, MaximumTotal,   \* of the local executions
  QueueLimit, MaximumRecords             \* of the trace
ASSUME ExecutionsAssumption ==
  /\ Counts \subseteq Nat /\ 0 \in Counts
  /\ MaximumOutput \in Nat /\ QueueLimit \in Nat

VARIABLES
  backend,
  localChild, exit, descendants, input, spawnError, closed, timedOut, localTimer, grace, output, result,
  adapterKind, hasCandidate, stage, report, observation,
  at, scope, recorded, accepted, waiting, broken, awaiting, toWorker, toSession, thread, trace, warnings

A == INSTANCE AdapterExecution WITH child <- localChild, timer <- localTimer
T == INSTANCE RuntimeTrace WITH pending <- waiting, failed <- broken

traceVars == <<at, scope, recorded, accepted, waiting, broken, awaiting, toWorker, toSession, thread,
               trace, warnings>>
localVars == <<localChild, exit, descendants, input, spawnError, closed, timedOut, localTimer, grace,
               output, result, adapterKind, hasCandidate, stage, report, observation>>

MCKeys == {k1, k2}
MCSizes == k1 :> 1 @@ k2 :> 2
MCCounts == {0, 1}

(* What does not run stays in one of its initial states. *)
ExecutionsInit ==
  /\ SessionInit /\ A!ExecutionInit /\ T!TraceInit
  /\ backend \in {"trusted-local", "container", "trace"}
  /\ backend # "container" => control = "none"
  /\ backend # "trusted-local" =>
       ~descendants /\ input = "none" /\ adapterKind = "none" /\ ~hasCandidate

allVars == <<backend, sessionVars, localVars, traceVars>>

Locally(step) == backend = "trusted-local" /\ step /\ UNCHANGED <<backend, sessionVars, traceVars>>
InContainers(step) == backend = "container" /\ step /\ UNCHANGED <<backend, localVars, traceVars>>
Tracing(step) == backend = "trace" /\ step /\ UNCHANGED <<backend, sessionVars, localVars>>

(* The fairness of AdapterExecution and of ContainerSession, for the       *)
(* backend that is taken; a traced operation ends, as those two show, and  *)
(* the timers of its trace fire, whatever the worker does.                 *)
ExecutionsSpec ==
  /\ ExecutionsInit
  /\ [][Locally(A!ExecutionNext) \/ InContainers(SessionNext) \/ Tracing(T!TraceNext)]_allVars
  /\ WF_allVars(Locally(A!TimerDue)) /\ WF_allVars(Locally(A!GraceDue))
  /\ WF_allVars(Locally(A!CloseDue)) /\ WF_allVars(Locally(A!InputDue))
  /\ WF_allVars(InContainers(SendRequest)) /\ WF_allVars(InContainers(CliAnswers))
  /\ WF_allVars(InContainers(ExchangeTimesOut)) /\ WF_allVars(InContainers(CloseTimer))
  /\ WF_allVars(Tracing(T!StartWorker)) /\ WF_allVars(Tracing(T!EndOperation))
  /\ WF_allVars(Tracing(T!WaitElapses))

-----------------------------------------------------------------------------
(* See BoundedProcess: a completed process ended by itself. *)
CompletionIsReal == A!CompletionIsReal
(* See AdapterExecution: a kill and a green run are earned. *)
ConclusionIsEarned == A!ConclusionIsEarned
(* See RuntimeTrace: a trace without a warning is complete. *)
TraceIsHonest == T!TraceIsHonest
(* Every local execution settles, whatever the process, its descendants    *)
(* and its input do or fail to do; the container executions end, and so    *)
(* does the closing of the connection, whatever the daemon, the process    *)
(* and the peer do or fail to do; and a trace holds nobody up, whatever    *)
(* its worker does or fails to do.                                         *)
ExecutionsEnd ==
  /\ <>(backend = "trusted-local" => A!Settled)
  /\ []<>(backend = "container" => SessionAtRest)
  /\ <>(backend = "trace" => at = "returned")
=============================================================================
