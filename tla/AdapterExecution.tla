-------------------------- MODULE AdapterExecution --------------------------
(***************************************************************************)
(* One adapter execution: executeTrustedLocalAdapter and executeObservation*)
(* of src/engine/index.ts on top of runBoundedProcess.  When the promise   *)
(* of the process settles, the report is read or refused, and the pair is  *)
(* classified; callbacks of the process may still come in meanwhile.  The  *)
(* report file is written by the process under test, so any readable       *)
(* content is possible.                                                    *)
(***************************************************************************)
EXTENDS BoundedProcess, Adapter

VARIABLES
  adapterKind,  \* the adapter, or NoAdapter for a container command
  hasCandidate, \* FALSE for a control execution
  stage,        \* "process" | "read" | "classified"
  report,       \* what the report reader returned: a report, or NoReport
  observation   \* the classified observation, or NoObservation

adapterVars == <<adapterKind, hasCandidate, stage, report, observation>>

NoAdapter == "none"
NoObservation == [outcome |-> "none"]
Observed == observation # NoObservation

(* The process result that is read and classified. *)
Process == [outcome |-> result.outcome, exit |-> result.exit]

-----------------------------------------------------------------------------
(* Only container commands have a stream to read: the upload. *)
ExecutionInit ==
  /\ Init
  /\ adapterKind \in AdapterKinds \cup {NoAdapter} /\ hasCandidate \in BOOLEAN
  /\ adapterKind # NoAdapter => input = "none"
  /\ stage = "process" /\ report = NoReport /\ observation = NoObservation

ProcessStep == Next /\ UNCHANGED adapterVars

(* The runner left a readable file of its own making. *)
ReportFound ==
  /\ stage = "process" /\ Settled /\ adapterKind # NoAdapter
  /\ \E file \in ReportFiles(adapterKind) : report' = ReadReport(adapterKind, file, Process)
  /\ stage' = "read"
  /\ UNCHANGED <<vars, adapterKind, hasCandidate, observation>>

(* No file, a file over its size limit, or not JSON of the expected shape. *)
ReportUnreadable ==
  /\ stage = "process" /\ Settled /\ adapterKind # NoAdapter
  /\ report' = NoReport
  /\ stage' = "read"
  /\ UNCHANGED <<vars, adapterKind, hasCandidate, observation>>

Classify ==
  /\ stage = "read"
  /\ observation' = Observe(adapterKind, Process, report, hasCandidate)
  /\ stage' = "classified"
  /\ UNCHANGED <<vars, adapterKind, hasCandidate, report>>

ExecutionNext == ProcessStep \/ ReportFound \/ ReportUnreadable \/ Classify

(* What the event loop owes: its timers and the callbacks that are due.    *)
(* Nothing is assumed of the processes: they may run, hold their pipes and *)
(* leave their input unread for ever.                                      *)
TimerDue == TimerFires /\ UNCHANGED adapterVars
GraceDue == GraceFires /\ UNCHANGED adapterVars
CloseDue == CloseEmitted /\ UNCHANGED adapterVars
InputDue == InputAwaited /\ UNCHANGED adapterVars

-----------------------------------------------------------------------------
(* The process of the execution started, ended by itself, was read to the  *)
(* end and left a report, before the timeout and whatever came after.      *)
CompletedWithReport ==
  /\ closed /\ child = "exited" /\ ~spawnError /\ ~timedOut
  /\ report # NoReport

(* An execution earns an attributed assertion failure, the only outcome    *)
(* that kills a target, only when its process ended by itself with a       *)
(* failing status and the report shows candidate tests whose failures are  *)
(* assertions and nothing else: no crash, no timeout, no foreign failure,  *)
(* no missing or malformed report is ever a kill.                          *)
KillIsPureAssertion ==
  (Observed /\ observation.outcome = "ASSERTION_FAILURE" /\ observation.attributed) =>
    /\ CompletedWithReport /\ exit # "zero"
    /\ report.candidateTests >= 1
    /\ adapterKind = "node-test" =>
         /\ hasCandidate
         /\ report.candidateFailures > 0
         /\ report.nonCandidateFailures = 0
         /\ report.candidateSyntaxFailures = 0
         /\ report.allAssertions

(* A run counts as green only when the process itself succeeded and its    *)
(* report shows no failure: a runner that exits zero over recorded         *)
(* failures, or a green report under a failing process, is refused.  A     *)
(* green node:test control carries no candidate credit, so that candidate  *)
(* files that leak into a control cannot pass for a clean one.             *)
PassIsGreen ==
  (Observed /\ observation.outcome = "PASS") =>
    /\ CompletedWithReport /\ exit = "zero"
    /\ adapterKind = "node-test" =>
         /\ report.candidateFailures = 0 /\ report.nonCandidateFailures = 0
         /\ ~hasCandidate => ~observation.attributed /\ observation.candidateTests = 0

(* What an execution concludes, it has earned: a kill and a green run. *)
ConclusionIsEarned == KillIsPureAssertion /\ PassIsGreen
=============================================================================
