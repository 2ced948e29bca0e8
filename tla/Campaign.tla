------------------------------ MODULE Campaign ------------------------------
(***************************************************************************)
(* verifyCampaign of src/engine/index.ts: the engine that gathers the      *)
(* evidence of a campaign and has the core decide on it.  One action per   *)
(* awaited stage, each with the failure that makes the stage throw:        *)
(*                                                                         *)
(*   backend -> transport -> preflight -> snapshot -> executions           *)
(*           -> sealing -> cleanup -> closing -> returned | threw          *)
(*                                                                         *)
(* Executions run one after the other in three nested loops, the controls  *)
(* first; each has a temporary workspace of its own, removed in a finally  *)
(* clause.  The campaign root (the snapshot) and the Docker control        *)
(* connection are released in finally clauses as well.  The copy that      *)
(* takes the snapshot is one stage here; Snapshot has its steps.           *)
(***************************************************************************)
EXTENDS Evidence, Adapter

CONSTANTS
  AdapterKind,   \* the adapter of the request
  ResultsOf(_, _),   \* what an execution of a candidate, or of the control, may end in in
                     \* a world: a bound of a model
  ControlNamed,  \* the candidate whose identifier is the text "control", if any
  NW, NC,        \* how many worlds and candidates the request lists
  WorldAt,       \* the order the request lists its worlds in
  CandidateAt,   \* and its candidates
  Modes          \* the isolation and transport combinations of a model

Isolations == {"local", "container"}
Transports == {"auto", "cli", "stdio"}

ASSUME CampaignAssumption ==
  /\ AdapterKind \in AdapterKinds
  /\ \A w \in Worlds :
       /\ ResultsOf(Control, w) \subseteq Observable(AdapterKind, FALSE)
       /\ \A c \in Candidates : ResultsOf(c, w) \subseteq Observable(AdapterKind, TRUE)
  /\ ControlNamed \subseteq Candidates
  /\ \A c, d \in ControlNamed : c = d
  /\ NW \in Nat \ {0} /\ NC \in Nat \ {0}
  /\ WorldAt \in Bijection(1 .. NW, Worlds)
  /\ CandidateAt \in Bijection(1 .. NC, Candidates)
  /\ Modes \subseteq [isolation : Isolations, transport : Transports]

VARIABLES
  phase,
  mode,          \* the isolation of the request and the operator's transport
  control,       \* the Docker control connection: "none" | "open" | "closed"
  root,          \* the campaign root: "absent" | "present" | "leaked"
  workspace,     \* the temporary directory of the current execution, likewise
  cursor,        \* the loop variables: candidate (0 for the controls), world, attempt
  pending,       \* what the current execution returned, not yet recorded
  observations,  \* the array the loops push into
  manifest,      \* the sealed decision, or NoManifest
  failed         \* an error is propagating

vars == <<phase, mode, control, root, workspace, cursor, pending, observations, manifest, failed>>

NoResult == [outcome |-> "none"]
NoManifest == [status |-> "undecided"]

(* What the caller of verifyCampaign has: nothing yet, the manifest it     *)
(* returned, or an error whatever had been sealed before.                  *)
CallerVerdict ==
  CASE phase = "returned" -> manifest
    [] phase = "threw" -> [status |-> "abandoned"]
    [] OTHER -> [status |-> "undecided"]

L == INSTANCE Ledger WITH
       DecisionsOf <- DecisionsFor, evidence <- observations, verdict <- CallerVerdict

Phases == {"backend", "transport", "preflight", "snapshot", "executions", "sealing",
           "cleanup", "closing", "returned", "threw"}

Ended == phase \in {"returned", "threw"}

-----------------------------------------------------------------------------
(* The nested loops: candidate by candidate, world by world, attempt by    *)
(* attempt, candidate 0 being the control.                                 *)

Cursors == [candidate : 0 .. NC, world : 1 .. NW, attempt : Attempts]

(* Mutant: the controls run last. *)
JobAtControlsLast(k) ==
  [candidate |-> IF k.candidate >= NC THEN Control ELSE CandidateAt[k.candidate + 1],
   world |-> WorldAt[k.world], attempt |-> k.attempt]

JobAt(k) ==
  [candidate |-> IF k.candidate = 0 THEN Control ELSE CandidateAt[k.candidate],
   world |-> WorldAt[k.world], attempt |-> k.attempt]

FirstCursor == [candidate |-> 0, world |-> 1, attempt |-> 1]

(* Mutant: the last candidate is left out. *)
LoopsDoneEarly == cursor.candidate >= NC

LoopsDone == cursor.candidate > NC

(* Mutant: one attempt too many. *)
AdvanceOneMore(k) ==
  IF k.attempt <= RequiredAttempts THEN [k EXCEPT !.attempt = @ + 1]
  ELSE IF k.world < NW THEN [k EXCEPT !.world = @ + 1, !.attempt = 1]
  ELSE [candidate |-> k.candidate + 1, world |-> 1, attempt |-> 1]

(* Mutant: the outer loop does not advance. *)
AdvanceStuck(k) ==
  IF k.attempt < RequiredAttempts THEN [k EXCEPT !.attempt = @ + 1]
  ELSE IF k.world < NW THEN [k EXCEPT !.world = @ + 1, !.attempt = 1]
  ELSE [k EXCEPT !.world = 1, !.attempt = 1]

Advance(k) ==
  IF k.attempt < RequiredAttempts THEN [k EXCEPT !.attempt = @ + 1]
  ELSE IF k.world < NW THEN [k EXCEPT !.world = @ + 1, !.attempt = 1]
  ELSE [candidate |-> k.candidate + 1, world |-> 1, attempt |-> 1]

-----------------------------------------------------------------------------
Init ==
  /\ phase = "backend"
  /\ mode \in Modes
  /\ control = "none"
  /\ root = "absent" /\ workspace = "absent"
  /\ cursor = FirstCursor
  /\ pending = NoResult
  /\ observations = {}
  /\ manifest = NoManifest
  /\ failed = FALSE

campaignVars == <<cursor, pending, observations, manifest>>

(* A container campaign validates its runtime first; a failure here has    *)
(* nothing to release.                                                     *)
PrepareBackend ==
  /\ phase = "backend"
  /\ phase' = IF mode.isolation = "local" THEN "preflight" ELSE "transport"
  /\ UNCHANGED <<mode, control, root, workspace, campaignVars, failed>>

PrepareBackendFails ==
  /\ phase = "backend"
  /\ mode.isolation = "container"
  /\ phase' = "threw" /\ failed' = TRUE
  /\ UNCHANGED <<mode, control, root, workspace, campaignVars>>

OpenControl ==
  /\ phase = "transport"
  /\ mode.transport # "cli"
  /\ control' = "open"
  /\ phase' = "preflight"
  /\ UNCHANGED <<mode, root, workspace, campaignVars, failed>>

UseCli ==
  /\ phase = "transport"
  /\ mode.transport # "stdio"     \* chosen, or the automatic fallback
  /\ phase' = "preflight"
  /\ UNCHANGED <<mode, control, root, workspace, campaignVars, failed>>

OpenControlFails ==
  /\ phase = "transport"
  /\ mode.transport = "stdio"
  /\ phase' = "threw" /\ failed' = TRUE
  /\ UNCHANGED <<mode, control, root, workspace, campaignVars>>

(* Walk, budgets, snapshot plan, runtime probes and adapter preflight, and *)
(* the creation of the campaign root.                                      *)
Preflight ==
  /\ phase = "preflight"
  /\ root' = "present"
  /\ phase' = "snapshot"
  /\ UNCHANGED <<mode, control, workspace, campaignVars, failed>>

PreflightFails ==
  /\ phase = "preflight"
  /\ failed' = TRUE /\ phase' = "closing"
  /\ UNCHANGED <<mode, control, root, workspace, campaignVars>>

(* Copy, second walk and budgets, links, collisions and digest. *)
TakeSnapshot ==
  /\ phase = "snapshot"
  /\ phase' = "executions"
  /\ UNCHANGED <<mode, control, root, workspace, campaignVars, failed>>

-----------------------------------------------------------------------------
(* executeObservation *)

CreateWorkspace ==
  /\ phase = "executions"
  /\ ~LoopsDone /\ workspace = "absent"
  /\ workspace' = "present"
  /\ UNCHANGED <<phase, mode, control, root, campaignVars, failed>>

(* Copy, overlays, adapter execution and classification. *)
Execute ==
  /\ phase = "executions"
  /\ workspace = "present" /\ pending = NoResult /\ ~failed
  /\ pending' \in ResultsOf(JobAt(cursor).candidate, JobAt(cursor).world)
  /\ UNCHANGED <<phase, mode, control, root, workspace, cursor, observations, manifest, failed>>

(* A copy or an overlay failed, or a container could not be removed. *)
ExecuteThrows ==
  /\ phase = "executions"
  /\ workspace = "present" /\ pending = NoResult /\ ~failed
  /\ failed' = TRUE
  /\ UNCHANGED <<phase, mode, control, root, workspace, campaignVars>>

(* The workspace is removed and the observation recorded. *)
Record ==
  /\ phase = "executions"
  /\ pending # NoResult
  /\ observations' = observations \cup {L!Observation(JobAt(cursor), pending)}
  /\ cursor' = Advance(cursor)
  /\ pending' = NoResult
  /\ workspace' = "absent"
  /\ UNCHANGED <<phase, mode, control, root, manifest, failed>>

(* The workspace is removed and the error goes on. *)
Unwind ==
  /\ phase = "executions"
  /\ failed /\ workspace = "present"
  /\ workspace' = "absent"
  /\ phase' = "cleanup"
  /\ UNCHANGED <<mode, control, root, campaignVars, failed>>

(* The removal itself fails: its error replaces the result or the error.   *)
RemoveWorkspaceFails ==
  /\ phase = "executions"
  /\ workspace = "present" /\ (failed \/ pending # NoResult)
  /\ workspace' = "leaked" /\ pending' = NoResult /\ failed' = TRUE
  /\ phase' = "cleanup"
  /\ UNCHANGED <<mode, control, root, cursor, observations, manifest>>

LeaveLoops ==
  /\ phase = "executions"
  /\ LoopsDone
  /\ phase' = "sealing"
  /\ UNCHANGED <<mode, control, root, workspace, campaignVars, failed>>

-----------------------------------------------------------------------------
(* The snapshot or the creation of a workspace failed, or a Bun asset or a *)
(* designated file changed before the manifest was sealed.                 *)
StageFails ==
  /\ \/ phase = "snapshot"
     \/ phase = "executions" /\ ~LoopsDone /\ workspace = "absent"
     \/ phase = "sealing"
  /\ failed' = TRUE /\ phase' = "cleanup"
  /\ UNCHANGED <<mode, control, root, workspace, campaignVars>>

(* decideEvidence and sealManifestArtifact. *)
Seal ==
  /\ phase = "sealing"
  /\ manifest' \in DecisionsFor(observations)
  /\ phase' = "cleanup"
  /\ UNCHANGED <<mode, control, root, workspace, cursor, pending, observations, failed>>

RemoveRoot ==
  /\ phase = "cleanup"
  /\ root' = "absent" /\ phase' = "closing"
  /\ UNCHANGED <<mode, control, workspace, campaignVars, failed>>

RemoveRootFails ==
  /\ phase = "cleanup"
  /\ root' = "leaked" /\ phase' = "closing" /\ failed' = TRUE
  /\ UNCHANGED <<mode, control, workspace, campaignVars>>

(* Mutant: the connection is closed on success only, not in a finally. *)
CloseControlOnSuccess ==
  /\ phase = "closing"
  /\ control' = IF control = "open" /\ ~failed THEN "closed" ELSE control
  /\ phase' = IF failed THEN "threw" ELSE "returned"
  /\ UNCHANGED <<mode, root, workspace, campaignVars, failed>>

(* The caller gets the manifest, or the error in place of it. *)
CloseControl ==
  /\ phase = "closing"
  /\ control' = IF control = "open" THEN "closed" ELSE control
  /\ phase' = IF failed THEN "threw" ELSE "returned"
  /\ UNCHANGED <<mode, root, workspace, campaignVars, failed>>

Execution ==
  CreateWorkspace \/ Execute \/ ExecuteThrows \/ Record \/ Unwind \/ RemoveWorkspaceFails
    \/ LeaveLoops

Next ==
  \/ PrepareBackend \/ PrepareBackendFails
  \/ OpenControl \/ UseCli \/ OpenControlFails
  \/ Preflight \/ PreflightFails \/ TakeSnapshot
  \/ Execution
  \/ StageFails \/ Seal \/ RemoveRoot \/ RemoveRootFails \/ CloseControl

(* Every stage is bounded by a process timeout or is a file operation, and *)
(* the engine awaits nothing else: it never stops between two stages.      *)
Spec == Init /\ [][Next]_vars /\ WF_vars(Next)

-----------------------------------------------------------------------------
(* The values of the variables; in particular every observation is of a    *)
(* job of the campaign and has a result its adapter can produce.           *)
TypeOK ==
  /\ phase \in Phases
  /\ mode \in Modes
  /\ control \in {"none", "open", "closed"}
  /\ root \in {"absent", "present", "leaked"}
  /\ workspace \in {"absent", "present", "leaked"}
  /\ cursor \in [candidate : 0 .. NC + 1, world : 1 .. NW, attempt : Attempts]
  /\ pending # NoResult => \E j \in L!Jobs : pending \in ResultsOf(j.candidate, j.world)
  /\ \A o \in observations : \E j \in L!Jobs : \E r \in ResultsOf(j.candidate, j.world) :
       o = L!Observation(j, r)
  /\ manifest \in Decisions \cup {NoManifest}
  /\ failed \in BOOLEAN

Sealed == manifest # NoManifest
Selected == {manifest.selected[i] : i \in DOMAIN manifest.selected}

(* The observation a candidate must produce in a world to be selected. *)
Supports(o) ==
  /\ o.attributed /\ o.candidateTests >= 1
  /\ Kind[o.world] # "TARGET" => o.outcome = "PASS"
  /\ o.world \in Required \cap Targets => o.outcome = "ASSERTION_FAILURE"

(* VERIFIED means what the proof model says: at least one candidate is     *)
(* selected, each selected candidate was executed in every world and       *)
(* attempt, was green on every reference and neutral world, failed by its  *)
(* own assertion on every required target, every single time, and every    *)
(* control was green without it.  No later stage (greedy selection,        *)
(* threshold, other candidates, a crash in between) weakens that.          *)
VerifiedIsEarned ==
  (Sealed /\ manifest.status = "VERIFIED") =>
    /\ Selected # {}
    /\ \A c \in Selected : \A w \in Worlds : \A n \in Attempts :
         /\ L!Gathered(observations, [candidate |-> c, world |-> w, attempt |-> n])
         /\ L!Gathered(observations, [candidate |-> Control, world |-> w, attempt |-> n])
    /\ \A o \in observations :
         /\ o.candidate \in Selected => Supports(o)
         /\ o.candidate = Control => o.outcome = "PASS" /\ o.candidateTests = 0

(* REJECTED is a conclusion, not a lack of evidence: against every         *)
(* candidate there is a completed run that speaks against it.  Timeouts    *)
(* and infrastructure failures alone never reject a candidate.             *)
RejectedIsConclusive ==
  (Sealed /\ manifest.status = "REJECTED") =>
    \A c \in Candidates : \E o \in CandidateRuns(observations, c) :
      /\ o.outcome \notin InconclusiveOutcomes
      /\ ~(Supports(o) /\ (Kind[o.world] = "TARGET" => o.outcome = "ASSERTION_FAILURE"))

(* A candidate that passes every gate is never lost: not to another one's  *)
(* timeouts or instability, not to the selection, and not to a core that   *)
(* refuses what the engine gathered.  The one exception is a request with  *)
(* a candidate called "control" (InvalidControlIsInconclusive).            *)
EligibleIsSelected ==
  (Sealed /\ ControlNamed = {} /\ ControlsAreValid(observations)
          /\ Eligible(Assess(observations)) # {}) => manifest.status = "VERIFIED"

(* Every world runs without a candidate before any candidate runs. *)
ControlsFirst ==
  (\E o \in observations : o.candidate # Control) =>
    \A w \in Worlds, n \in Attempts :
      L!Gathered(observations, [candidate |-> Control, world |-> w, attempt |-> n])

(* Whatever throws, and wherever, a campaign that ends has released its    *)
(* snapshot, its workspace and its control connection, or tells its caller *)
(* that it could not: a manifest is returned only when nothing is left.    *)
ReleasedOrReported ==
  Ended =>
    /\ root # "present" /\ workspace # "present" /\ control # "open"
    /\ phase = "returned" => root = "absent" /\ workspace = "absent" /\ Sealed

(* Evidence the engine itself gathered is never refused by the core,       *)
(* provided that no candidate is called "control".                         *)
NoEngineError ==
  (ControlNamed = {} /\ Sealed) => manifest.status # "ENGINE_ERROR"

(* docs/proof-model.md:91: "One invalid control makes the campaign         *)
(* `INCONCLUSIVE`."  A candidate called "control" defeats it.              *)
InvalidControlIsInconclusive ==
  (Sealed /\ ~ControlsAreValid(observations)) => manifest.status = "INCONCLUSIVE"

(* Every campaign ends, with a manifest or with an error. *)
Terminates == <>Ended

(* The engine implements the ledger: nothing is gathered twice, and the    *)
(* caller's verdict is the core's decision on the complete evidence.       *)
ImplementsLedger == L!LedgerSpec

=============================================================================
