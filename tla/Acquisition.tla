---------------------------- MODULE Acquisition ----------------------------
(***************************************************************************)
(* acquireAgenticBenchmark of src/engine/index.ts: a snapshot is taken, a  *)
(* fresh campaign is run on it, and only when that is VERIFIED the         *)
(* selected candidates are measured, one process at a time, each in a      *)
(* workspace of its own and with the cache directory of its regime.  The   *)
(* snapshot is compared with what it was after the campaign and after the  *)
(* last measurement.                                                       *)
(***************************************************************************)
EXTENDS Benchmark

CONSTANTS
  ReferenceWorld,    \* of the request
  Command,           \* executable and arguments of the phase adapter
  Requests,          \* [plan, reporter, dependencies, overlays]: paths are sequences of segments
  PortableSegment(_),    \* a segment as portablePathKey folds it
  Evidence1,         \* the observation sets a fresh campaign can end with
  Ends,              \* what a measuring process can do: [process, exit, report, phases, cpu]
  Usual,             \* the end of a measurement that goes well
  MaxIrregular       \* bound: how many measurements do not end as Usual

(* The numbers of a plan are natural, and the dependencies are a sequence. *)
ASSUME RequestsAssumption ==
  \A r \in Requests :
    /\ {r.plan.minimum, r.plan.cold, r.plan.warmup, r.plan.warm, r.plan.maximumExecutions} \subseteq Nat
    /\ r.dependencies \in Seq(ToSet(r.dependencies))

VARIABLES
  request,     \* the request being served
  stage,       \* REQUESTED, SNAPSHOT, MEASURING, DONE, REFUSED or FAILED
  held,        \* does the acquisition root exist?
  snapshot,    \* its content now: "taken", or "edited" by someone else
  manifest,    \* of the fresh campaign
  caches,      \* the cache directories made so far, and the runs each has seen
  runs,        \* the measurements so far
  surroundings,    \* what each of them ran in: [run, cache, before, content, reporter]
  result

acquisitionVars ==
  <<request, stage, held, snapshot, manifest, caches, runs, surroundings, result>>

NoManifest == [decision |-> [status |-> "NONE", selected |-> <<>>]]
NoResult == [status |-> "NONE"]
NoArtifact == [body |-> {}]

-----------------------------------------------------------------------------
(* The request.                                                            *)

(* Mutant: names are compared as they are written. *)
ExactKey(path) == path

PortableKey(path) == [i \in DOMAIN path |-> PortableSegment(path[i])]

Covers(p, q) == Len(p) <= Len(q) /\ SubSeq(q, 1, Len(p)) = p
Overlaps(p, q) == Covers(p, q) \/ Covers(q, p)

(* No overlay of a world or a candidate replaces an identity file.         *)
IdentityIsIsolated(r) ==
  LET identities == <<r.reporter>> \o r.dependencies
      keys == [i \in DOMAIN identities |-> PortableKey(identities[i])]
  IN /\ \A i, j \in DOMAIN keys : keys[i] = keys[j] => i = j
     /\ \A i \in DOMAIN keys : \A o \in r.overlays : ~Overlaps(keys[i], PortableKey(o))

RequestIsAccepted(r) ==
  /\ ReferenceWorld \in WorldsOf("REFERENCE") \cap Required
  /\ MaximumSelected * PerCandidate(r.plan) <= r.plan.maximumExecutions
  /\ IdentityIsIsolated(r)

(* What is at a path of the snapshot, and of a workspace in which the      *)
(* overlays were written over it: on the file systems where folded names   *)
(* are the same file.                                                      *)
ContentAt(path, content) == <<path, content>>
WorkspaceContentAt(path, content, overlays) ==
  LET folded(p) == [i \in DOMAIN p |-> PortableSegment(p[i])]
  IN IF \E o \in overlays : Overlaps(folded(path), folded(o)) THEN <<path, "overlaid">>
     ELSE ContentAt(path, content)

-----------------------------------------------------------------------------
(* The measurements, in order: all cold runs of a candidate, then its      *)
(* warmups, then its warm runs.                                            *)

Plan == request.plan

Subject(i) == manifest.decision.selected[(i - 1) \div PerCandidate(Plan) + 1]

Slot(i) ==
  LET k == ((i - 1) % PerCandidate(Plan)) + 1
  IN IF k <= Plan.cold THEN [regime |-> "COLD", role |-> "MEASUREMENT", ordinal |-> k]
     ELSE IF k <= Plan.cold + Plan.warmup
          THEN [regime |-> "WARM", role |-> "WARMUP", ordinal |-> k - Plan.cold]
          ELSE [regime |-> "WARM", role |-> "MEASUREMENT", ordinal |-> k - Plan.cold - Plan.warmup]

(* Mutant: one directory for all the cold runs of a candidate. *)
CacheKeyPerRegime(i, slot) ==
  [subject |-> (i - 1) \div PerCandidate(Plan) + 1, regime |-> slot.regime, ordinal |-> 0]

(* The cache directory of a run: of its own when cold, its candidate's     *)
(* when warm.                                                              *)
CacheKey(i, slot) ==
  [subject |-> (i - 1) \div PerCandidate(Plan) + 1, regime |-> slot.regime,
   ordinal |-> IF slot.regime = "COLD" THEN slot.ordinal ELSE 0]

(* A report the adapter wrote, as far as it can be read: a passing one has *)
(* phases and attributed candidate tests, any other has neither.           *)
Readable(end) == end.report # "ABSENT" /\ end.report # "MALFORMED"

(* Mutant: the exit code of the process is not looked at. *)
MeasuresWithoutExit(end) ==
  end.process = "PASS" /\ end.report = "PASS" /\ end.phases # NoTimes

(* Without a preparation time, or with a total past the safe integers, a   *)
(* passing report has no times either.                                     *)
Measures(end) ==
  end.process = "PASS" /\ end.exit = 0 /\ end.report = "PASS" /\ end.phases # NoTimes

FailureOutcome(end) ==
  IF end.process \in {"TIMEOUT", "INFRA_ERROR"} THEN end.process
  ELSE IF end.exit = 0 THEN "INFRA_ERROR"
  ELSE IF Readable(end) /\ end.report # "PASS" THEN end.report
  ELSE "PROCESS_CRASH"

RunOf(i, end) ==
  LET slot == Slot(i)
      base == [candidate |-> Subject(i), digest |-> Digest[Subject(i)], regime |-> slot.regime,
               role |-> slot.role, ordinal |-> slot.ordinal]
  IN IF Measures(end)
     THEN [candidate |-> base.candidate, digest |-> base.digest, regime |-> base.regime,
           role |-> base.role, ordinal |-> base.ordinal, outcome |-> "PASS",
           phases |-> end.phases, total |-> TotalOf(end.phases), cpu |-> end.cpu]
     ELSE [candidate |-> base.candidate, digest |-> base.digest, regime |-> base.regime,
           role |-> base.role, ordinal |-> base.ordinal, outcome |-> FailureOutcome(end),
           phases |-> NoTimes, total |-> Untimed, cpu |-> Untimed]

-----------------------------------------------------------------------------
(* The result document.                                                    *)

Dependencies(r, content) ==
  {[path |-> r.dependencies[i], digest |-> ContentAt(r.dependencies[i], content)] :
     i \in DOMAIN r.dependencies}

(* What the acquisition read before the campaign, and the candidates. *)
ContextOf(r, candidateIds) ==
  [snapshot |-> "taken", world |-> ReferenceWorld, candidateIds |-> candidateIds,
   command |-> Command, executableDigest |-> Command,
   reporterPath |-> r.reporter, reporterDigest |-> ContentAt(r.reporter, "taken"),
   dependencies |-> Dependencies(r, "taken"), graph |-> Dependencies(r, "taken")]

FingerprintOf(context) ==
  [tool |-> [digest |-> context.executableDigest,
             configuration |-> <<context.command, context.reporterPath, context.reporterDigest>>],
   graph |-> context.graph, reporter |-> context.reporterDigest]

AcquisitionStatus(summaries) ==
  LET statuses == {summaries[x].status : x \in DOMAIN summaries}
  IN IF "OBSERVED_RUN_FAILURE" \in statuses THEN "OBSERVED_RUN_FAILURE"
     ELSE IF "INSUFFICIENT_SAMPLES" \in statuses THEN "INSUFFICIENT_SAMPLES"
     ELSE "COMPLETE"

SealResult(r) ==
  [r EXCEPT !.digest = [status |-> r.status, source |-> r.source, artifact |-> r.artifact,
                        context |-> r.context]]

ResultOf(status, source, artifact, context) ==
  SealResult([status |-> status, source |-> source, artifact |-> artifact,
              context |-> context, digest |-> {}])

(* Mutant: the fingerprint does not tie the context to the artifact. *)
ContextIsOfSource(r) ==
  /\ r.context.snapshot = r.source.repository
  /\ r.context.world \in WorldsOf("REFERENCE") \cap Required
  /\ r.context.graph = r.context.dependencies
  /\ r.context.command = Command
  /\ r.artifact # NoArtifact
  /\ r.context.world = r.artifact.body.world
  /\ r.context.candidateIds = r.source.decision.selected

(* The context names the snapshot, the world, the command and the          *)
(* candidates of the source, and the fingerprint of the artifact: without  *)
(* an artifact it is bound to nothing.                                     *)
ContextIsBound(r) ==
  /\ r.context.snapshot = r.source.repository
  /\ r.context.world \in WorldsOf("REFERENCE") \cap Required
  /\ r.context.graph = r.context.dependencies
  /\ r.context.command = Command
  /\ r.artifact # NoArtifact
  /\ r.context.world = r.artifact.body.world
  /\ r.context.candidateIds = r.source.decision.selected
  /\ FingerprintOf(r.context) = r.artifact.body.fingerprint

ReplayAcquisition(r) ==
  /\ ParsesAsManifest(r.source) /\ ReplayManifest(r.source)
  /\ (r.status = "SOURCE_NOT_VERIFIED") <=> (r.artifact = NoArtifact)
  /\ ContextIsBound(r)
  /\ r.digest = SealResult(r).digest
  /\ r.source.decision.status = "VERIFIED"
  /\ ReplayBenchmark(r.artifact) /\ r.artifact.body.source = r.source
  /\ r.status = AcquisitionStatus(r.artifact.body.summaries)

-----------------------------------------------------------------------------
AcquisitionInit ==
  /\ request \in Requests
  /\ stage = "REQUESTED" /\ held = FALSE /\ snapshot = "taken"
  /\ manifest = NoManifest /\ caches = {} /\ runs = {} /\ surroundings = {}
  /\ result = NoResult

Refuse ==
  /\ stage = "REQUESTED" /\ ~RequestIsAccepted(request)
  /\ stage' = "REFUSED"
  /\ UNCHANGED <<request, held, snapshot, manifest, caches, runs, surroundings, result>>

(* The snapshot is copied and everything that identifies it is read. *)
TakeSnapshot ==
  /\ stage = "REQUESTED" /\ RequestIsAccepted(request)
  /\ stage' = "SNAPSHOT" /\ held' = TRUE
  /\ UNCHANGED <<request, snapshot, manifest, caches, runs, surroundings, result>>

(* Somebody edits the snapshot directory, and it stays edited. *)
Disturb ==
  /\ held /\ snapshot = "taken"
  /\ snapshot' = "edited"
  /\ UNCHANGED <<request, stage, held, manifest, caches, runs, surroundings, result>>

Fail ==
  /\ stage' = "FAILED" /\ held' = FALSE
  /\ UNCHANGED <<request, snapshot, manifest, caches, runs, surroundings, result>>

(* The campaign throws: it has budgets and drift checks of its own. *)
CampaignThrows == stage = "SNAPSHOT" /\ Fail

(* The fresh campaign has finished; the snapshot must be what it was. *)
Verify ==
  /\ stage = "SNAPSHOT" /\ snapshot = "taken"
  /\ \E m \in {d \in {DecideEvidence(snapshot, obs) : obs \in Evidence1} : ParsesAsManifest(d)} :
       /\ manifest' = m
       /\ IF m.decision.status = "VERIFIED" /\ ReplayManifest(m)
          THEN /\ stage' = "MEASURING"
               /\ UNCHANGED <<held, result>>
          ELSE /\ stage' = "DONE" /\ held' = FALSE
               /\ result' = ResultOf("SOURCE_NOT_VERIFIED", m, NoArtifact, ContextOf(request, <<>>))
  /\ UNCHANGED <<request, snapshot, caches, runs, surroundings>>

DriftedDuringCampaign == stage = "SNAPSHOT" /\ snapshot # "taken" /\ Fail

Total == Len(manifest.decision.selected) * PerCandidate(Plan)

(* One measurement: the workspace is copied from the snapshot as it is     *)
(* now, the world and the candidate are laid over it, and the adapter runs *)
(* with a cache directory that is made unless it is the warm one again.    *)
Measure ==
  /\ stage = "MEASURING" /\ Cardinality(runs) < Total
  /\ \E end \in Ends :
       LET i == Cardinality(runs) + 1
           run == RunOf(i, end)
           key == CacheKey(i, Slot(i))
           seen == {c \in caches : c.key = key}
           before == UNION {c.runs : c \in seen}
       IN /\ end = Usual \/ Cardinality({s \in surroundings : s.end # Usual}) < MaxIrregular
          /\ runs' = runs \cup {run}
          /\ caches' = (caches \ seen) \cup {[key |-> key, runs |-> before \cup {run}]}
          /\ surroundings' = surroundings \cup
               {[run |-> run, end |-> end, before |-> before, content |-> snapshot,
                 reporter |-> WorkspaceContentAt(request.reporter, snapshot, request.overlays)]}
  /\ UNCHANGED <<request, stage, held, snapshot, manifest, result>>

(* A workspace could not be copied, laid over or removed. *)
MeasurementThrows == stage = "MEASURING" /\ Cardinality(runs) < Total /\ Fail

(* Mutant: the snapshot is not looked at again. *)
FinishUnchecked ==
  /\ stage = "MEASURING" /\ Cardinality(runs) = Total
  /\ LET context == ContextOf(request, manifest.decision.selected)
         artifact == CreateBenchmark(manifest, ReferenceWorld, Plan, FingerprintOf(context), runs)
     IN result' = ResultOf(AcquisitionStatus(artifact.body.summaries), manifest, artifact, context)
  /\ stage' = "DONE" /\ held' = FALSE
  /\ UNCHANGED <<request, snapshot, manifest, caches, runs, surroundings>>

Finish ==
  /\ stage = "MEASURING" /\ Cardinality(runs) = Total
  /\ snapshot = "taken"
  /\ LET context == ContextOf(request, manifest.decision.selected)
         artifact == CreateBenchmark(manifest, ReferenceWorld, Plan, FingerprintOf(context), runs)
     IN result' = ResultOf(AcquisitionStatus(artifact.body.summaries), manifest, artifact, context)
  /\ stage' = "DONE" /\ held' = FALSE
  /\ UNCHANGED <<request, snapshot, manifest, caches, runs, surroundings>>

DriftedDuringMeasurement ==
  stage = "MEASURING" /\ Cardinality(runs) = Total /\ snapshot # "taken" /\ Fail

Acquire ==
  \/ Refuse \/ TakeSnapshot \/ Disturb \/ CampaignThrows \/ Verify \/ DriftedDuringCampaign
  \/ Measure \/ MeasurementThrows \/ Finish \/ DriftedDuringMeasurement

-----------------------------------------------------------------------------
(* Processes are measured only after the fresh campaign was VERIFIED, and  *)
(* a result with timings comes from the snapshot it names: every process   *)
(* measured that snapshot with the reporter whose digest the context       *)
(* binds, a cold run found its cache empty, a warm run found only what the *)
(* earlier warm runs of its own candidate had left, and the timings are    *)
(* those of processes that ended well and passed.                          *)
MeasuredInIsolation ==
  (stage = "DONE" /\ result.artifact # NoArtifact) =>
    /\ ControlsAreValid(manifest.observations)
    /\ \A c \in Selected(manifest) : Required \cap Targets \subseteq KilledWorlds(manifest.observations, c)
    /\ \A s \in surroundings :
         /\ s.content = result.context.snapshot /\ s.reporter = result.context.reporterDigest
         /\ s.run.regime = "COLD" => s.before = {}
         /\ s.run.regime = "WARM" =>
              \A b \in s.before : b.regime = "WARM" /\ b.candidate = s.run.candidate
         /\ s.run.outcome = "PASS" => s.end.process = "PASS" /\ s.end.exit = 0
    /\ result.status = "COMPLETE" =>
         \A c \in Selected(manifest) :
           Cardinality({s \in surroundings : s.run.candidate = c /\ s.end.report = "PASS"})
             = PerCandidate(Plan)
=============================================================================
