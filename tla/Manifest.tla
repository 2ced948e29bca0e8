------------------------------ MODULE Manifest ------------------------------
(***************************************************************************)
(* The evidence manifest as a document of src/core/index.ts: what          *)
(* decideEvidence puts in it, what its two digests cover, and what its     *)
(* replay recomputes; and the evidence export made of it.  A digest is the *)
(* value it is taken of, so that equal digests and equal contents are the  *)
(* same thing.                                                             *)
(*                                                                         *)
(* An observation of a manifest has a field ms besides those of Evidence:  *)
(* its recorded wall time, or Untimed when the engine recorded none.       *)
(***************************************************************************)
EXTENDS Evidence, SequencesExt

CONSTANTS
  Untimed,       \* the absent value of a duration or of a CPU time
  Provenance,    \* [Worlds -> {"GIT", "OTHER"}]: does the record of a world name a commit?
  NoRequest      \* no consumer request was supplied

(* f itself: comparing it makes TLC keep it as a table of values. *)
Tabled(f) == CHOOSE g \in {f} : g = f

TargetWeight(kills) == TotalWeight(kills)
RequiredTargets == Required \cap Targets

(* The reason code of a decision. *)
ReasonFor(obs, decision) ==
  IF decision.status = "ENGINE_ERROR" THEN "EVIDENCE_INPUT_INVALID"
  ELSE IF ~ControlsAreValid(obs) THEN "CONTROL_EVIDENCE_INVALID"
  ELSE IF decision.status = "VERIFIED" THEN "POLICY_SATISFIED"
  ELSE IF decision.status = "INCONCLUSIVE" THEN "CANDIDATE_EVIDENCE_INCONCLUSIVE"
  ELSE "NO_ELIGIBLE_CANDIDATE"

(* What the decision digest covers of an observation: what was observed,   *)
(* not how long it took or what the process printed.                       *)
WithoutTiming(o) ==
  [runId |-> o.runId, candidate |-> o.candidate, world |-> o.world, attempt |-> o.attempt,
   outcome |-> o.outcome, candidateTests |-> o.candidateTests, attributed |-> o.attributed]

DigestProjection(m) ==
  [repository |-> m.repository, observations |-> {WithoutTiming(o) : o \in m.observations},
   candidates |-> m.candidates, decision |-> m.decision]

(* Everything but the artifact digest itself. *)
ArtifactProjection(m) ==
  [repository |-> m.repository, observations |-> m.observations,
   candidates |-> m.candidates, decision |-> m.decision, decisionDigest |-> m.decisionDigest]

SealArtifact(m) == [m EXCEPT !.artifactDigest = ArtifactProjection(m)]
SealBoth(m) == SealArtifact([m EXCEPT !.decisionDigest = DigestProjection(m)])

(* decideEvidence: the manifest of the observations of one repository.     *)
(* Input it cannot parse becomes a manifest of an invalid repository.      *)
DecideEvidence(repository, obs) ==
  LET assessed == Tabled(Assess(obs))
      decided == CHOOSE d \in DecisionsGiven(obs, assessed) : TRUE
      broken == decided.status = "ENGINE_ERROR"
  IN SealBoth(
       [repository |-> IF broken THEN "invalid" ELSE repository,
        observations |-> IF broken THEN {} ELSE obs,
        candidates |-> IF broken THEN [c \in {} |-> {}] ELSE assessed,
        decision |-> [status |-> decided.status, selected |-> decided.selected,
                      reason |-> ReasonFor(obs, decided)],
        decisionDigest |-> {}, artifactDigest |-> {}])

-----------------------------------------------------------------------------
(* Reading a manifest back.                                                *)

(* An engine error goes with an invalid repository, and what a manifest    *)
(* refers to is in it.                                                     *)
ParsesAsManifest(m) ==
  /\ (m.decision.status = "ENGINE_ERROR") <=> (m.repository = "invalid")
  /\ \A o, p \in m.observations : o.runId = p.runId => o = p
  /\ \A i \in DOMAIN m.decision.selected : m.decision.selected[i] \in DOMAIN m.candidates
  /\ \A o \in m.observations :
       o.world \in Worlds /\ o.candidate \in DOMAIN m.candidates \cup {Control}
  /\ \A c \in DOMAIN m.candidates : m.candidates[c].killed \subseteq Worlds

DecisionDigestValid(m) == m.decisionDigest = DigestProjection(m)
ArtifactDigestValid(m) == m.artifactDigest = ArtifactProjection(m)

(* The decision is made again from the recorded observations and compared  *)
(* with what the manifest says of every candidate and of the campaign.     *)
DecisionSemanticsValid(m) ==
  LET again == DecideEvidence(m.repository, m.observations)
  IN /\ again.decision.status # "ENGINE_ERROR"
     /\ again.decisionDigest = m.decisionDigest
     /\ again.candidates = m.candidates /\ again.decision = m.decision

(* Mutant: the replay trusts the digests. *)
ReplayByDigests(m) == DecisionDigestValid(m) /\ ArtifactDigestValid(m)

ReplayManifest(m) ==
  DecisionDigestValid(m) /\ ArtifactDigestValid(m) /\ DecisionSemanticsValid(m)

-----------------------------------------------------------------------------
(* What the profiles have in common.                                       *)

ValuesOf(f) == {f[x] : x \in DOMAIN f}

(* The value at the nearest rank of f's values, in percent: as many of     *)
(* them as that rank asks for are at most this value.                      *)
NearestRank(f, percent) ==
  LET rank == (percent * Cardinality(DOMAIN f) + 99) \div 100
      atMost(v) == Cardinality({x \in DOMAIN f : f[x] <= v})
  IN CHOOSE v \in ValuesOf(f) :
       atMost(v) >= rank /\ \A u \in ValuesOf(f) : atMost(u) >= rank => v <= u

Selected(m) == {m.decision.selected[i] : i \in DOMAIN m.decision.selected}

(* Lanes are budgets, each larger than the one before. *)
LanesAreOrdered(lanes) ==
  /\ lanes # <<>>
  /\ \A i \in DOMAIN lanes : lanes[i] > (IF i = 1 THEN 0 ELSE lanes[i - 1])

(* What a candidate adds to the target weight of those chosen.             *)
Gain(killed, c, chosen) == TargetWeight(killed[c] \ UNION {killed[d] : d \in chosen})

Sealed(body) == [body |-> body, digest |-> body]

(* One round of the greedy portfolio, where gain says what each candidate  *)
(* would add and left what remains of the budget.                          *)
Affordable(gain, cost, left) == {c \in DOMAIN gain : cost[c] <= left /\ gain[c] > 0}

(* Most weight for its cost (free ones first), then most weight, then      *)
(* cheapest, smallest, and in the order of digest and identifier.          *)
MoreForItsCost(gain, cost, c, d) ==
  \/ cost[c] = 0 /\ cost[d] # 0
  \/ cost[c] # 0 /\ cost[d] # 0 /\ gain[c] * cost[d] > gain[d] * cost[c]

Better(gain, cost, c, d) ==
  \/ MoreForItsCost(gain, cost, c, d)
  \/ /\ ~MoreForItsCost(gain, cost, d, c)
     /\ \/ gain[c] > gain[d]
        \/ gain[c] = gain[d] /\ cost[c] < cost[d]
        \/ gain[c] = gain[d] /\ cost[c] = cost[d] /\ Size[c] < Size[d]
        \/ gain[c] = gain[d] /\ cost[c] = cost[d] /\ Size[c] = Size[d] /\ Rank[c] < Rank[d]

Best(gain, cost, open) == {c \in open : \A d \in open \ {c} : Better(gain, cost, c, d)}

(* Mutant: each candidate is held against the whole budget. *)
NextBySingleCost(pool, killed, cost, chosen, budget) ==
  LET gain == [c \in pool \ chosen |-> Gain(killed, c, chosen)]
  IN Best(gain, cost, Affordable(gain, cost, budget))

(* The candidate a round adds: the best of those that fit in what is left  *)
(* of the budget and add target weight.                                    *)
NextForLane(pool, killed, cost, chosen, budget) ==
  LET gain == [c \in pool \ chosen |-> Gain(killed, c, chosen)]
  IN Best(gain, cost, Affordable(gain, cost, budget - SumFunctionOnSet(cost, chosen)))

(* The portfolio of a lane, in the order in which it is filled. *)
Portfolio(pool, killed, cost, budget) ==
  LET rounds[n \in 0 .. Cardinality(pool)] ==
        IF n = 0 THEN <<>>
        ELSE rounds[n - 1] \o
               SetToSeq(NextForLane(pool, killed, cost, ValuesOf(rounds[n - 1]), budget))
  IN rounds[Cardinality(pool)]

(* A lane as it is reported. *)
LaneOf(portfolio, killed, cost) ==
  [selected |-> portfolio,
   cost |-> SumFunctionOnSet(cost, ValuesOf(portfolio)),
   weight |-> TargetWeight(UNION {killed[c] : c \in ValuesOf(portfolio)})]

-----------------------------------------------------------------------------
(* The evidence export (docs/evidence-export.md): what a replay-valid      *)
(* manifest lets a consumer say about detection, which controls ran, and   *)
(* which of the consumer's obligations they cover.                         *)

ExecutableControls == {"CONTROL_WITHOUT_CANDIDATE", "REFERENCE_PASS", "REGRESSION_DETECTION",
                       "NEUTRAL_PASS", "STABILITY_REPETITION"}

(* A consumer request is a function from the identifiers of its            *)
(* obligations to the controls they ask for.                               *)

ControlsValid(m) ==
  m.decision.status # "ENGINE_ERROR" /\ m.decision.reason # "CONTROL_EVIDENCE_INVALID"

(* Mutant: an operational failure counts as red. *)
WorldSignalOfAnyFailure(m, c, w) ==
  LET runs == RunsFor(m.observations, c, w)
  IN IF ~IsComplete(runs) \/ \E o \in runs : ~(o.attributed /\ o.candidateTests >= 1)
     THEN "NONE"
     ELSE IF \A o \in runs : o.outcome # "PASS" THEN "RED"
     ELSE IF \A o \in runs : o.outcome = "PASS" THEN "GREEN"
     ELSE "NONE"

(* RED and GREEN are complete, stable and attributed; everything else says *)
(* nothing.                                                                *)
WorldSignal(m, c, w) ==
  LET runs == RunsFor(m.observations, c, w)
  IN IF ~IsComplete(runs) \/ \E o \in runs : ~(o.attributed /\ o.candidateTests >= 1)
     THEN "NONE"
     ELSE IF \A o \in runs : o.outcome = "ASSERTION_FAILURE" THEN "RED"
     ELSE IF \A o \in runs : o.outcome = "PASS" THEN "GREEN"
     ELSE "NONE"

(* Detection only means something once controls, discovery, reference and  *)
(* neutral evidence held.                                                  *)
Established(m, c) ==
  ControlsValid(m) /\ m.candidates[c].status \in {"ELIGIBLE", "WEAK_ORACLE"}

WorldDetection(m, c, w) ==
  IF w \notin Targets THEN "NOT_APPLICABLE"
  ELSE IF ~Established(m, c) THEN "NOT_ESTABLISHED"
  ELSE IF WorldSignal(m, c, w) = "RED" THEN "OBSERVED"
  ELSE IF WorldSignal(m, c, w) = "GREEN" THEN "NOT_OBSERVED"
  ELSE "NOT_ESTABLISHED"

ExportedWorld(m, c, w) ==
  [attempts |-> Cardinality(RunsFor(m.observations, c, w)),
   signal |-> WorldSignal(m, c, w), detection |-> WorldDetection(m, c, w)]

(* The detection of the whole campaign: the first row that applies. *)
CampaignDetection(m) ==
  LET statuses == {m.candidates[c].status : c \in DOMAIN m.candidates}
      detections == {WorldDetection(m, c, w) : c \in DOMAIN m.candidates, w \in Targets}
  IN IF m.decision.status = "VERIFIED" THEN <<"OBSERVED", "REGRESSION_ASSERTION_OBSERVED">>
     ELSE IF m.decision.status = "ENGINE_ERROR" THEN <<"NOT_ESTABLISHED", "ENGINE_ERROR">>
     ELSE IF ~ControlsValid(m) THEN <<"NOT_ESTABLISHED", "CONTROL_EVIDENCE_INVALID">>
     ELSE IF statuses \cap {"UNSTABLE", "INCONCLUSIVE"} # {}
          THEN <<"NOT_ESTABLISHED", "CANDIDATE_EVIDENCE_INCONCLUSIVE">>
     ELSE IF "INVALID" \in statuses THEN <<"NOT_ESTABLISHED", "CANDIDATE_EVIDENCE_INVALID">>
     ELSE IF "NOT_ESTABLISHED" \in detections
          THEN <<"NOT_ESTABLISHED", "OPERATIONAL_OUTCOME_NOT_DETECTION">>
     ELSE IF "NOT_OBSERVED" \in detections
          THEN <<"NOT_OBSERVED", "TARGET_PASSED_WITHOUT_DETECTION">>
     ELSE <<"NOT_ESTABLISHED", "TARGET_STRENGTH_INSUFFICIENT">>

(* How many observations exercised each control. *)
Executions(m) ==
  LET candidateRunsIn(kind) ==
        Cardinality({o \in m.observations : o.candidate # Control /\ Kind[o.world] = kind})
  IN [k \in ExecutableControls |->
        CASE k = "CONTROL_WITHOUT_CANDIDATE" ->
               Cardinality({o \in m.observations : o.candidate = Control})
          [] k = "REFERENCE_PASS" -> candidateRunsIn("REFERENCE")
          [] k = "REGRESSION_DETECTION" -> candidateRunsIn("TARGET")
          [] k = "NEUTRAL_PASS" -> candidateRunsIn("NEUTRAL")
          [] OTHER -> Cardinality({o \in m.observations : o.attempt >= 2})]

Coverage(m, control) ==
  IF control \notin ExecutableControls THEN "UNSUPPORTED"
  ELSE IF Executions(m)[control] > 0 THEN "EXECUTED"
  ELSE "NOT_EXECUTED"

RequestCoverage(m, request) ==
  LET covered == {i \in DOMAIN request : Coverage(m, request[i]) = "EXECUTED"}
  IN IF DOMAIN request = {} THEN "NO_OBLIGATIONS"
     ELSE IF covered = DOMAIN request THEN "COVERED"
     ELSE IF covered = {} THEN "NOT_COVERED"
     ELSE "PARTIAL"

Share(part, whole) ==
  IF part = {} THEN "NOT_RECORDED" ELSE IF part = whole THEN "RECORDED" ELSE "PARTIAL"

ExportBody(m, request) ==
  LET timed == {o \in m.observations : o.ms # Untimed}
  IN [source |-> m, sourceDigest |-> m.artifactDigest, request |-> request,
      detection |-> CampaignDetection(m)[1], reason |-> CampaignDetection(m)[2],
      decision |-> m.decision,
      candidates |-> [c \in DOMAIN m.candidates |->
                        [status |-> m.candidates[c].status, selected |-> c \in Selected(m),
                         worlds |-> [w \in Worlds |-> ExportedWorld(m, c, w)]]],
      executed |-> Executions(m),
      requested |-> IF request = NoRequest THEN "NOT_SUPPLIED" ELSE RequestCoverage(m, request),
      git |-> Share({w \in Worlds : Provenance[w] = "GIT"}, Worlds),
      wallTime |-> SumFunctionOnSet([o \in timed |-> o.ms], timed),
      wallTimeCoverage |-> Share(timed, m.observations)]

ExportAccepts(m) == ParsesAsManifest(m) /\ ReplayManifest(m)

CreateExport(m, request) == Sealed(ExportBody(m, request))

ReplayExport(export) ==
  LET b == export.body
  IN /\ ExportAccepts(b.source)
     /\ export.digest = b
     /\ export = CreateExport(b.source, b.request)
=============================================================================
