------------------------------ MODULE Evidence ------------------------------
(***************************************************************************)
(* The deterministic decision core of src/core/index.ts: from a policy, a  *)
(* set of worlds, a set of candidates and the observations gathered about  *)
(* them, the assessment of each candidate, the selection and the campaign  *)
(* decision.  Everything here is an operator on a set of observations, so  *)
(* that the campaign, a replay and the proofs use the same definitions.    *)
(*                                                                         *)
(* An observation is [runId, candidate, world, attempt, outcome,           *)
(* candidateTests, attributed]; candidate = Control marks a control run.   *)
(* The array of observations is sorted before anything reads it and its    *)
(* run identifiers must be unique, so a set stands for it.                 *)
(***************************************************************************)
EXTENDS Integers, Sequences, FiniteSets, Functions

CONSTANTS
  Worlds,            \* identifiers of the worlds
  Candidates,        \* identifiers of the candidate tests
  Control,           \* stands for the null candidateId of a control run
  Kind,              \* [Worlds -> WorldKinds]
  Required,          \* the worlds whose "required" flag is set
  Weight,            \* [Worlds -> Nat]
  Size,              \* [Candidates -> Nat], sizeBytes
  Rank,              \* [Candidates -> Nat], the order of (digest, id): total and injective
  RequiredAttempts,
  MinimumPermille,   \* minimumTargetWeightPermille
  MaximumSelected    \* maximumSelectedCandidates

WorldKinds == {"REFERENCE", "NEUTRAL", "TARGET"}
WorldsOf(kind) == {w \in Worlds : Kind[w] = kind}
Targets == WorldsOf("TARGET")

(* What parseInput accepts: identifiers are unique by being set elements,  *)
(* TARGET worlds weigh at least 1 and the others 0, and each kind has a    *)
(* required world.                                                         *)
ASSUME EvidenceAssumption ==
  /\ IsFiniteSet(Worlds) /\ IsFiniteSet(Candidates) /\ Candidates # {}
  /\ Control \notin Candidates
  /\ Kind \in [Worlds -> WorldKinds]
  /\ Weight \in [Worlds -> Nat]
  /\ \A w \in Worlds : Kind[w] = "TARGET" <=> Weight[w] >= 1
  /\ Required \subseteq Worlds
  /\ \A k \in WorldKinds : \E w \in Required : Kind[w] = k
  /\ Size \in [Candidates -> Nat]
  /\ Rank \in [Candidates -> Nat]
  /\ \A c, d \in Candidates : Rank[c] = Rank[d] => c = d
  /\ RequiredAttempts \in 1 .. 1000
  /\ MinimumPermille \in 1 .. 1000
  /\ MaximumSelected \in 1 .. 1000

InconclusiveOutcomes == {"TIMEOUT", "INFRA_ERROR"}

Attempts == 1 .. RequiredAttempts

(* parseInput refuses evidence in which two observations share a run       *)
(* identifier; its other refusals are type and range checks.               *)
Acceptable(obs) == \A o, p \in obs : o.runId = p.runId => o = p

-----------------------------------------------------------------------------
(* Runs of one candidate (or of the control) in one world.                 *)

RunsFor(obs, c, w) == {o \in obs : o.candidate = c /\ o.world = w}

(* Exactly the required attempts, each once: a missing, a duplicated or a  *)
(* surplus attempt makes the runs incomplete.                              *)
IsComplete(runs) ==
  /\ Cardinality(runs) = RequiredAttempts
  /\ \A n \in Attempts : \E o \in runs : o.attempt = n

IsCompleteStable(runs) ==
  /\ IsComplete(runs)
  /\ \A o, p \in runs : o.outcome = p.outcome

(* Mutant: one good attempt in a world is enough for its control. *)
ControlsAreValidOnce(obs) ==
  \A w \in Worlds :
    /\ IsComplete(RunsFor(obs, Control, w))
    /\ \E o \in RunsFor(obs, Control, w) :
         o.outcome = "PASS" /\ o.candidateTests = 0 /\ ~o.attributed

ControlsAreValid(obs) ==
  \A w \in Worlds :
    /\ IsCompleteStable(RunsFor(obs, Control, w))
    /\ \A o \in RunsFor(obs, Control, w) :
         o.outcome = "PASS" /\ o.candidateTests = 0 /\ ~o.attributed

-----------------------------------------------------------------------------
(* The gates of one candidate, in the order they are evaluated.            *)

CandidateRuns(obs, c) == {o \in obs : o.candidate = c /\ o.world \in Worlds}

Complete(obs, c) == \A w \in Worlds : IsComplete(RunsFor(obs, c, w))

Stable(obs, c) == \A w \in Worlds : IsCompleteStable(RunsFor(obs, c, w))

(* Mutant: a failure need not be the candidate's own. *)
UndiscoveredUncounted(obs, c) == {o \in CandidateRuns(obs, c) : ~(o.candidateTests >= 1)}

UndiscoveredRuns(obs, c) ==
  {o \in CandidateRuns(obs, c) : ~(o.candidateTests >= 1 /\ o.attributed)}

GreenIn(obs, c, kind) ==
  \A w \in WorldsOf(kind) : \A o \in RunsFor(obs, c, w) : o.outcome = "PASS"

(* The worlds whose every run is an attributed assertion failure. *)
KilledWorlds(obs, c) ==
  {w \in Targets :
     \A o \in RunsFor(obs, c, w) : o.attributed /\ o.outcome = "ASSERTION_FAILURE"}

TotalWeight(worlds) == SumFunctionOnSet(Weight, worlds)

TargetPassed(obs, c) ==
  /\ Required \cap Targets \subseteq KilledWorlds(obs, c)
  /\ TotalWeight(Targets) > 0
  /\ TotalWeight(KilledWorlds(obs, c)) * 1000 >= TotalWeight(Targets) * MinimumPermille

ExecutionInconclusive(obs, c) ==
  \E o \in CandidateRuns(obs, c) : o.outcome \in InconclusiveOutcomes

CandidateStatuses == {"ELIGIBLE", "WEAK_ORACLE", "INVALID", "UNSTABLE", "INCONCLUSIVE"}

(* Mutant: neutral worlds are not looked at. *)
StatusIgnoringNeutral(obs, c) ==
  IF ~Complete(obs, c) THEN "INCONCLUSIVE"
  ELSE IF ~Stable(obs, c) THEN "UNSTABLE"
  ELSE IF UndiscoveredRuns(obs, c) # {} THEN "INVALID"
  ELSE IF ExecutionInconclusive(obs, c) THEN "INCONCLUSIVE"
  ELSE IF ~GreenIn(obs, c, "REFERENCE") THEN "INVALID"
  ELSE IF TargetPassed(obs, c) THEN "ELIGIBLE" ELSE "WEAK_ORACLE"

(* Mutant: the behaviour before docs/migration-timeout-discovery-          *)
(* inconclusive.md, where a timeout disproved discovery.                   *)
StatusTimeoutInvalid(obs, c) ==
  IF ~Complete(obs, c) THEN "INCONCLUSIVE"
  ELSE IF ~Stable(obs, c) THEN "UNSTABLE"
  ELSE IF UndiscoveredRuns(obs, c) # {} THEN "INVALID"
  ELSE IF ExecutionInconclusive(obs, c) THEN "INCONCLUSIVE"
  ELSE IF ~GreenIn(obs, c, "REFERENCE") \/ ~GreenIn(obs, c, "NEUTRAL") THEN "INVALID"
  ELSE IF TargetPassed(obs, c) THEN "ELIGIBLE" ELSE "WEAK_ORACLE"

Status(obs, c) ==
  IF ~Complete(obs, c) THEN "INCONCLUSIVE"
  ELSE IF ~Stable(obs, c) THEN "UNSTABLE"
  ELSE IF UndiscoveredRuns(obs, c) # {}
  THEN IF \A o \in UndiscoveredRuns(obs, c) : o.outcome \in InconclusiveOutcomes
       THEN "INCONCLUSIVE" ELSE "INVALID"
  ELSE IF ExecutionInconclusive(obs, c) THEN "INCONCLUSIVE"
  ELSE IF ~GreenIn(obs, c, "REFERENCE") \/ ~GreenIn(obs, c, "NEUTRAL") THEN "INVALID"
  ELSE IF TargetPassed(obs, c) THEN "ELIGIBLE" ELSE "WEAK_ORACLE"

(* killedTargetIds: empty unless the candidate got past DISCOVERY. *)
KilledTargets(obs, c) ==
  IF Stable(obs, c) /\ UndiscoveredRuns(obs, c) = {} THEN KilledWorlds(obs, c) ELSE {}

(* The assessment of every candidate, made once per decision. *)
Assess(obs) ==
  [c \in Candidates |-> [status |-> Status(obs, c), killed |-> KilledTargets(obs, c)]]

-----------------------------------------------------------------------------
(* Greedy selection of eligible candidates by the targets they add; a is   *)
(* an assessment of the candidates.                                        *)

Eligible(a) == {c \in Candidates : a[c].status = "ELIGIBLE"}

Covered(a, chosen) == UNION {a[c].killed : c \in chosen}

Marginal(a, c, chosen) == a[c].killed \ Covered(a, chosen)

(* The order in which a round sorts the candidates that remain. *)
Precedes(a, c, d, chosen) ==
  LET m == Cardinality(Marginal(a, c, chosen))
      n == Cardinality(Marginal(a, d, chosen))
  IN \/ m > n
     \/ m = n /\ Size[c] < Size[d]
     \/ m = n /\ Size[c] = Size[d] /\ Rank[c] <= Rank[d]

(* The candidate a round takes next: none when every one is chosen, when   *)
(* the maximum is reached or when the best one adds nothing.               *)
NextChoice(a, chosen) ==
  IF Cardinality(chosen) >= MaximumSelected THEN {}
  ELSE {c \in Eligible(a) \ chosen :
          /\ Marginal(a, c, chosen) # {}
          /\ \A d \in Eligible(a) \ chosen : Precedes(a, c, d, chosen)}

Taken(s, n) == {s[i] : i \in 1 .. n}

(* s is what selectCandidates returns: each element is the choice of its   *)
(* round, and the round after the last has none.                           *)
IsSelection(a, s) ==
  /\ \A i \in DOMAIN s : s[i] \in NextChoice(a, Taken(s, i - 1))
  /\ NextChoice(a, Taken(s, Len(s))) = {}

-----------------------------------------------------------------------------
(* The campaign decision.                                                  *)

(* The sequences of distinct candidates. *)
CandidateSeqs ==
  {s \in UNION {[1 .. n -> Candidates] : n \in 0 .. Cardinality(Candidates)} :
     \A i, j \in DOMAIN s : s[i] = s[j] => i = j}

DecisionStatuses == {"VERIFIED", "REJECTED", "INCONCLUSIVE", "ENGINE_ERROR"}
Decisions == [status : DecisionStatuses, selected : CandidateSeqs]

HasInconclusiveCandidate(a) ==
  \E c \in Candidates : a[c].status \in {"UNSTABLE", "INCONCLUSIVE"}

(* Mutant: an inconclusive candidate outweighs an eligible one. *)
ConcludeInconclusiveFirst(a, s) ==
  [status |-> IF HasInconclusiveCandidate(a) THEN "INCONCLUSIVE"
              ELSE IF s # <<>> THEN "VERIFIED" ELSE "REJECTED",
   selected |-> s]

(* The decision on valid controls, given the selection. *)
Conclude(a, s) ==
  [status |-> IF s # <<>> THEN "VERIFIED"
              ELSE IF HasInconclusiveCandidate(a) THEN "INCONCLUSIVE"
              ELSE "REJECTED",
   selected |-> s]

(* The decisions on obs under an assessment of its candidates. *)
DecisionsGiven(obs, a) ==
  IF ~Acceptable(obs) THEN {[status |-> "ENGINE_ERROR", selected |-> <<>>]}
  ELSE IF ~ControlsAreValid(obs) THEN {[status |-> "INCONCLUSIVE", selected |-> <<>>]}
  ELSE {Conclude(a, s) : s \in {q \in CandidateSeqs : IsSelection(a, q)}}

(* What decideEvidence returns for obs: a set, because the selection is    *)
(* given by what it satisfies; Selection's ComputesSelection says that     *)
(* exactly one sequence satisfies it.                                      *)
DecisionsFor(obs) == DecisionsGiven(obs, Assess(obs))

=============================================================================
