--------------------------- MODULE Artifacts_proofs ---------------------------
(***************************************************************************)
(* Proofs about the documents and the acquisition of a benchmark: that a   *)
(* benchmark with timings was measured in isolation, that an export that   *)
(* replays says of detection only what its observations show, and that     *)
(* replay separates the documents that may replay from those that cannot.  *)
(***************************************************************************)
EXTENDS Artifacts, Sums_proofs

-----------------------------------------------------------------------------
(* Numbers.                                                                *)

(* Division with a remainder. *)
LEMMA Divided ==
  ASSUME NEW i \in Nat, NEW k \in Nat \ {0}
  PROVE  /\ i \div k \in Nat /\ i % k \in 0 .. k - 1
         /\ i = k * (i \div k) + (i % k)
OBVIOUS

(* A number below l * k has a quotient by k below l.                       *)
LEMMA QuotientBelow ==
  ASSUME NEW i \in Nat, NEW k \in Nat \ {0}, NEW l \in Nat, i < l * k
  PROVE  i \div k < l
<1> DEFINE q == i \div k
<1>1. q \in Nat /\ i % k \in 0 .. k - 1 /\ i = k * q + (i % k)
  BY Divided
<1> HIDE DEF q
<1>2. k * q < l * k
  BY <1>1
<1>3. q >= l => k * q >= l * k
  BY <1>1
<1> QED BY <1>1, <1>2, <1>3 DEF q

(* A number is given by its quotient and its remainder.                    *)
LEMMA OneQuotient ==
  ASSUME NEW i \in Nat, NEW j \in Nat, NEW k \in Nat \ {0}, i \div k = j \div k, i % k = j % k
  PROVE  i = j
BY Divided

-----------------------------------------------------------------------------
(* The order of the measurements. *)

PerSubject == PerCandidate(Plan)
Place(i) == (i - 1) \div PerSubject + 1
Turn(i) == ((i - 1) % PerSubject) + 1

(* The numbers of a plan. *)
LEMMA PlanNumbers ==
  ASSUME request \in Requests
  PROVE  /\ Plan.minimum \in Nat /\ Plan.cold \in Nat /\ Plan.warmup \in Nat /\ Plan.warm \in Nat
         /\ PerSubject \in Nat /\ PerSubject = Plan.cold + Plan.warmup + Plan.warm
BY RequestsAssumption DEF Plan, PerSubject, PerCandidate

(* A measurement is known by its subject and its turn. *)
LEMMA PlacesApart ==
  ASSUME request \in Requests, PerSubject # 0, NEW i \in Nat \ {0}, NEW j \in Nat \ {0},
         Place(i) = Place(j), Turn(i) = Turn(j)
  PROVE  i = j
<1> DEFINE k == PerSubject
<1>1. k \in Nat \ {0} /\ i - 1 \in Nat /\ j - 1 \in Nat
  BY PlanNumbers
<1> HIDE DEF k
<1>2. /\ (i - 1) \div k \in Nat /\ (i - 1) % k \in 0 .. k - 1
      /\ (j - 1) \div k \in Nat /\ (j - 1) % k \in 0 .. k - 1
  BY <1>1, Divided
<1>3. (i - 1) \div k = (j - 1) \div k /\ (i - 1) % k = (j - 1) % k
  <2>1. (i - 1) \div k + 1 = (j - 1) \div k + 1 /\ ((i - 1) % k) + 1 = ((j - 1) % k) + 1
    BY DEF Place, Turn, k
  <2> QED BY <1>2, <2>1
<1>4. i - 1 = j - 1
  BY <1>1, <1>3, OneQuotient
<1> QED BY <1>4

(* The place and the turn of a measurement. *)
LEMMA PlaceIsThere ==
  ASSUME request \in Requests, NEW l \in Nat, NEW i \in 1 .. l * PerSubject
  PROVE  PerSubject # 0 /\ Place(i) \in 1 .. l /\ Turn(i) \in 1 .. PerSubject
<1> DEFINE k == PerSubject
<1>1. k \in Nat /\ l * k \in Nat
  BY PlanNumbers
<1>2. k # 0
  BY <1>1
<1> HIDE DEF k
<1>3. i - 1 \in Nat /\ k \in Nat \ {0} /\ i - 1 < l * k
  BY <1>1, <1>2 DEF k
<1>4. (i - 1) \div k \in Nat /\ (i - 1) % k \in 0 .. k - 1 /\ (i - 1) \div k < l
  BY <1>3, Divided, QuotientBelow
<1>5. (i - 1) \div k + 1 \in 1 .. l /\ ((i - 1) % k) + 1 \in 1 .. k
  BY <1>3, <1>4
<1> QED BY <1>2, <1>5 DEF Place, Turn, k

(* What a turn is for. *)
LEMMA SlotOfTurn ==
  ASSUME request \in Requests, NEW i, Turn(i) \in 1 .. PerSubject
  PROVE  /\ Turn(i) <= Plan.cold =>
              Slot(i) = [regime |-> "COLD", role |-> "MEASUREMENT", ordinal |-> Turn(i)]
         /\ (Plan.cold < Turn(i) /\ Turn(i) <= Plan.cold + Plan.warmup) =>
              Slot(i) = [regime |-> "WARM", role |-> "WARMUP", ordinal |-> Turn(i) - Plan.cold]
         /\ Plan.cold + Plan.warmup < Turn(i) =>
              Slot(i) = [regime |-> "WARM", role |-> "MEASUREMENT", ordinal |-> Turn(i) - Plan.cold - Plan.warmup]
<1> DEFINE k == Turn(i)
           cold == [regime |-> "COLD", role |-> "MEASUREMENT", ordinal |-> k]
           warmup == [regime |-> "WARM", role |-> "WARMUP", ordinal |-> k - Plan.cold]
           warm == [regime |-> "WARM", role |-> "MEASUREMENT", ordinal |-> k - Plan.cold - Plan.warmup]
<1>1. Slot(i) = IF k <= Plan.cold THEN cold ELSE IF k <= Plan.cold + Plan.warmup THEN warmup ELSE warm
  BY DEF Slot, Turn, PerSubject
<1>2. k \in Nat /\ Plan.cold \in Nat /\ Plan.warmup \in Nat
  BY PlanNumbers
<1> HIDE DEF k, cold, warmup, warm
<1>3. /\ k <= Plan.cold => Slot(i) = cold
      /\ (Plan.cold < k /\ k <= Plan.cold + Plan.warmup) => Slot(i) = warmup
      /\ Plan.cold + Plan.warmup < k => Slot(i) = warm
  <2>1. ASSUME k <= Plan.cold PROVE Slot(i) = cold
    BY <1>1, <2>1
  <2>2. ASSUME Plan.cold < k, k <= Plan.cold + Plan.warmup PROVE Slot(i) = warmup
    <3>1. ~(k <= Plan.cold)
      BY <1>2, <2>2
    <3> QED BY <1>1, <2>2, <3>1
  <2>3. ASSUME Plan.cold + Plan.warmup < k PROVE Slot(i) = warm
    <3>1. ~(k <= Plan.cold) /\ ~(k <= Plan.cold + Plan.warmup)
      BY <1>2, <2>3
    <3> QED BY <1>1, <3>1
  <2> QED BY <2>1, <2>2, <2>3
<1> QED BY <1>3 DEF k, cold, warmup, warm

(* No two turns have the same slot. *)
LEMMA SlotsApart ==
  ASSUME request \in Requests, NEW i, NEW j, Turn(i) \in 1 .. PerSubject, Turn(j) \in 1 .. PerSubject,
         Slot(i).regime = Slot(j).regime, Slot(i).role = Slot(j).role, Slot(i).ordinal = Slot(j).ordinal
  PROVE  Turn(i) = Turn(j)
<1>1. /\ Plan.cold \in Nat /\ Plan.warmup \in Nat /\ Plan.warm \in Nat /\ Turn(i) \in Nat /\ Turn(j) \in Nat
  BY PlanNumbers
<1> DEFINE parts(k) ==
  /\ Turn(k) <= Plan.cold =>
       Slot(k).regime = "COLD" /\ Slot(k).ordinal = Turn(k)
  /\ (Plan.cold < Turn(k) /\ Turn(k) <= Plan.cold + Plan.warmup) =>
       Slot(k).regime = "WARM" /\ Slot(k).role = "WARMUP" /\ Slot(k).ordinal = Turn(k) - Plan.cold
  /\ Plan.cold + Plan.warmup < Turn(k) =>
       /\ Slot(k).regime = "WARM" /\ Slot(k).role = "MEASUREMENT"
       /\ Slot(k).ordinal = Turn(k) - Plan.cold - Plan.warmup
<1>2. parts(i)
  BY SlotOfTurn
<1>3. parts(j)
  BY SlotOfTurn
<1> QED BY <1>1, <1>2, <1>3

(* A cold slot has the number of its turn; the others are warm. *)
LEMMA RegimeOfSlot ==
  ASSUME request \in Requests, NEW i, Turn(i) \in 1 .. PerSubject
  PROVE  /\ Slot(i).regime = "COLD" \/ Slot(i).regime = "WARM"
         /\ Slot(i).regime = "COLD" => Slot(i).ordinal = Turn(i) /\ Slot(i).role = "MEASUREMENT"
         /\ Slot(i).role \in {"WARMUP", "MEASUREMENT"}
<1>1. /\ Plan.cold \in Nat /\ Plan.warmup \in Nat /\ Plan.warm \in Nat /\ Turn(i) \in Nat
  BY PlanNumbers
<1>2. \/ Turn(i) <= Plan.cold
      \/ Plan.cold < Turn(i) /\ Turn(i) <= Plan.cold + Plan.warmup
      \/ Plan.cold + Plan.warmup < Turn(i)
  BY <1>1
<1>3. CASE Turn(i) <= Plan.cold
  BY <1>3, SlotOfTurn
<1>4. CASE Plan.cold < Turn(i) /\ Turn(i) <= Plan.cold + Plan.warmup
  BY <1>4, SlotOfTurn
<1>5. CASE Plan.cold + Plan.warmup < Turn(i)
  BY <1>5, SlotOfTurn
<1> QED BY <1>2, <1>3, <1>4, <1>5

-----------------------------------------------------------------------------
(* The decision in a manifest.                                             *)

(* The partial selections: each element is the choice of its round. *)
Chosen(a, s) == \A i \in DOMAIN s : s[i] \in NextChoice(a, Taken(s, i - 1))

(* A partial selection that leaves a choice can be continued with it. *)
LEMMA ChosenGoesOn ==
  ASSUME NEW a, NEW s \in CandidateSeqs, Chosen(a, s), NEW c \in NextChoice(a, Taken(s, Len(s)))
  PROVE  \E t \in CandidateSeqs : Chosen(a, t) /\ Len(t) = Len(s) + 1
<1>1. PICK n \in 0 .. Cardinality(Candidates) : s \in [1 .. n -> Candidates]
  BY DEF CandidateSeqs
<1>2. n \in Nat /\ Len(s) = n /\ DOMAIN s = 1 .. n
  <2>1. Cardinality(Candidates) \in Nat
    BY EvidenceAssumption, FS_CardinalityType
  <2> QED BY <1>1, <2>1
<1>3. c \in Candidates /\ \A i \in 1 .. n : s[i] # c
  BY <1>2 DEF NextChoice, Taken, Eligible
<1> DEFINE t == [i \in 1 .. n + 1 |-> IF i = n + 1 THEN c ELSE s[i]]
<1>4. /\ t \in [1 .. n + 1 -> Candidates] /\ Len(t) = n + 1 /\ DOMAIN t = 1 .. n + 1
      /\ t[n + 1] = c /\ \A i \in 1 .. n : t[i] = s[i]
  BY <1>1, <1>2, <1>3
<1> HIDE DEF t
<1>5. \A i, j \in 1 .. n + 1 : t[i] = t[j] => i = j
  <2>1. \A i, j \in 1 .. n : s[i] = s[j] => i = j
    BY <1>2 DEF CandidateSeqs
  <2>2. \A i \in 1 .. n + 1 : i = n + 1 \/ i \in 1 .. n
    BY <1>2
  <2> QED BY <2>1, <2>2, <1>3, <1>4
<1>6. n + 1 <= Cardinality(Candidates)
  <2>1. t \in Injection(1 .. n + 1, Candidates)
    BY <1>4, <1>5 DEF Injection, IsInjective
  <2>2. IsFiniteSet(Candidates)
    BY EvidenceAssumption
  <2>3. Cardinality(1 .. n + 1) <= Cardinality(Candidates)
    BY <2>1, <2>2, FS_Injection
  <2>4. Cardinality(1 .. n + 1) = n + 1
    BY <1>2, FS_Interval
  <2> QED BY <2>3, <2>4
<1>7. t \in CandidateSeqs
  <2>1. n + 1 \in 0 .. Cardinality(Candidates)
    BY <1>2, <1>6
  <2> QED BY <1>4, <1>5, <2>1 DEF CandidateSeqs
<1>8. Chosen(a, t)
  <2>1. ASSUME NEW i \in 1 .. n PROVE t[i] \in NextChoice(a, Taken(t, i - 1))
    <3>1. Taken(t, i - 1) = Taken(s, i - 1)
      BY <1>2, <1>4 DEF Taken
    <3>2. s[i] \in NextChoice(a, Taken(s, i - 1))
      BY <1>2 DEF Chosen
    <3> QED BY <3>1, <3>2, <1>4
  <2>2. t[n + 1] \in NextChoice(a, Taken(t, n + 1 - 1))
    <3>1. Taken(t, n + 1 - 1) = Taken(s, n)
      BY <1>2, <1>4 DEF Taken
    <3> QED BY <3>1, <1>2, <1>4
  <2>3. \A i \in 1 .. n + 1 : i = n + 1 \/ i \in 1 .. n
    BY <1>2
  <2> QED BY <2>1, <2>2, <2>3, <1>4 DEF Chosen
<1> QED BY <1>2, <1>4, <1>7, <1>8

(* Every assessment has a selection: a longest partial one. *)
LEMMA SelectionExists ==
  ASSUME NEW a
  PROVE  \E s \in CandidateSeqs : IsSelection(a, s)
<1> DEFINE size == Cardinality(Candidates)
           partial == {s \in CandidateSeqs : Chosen(a, s)}
           short == {size - Len(s) : s \in partial}
<1>1. size \in Nat
  BY EvidenceAssumption, FS_CardinalityType
<1>2. \A s \in CandidateSeqs : Len(s) \in 0 .. size
  BY <1>1 DEF CandidateSeqs
<1>3. <<>> \in partial
  <2>1. <<>> \in [1 .. 0 -> Candidates] /\ 0 \in 0 .. size
    BY <1>1
  <2>2. DOMAIN <<>> = {}
    OBVIOUS
  <2>3. <<>> \in CandidateSeqs
    BY <2>1, <2>2 DEF CandidateSeqs
  <2> QED BY <2>2, <2>3 DEF Chosen
<1>4. short \subseteq Nat /\ short # {}
  BY <1>1, <1>2, <1>3
<1>5. PICK k \in short : \A l \in short : k <= l
  <2> HIDE DEF short
  <2> QED BY <1>4, LeastNatural
<1>6. PICK s \in partial : k = size - Len(s)
  BY <1>5
<1>7. NextChoice(a, Taken(s, Len(s))) = {}
  <2>1. SUFFICES ASSUME NEW c \in NextChoice(a, Taken(s, Len(s))) PROVE FALSE
    OBVIOUS
  <2>2. PICK t \in CandidateSeqs : Chosen(a, t) /\ Len(t) = Len(s) + 1
    BY <1>6, ChosenGoesOn
  <2>3. size - Len(t) \in short
    BY <2>2
  <2>4. size - Len(s) <= size - Len(t)
    BY <1>5, <1>6, <2>3
  <2> QED BY <1>1, <1>2, <1>6, <2>2, <2>4
<1> QED BY <1>6, <1>7 DEF IsSelection, Chosen

(* There is always a decision. *)
LEMMA DecisionExists ==
  ASSUME NEW obs, NEW a
  PROVE  DecisionsGiven(obs, a) # {}
<1>1. {Conclude(a, s) : s \in {q \in CandidateSeqs : IsSelection(a, q)}} # {}
  BY SelectionExists
<1> QED BY <1>1 DEF DecisionsGiven

(* What a manifest holds: a decision on its observations, and unless they  *)
(* could not be parsed the observations and the assessments.               *)
LEMMA ManifestHolds ==
  ASSUME NEW repository, NEW obs
  PROVE  \E d \in DecisionsGiven(obs, Assess(obs)) :
           LET m == DecideEvidence(repository, obs)
           IN /\ m.decision = [status |-> d.status, selected |-> d.selected,
                               reason |-> ReasonFor(obs, d)]
              /\ d.status # "ENGINE_ERROR" =>
                   m.observations = obs /\ m.candidates = Assess(obs) /\ m.repository = repository
<1> DEFINE d == CHOOSE x \in DecisionsGiven(obs, Tabled(Assess(obs))) : TRUE
           reason == ReasonFor(obs, d)
           none == [c \in {} |-> {}]
<1>1. Tabled(Assess(obs)) = Assess(obs)
  BY DEF Tabled
<1>2. d \in DecisionsGiven(obs, Assess(obs))
  BY <1>1, DecisionExists
<1> DEFINE m == DecideEvidence(repository, obs)
           broken == d.status = "ENGINE_ERROR"
           bare == [repository |-> IF broken THEN "invalid" ELSE repository,
                    observations |-> IF broken THEN {} ELSE obs,
                    candidates |-> IF broken THEN none ELSE Assess(obs),
                    decision |-> [status |-> d.status, selected |-> d.selected, reason |-> reason],
                    decisionDigest |-> {}, artifactDigest |-> {}]
<1>3. m = SealBoth(bare)
  BY <1>1 DEF DecideEvidence
<1>4. /\ m.decision = bare.decision /\ m.observations = bare.observations
      /\ m.candidates = bare.candidates /\ m.repository = bare.repository
  <2> HIDE DEF m, d, reason, none
  <2> QED BY <1>3 DEF SealBoth, SealArtifact
<1>5. m.decision = [status |-> d.status, selected |-> d.selected, reason |-> reason]
  BY <1>4
<1>6. d.status # "ENGINE_ERROR" =>
        m.observations = obs /\ m.candidates = Assess(obs) /\ m.repository = repository
  <2> HIDE DEF m, d, reason, none
  <2> QED BY <1>4
<1> HIDE DEF d
<1> QED BY <1>2, <1>5, <1>6

(* What a verified decision rests on. *)
LEMMA VerifiedRestsOn ==
  ASSUME NEW obs, NEW d \in DecisionsGiven(obs, Assess(obs)), d.status = "VERIFIED"
  PROVE  /\ Acceptable(obs) /\ ControlsAreValid(obs)
         /\ d.selected \in CandidateSeqs /\ IsSelection(Assess(obs), d.selected)
         /\ d.selected # <<>>
<1>1. /\ Acceptable(obs) /\ ControlsAreValid(obs)
      /\ d \in {Conclude(Assess(obs), s) : s \in {q \in CandidateSeqs : IsSelection(Assess(obs), q)}}
  BY DEF DecisionsGiven
<1>2. PICK s \in CandidateSeqs : IsSelection(Assess(obs), s) /\ d = Conclude(Assess(obs), s)
  BY <1>1
<1>3. d.selected = s /\ s # <<>>
  BY <1>2 DEF Conclude
<1> QED BY <1>1, <1>2, <1>3

(* The elements of a selection are eligible candidates. *)
LEMMA SelectedAreEligible ==
  ASSUME NEW obs, NEW s \in CandidateSeqs, IsSelection(Assess(obs), s), NEW i \in DOMAIN s
  PROVE  s[i] \in Candidates /\ Status(obs, s[i]) = "ELIGIBLE"
<1>1. s[i] \in Eligible(Assess(obs))
  BY DEF IsSelection, NextChoice
<1> QED BY <1>1 DEF Eligible, Assess

(* An eligible candidate passed every gate. *)
LEMMA EligiblePassed ==
  ASSUME NEW obs, NEW c, Status(obs, c) = "ELIGIBLE"
  PROVE  /\ Complete(obs, c) /\ Stable(obs, c) /\ UndiscoveredRuns(obs, c) = {}
         /\ ~ExecutionInconclusive(obs, c)
         /\ GreenIn(obs, c, "REFERENCE") /\ GreenIn(obs, c, "NEUTRAL") /\ TargetPassed(obs, c)
BY DEF Status

(* The source of a benchmark: its controls are valid, and its selected     *)
(* candidates are distinct and kill what is required.                      *)
IsMeasurable(m) ==
  /\ ControlsAreValid(m.observations)
  /\ m.decision.selected \in CandidateSeqs
  /\ \A c \in Selected(m) : Required \cap Targets \subseteq KilledWorlds(m.observations, c)

(* A verified manifest can be measured.                                    *)
LEMMA VerifiedIsMeasurable ==
  ASSUME NEW repository, NEW obs, DecideEvidence(repository, obs).decision.status = "VERIFIED"
  PROVE  IsMeasurable(DecideEvidence(repository, obs))
<1> DEFINE m == DecideEvidence(repository, obs)
<1>1. PICK d \in DecisionsGiven(obs, Assess(obs)) :
        /\ m.decision = [status |-> d.status, selected |-> d.selected, reason |-> ReasonFor(obs, d)]
        /\ d.status # "ENGINE_ERROR" => m.observations = obs /\ m.candidates = Assess(obs)
  BY ManifestHolds
<1>2. m.decision.status = "VERIFIED"
  OBVIOUS
<1> HIDE DEF m
<1>3. d.status = "VERIFIED" /\ m.decision.selected = d.selected /\ m.observations = obs
  BY <1>1, <1>2
<1>4. /\ ControlsAreValid(obs) /\ d.selected \in CandidateSeqs
      /\ IsSelection(Assess(obs), d.selected)
  BY <1>3, VerifiedRestsOn
<1>5. ASSUME NEW c \in Selected(m)
      PROVE  Required \cap Targets \subseteq KilledWorlds(obs, c)
  <2>1. PICK i \in DOMAIN d.selected : c = d.selected[i]
    BY <1>3 DEF Selected
  <2>2. Status(obs, c) = "ELIGIBLE"
    BY <2>1, <1>4, SelectedAreEligible
  <2> QED BY <2>2, EligiblePassed DEF TargetPassed
<1> QED BY <1>3, <1>4, <1>5 DEF IsMeasurable, m

-----------------------------------------------------------------------------
(* The runs.                                                               *)

(* A sequence of distinct candidates. *)
LEMMA SeqOfCandidates ==
  ASSUME NEW s \in CandidateSeqs
  PROVE  /\ Len(s) \in Nat /\ DOMAIN s = 1 .. Len(s)
         /\ \A i, j \in 1 .. Len(s) : s[i] = s[j] => i = j
<1>1. PICK n \in 0 .. Cardinality(Candidates) : s \in [1 .. n -> Candidates]
  BY DEF CandidateSeqs
<1>2. Cardinality(Candidates) \in Nat
  BY EvidenceAssumption, FS_CardinalityType
<1>3. n \in Nat /\ Len(s) = n /\ DOMAIN s = 1 .. n
  BY <1>1, <1>2
<1> QED BY <1>3 DEF CandidateSeqs

(* The subject of a measurement. *)
LEMMA SubjectAt ==
  ASSUME NEW i
  PROVE  Subject(i) = manifest.decision.selected[Place(i)]
BY DEF Subject, Place, PerSubject

(* What a run says of its measurement. *)
LEMMA RunSays ==
  ASSUME NEW i, NEW e
  PROVE  /\ RunOf(i, e).candidate = Subject(i) /\ RunOf(i, e).regime = Slot(i).regime
         /\ RunOf(i, e).role = Slot(i).role /\ RunOf(i, e).ordinal = Slot(i).ordinal
         /\ RunOf(i, e).outcome = IF Measures(e) THEN "PASS" ELSE FailureOutcome(e)
<1> DEFINE measures == Measures(e)
           digest == Digest[Subject(i)]
           total == TotalOf(e.phases)
           fails == FailureOutcome(e)
           subject == Subject(i)
           slot == Slot(i)
           base == [candidate |-> subject, digest |-> digest, regime |-> slot.regime,
                    role |-> slot.role, ordinal |-> slot.ordinal]
<1>1. RunOf(i, e) =
        IF measures
        THEN [candidate |-> base.candidate, digest |-> base.digest, regime |-> base.regime,
              role |-> base.role, ordinal |-> base.ordinal, outcome |-> "PASS",
              phases |-> e.phases, total |-> total, cpu |-> e.cpu]
        ELSE [candidate |-> base.candidate, digest |-> base.digest, regime |-> base.regime,
              role |-> base.role, ordinal |-> base.ordinal, outcome |-> fails,
              phases |-> NoTimes, total |-> Untimed, cpu |-> Untimed]
  BY DEF RunOf
<1> HIDE DEF measures, digest, total, fails, subject, slot
<1>2. /\ RunOf(i, e).candidate = subject /\ RunOf(i, e).regime = slot.regime
      /\ RunOf(i, e).role = slot.role /\ RunOf(i, e).ordinal = slot.ordinal
      /\ RunOf(i, e).outcome = IF measures THEN "PASS" ELSE fails
  BY <1>1
<1> QED BY <1>2 DEF measures, fails, subject, slot

(* A run that passed is that of a process that ended well and passed. *)
LEMMA PassedMeasures ==
  ASSUME NEW i, NEW e, RunOf(i, e).outcome = "PASS"
  PROVE  e.process = "PASS" /\ e.exit = 0 /\ e.report = "PASS"
<1>1. FailureOutcome(e) # "PASS"
  BY DEF FailureOutcome
<1>2. Measures(e)
  BY <1>1, RunSays
<1> QED BY <1>2 DEF Measures

(* What is known of the measurements up to the last. *)
LEMMA MeasurementAt ==
  ASSUME request \in Requests, IsMeasurable(manifest), NEW i \in 1 .. Total
  PROVE  /\ PerSubject # 0 /\ i \in Nat \ {0}
         /\ Place(i) \in 1 .. Len(manifest.decision.selected) /\ Turn(i) \in 1 .. PerSubject
<1>1. Len(manifest.decision.selected) \in Nat
  BY SeqOfCandidates DEF IsMeasurable
<1>2. Total = Len(manifest.decision.selected) * PerSubject
  BY DEF Total, PerSubject
<1>3. PerSubject \in Nat
  BY PlanNumbers
<1> QED BY <1>1, <1>2, <1>3, PlaceIsThere

(* Different measurements have different runs. *)
LEMMA RunsApart ==
  ASSUME request \in Requests, IsMeasurable(manifest), NEW i \in 1 .. Total, NEW j \in 1 .. Total,
         NEW e, NEW f, RunOf(i, e) = RunOf(j, f)
  PROVE  i = j
<1>1. /\ PerSubject # 0 /\ i \in Nat \ {0} /\ j \in Nat \ {0}
      /\ Place(i) \in 1 .. Len(manifest.decision.selected) /\ Turn(i) \in 1 .. PerSubject
      /\ Place(j) \in 1 .. Len(manifest.decision.selected) /\ Turn(j) \in 1 .. PerSubject
  BY MeasurementAt
<1>2. /\ Subject(i) = Subject(j) /\ Slot(i).regime = Slot(j).regime /\ Slot(i).role = Slot(j).role
      /\ Slot(i).ordinal = Slot(j).ordinal
  BY RunSays
<1>3. Place(i) = Place(j)
  <2>1. manifest.decision.selected[Place(i)] = manifest.decision.selected[Place(j)]
    BY <1>2, SubjectAt
  <2>2. manifest.decision.selected \in CandidateSeqs
    BY DEF IsMeasurable
  <2> QED BY <2>1, <2>2, <1>1, SeqOfCandidates
<1>4. Turn(i) = Turn(j)
  BY <1>1, <1>2, SlotsApart
<1> QED BY <1>1, <1>3, <1>4, PlacesApart

-----------------------------------------------------------------------------
(* What has been measured so far.                                          *)

(* The surroundings of a measurement, by its number. *)
IsPlaced(s, j) == s.run = RunOf(j, s.end)

(* The runs are those of the first measurements, one of each. *)
InOrder(measured, around) ==
  /\ IsFiniteSet(measured) /\ Cardinality(measured) <= Total
  /\ measured = {s.run : s \in around}
  /\ \A s \in around : \E j \in 1 .. Cardinality(measured) : IsPlaced(s, j)
  /\ \A j \in 1 .. Cardinality(measured) : \E s \in around : IsPlaced(s, j)
  /\ \A j \in 1 .. Cardinality(measured) : \A s, t \in around :
       IsPlaced(s, j) /\ IsPlaced(t, j) => s = t

KeyOf(j) == CacheKey(j, Slot(j))

(* A cache directory was made for one of the first n measurements, and the *)
(* runs it has seen are of those that share it.                            *)
CachesFit(made, n, around) ==
  \A c \in made :
    /\ \E j \in 1 .. n : c.key = KeyOf(j)
    /\ \A b \in c.runs : \E s \in around : \E j \in 1 .. n :
         b = s.run /\ IsPlaced(s, j) /\ c.key = KeyOf(j)

(* The number of the measurements to take.                                 *)
LEMMA TotalIsNatural ==
  ASSUME request \in Requests, IsMeasurable(manifest)
  PROVE  Total \in Nat
<1>1. Len(manifest.decision.selected) \in Nat
  BY SeqOfCandidates DEF IsMeasurable
<1>2. Total = Len(manifest.decision.selected) * PerSubject
  BY DEF Total, PerSubject
<1>3. PerSubject \in Nat
  BY PlanNumbers
<1> QED BY <1>1, <1>2, <1>3

(* One more measurement, the next one. *)
LEMMA OneMore ==
  ASSUME request \in Requests, IsMeasurable(manifest), NEW measured, NEW around,
         InOrder(measured, around), Cardinality(measured) < Total,
         NEW u, IsPlaced(u, Cardinality(measured) + 1)
  PROVE  /\ Cardinality(measured \cup {u.run}) = Cardinality(measured) + 1
         /\ InOrder(measured \cup {u.run}, around \cup {u})
<1> DEFINE n == Cardinality(measured)
           more == measured \cup {u.run}
           all == around \cup {u}
<1>1. n \in Nat /\ Total \in Nat /\ n < Total /\ IsFiniteSet(measured)
  BY TotalIsNatural, FS_CardinalityType DEF InOrder
<1>2. /\ measured = {s.run : s \in around}
      /\ \A s \in around : \E j \in 1 .. n : IsPlaced(s, j)
      /\ \A j \in 1 .. n : \E s \in around : IsPlaced(s, j)
      /\ \A j \in 1 .. n : \A s, t \in around : IsPlaced(s, j) /\ IsPlaced(t, j) => s = t
      /\ IsPlaced(u, n + 1)
  BY DEF InOrder
<1> HIDE DEF n
<1>3. \A s \in all : \A i, j \in 1 .. n + 1 : IsPlaced(s, i) /\ IsPlaced(s, j) => i = j
  <2>1. ASSUME NEW s, NEW i \in 1 .. n + 1, NEW j \in 1 .. n + 1, IsPlaced(s, i), IsPlaced(s, j)
        PROVE  i = j
    <3>1. i \in 1 .. Total /\ j \in 1 .. Total
      BY <1>1
    <3>2. RunOf(i, s.end) = RunOf(j, s.end)
      BY <2>1 DEF IsPlaced
    <3> QED BY <3>1, <3>2, RunsApart
  <2> QED BY <2>1
<1>4. u.run \notin measured
  <2>1. SUFFICES ASSUME NEW s \in around, u.run = s.run PROVE FALSE
    BY <1>2
  <2>2. PICK j \in 1 .. n : IsPlaced(s, j)
    BY <1>2
  <2>3. RunOf(n + 1, u.end) = RunOf(j, s.end)
    BY <1>2, <2>1, <2>2 DEF IsPlaced
  <2>4. n + 1 \in 1 .. Total /\ j \in 1 .. Total
    BY <1>1
  <2>5. n + 1 = j
    BY <2>3, <2>4, RunsApart
  <2> QED BY <1>1, <2>5
<1>5. IsFiniteSet(more) /\ Cardinality(more) = n + 1
  BY <1>1, <1>4, FS_AddElement DEF n
<1>6. more = {s.run : s \in all}
  BY <1>2
<1>7. \A s \in all : \E j \in 1 .. n + 1 : IsPlaced(s, j)
  <2>1. ASSUME NEW s \in around PROVE \E j \in 1 .. n + 1 : IsPlaced(s, j)
    <3>1. PICK j \in 1 .. n : IsPlaced(s, j)
      BY <1>2
    <3>2. j \in 1 .. n + 1
      BY <1>1
    <3> QED BY <3>1, <3>2
  <2>2. n + 1 \in 1 .. n + 1
    BY <1>1
  <2> QED BY <1>2, <2>1, <2>2
<1>8. \A j \in 1 .. n + 1 : j \in 1 .. n \/ j = n + 1
  BY <1>1
<1>9. \A j \in 1 .. n + 1 : \E s \in all : IsPlaced(s, j)
  BY <1>2, <1>8
<1>10. \A s \in around : ~IsPlaced(s, n + 1)
  <2>1. SUFFICES ASSUME NEW s \in around, IsPlaced(s, n + 1) PROVE FALSE
    OBVIOUS
  <2>2. PICK j \in 1 .. n : IsPlaced(s, j)
    BY <1>2
  <2>3. j \in 1 .. n + 1 /\ n + 1 \in 1 .. n + 1 /\ j # n + 1
    BY <1>1
  <2> QED BY <1>3, <2>1, <2>2, <2>3
<1>11. \A j \in 1 .. n : ~IsPlaced(u, j)
  <2>1. SUFFICES ASSUME NEW j \in 1 .. n, IsPlaced(u, j) PROVE FALSE
    OBVIOUS
  <2>2. j \in 1 .. n + 1 /\ n + 1 \in 1 .. n + 1 /\ j # n + 1
    BY <1>1
  <2> QED BY <1>2, <1>3, <2>1, <2>2
<1>12. ASSUME NEW j \in 1 .. n + 1, NEW s \in all, NEW t \in all, IsPlaced(s, j), IsPlaced(t, j)
       PROVE  s = t
  <2>1. CASE j = n + 1
    BY <1>10, <1>12, <2>1
  <2>2. CASE j \in 1 .. n
    <3>1. s \in around /\ t \in around
      BY <1>11, <1>12, <2>2
    <3> QED BY <1>2, <1>12, <2>2, <3>1
  <2> QED BY <1>8, <2>1, <2>2
<1>13. n + 1 <= Total
  BY <1>1
<1>14. InOrder(more, all)
  <2> HIDE DEF more, all
  <2> QED BY <1>5, <1>6, <1>7, <1>9, <1>12, <1>13 DEF InOrder
<1> QED BY <1>5, <1>14 DEF n

(* The measurements that share a cache directory are the same cold one, or *)
(* warm ones of one candidate.                                             *)
LEMMA SharedCache ==
  ASSUME request \in Requests, IsMeasurable(manifest), NEW i \in 1 .. Total, NEW j \in 1 .. Total,
         KeyOf(i) = KeyOf(j)
  PROVE  /\ Slot(i).regime = Slot(j).regime /\ Subject(i) = Subject(j)
         /\ Slot(i).regime = "COLD" => i = j
<1>1. /\ PerSubject # 0 /\ i \in Nat \ {0} /\ j \in Nat \ {0}
      /\ Turn(i) \in 1 .. PerSubject /\ Turn(j) \in 1 .. PerSubject
  BY MeasurementAt
<1> DEFINE number(k) == IF Slot(k).regime = "COLD" THEN Slot(k).ordinal ELSE 0
<1>2. \A k : /\ KeyOf(k).subject = Place(k) /\ KeyOf(k).regime = Slot(k).regime
             /\ KeyOf(k).ordinal = number(k)
  BY DEF KeyOf, CacheKey, Place, PerSubject
<1>3. /\ Place(i) = Place(j) /\ Slot(i).regime = Slot(j).regime
      /\ Slot(i).regime = "COLD" => Slot(i).ordinal = Slot(j).ordinal
  <2>1. Place(i) = Place(j) /\ Slot(i).regime = Slot(j).regime /\ number(i) = number(j)
    <3> HIDE DEF number
    <3> QED BY <1>2
  <2> QED BY <2>1
<1>4. Subject(i) = Subject(j)
  BY <1>3, SubjectAt
<1>5. ASSUME Slot(i).regime = "COLD" PROVE i = j
  <2>1. Turn(i) = Turn(j)
    BY <1>1, <1>3, <1>5, RegimeOfSlot
  <2> QED BY <1>1, <1>3, <2>1, PlacesApart
<1> QED BY <1>3, <1>4, <1>5

(* What the next measurement finds in its cache directory: nothing when it *)
(* is cold, runs of its own candidate when it is warm.                     *)
LEMMA FoundInCache ==
  ASSUME request \in Requests, IsMeasurable(manifest), NEW n \in Nat, n < Total, NEW e,
         NEW made, NEW around, CachesFit(made, n, around),
         NEW before, before = UNION {c.runs : c \in {d \in made : d.key = KeyOf(n + 1)}}
  PROVE  /\ RunOf(n + 1, e).regime = "COLD" => before = {}
         /\ RunOf(n + 1, e).regime = "WARM" =>
              \A b \in before : b.regime = "WARM" /\ b.candidate = RunOf(n + 1, e).candidate
<1>0. Total \in Nat
  BY TotalIsNatural
<1>1. n + 1 \in 1 .. Total /\ \A j \in 1 .. n : j \in 1 .. Total /\ j # n + 1
  BY <1>0
<1>2. /\ RunOf(n + 1, e).regime = Slot(n + 1).regime
      /\ RunOf(n + 1, e).candidate = Subject(n + 1)
  BY RunSays
<1>3. ASSUME Slot(n + 1).regime = "COLD" PROVE before = {}
  <2>1. SUFFICES ASSUME NEW d \in made, d.key = KeyOf(n + 1) PROVE FALSE
    OBVIOUS
  <2>2. PICK j \in 1 .. n : d.key = KeyOf(j)
    BY DEF CachesFit
  <2>3. KeyOf(n + 1) = KeyOf(j) /\ j \in 1 .. Total /\ j # n + 1
    BY <1>1, <2>1, <2>2
  <2> QED BY <1>1, <1>3, <2>3, SharedCache
<1>4. ASSUME Slot(n + 1).regime = "WARM", NEW b \in before
      PROVE  b.regime = "WARM" /\ b.candidate = Subject(n + 1)
  <2>1. PICK d \in made : d.key = KeyOf(n + 1) /\ b \in d.runs
    OBVIOUS
  <2>2. PICK s \in around, j \in 1 .. n : b = s.run /\ IsPlaced(s, j) /\ d.key = KeyOf(j)
    BY <2>1 DEF CachesFit
  <2>3. KeyOf(n + 1) = KeyOf(j) /\ j \in 1 .. Total
    BY <1>1, <2>1, <2>2
  <2>4. Slot(j).regime = "WARM" /\ Subject(j) = Subject(n + 1)
    BY <1>1, <1>4, <2>3, SharedCache
  <2>5. b = RunOf(j, s.end)
    BY <2>2 DEF IsPlaced
  <2> QED BY <2>4, <2>5, RunSays
<1> QED BY <1>2, <1>3, <1>4

(* The caches after it. *)
LEMMA CachesGrow ==
  ASSUME NEW n \in Nat, NEW made, NEW around, CachesFit(made, n, around),
         NEW u, IsPlaced(u, n + 1), NEW seen, seen = {c \in made : c.key = KeyOf(n + 1)},
         NEW before, before = UNION {c.runs : c \in seen}
  PROVE  CachesFit((made \ seen) \cup {[key |-> KeyOf(n + 1), runs |-> before \cup {u.run}]},
                   n + 1, around \cup {u})
<1> DEFINE new == [key |-> KeyOf(n + 1), runs |-> before \cup {u.run}]
<1>1. n + 1 \in 1 .. n + 1 /\ \A j \in 1 .. n : j \in 1 .. n + 1
  OBVIOUS
<1>2. ASSUME NEW c \in made
      PROVE  /\ \E j \in 1 .. n + 1 : c.key = KeyOf(j)
             /\ \A b \in c.runs : \E s \in around \cup {u} : \E j \in 1 .. n + 1 :
                  b = s.run /\ IsPlaced(s, j) /\ c.key = KeyOf(j)
  <2>1. /\ \E j \in 1 .. n : c.key = KeyOf(j)
        /\ \A b \in c.runs : \E s \in around : \E j \in 1 .. n :
             b = s.run /\ IsPlaced(s, j) /\ c.key = KeyOf(j)
    BY DEF CachesFit
  <2>2. ASSUME NEW b \in c.runs
        PROVE  \E s \in around \cup {u} : \E j \in 1 .. n + 1 :
                 b = s.run /\ IsPlaced(s, j) /\ c.key = KeyOf(j)
    <3>1. PICK s \in around, j \in 1 .. n : b = s.run /\ IsPlaced(s, j) /\ c.key = KeyOf(j)
      BY <2>1
    <3> QED BY <1>1, <3>1
  <2> QED BY <1>1, <2>1, <2>2
<1>3. /\ \E j \in 1 .. n + 1 : new.key = KeyOf(j)
      /\ \A b \in new.runs : \E s \in around \cup {u} : \E j \in 1 .. n + 1 :
           b = s.run /\ IsPlaced(s, j) /\ new.key = KeyOf(j)
  <2>1. new.key = KeyOf(n + 1) /\ new.runs = before \cup {u.run}
    OBVIOUS
  <2> HIDE DEF new
  <2>2. ASSUME NEW b \in before
        PROVE  \E s \in around \cup {u} : \E j \in 1 .. n + 1 :
                 b = s.run /\ IsPlaced(s, j) /\ new.key = KeyOf(j)
    <3>1. PICK c \in made : c.key = KeyOf(n + 1) /\ b \in c.runs
      OBVIOUS
    <3> QED BY <1>2, <2>1, <3>1
  <2>3. \E j \in 1 .. n + 1 : u.run = u.run /\ IsPlaced(u, j) /\ new.key = KeyOf(j)
    BY <1>1, <2>1
  <2> QED BY <1>1, <2>1, <2>2, <2>3
<1> HIDE DEF new
<1>4. CachesFit((made \ seen) \cup {new}, n + 1, around \cup {u})
  BY <1>2, <1>3 DEF CachesFit
<1> QED BY <1>4 DEF new

-----------------------------------------------------------------------------
(* What has been measured when the last measurement is done.               *)

(* The quotient of a number, by the multiples it lies between. *)
LEMMA QuotientIs ==
  ASSUME NEW i \in Nat, NEW k \in Nat \ {0}, NEW q \in Nat
  PROVE  i \div k = q <=> q * k <= i /\ i < (q + 1) * k
<1> DEFINE d == i \div k
           r == i % k
<1>1. d \in Nat /\ r \in 0 .. k - 1 /\ i = k * d + r
  BY Divided
<1> HIDE DEF d, r
<1>2. d = q => q * k <= i /\ i < (q + 1) * k
  BY <1>1
<1>3. ASSUME d < q PROVE i < q * k
  <2>1. d + 1 <= q
    BY <1>1, <1>3
  <2>2. k * (d + 1) <= k * q
    BY <1>1, <2>1
  <2> QED BY <1>1, <2>2
<1>4. ASSUME q < d PROVE i >= (q + 1) * k
  <2>1. q + 1 <= d
    BY <1>1, <1>4
  <2>2. k * (q + 1) <= k * d
    BY <1>1, <2>1
  <2> QED BY <1>1, <2>2
<1>5. d < q \/ d = q \/ q < d
  BY <1>1
<1>6. q * k \in Nat /\ (q + 1) * k \in Nat
  OBVIOUS
<1>7. d = q <=> q * k <= i /\ i < (q + 1) * k
  BY <1>2, <1>3, <1>4, <1>5, <1>6
<1> QED BY <1>7 DEF d

(* The measurements of a candidate, by their numbers. *)
LEMMA NumbersOfSubject ==
  ASSUME request \in Requests, IsMeasurable(manifest),
         NEW x \in 1 .. Len(manifest.decision.selected), NEW j \in 1 .. Total
  PROVE  /\ Subject(j) = manifest.decision.selected[x] <=> j \in (x - 1) * PerSubject + 1 .. x * PerSubject
<1>1. /\ PerSubject # 0 /\ j \in Nat \ {0} /\ Place(j) \in 1 .. Len(manifest.decision.selected)
  BY MeasurementAt
<1>2. Subject(j) = manifest.decision.selected[x] <=> Place(j) = x
  <2>1. manifest.decision.selected \in CandidateSeqs
    BY DEF IsMeasurable
  <2> QED BY <2>1, <1>1, SubjectAt, SeqOfCandidates
<1> DEFINE k == PerSubject
           q == x - 1
<1>3. k \in Nat \ {0} /\ q \in Nat /\ j - 1 \in Nat /\ x \in Nat
  <2>1. Len(manifest.decision.selected) \in Nat
    BY SeqOfCandidates DEF IsMeasurable
  <2> QED BY <1>1, <2>1, PlanNumbers
<1>4. Place(j) = (j - 1) \div k + 1
  BY DEF Place
<1> HIDE DEF k
<1>5. (j - 1) \div k \in Nat
  BY <1>3, Divided
<1>6. Place(j) = x <=> (j - 1) \div k = q
  BY <1>3, <1>4, <1>5
<1>7. (j - 1) \div k = q <=> q * k <= j - 1 /\ j - 1 < (q + 1) * k
  BY <1>3, QuotientIs
<1>8. q + 1 = x
  BY <1>3
<1>9. q * k \in Nat /\ x * k \in Nat
  BY <1>3
<1>10. (q * k <= j - 1 /\ j - 1 < x * k) <=> j \in q * k + 1 .. x * k
  <2> HIDE DEF q
  <2> QED BY <1>3, <1>9
<1> QED BY <1>2, <1>6, <1>7, <1>8, <1>10 DEF k

(* Every candidate was measured as often as planned. *)
LEMMA MeasuredAsPlanned ==
  ASSUME request \in Requests, IsMeasurable(manifest), NEW measured, NEW around,
         InOrder(measured, around), Cardinality(measured) = Total, NEW c \in Selected(manifest)
  PROVE  Cardinality({s \in around : s.run.candidate = c}) = PerSubject
<1> DEFINE of == {s \in around : s.run.candidate = c}
<1>1. /\ \A s \in around : \E j \in 1 .. Total : IsPlaced(s, j)
      /\ \A j \in 1 .. Total : \E s \in around : IsPlaced(s, j)
      /\ \A j \in 1 .. Total : \A s, t \in around : IsPlaced(s, j) /\ IsPlaced(t, j) => s = t
  BY DEF InOrder
<1>2. PICK x \in 1 .. Len(manifest.decision.selected) : c = manifest.decision.selected[x]
  <2>1. manifest.decision.selected \in CandidateSeqs
    BY DEF IsMeasurable
  <2> QED BY <2>1, SeqOfCandidates DEF Selected
<1>3. PerSubject \in Nat /\ Len(manifest.decision.selected) \in Nat /\ Total \in Nat
  <2>1. Len(manifest.decision.selected) \in Nat
    BY SeqOfCandidates DEF IsMeasurable
  <2> QED BY <2>1, PlanNumbers, TotalIsNatural
<1> DEFINE first == (x - 1) * PerSubject + 1
           last == x * PerSubject
           numbers == first .. last
<1>4. first \in Nat /\ last \in Nat /\ last - first + 1 = PerSubject /\ x \in Nat /\ x - 1 \in Nat
  <2> DEFINE k == PerSubject
             y == x - 1
  <2>1. k \in Nat /\ x \in Nat /\ y \in Nat /\ x = y + 1
    BY <1>3
  <2> HIDE DEF k, y
  <2>2. y * k + 1 \in Nat /\ x * k \in Nat /\ x * k - (y * k + 1) + 1 = k
    BY <2>1
  <2> QED BY <2>1, <2>2 DEF k, y
<1>5. numbers \subseteq 1 .. Total
  <2> DEFINE k == PerSubject
             l == Len(manifest.decision.selected)
             y == x - 1
  <2>1. k \in Nat /\ l \in Nat /\ x \in Nat /\ x <= l /\ y \in Nat
    BY <1>3
  <2>2. Total = l * k
    BY DEF Total, PerSubject
  <2> HIDE DEF k, l, y
  <2>3. x * k <= l * k /\ y * k + 1 >= 1
    BY <2>1
  <2>4. x * k <= Total /\ y * k + 1 >= 1
    BY <2>2, <2>3
  <2> QED BY <2>4, <1>3, <1>4 DEF k, l, y
<1>6. \A j \in 1 .. Total : Subject(j) = c <=> j \in numbers
  BY <1>2, NumbersOfSubject
<1> HIDE DEF first, last
<1> DEFINE at == [j \in numbers |-> CHOOSE s \in around : IsPlaced(s, j)]
<1>7. \A j \in numbers : at[j] \in around /\ IsPlaced(at[j], j)
  BY <1>1, <1>5
<1>8. \A s \in around : \A j \in 1 .. Total : IsPlaced(s, j) => s.run.candidate = Subject(j)
  <2>1. ASSUME NEW s, NEW j, IsPlaced(s, j) PROVE s.run.candidate = Subject(j)
    BY <2>1, RunSays DEF IsPlaced
  <2> QED BY <2>1
<1>9. at \in [numbers -> of]
  <2>1. \A j \in numbers : at[j] \in of
    BY <1>5, <1>6, <1>7, <1>8
  <2> QED BY <2>1
<1>10. \A i, j \in numbers : at[i] = at[j] => i = j
  <2>1. ASSUME NEW i \in numbers, NEW j \in numbers, at[i] = at[j] PROVE i = j
    <3>1. RunOf(i, at[i].end) = RunOf(j, at[j].end)
      BY <1>7, <2>1 DEF IsPlaced
    <3>2. i \in 1 .. Total /\ j \in 1 .. Total
      BY <1>5
    <3> QED BY <3>1, <3>2, RunsApart
  <2> QED BY <2>1
<1>11. \A s \in of : \E j \in numbers : at[j] = s
  <2>1. ASSUME NEW s \in of PROVE \E j \in numbers : at[j] = s
    <3>1. PICK j \in 1 .. Total : IsPlaced(s, j)
      BY <1>1
    <3>2. j \in numbers
      BY <1>6, <1>8, <3>1
    <3> QED BY <1>1, <1>7, <3>1, <3>2
  <2> QED BY <2>1
<1>12. at \in Bijection(numbers, of)
  <2> HIDE DEF at, of, numbers
  <2> QED BY <1>9, <1>10, <1>11 DEF Bijection, Injection, IsInjective, Surjection
<1>13. IsFiniteSet(numbers) /\ Cardinality(numbers) = PerSubject
  <2>1. Cardinality(numbers) = IF first > last THEN 0 ELSE last - first + 1
    BY <1>4, FS_Interval
  <2>2. IsFiniteSet(numbers)
    BY <1>4, FS_Interval
  <2> QED BY <1>3, <1>4, <2>1, <2>2
<1>14. Cardinality(of) = Cardinality(numbers)
  <2>1. ExistsBijection(numbers, of)
    BY <1>12 DEF ExistsBijection
  <2> QED BY <2>1, <1>13, FS_Bijection
<1> QED BY <1>13, <1>14

(* When no summary has a failed run, every measurement passed. *)
LEMMA CompletePassed ==
  ASSUME request \in Requests, IsMeasurable(manifest), NEW measured, NEW around,
         InOrder(measured, around), NEW s \in around,
         AcquisitionStatus(Summaries(manifest, Plan, measured)) = "COMPLETE"
  PROVE  s.run.outcome = "PASS"
<1>1. PICK j \in 1 .. Cardinality(measured) : IsPlaced(s, j)
  BY DEF InOrder
<1>2. j \in 1 .. Total
  <2>1. Cardinality(measured) <= Total /\ Cardinality(measured) \in Nat /\ Total \in Nat
    BY TotalIsNatural, FS_CardinalityType DEF InOrder
  <2> QED BY <2>1
<1>3. /\ Place(j) \in 1 .. Len(manifest.decision.selected) /\ Turn(j) \in 1 .. PerSubject
  BY <1>2, MeasurementAt
<1>4. /\ s.run.candidate = Subject(j) /\ s.run.regime = Slot(j).regime /\ s.run.role = Slot(j).role
  BY <1>1, RunSays DEF IsPlaced
<1>5. Subject(j) \in Selected(manifest)
  <2>1. manifest.decision.selected \in CandidateSeqs
    BY DEF IsMeasurable
  <2>2. Place(j) \in DOMAIN manifest.decision.selected
    BY <1>3, <2>1, SeqOfCandidates
  <2> QED BY <2>2, SubjectAt DEF Selected
<1>6. s.run \in measured
  BY DEF InOrder
<1> DEFINE c == Subject(j)
           regime == Slot(j).regime
           failed == {r \in RunsOf(measured, c, regime, "MEASUREMENT")
                            \cup RunsOf(measured, c, regime, "WARMUP") : ~Passed(r)}
           x == <<c, regime>>
           summaries == Summaries(manifest, Plan, measured)
<1>7. regime \in Regimes /\ Slot(j).role \in {"WARMUP", "MEASUREMENT"}
  BY <1>3, RegimeOfSlot DEF Regimes
<1>8. x \in DOMAIN summaries /\ summaries[x] = Summary(Plan, measured, c, regime)
  BY <1>5, <1>7 DEF Summaries
<1>9. failed # {} => summaries[x].status = "OBSERVED_RUN_FAILURE"
  BY <1>8 DEF Summary
<1>10. summaries[x].status # "OBSERVED_RUN_FAILURE"
  <2>1. "OBSERVED_RUN_FAILURE" \notin {summaries[y].status : y \in DOMAIN summaries}
    BY DEF AcquisitionStatus
  <2> QED BY <2>1, <1>8
<1>11. s.run \in RunsOf(measured, c, regime, "MEASUREMENT") \cup RunsOf(measured, c, regime, "WARMUP")
  BY <1>4, <1>6, <1>7 DEF RunsOf
<1> QED BY <1>9, <1>10, <1>11 DEF Passed

-----------------------------------------------------------------------------
(* The invariant of the acquisition.                                       *)

AsRequested ==
  /\ stage # "NONE" => request \in Requests
  /\ stage \in {"SNAPSHOT", "MEASURING"} => RequestIsAccepted(request)

UnmeasuredSoFar ==
  stage \in {"REQUESTED", "SNAPSHOT"} => runs = {} /\ caches = {} /\ surroundings = {}

(* What each measurement ran in; as long as the snapshot is as it was      *)
(* taken, so is what each of them ran on.                                  *)
AroundWell(s) ==
  /\ snapshot = "taken" =>
       s.content = "taken" /\ s.reporter = ContentAt(request.reporter, "taken")
  /\ s.run.regime = "COLD" => s.before = {}
  /\ s.run.regime = "WARM" => \A b \in s.before : b.regime = "WARM" /\ b.candidate = s.run.candidate

WellMeasured ==
  stage = "MEASURING" =>
    /\ IsMeasurable(manifest)
    /\ InOrder(runs, surroundings)
    /\ CachesFit(caches, Cardinality(runs), surroundings)
    /\ \A s \in surroundings : AroundWell(s)

AcquisitionInv == AsRequested /\ UnmeasuredSoFar /\ WellMeasured /\ MeasuredInIsolation

(* The content of the reporter in a workspace: no overlay replaces it. *)
LEMMA ReporterIsIsolated ==
  ASSUME request \in Requests, RequestIsAccepted(request), NEW content
  PROVE  WorkspaceContentAt(request.reporter, content, request.overlays)
           = ContentAt(request.reporter, content)
<1> DEFINE identities == <<request.reporter>> \o request.dependencies
           keys == [i \in DOMAIN identities |-> PortableKey(identities[i])]
<1>1. request.dependencies \in Seq(ToSet(request.dependencies))
  BY RequestsAssumption
<1>2. 1 \in DOMAIN identities /\ identities[1] = request.reporter
  <2>1. Len(request.dependencies) \in Nat
    BY <1>1
  <2>2. Len(<<request.reporter>>) = 1 /\ <<request.reporter>>[1] = request.reporter
    OBVIOUS
  <2> DEFINE deps == request.dependencies
             rep == request.reporter
  <2>3. deps \in Seq(ToSet(deps)) /\ Len(deps) \in Nat
    BY <1>1, <2>1
  <2> HIDE DEF deps, rep
  <2>4. 1 \in DOMAIN (<<rep>> \o deps) /\ (<<rep>> \o deps)[1] = rep
    BY <2>3
  <2> QED BY <2>4 DEF deps, rep
<1>3. \A o \in request.overlays : ~Overlaps(keys[1], PortableKey(o))
  BY <1>2 DEF RequestIsAccepted, IdentityIsIsolated
<1>4. keys[1] = PortableKey(request.reporter)
  BY <1>2
<1>5. \A o \in request.overlays : ~Overlaps(PortableKey(request.reporter), PortableKey(o))
  BY <1>3, <1>4
<1>6. \A p : PortableKey(p) = [i \in DOMAIN p |-> PortableSegment(p[i])]
  BY DEF PortableKey
<1> QED BY <1>5, <1>6 DEF WorkspaceContentAt

(* Before a request nothing is measured.                                   *)
LEMMA InitAcquisitionInv == Init => AcquisitionInv
BY DEF Init, AcquisitionInit, AcquisitionInv, AsRequested, UnmeasuredSoFar, WellMeasured, MeasuredInIsolation

(* While the request and the manifest stay, the measurements keep their    *)
(* runs and their cache directories.                                       *)
LEMMA StaysPlaced ==
  ASSUME UNCHANGED <<request, manifest>>
  PROVE  /\ \A i, e : RunOf(i, e)' = RunOf(i, e)
         /\ \A i : KeyOf(i)' = KeyOf(i)
         /\ Total' = Total
<1>1. Plan' = Plan /\ (\A i : Subject(i)' = Subject(i)) /\ (\A i : Slot(i)' = Slot(i))
  BY DEF Plan, Subject, Slot
<1>2. \A i, e : RunOf(i, e)' = RunOf(i, e)
  BY <1>1 DEF RunOf
<1>3. \A i : KeyOf(i)' = KeyOf(i)
  BY <1>1 DEF KeyOf, CacheKey
<1>4. Total' = Total
  BY <1>1 DEF Total
<1> QED BY <1>2, <1>3, <1>4


(* MeasuredInIsolation speaks of neither the snapshot nor the caches. *)
LEMMA IsolationStays ==
  ASSUME MeasuredInIsolation,
         UNCHANGED <<request, stage, manifest, runs, surroundings, result>>
  PROVE  MeasuredInIsolation'
<1>1. Plan' = Plan
  BY DEF Plan
<1> QED BY <1>1 DEF MeasuredInIsolation

(* The steps on the documents leave the acquisition alone.                 *)
LEMMA QuietKeepsAcquisition ==
  ASSUME AcquisitionInv, UNCHANGED acquisitionVars
  PROVE  AcquisitionInv'
<1> USE DEF acquisitionVars
<1>1. AsRequested' /\ UnmeasuredSoFar'
  BY DEF AcquisitionInv, AsRequested, UnmeasuredSoFar
<1>2. WellMeasured'
  <2>1. SUFFICES ASSUME stage = "MEASURING" PROVE WellMeasured'
    BY DEF WellMeasured
  <2>2. /\ IsMeasurable(manifest) /\ InOrder(runs, surroundings)
        /\ CachesFit(caches, Cardinality(runs), surroundings)
        /\ \A s \in surroundings : AroundWell(s)
    BY <2>1 DEF AcquisitionInv, WellMeasured
  <2>3. /\ \A i, e : RunOf(i, e)' = RunOf(i, e)
        /\ \A i : KeyOf(i)' = KeyOf(i)
        /\ Total' = Total
    BY StaysPlaced
  <2>5. runs' = runs /\ surroundings' = surroundings /\ caches' = caches
    OBVIOUS
  <2>6. \A s, j : IsPlaced(s, j)' <=> IsPlaced(s, j)
    BY <2>3 DEF IsPlaced
  <2>7. InOrder(runs, surroundings)'
    BY <2>2, <2>3, <2>5, <2>6 DEF InOrder
  <2>8. CachesFit(caches, Cardinality(runs), surroundings)'
    BY <2>2, <2>3, <2>5, <2>6 DEF CachesFit
  <2>4. \A s \in surroundings' : AroundWell(s)'
    BY <2>2 DEF AroundWell
  <2> QED BY <2>2, <2>4, <2>7, <2>8 DEF WellMeasured
<1>3. MeasuredInIsolation'
  BY IsolationStays DEF AcquisitionInv
<1> QED BY <1>1, <1>2, <1>3 DEF AcquisitionInv

(* A refused request leaves a result without an artifact.                  *)
LEMMA RefuseKeepsAcquisition ==
  ASSUME AcquisitionInv, Refuse
  PROVE  AcquisitionInv'
BY DEF AcquisitionInv, AsRequested, UnmeasuredSoFar, WellMeasured, MeasuredInIsolation, Refuse

(* The snapshot is taken before anything runs.                             *)
LEMMA TakeSnapshotKeepsAcquisition ==
  ASSUME AcquisitionInv, TakeSnapshot
  PROVE  AcquisitionInv'
BY DEF AcquisitionInv, AsRequested, UnmeasuredSoFar, WellMeasured, MeasuredInIsolation, TakeSnapshot

(* From here on the content of the snapshot is not what was taken. *)
LEMMA DisturbKeepsAcquisition ==
  ASSUME AcquisitionInv, Disturb
  PROVE  AcquisitionInv'
<1> USE DEF Disturb
<1>1. AsRequested' /\ UnmeasuredSoFar'
  BY DEF AcquisitionInv, AsRequested, UnmeasuredSoFar
<1>2. WellMeasured'
  <2>1. SUFFICES ASSUME stage = "MEASURING" PROVE WellMeasured'
    BY DEF WellMeasured
  <2>2. /\ IsMeasurable(manifest) /\ InOrder(runs, surroundings)
        /\ CachesFit(caches, Cardinality(runs), surroundings)
        /\ \A s \in surroundings : AroundWell(s)
    BY <2>1 DEF AcquisitionInv, WellMeasured
  <2>3. /\ \A i, e : RunOf(i, e)' = RunOf(i, e)
        /\ \A i : KeyOf(i)' = KeyOf(i)
        /\ Total' = Total
    BY StaysPlaced
  <2>5. runs' = runs /\ surroundings' = surroundings /\ caches' = caches
    OBVIOUS
  <2>6. \A s, j : IsPlaced(s, j)' <=> IsPlaced(s, j)
    BY <2>3 DEF IsPlaced
  <2>7. InOrder(runs, surroundings)'
    BY <2>2, <2>3, <2>5, <2>6 DEF InOrder
  <2>8. CachesFit(caches, Cardinality(runs), surroundings)'
    BY <2>2, <2>3, <2>5, <2>6 DEF CachesFit
  <2>4. \A s \in surroundings' : AroundWell(s)'
    BY <2>2 DEF AroundWell
  <2> QED BY <2>2, <2>4, <2>7, <2>8 DEF WellMeasured
<1>3. MeasuredInIsolation'
  BY IsolationStays DEF AcquisitionInv
<1> QED BY <1>1, <1>2, <1>3 DEF AcquisitionInv

(* A failure ends the acquisition without an artifact.                     *)
LEMMA FailKeepsAcquisition ==
  ASSUME AcquisitionInv, Fail, stage # "NONE"
  PROVE  AcquisitionInv'
BY DEF AcquisitionInv, AsRequested, UnmeasuredSoFar, WellMeasured, MeasuredInIsolation, Fail

(* The fresh campaign: nothing has been measured when it ends. *)
LEMMA VerifyKeepsAcquisition ==
  ASSUME AcquisitionInv, Verify
  PROVE  AcquisitionInv'
<1>1. /\ stage = "SNAPSHOT" /\ request' = request /\ request \in Requests /\ RequestIsAccepted(request)
      /\ runs = {} /\ caches = {} /\ surroundings = {}
      /\ runs' = runs /\ caches' = caches /\ surroundings' = surroundings
  BY DEF Verify, AcquisitionInv, AsRequested, UnmeasuredSoFar
<1>2. PICK obs \in Evidence1 :
        LET m == DecideEvidence(snapshot, obs)
        IN /\ manifest' = m
           /\ \/ m.decision.status = "VERIFIED" /\ stage' = "MEASURING"
              \/ stage' = "DONE" /\ result'.artifact = NoArtifact
  <2>1. PICK obs \in Evidence1 :
          LET m == DecideEvidence(snapshot, obs)
          IN /\ manifest' = m
             /\ IF m.decision.status = "VERIFIED" /\ ReplayManifest(m)
                THEN stage' = "MEASURING"
                ELSE /\ stage' = "DONE"
                     /\ result' = ResultOf("SOURCE_NOT_VERIFIED", m, NoArtifact, ContextOf(request, <<>>))
    BY DEF Verify
  <2>2. \A m, c : ResultOf("SOURCE_NOT_VERIFIED", m, NoArtifact, c).artifact = NoArtifact
    BY DEF ResultOf, SealResult
  <2> QED BY <2>1, <2>2
<1>3. AsRequested'
  <2>1. RequestIsAccepted(request)'
    BY <1>1
  <2> QED BY <1>1, <1>2, <2>1 DEF AsRequested
<1>4. UnmeasuredSoFar'
  BY <1>2 DEF UnmeasuredSoFar
<1>5. MeasuredInIsolation'
  BY <1>2 DEF MeasuredInIsolation
<1>6. WellMeasured'
  <2>1. SUFFICES ASSUME stage' = "MEASURING" PROVE WellMeasured'
    BY DEF WellMeasured
  <2>2. IsMeasurable(manifest')
    BY <1>2, <2>1, VerifiedIsMeasurable
  <2>3. Total' \in Nat
    <3>1. Len(manifest'.decision.selected) \in Nat
      BY <2>2, SeqOfCandidates DEF IsMeasurable
    <3>2. PerSubject \in Nat
      BY <1>1, PlanNumbers
    <3>3. Total' = Len(manifest'.decision.selected) * PerSubject
      BY <1>1 DEF Total, PerSubject, Plan
    <3> QED BY <3>1, <3>2, <3>3
  <2>4. IsFiniteSet({}) /\ Cardinality({}) = 0
    BY FS_EmptySet
  <2>5. InOrder(runs, surroundings)'
    BY <1>1, <2>3, <2>4 DEF InOrder
  <2>6. CachesFit(caches, Cardinality(runs), surroundings)'
    BY <1>1 DEF CachesFit
  <2>7. surroundings' = {}
    BY <1>1
  <2> QED BY <2>2, <2>5, <2>6, <2>7 DEF WellMeasured
<1> QED BY <1>3, <1>4, <1>5, <1>6 DEF AcquisitionInv

(* One measurement more, in a workspace of the snapshot as it is. *)
LEMMA MeasureKeepsAcquisition ==
  ASSUME AcquisitionInv, Measure
  PROVE  AcquisitionInv'
<1>1. /\ stage = "MEASURING" /\ Cardinality(runs) < Total
      /\ UNCHANGED <<request, stage, held, snapshot, manifest, result>>
  BY DEF Measure
<1>2. /\ request \in Requests /\ RequestIsAccepted(request)
      /\ IsMeasurable(manifest) /\ InOrder(runs, surroundings)
      /\ CachesFit(caches, Cardinality(runs), surroundings)
      /\ \A s \in surroundings : AroundWell(s)
  BY <1>1 DEF AcquisitionInv, AsRequested, WellMeasured
<1> DEFINE n == Cardinality(runs)
           seen == {c \in caches : c.key = KeyOf(n + 1)}
           before == UNION {c.runs : c \in seen}
           around(end) ==
             [run |-> RunOf(n + 1, end), end |-> end, before |-> before, content |-> snapshot,
              reporter |-> WorkspaceContentAt(request.reporter, snapshot, request.overlays)]
<1>3. PICK end \in Ends :
        /\ runs' = runs \cup {RunOf(n + 1, end)}
        /\ caches' = (caches \ seen) \cup {[key |-> KeyOf(n + 1), runs |-> before \cup {RunOf(n + 1, end)}]}
        /\ surroundings' = surroundings \cup {around(end)}
  BY DEF Measure, KeyOf
<1> DEFINE u == around(end)
<1>4. n \in Nat /\ n < Total
  BY <1>1, <1>2, FS_CardinalityType DEF InOrder
<1>5. /\ u.run = RunOf(n + 1, end) /\ u.end = end /\ u.before = before /\ u.content = snapshot
      /\ u.reporter = WorkspaceContentAt(request.reporter, snapshot, request.overlays)
  OBVIOUS
<1>6. IsPlaced(u, n + 1)
  BY <1>5 DEF IsPlaced
<1>7. runs' = runs \cup {u.run} /\ surroundings' = surroundings \cup {u}
  BY <1>3, <1>5
<1>8. caches' = (caches \ seen) \cup {[key |-> KeyOf(n + 1), runs |-> before \cup {u.run}]}
  BY <1>3, <1>5
<1> HIDE DEF u
<1>9. Cardinality(runs') = n + 1 /\ InOrder(runs', surroundings')
  BY <1>1, <1>2, <1>6, <1>7, OneMore
<1>10. CachesFit(caches', n + 1, surroundings')
  <2> HIDE DEF n
  <2> DEFINE s1 == seen
             b1 == before
  <2>1. s1 = {c \in caches : c.key = KeyOf(n + 1)} /\ b1 = UNION {c.runs : c \in s1}
    OBVIOUS
  <2>2. CachesFit(caches, n, surroundings)
    BY <1>2 DEF n
  <2>3. caches' = (caches \ s1) \cup {[key |-> KeyOf(n + 1), runs |-> b1 \cup {u.run}]}
    BY <1>8
  <2> HIDE DEF s1, b1
  <2>4. CachesFit((caches \ s1) \cup {[key |-> KeyOf(n + 1), runs |-> b1 \cup {u.run}]}, n + 1,
                  surroundings \cup {u})
    BY <2>1, <2>2, <1>4, <1>6, CachesGrow
  <2> QED BY <2>3, <2>4, <1>7
<1>11. AroundWell(u)
  <2>1. /\ RunOf(n + 1, end).regime = "COLD" => before = {}
        /\ RunOf(n + 1, end).regime = "WARM" =>
             \A b \in before : b.regime = "WARM" /\ b.candidate = RunOf(n + 1, end).candidate
    BY <1>2, <1>4, FoundInCache
  <2>2. WorkspaceContentAt(request.reporter, snapshot, request.overlays)
          = ContentAt(request.reporter, snapshot)
    BY <1>2, ReporterIsIsolated
  <2> HIDE DEF before
  <2> QED BY <2>1, <2>2, <1>5 DEF AroundWell
<1>12. AsRequested' /\ UnmeasuredSoFar'
  BY <1>1, <1>2 DEF AsRequested, UnmeasuredSoFar
<1>13. MeasuredInIsolation'
  BY <1>1 DEF MeasuredInIsolation
<1>14. WellMeasured'
  <2>1. IsMeasurable(manifest')
    BY <1>1, <1>2
  <2>2. InOrder(runs, surroundings)' /\ CachesFit(caches, Cardinality(runs), surroundings)'
    BY <1>1, <1>9, <1>10, StaysPlaced DEF InOrder, CachesFit, IsPlaced
  <2>3. \A s \in surroundings' : AroundWell(s)'
    BY <1>1, <1>2, <1>7, <1>11 DEF AroundWell
  <2> QED BY <2>1, <2>2, <2>3 DEF WellMeasured
<1> QED BY <1>12, <1>13, <1>14 DEF AcquisitionInv

(* Nothing is left to measure, and the snapshot is as it was taken. *)
LEMMA FinishKeepsAcquisition ==
  ASSUME AcquisitionInv, Finish
  PROVE  AcquisitionInv'
<1>1. /\ stage = "MEASURING" /\ Cardinality(runs) = Total /\ snapshot = "taken"
      /\ stage' = "DONE"
      /\ UNCHANGED <<request, snapshot, manifest, caches, runs, surroundings>>
  BY DEF Finish
<1>2. /\ request \in Requests
      /\ IsMeasurable(manifest) /\ InOrder(runs, surroundings)
      /\ \A s \in surroundings : AroundWell(s)
  BY <1>1 DEF AcquisitionInv, AsRequested, WellMeasured
<1>3. /\ result'.context.snapshot = "taken"
      /\ result'.context.reporterDigest = ContentAt(request.reporter, "taken")
      /\ result'.status = AcquisitionStatus(Summaries(manifest, Plan, runs))
  <2> DEFINE context == ContextOf(request, manifest.decision.selected)
             artifact == CreateBenchmark(manifest, ReferenceWorld, Plan, FingerprintOf(context), runs)
  <2>1. result' = ResultOf(AcquisitionStatus(artifact.body.summaries), manifest, artifact, context)
    BY DEF Finish
  <2>2. artifact.body.summaries = Summaries(manifest, Plan, runs)
    BY DEF CreateBenchmark, Sealed
  <2>3. context.snapshot = "taken" /\ context.reporterDigest = ContentAt(request.reporter, "taken")
    BY DEF ContextOf
  <2> HIDE DEF context, artifact
  <2>4. /\ result'.context = context
        /\ result'.status = AcquisitionStatus(artifact.body.summaries)
    BY <2>1 DEF ResultOf, SealResult
  <2> QED BY <2>2, <2>3, <2>4
<1>4. \A s \in surroundings :
        /\ s.content = "taken" /\ s.reporter = ContentAt(request.reporter, "taken")
        /\ s.run.regime = "COLD" => s.before = {}
        /\ s.run.regime = "WARM" =>
             \A b \in s.before : b.regime = "WARM" /\ b.candidate = s.run.candidate
  BY <1>1, <1>2 DEF AroundWell
<1>5. ASSUME NEW s \in surroundings, s.run.outcome = "PASS"
      PROVE  s.end.process = "PASS" /\ s.end.exit = 0 /\ s.end.report = "PASS"
  <2>1. PICK j \in 1 .. Cardinality(runs) : IsPlaced(s, j)
    BY <1>2 DEF InOrder
  <2> QED BY <1>5, <2>1, PassedMeasures DEF IsPlaced
<1>6. ASSUME AcquisitionStatus(Summaries(manifest, Plan, runs)) = "COMPLETE", NEW c \in Selected(manifest)
      PROVE  Cardinality({s \in surroundings : s.run.candidate = c /\ s.end.report = "PASS"})
               = PerCandidate(Plan)
  <2>1. \A s \in surroundings : s.end.report = "PASS"
    BY <1>2, <1>5, <1>6, CompletePassed
  <2>2. {s \in surroundings : s.run.candidate = c /\ s.end.report = "PASS"}
          = {s \in surroundings : s.run.candidate = c}
    BY <2>1
  <2> QED BY <1>1, <1>2, <2>2, MeasuredAsPlanned DEF PerSubject
<1>7. MeasuredInIsolation'
  <2>1. Plan' = Plan
    BY <1>1 DEF Plan
  <2>2. /\ ControlsAreValid(manifest.observations)
        /\ \A c \in Selected(manifest) : Required \cap Targets \subseteq KilledWorlds(manifest.observations, c)
    BY <1>2 DEF IsMeasurable
  <2> QED BY <1>1, <1>3, <1>4, <1>5, <1>6, <2>1, <2>2 DEF MeasuredInIsolation
<1>8. AsRequested' /\ UnmeasuredSoFar' /\ WellMeasured'
  BY <1>1, <1>2 DEF AsRequested, UnmeasuredSoFar, WellMeasured
<1> QED BY <1>7, <1>8 DEF AcquisitionInv

(* Every step of an acquisition keeps the invariant.                       *)
LEMMA AcquireKeepsAcquisition ==
  ASSUME AcquisitionInv, Acquire
  PROVE  AcquisitionInv'
<1>1. CASE Refuse
  BY <1>1, RefuseKeepsAcquisition
<1>2. CASE TakeSnapshot
  BY <1>2, TakeSnapshotKeepsAcquisition
<1>3. CASE Disturb
  BY <1>3, DisturbKeepsAcquisition
<1>4. CASE CampaignThrows
  BY <1>4, FailKeepsAcquisition DEF CampaignThrows
<1>5. CASE Verify
  BY <1>5, VerifyKeepsAcquisition
<1>6. CASE DriftedDuringCampaign
  BY <1>6, FailKeepsAcquisition DEF DriftedDuringCampaign
<1>7. CASE Measure
  BY <1>7, MeasureKeepsAcquisition
<1>8. CASE Finish
  BY <1>8, FinishKeepsAcquisition
<1>9. CASE DriftedDuringMeasurement
  BY <1>9, FailKeepsAcquisition DEF DriftedDuringMeasurement
<1>10. CASE MeasurementThrows
  BY <1>10, FailKeepsAcquisition DEF MeasurementThrows
<1> QED BY <1>1, <1>2, <1>3, <1>4, <1>5, <1>6, <1>7, <1>8, <1>9, <1>10 DEF Acquire

(* A benchmark with timings comes from the snapshot it names: see          *)
(* MeasuredInIsolation.                                                    *)
THEOREM Isolated == Spec => []MeasuredInIsolation
<1>1. Init => AcquisitionInv
  BY InitAcquisitionInv
<1>2. AcquisitionInv /\ [Next]_vars => AcquisitionInv'
  <2> SUFFICES ASSUME AcquisitionInv, [Next]_vars PROVE AcquisitionInv'
    OBVIOUS
  <2>1. CASE Acquire
    BY <2>1, AcquireKeepsAcquisition
  <2>2. CASE UNCHANGED acquisitionVars
    BY <2>2, QuietKeepsAcquisition
  <2>3. Acquire \/ UNCHANGED acquisitionVars
    BY DEF Next, AcquireStep, MakeProfile, MakeExport, MakeProfileV2, Edit, vars
  <2> QED BY <2>1, <2>2, <2>3
<1>3. AcquisitionInv => MeasuredInIsolation
  BY DEF AcquisitionInv
<1> QED BY <1>1, <1>2, <1>3, PTL DEF Spec

-----------------------------------------------------------------------------
(* What observations show.                                                 *)

(* Complete runs have each attempt once.                                   *)
LEMMA CompleteIsOnce ==
  ASSUME NEW obs, IsFiniteSet(obs), IsComplete(obs)
  PROVE  /\ {o.attempt : o \in obs} = Attempts
         /\ \A o, p \in obs : o.attempt = p.attempt => o = p
<1> DEFINE T == {o.attempt : o \in obs}
           f == [o \in obs |-> o.attempt]
<1>1. f \in Surjection(obs, T)
  BY DEF Surjection
<1>2. IsFiniteSet(T) /\ Cardinality(T) <= Cardinality(obs)
  BY <1>1, FS_Surjection
<1>3. Cardinality(T) = Cardinality(obs) => f \in Injection(obs, T)
  BY <1>1, FS_Surjection
<1>4. RequiredAttempts \in Nat \ {0} /\ Cardinality(obs) = RequiredAttempts
  BY EvidenceAssumption DEF IsComplete
<1>5. Cardinality(Attempts) = RequiredAttempts
  BY <1>4, FS_Interval DEF Attempts
<1>6. Attempts \in SUBSET T
  BY DEF IsComplete
<1>7. Cardinality(Attempts) <= Cardinality(T) /\ (Cardinality(Attempts) = Cardinality(T) => T = Attempts)
  <2> HIDE DEF T
  <2> QED BY <1>2, <1>6, FS_Subset
<1>8. Cardinality(T) \in Nat
  BY <1>2, FS_CardinalityType
<1>9. Cardinality(T) = RequiredAttempts
  BY <1>2, <1>4, <1>5, <1>7, <1>8
<1>10. \A o, p \in obs : f[o] = f[p] => o = p
  BY <1>3, <1>4, <1>9 DEF Injection, IsInjective
<1> QED BY <1>5, <1>7, <1>9, <1>10

(* And runs that have each attempt once are complete.                      *)
LEMMA OnceIsComplete ==
  ASSUME NEW obs, {o.attempt : o \in obs} = Attempts, \A o, p \in obs : o.attempt = p.attempt => o = p
  PROVE  IsComplete(obs)
<1> DEFINE g == [n \in Attempts |-> CHOOSE o \in obs : o.attempt = n]
<1>1. \A n \in Attempts : g[n] \in obs /\ g[n].attempt = n
  <2>1. ASSUME NEW n \in Attempts PROVE \E o \in obs : o.attempt = n
    OBVIOUS
  <2> QED BY <2>1
<1>2. \A o \in obs : o.attempt \in Attempts /\ g[o.attempt] = o
  <2>1. \A o \in obs : o.attempt \in Attempts
    OBVIOUS
  <2> QED BY <1>1, <2>1
<1>3. g \in Bijection(Attempts, obs)
  <2>1. g \in [Attempts -> obs]
    BY <1>1
  <2> HIDE DEF g
  <2> QED BY <1>1, <1>2, <2>1 DEF Bijection, Injection, IsInjective, Surjection
<1>4. RequiredAttempts \in Nat \ {0}
  BY EvidenceAssumption
<1>5. IsFiniteSet(Attempts) /\ Cardinality(Attempts) = RequiredAttempts
  BY <1>4, FS_Interval DEF Attempts
<1>6. Cardinality(obs) = RequiredAttempts
  <2>1. ExistsBijection(Attempts, obs)
    BY <1>3 DEF ExistsBijection
  <2> QED BY <1>5, <2>1, FS_Bijection
<1> QED BY <1>1, <1>6 DEF IsComplete

(* The kinds of the worlds.                                                *)
LEMMA WorldKindOf ==
  ASSUME NEW w \in Worlds
  PROVE  w \in Targets \/ w \in WorldsOf("REFERENCE") \/ w \in WorldsOf("NEUTRAL")
BY EvidenceAssumption DEF WorldKinds, WorldsOf, Targets

(* The observations of an eligible candidate show a regression.            *)
LEMMA EligibleShows ==
  ASSUME NEW obs, IsFiniteSet(obs), \A o \in obs : o.world \in Worlds,
         ControlsAreValid(obs), NEW c, Status(obs, c) = "ELIGIBLE"
  PROVE  Shows(obs, c)
<1>1. /\ Complete(obs, c) /\ Stable(obs, c) /\ UndiscoveredRuns(obs, c) = {}
      /\ ~ExecutionInconclusive(obs, c)
      /\ GreenIn(obs, c, "REFERENCE") /\ GreenIn(obs, c, "NEUTRAL") /\ TargetPassed(obs, c)
  BY EligiblePassed
<1> DEFINE all(x, w) == {o \in obs : o.candidate = x /\ o.world = w}
           once(x, w) == /\ {o.attempt : o \in all(x, w)} = Attempts
                         /\ \A o, p \in all(x, w) : o.attempt = p.attempt => o = p
<1>2. \A x, w : IsFiniteSet(all(x, w)) /\ all(x, w) = RunsFor(obs, x, w)
  BY FS_Subset DEF RunsFor
<1>3. ASSUME NEW x, NEW w, IsComplete(RunsFor(obs, x, w)) PROVE once(x, w)
  <2> HIDE DEF all
  <2> QED BY <1>2, <1>3, CompleteIsOnce
<1>4. \A o \in obs : o.candidate = Control => o.outcome = "PASS" /\ o.candidateTests = 0 /\ ~o.attributed
  BY DEF ControlsAreValid, RunsFor
<1>5. ASSUME NEW w \in Worlds
      PROVE  /\ once(Control, w) /\ once(c, w)
             /\ \A o, p \in all(c, w) : o.outcome = p.outcome
             /\ \A o \in all(c, w) : o.attributed /\ o.candidateTests >= 1
             /\ \A o \in all(c, w) : o.outcome \notin {"TIMEOUT", "INFRA_ERROR"}
  <2>1. once(Control, w)
    BY <1>3 DEF ControlsAreValid, IsCompleteStable
  <2>2. once(c, w)
    BY <1>1, <1>3 DEF Complete
  <2>3. \A o, p \in all(c, w) : o.outcome = p.outcome
    BY <1>1, <1>2 DEF Stable, IsCompleteStable
  <2>4. \A o \in all(c, w) : o.attributed /\ o.candidateTests >= 1
    BY <1>1 DEF UndiscoveredRuns, CandidateRuns
  <2>5. \A o \in all(c, w) : o.outcome \notin {"TIMEOUT", "INFRA_ERROR"}
    BY <1>1 DEF ExecutionInconclusive, CandidateRuns, InconclusiveOutcomes
  <2> QED BY <2>1, <2>2, <2>3, <2>4, <2>5
<1>6. ASSUME NEW w \in Worlds \ Targets PROVE \A o \in all(c, w) : o.outcome = "PASS"
  BY <1>1, <1>2, WorldKindOf DEF GreenIn
<1>7. ASSUME NEW w \in RequiredTargets PROVE \A o \in all(c, w) : o.outcome = "ASSERTION_FAILURE"
  <2>1. w \in KilledWorlds(obs, c)
    BY <1>1 DEF RequiredTargets, TargetPassed
  <2> QED BY <1>2, <2>1 DEF KilledWorlds
<1> HIDE DEF all
<1>8. \A w \in Worlds :
        /\ once(Control, w) /\ once(c, w)
        /\ \A o, p \in all(c, w) : o.outcome = p.outcome
        /\ \A o \in all(c, w) : o.attributed /\ o.candidateTests >= 1
        /\ \A o \in all(c, w) : o.outcome \notin {"TIMEOUT", "INFRA_ERROR"}
  BY <1>5
<1> QED BY <1>4, <1>6, <1>7, <1>8 DEF Shows, all

(* And observations that show one and reach the targets make a candidate   *)
(* eligible under valid controls.                                          *)
LEMMA ShowsEligible ==
  ASSUME NEW obs, NEW c, Shows(obs, c), TargetPassed(obs, c)
  PROVE  ControlsAreValid(obs) /\ Status(obs, c) = "ELIGIBLE"
<1> DEFINE all(x, w) == {o \in obs : o.candidate = x /\ o.world = w}
           once(x, w) == /\ {o.attempt : o \in all(x, w)} = Attempts
                         /\ \A o, p \in all(x, w) : o.attempt = p.attempt => o = p
<1>1. /\ \A o \in obs : o.candidate = Control => o.outcome = "PASS" /\ o.candidateTests = 0 /\ ~o.attributed
      /\ \A w \in Worlds :
           /\ once(Control, w) /\ once(c, w)
           /\ \A o, p \in all(c, w) : o.outcome = p.outcome
           /\ \A o \in all(c, w) : o.attributed /\ o.candidateTests >= 1
           /\ \A o \in all(c, w) : o.outcome \notin {"TIMEOUT", "INFRA_ERROR"}
      /\ \A w \in Worlds \ Targets : \A o \in all(c, w) : o.outcome = "PASS"
  BY DEF Shows
<1>2. \A x, w : RunsFor(obs, x, w) = all(x, w)
  BY DEF RunsFor
<1>3. ASSUME NEW x, NEW w, once(x, w) PROVE IsComplete(RunsFor(obs, x, w))
  <2> HIDE DEF all
  <2> QED BY <1>2, <1>3, OnceIsComplete
<1>4. ControlsAreValid(obs)
  <2>1. ASSUME NEW w \in Worlds PROVE IsCompleteStable(RunsFor(obs, Control, w))
    <3>1. IsComplete(RunsFor(obs, Control, w))
      BY <1>1, <1>3
    <3>2. \A o \in RunsFor(obs, Control, w) : o.outcome = "PASS"
      BY <1>1 DEF RunsFor
    <3> QED BY <3>1, <3>2 DEF IsCompleteStable
  <2>2. ASSUME NEW w \in Worlds, NEW o \in RunsFor(obs, Control, w)
        PROVE  o.outcome = "PASS" /\ o.candidateTests = 0 /\ ~o.attributed
    BY <1>1 DEF RunsFor
  <2> QED BY <2>1, <2>2 DEF ControlsAreValid
<1>5. Complete(obs, c)
  BY <1>1, <1>3 DEF Complete
<1>6. Stable(obs, c)
  <2>1. ASSUME NEW w \in Worlds PROVE IsCompleteStable(RunsFor(obs, c, w))
    <3>1. IsComplete(RunsFor(obs, c, w))
      BY <1>1, <1>3
    <3>2. \A o, p \in RunsFor(obs, c, w) : o.outcome = p.outcome
      BY <1>1, <1>2
    <3> QED BY <3>1, <3>2 DEF IsCompleteStable
  <2> QED BY <2>1 DEF Stable
<1>7. UndiscoveredRuns(obs, c) = {} /\ ~ExecutionInconclusive(obs, c)
  <2>1. ASSUME NEW o \in CandidateRuns(obs, c)
        PROVE  o.attributed /\ o.candidateTests >= 1 /\ o.outcome \notin {"TIMEOUT", "INFRA_ERROR"}
    BY <1>1 DEF CandidateRuns
  <2> QED BY <2>1 DEF UndiscoveredRuns, ExecutionInconclusive, InconclusiveOutcomes
<1>8. GreenIn(obs, c, "REFERENCE") /\ GreenIn(obs, c, "NEUTRAL")
  <2>1. \A w \in WorldsOf("REFERENCE") \cup WorldsOf("NEUTRAL") : w \in Worlds \ Targets
    BY DEF WorldsOf, Targets
  <2>2. \A w \in WorldsOf("REFERENCE") \cup WorldsOf("NEUTRAL") : \A o \in RunsFor(obs, c, w) : o.outcome = "PASS"
    BY <1>1, <1>2, <2>1
  <2> QED BY <2>2 DEF GreenIn
<1> QED BY <1>4, <1>5, <1>6, <1>7, <1>8 DEF Status

-----------------------------------------------------------------------------
(* The greedy selection finds an eligible candidate when there is one: the *)
(* lemmas of the same names in Campaign_proofs, for any observations.      *)

(* Of any candidates, one comes first in the order a round sorts by.       *)
LEMMA FirstExists ==
  ASSUME NEW a, NEW chosen, NEW S, S \subseteq Candidates, S # {},
         \A c \in S : a[c].killed \subseteq Targets
  PROVE  \E c \in S : \A d \in S : Precedes(a, c, d, chosen)
<1> DEFINE gain == [c \in S |-> Cardinality(Marginal(a, c, chosen))]
           loss == [c \in S |-> Cardinality(Targets) - gain[c]]
<1>1. Cardinality(Targets) \in Nat /\ \A c \in S : gain[c] \in Nat /\ loss[c] \in Nat
  <2>1. IsFiniteSet(Targets)
    <3>1. Targets \in SUBSET Worlds
      BY DEF Targets, WorldsOf
    <3> QED BY <3>1, EvidenceAssumption, FS_Subset
  <2>2. ASSUME NEW c \in S
        PROVE  /\ Cardinality(Marginal(a, c, chosen)) \in Nat
               /\ Cardinality(Marginal(a, c, chosen)) <= Cardinality(Targets)
    <3>1. Marginal(a, c, chosen) \in SUBSET Targets
      BY DEF Marginal
    <3>2. /\ IsFiniteSet(Marginal(a, c, chosen))
          /\ Cardinality(Marginal(a, c, chosen)) <= Cardinality(Targets)
      BY <3>1, <2>1, FS_Subset
    <3> QED BY <3>2, FS_CardinalityType
  <2>3. Cardinality(Targets) \in Nat
    BY <2>1, FS_CardinalityType
  <2> QED BY <2>2, <2>3
<1> HIDE DEF gain
<1>2. PICK x \in S : \A y \in S : loss[x] <= loss[y]
  <2> HIDE DEF loss
  <2> QED BY <1>1, LeastExists
<1> DEFINE best == {c \in S : gain[c] = gain[x]}
<1>3. PICK y \in best : \A z \in best : Size[y] <= Size[z]
  <2>1. best # {} /\ \A c \in best : Size[c] \in Nat
    BY EvidenceAssumption
  <2> HIDE DEF best
  <2> QED BY <2>1, LeastExists
<1> DEFINE smallest == {c \in best : Size[c] = Size[y]}
<1>4. PICK z \in smallest : \A v \in smallest : Rank[z] <= Rank[v]
  <2>1. smallest # {} /\ \A c \in smallest : Rank[c] \in Nat
    BY <1>3, EvidenceAssumption
  <2> HIDE DEF smallest
  <2> QED BY <2>1, LeastExists
<1>5. ASSUME NEW d \in S
      PROVE  Precedes(a, z, d, chosen)
  <2>1. gain[z] = gain[x] /\ Size[z] = Size[y] /\ z \in S
    BY <1>4
  <2>2. gain[z] >= gain[d]
    BY <1>1, <1>2, <2>1
  <2>3. gain[z] = gain[d] => Size[z] <= Size[d]
    BY <1>3, <2>1
  <2>4. gain[z] = gain[d] /\ Size[z] = Size[d] => Rank[z] <= Rank[d]
    BY <1>4, <2>1
  <2>5. Size[z] \in Nat /\ Size[d] \in Nat /\ gain[z] \in Nat /\ gain[d] \in Nat
    BY <1>1, <2>1, EvidenceAssumption
  <2>6. /\ gain[z] = Cardinality(Marginal(a, z, chosen))
        /\ gain[d] = Cardinality(Marginal(a, d, chosen))
    BY <2>1 DEF gain
  <2> QED BY <2>2, <2>3, <2>4, <2>5, <2>6 DEF Precedes
<1> QED BY <1>4, <1>5

(* An eligible candidate killed a required target.                         *)
LEMMA EligibleKills ==
  ASSUME NEW obs, NEW c \in Candidates
  PROVE  /\ Assess(obs)[c].killed \subseteq Targets
         /\ c \in Eligible(Assess(obs)) => Assess(obs)[c].killed # {}
<1>1. Assess(obs)[c] = [status |-> Status(obs, c), killed |-> KilledTargets(obs, c)]
  BY DEF Assess
<1>2. KilledTargets(obs, c) \subseteq Targets
  BY DEF KilledTargets, KilledWorlds
<1>3. ASSUME c \in Eligible(Assess(obs))
      PROVE  KilledTargets(obs, c) # {}
  <2>1. Status(obs, c) = "ELIGIBLE"
    BY <1>1, <1>3 DEF Eligible
  <2>2. /\ Stable(obs, c) /\ UndiscoveredRuns(obs, c) = {}
        /\ Required \cap Targets \subseteq KilledWorlds(obs, c)
    BY <2>1 DEF Status, TargetPassed
  <2>3. Required \cap Targets # {}
    BY EvidenceAssumption DEF WorldKinds, Targets, WorldsOf
  <2> QED BY <2>2, <2>3 DEF KilledTargets
<1> QED BY <1>1, <1>2, <1>3

(* The selection is empty only when no candidate is eligible.              *)
LEMMA EmptyOnlyIfNoneEligible ==
  ASSUME NEW obs, IsSelection(Assess(obs), <<>>)
  PROVE  Eligible(Assess(obs)) = {}
<1> DEFINE a == Assess(obs)
<1> SUFFICES ASSUME Eligible(a) # {} PROVE FALSE
  OBVIOUS
<1>1. NextChoice(a, {}) = {}
  <2>1. Taken(<<>>, Len(<<>>)) = {}
    BY DEF Taken
  <2> QED BY <2>1 DEF IsSelection
<1>2. Eligible(a) \subseteq Candidates /\ Eligible(a) \ {} = Eligible(a)
  BY DEF Eligible
<1>3. PICK c \in Eligible(a) : \A d \in Eligible(a) : Precedes(a, c, d, {})
  <2>1. \A c \in Eligible(a) : a[c].killed \subseteq Targets
    BY <1>2, EligibleKills
  <2> HIDE DEF a
  <2> QED BY <1>2, <2>1, FirstExists
<1>4. Marginal(a, c, {}) # {}
  <2>1. Marginal(a, c, {}) = a[c].killed
    BY DEF Marginal, Covered
  <2> QED BY <2>1, <1>2, EligibleKills
<1>5. ~(Cardinality({}) >= MaximumSelected)
  BY FS_EmptySet, EvidenceAssumption
<1> QED BY <1>1, <1>2, <1>3, <1>4, <1>5 DEF NextChoice

(* On acceptable observations with valid controls, only a verified         *)
(* decision leaves an eligible candidate.                                  *)
LEMMA NoneIsEligible ==
  ASSUME NEW obs, NEW d \in DecisionsGiven(obs, Assess(obs)), d.status \notin {"VERIFIED", "ENGINE_ERROR"},
         ControlsAreValid(obs), NEW c \in Candidates
  PROVE  Status(obs, c) # "ELIGIBLE"
<1>1. d \in {Conclude(Assess(obs), s) : s \in {q \in CandidateSeqs : IsSelection(Assess(obs), q)}}
  BY DEF DecisionsGiven
<1>2. PICK s \in CandidateSeqs : IsSelection(Assess(obs), s) /\ d = Conclude(Assess(obs), s)
  BY <1>1
<1>3. s = <<>>
  BY <1>2 DEF Conclude
<1>4. Eligible(Assess(obs)) = {}
  BY <1>2, <1>3, EmptyOnlyIfNoneEligible
<1> QED BY <1>4 DEF Eligible, Assess

(* What the reason of a decision other than an engine error tells.         *)
LEMMA ReasonTellsControls ==
  ASSUME NEW obs, NEW d, d.status # "ENGINE_ERROR", ReasonFor(obs, d) # "CONTROL_EVIDENCE_INVALID"
  PROVE  ControlsAreValid(obs)
BY DEF ReasonFor

-----------------------------------------------------------------------------
(* What a manifest that replays says.                                      *)

(* A manifest that replays records what its own observations decide.       *)
LEMMA ReplayedManifest ==
  ASSUME NEW m, ReplayManifest(m)
  PROVE  /\ m.candidates = Assess(m.observations)
         /\ \E d \in DecisionsGiven(m.observations, Assess(m.observations)) :
              /\ d.status # "ENGINE_ERROR"
              /\ m.decision = [status |-> d.status, selected |-> d.selected,
                               reason |-> ReasonFor(m.observations, d)]
<1> DEFINE obs == m.observations
           again == DecideEvidence(m.repository, obs)
<1>1. /\ again.decision.status # "ENGINE_ERROR"
      /\ again.candidates = m.candidates /\ again.decision = m.decision
  BY DEF ReplayManifest, DecisionSemanticsValid
<1>2. PICK d \in DecisionsGiven(obs, Assess(obs)) :
        /\ again.decision = [status |-> d.status, selected |-> d.selected, reason |-> ReasonFor(obs, d)]
        /\ d.status # "ENGINE_ERROR" =>
             again.observations = obs /\ again.candidates = Assess(obs) /\ again.repository = m.repository
  BY ManifestHolds
<1> HIDE DEF again
<1>3. d.status # "ENGINE_ERROR"
  BY <1>1, <1>2
<1> QED BY <1>1, <1>2, <1>3

(* Its verified decision comes with a candidate whose runs show a          *)
(* regression.                                                             *)
LEMMA VerifiedShows ==
  ASSUME NEW m, ParsesAsManifest(m), ReplayManifest(m), IsFiniteSet(m.observations),
         m.decision.status = "VERIFIED"
  PROVE  \E c \in Candidates : Shows(m.observations, c) /\ TargetPassed(m.observations, c)
<1> DEFINE obs == m.observations
<1>1. PICK d \in DecisionsGiven(obs, Assess(obs)) :
        m.decision = [status |-> d.status, selected |-> d.selected, reason |-> ReasonFor(obs, d)]
  BY ReplayedManifest
<1>2. d.status = "VERIFIED"
  BY <1>1
<1>3. /\ ControlsAreValid(obs) /\ d.selected \in CandidateSeqs
      /\ IsSelection(Assess(obs), d.selected) /\ d.selected # <<>>
  BY <1>2, VerifiedRestsOn
<1>4. 1 \in DOMAIN d.selected
  <2>1. PICK n \in 0 .. Cardinality(Candidates) : d.selected \in [1 .. n -> Candidates]
    BY <1>3 DEF CandidateSeqs
  <2>2. Cardinality(Candidates) \in Nat
    BY EvidenceAssumption, FS_CardinalityType
  <2>3. n # 0
    BY <1>3, <2>1
  <2> QED BY <2>1, <2>2, <2>3
<1> DEFINE c == d.selected[1]
<1>5. c \in Candidates /\ Status(obs, c) = "ELIGIBLE"
  BY <1>3, <1>4, SelectedAreEligible
<1>6. Shows(obs, c) /\ TargetPassed(obs, c)
  <2>1. \A o \in obs : o.world \in Worlds
    BY DEF ParsesAsManifest
  <2> QED BY <1>3, <1>5, <2>1, EligibleShows, EligiblePassed
<1> QED BY <1>5, <1>6

(* And a decision that is not leaves no candidate that shows one and       *)
(* reaches the targets.                                                    *)
LEMMA UnverifiedShowsNone ==
  ASSUME NEW m, ReplayManifest(m), m.decision.status # "VERIFIED", NEW c \in Candidates
  PROVE  ~(Shows(m.observations, c) /\ TargetPassed(m.observations, c))
<1> DEFINE obs == m.observations
<1>1. PICK d \in DecisionsGiven(obs, Assess(obs)) :
        /\ d.status # "ENGINE_ERROR"
        /\ m.decision = [status |-> d.status, selected |-> d.selected, reason |-> ReasonFor(obs, d)]
  BY ReplayedManifest
<1>2. d.status # "VERIFIED"
  BY <1>1
<1>3. ControlsAreValid(obs) => Status(obs, c) # "ELIGIBLE"
  BY <1>1, <1>2, NoneIsEligible
<1> QED BY <1>3, ShowsEligible

-----------------------------------------------------------------------------
(* What an export says.                                                    *)

(* RED and GREEN are seen in every attempt.                                *)
LEMMA SignalIsSeen ==
  ASSUME NEW m, NEW c, NEW w
  PROVE  LET ends == {o.outcome : o \in RunsFor(m.observations, c, w)}
         IN /\ WorldSignal(m, c, w) = "RED" => ends = {"ASSERTION_FAILURE"}
            /\ WorldSignal(m, c, w) = "GREEN" => ends = {"PASS"}
<1> DEFINE hers == RunsFor(m.observations, c, w)
           ends == {o.outcome : o \in hers}
<1>1. /\ WorldSignal(m, c, w) \in {"RED", "GREEN"} => IsComplete(hers)
      /\ WorldSignal(m, c, w) = "RED" => \A o \in hers : o.outcome = "ASSERTION_FAILURE"
      /\ WorldSignal(m, c, w) = "GREEN" => \A o \in hers : o.outcome = "PASS"
  BY DEF WorldSignal
<1>2. IsComplete(hers) => hers # {}
  <2>1. 1 \in Attempts
    BY EvidenceAssumption DEF Attempts
  <2> QED BY <2>1 DEF IsComplete
<1> HIDE DEF hers
<1> QED BY <1>1, <1>2 DEF hers

(* A world is not undecided only under valid controls.                     *)
LEMMA DetectionNeedsControls ==
  ASSUME NEW m, ReplayManifest(m), ControlsValid(m)
  PROVE  ControlsAreValid(m.observations)
<1>1. PICK d \in DecisionsGiven(m.observations, Assess(m.observations)) :
        /\ d.status # "ENGINE_ERROR"
        /\ m.decision = [status |-> d.status, selected |-> d.selected,
                         reason |-> ReasonFor(m.observations, d)]
  BY ReplayedManifest
<1>2. ReasonFor(m.observations, d) # "CONTROL_EVIDENCE_INVALID"
  BY <1>1 DEF ControlsValid
<1> QED BY <1>1, <1>2, ReasonTellsControls

(* What NOT_OBSERVED excludes.                                             *)
LEMMA NotObservedExcludes ==
  ASSUME NEW m, CampaignDetection(m)[1] = "NOT_OBSERVED"
  PROVE  /\ m.decision.status \notin {"VERIFIED", "ENGINE_ERROR"} /\ ControlsValid(m)
         /\ \A c \in DOMAIN m.candidates :
              /\ m.candidates[c].status \notin {"UNSTABLE", "INCONCLUSIVE", "INVALID"}
              /\ \A w \in Targets : WorldDetection(m, c, w) # "NOT_ESTABLISHED"
<1> DEFINE statuses == {m.candidates[c].status : c \in DOMAIN m.candidates}
           detections == {WorldDetection(m, c, w) : c \in DOMAIN m.candidates, w \in Targets}
<1>1. /\ m.decision.status \notin {"VERIFIED", "ENGINE_ERROR"} /\ ControlsValid(m)
      /\ statuses \cap {"UNSTABLE", "INCONCLUSIVE"} = {} /\ "INVALID" \notin statuses
      /\ "NOT_ESTABLISHED" \notin detections
  <2> HIDE DEF statuses, detections
  <2> QED BY DEF CampaignDetection, statuses, detections
<1>2. ASSUME NEW c \in DOMAIN m.candidates
      PROVE  m.candidates[c].status \notin {"UNSTABLE", "INCONCLUSIVE", "INVALID"}
  <2>1. m.candidates[c].status \in statuses
    OBVIOUS
  <2> HIDE DEF statuses
  <2> QED BY <1>1, <2>1
<1>3. ASSUME NEW c \in DOMAIN m.candidates, NEW w \in Targets
      PROVE  WorldDetection(m, c, w) # "NOT_ESTABLISHED"
  BY <1>1
<1> QED BY <1>1, <1>2, <1>3

(* What OBSERVED rests on.                                                 *)
LEMMA ObservedIsVerified ==
  ASSUME NEW m, CampaignDetection(m)[1] = "OBSERVED"
  PROVE  m.decision.status = "VERIFIED"
BY DEF CampaignDetection

(* An observation of a manifest that parses is a run of the control or of  *)
(* a candidate in one of the worlds.                                       *)
LEMMA RunOfSomeone ==
  ASSUME NEW m, ParsesAsManifest(m), m.candidates = Assess(m.observations), NEW o \in m.observations
  PROVE  /\ o.world \in Worlds
         /\ o.candidate = Control \/ o.candidate \in Candidates
BY DEF ParsesAsManifest, Assess

(* The runs in an export that says NOT_OBSERVED.                           *)
LEMMA NotObservedRuns ==
  ASSUME NEW m, ExportAccepts(m), CampaignDetection(m)[1] = "NOT_OBSERVED"
  PROVE  /\ \A c \in Candidates : ~TargetPassed(m.observations, c)
         /\ \A o \in m.observations : o.outcome \in {"PASS", "ASSERTION_FAILURE"}
<1> DEFINE obs == m.observations
<1>1. ReplayManifest(m) /\ ParsesAsManifest(m) /\ m.candidates = Assess(obs)
  BY ReplayedManifest DEF ExportAccepts
<1>2. /\ m.decision.status \notin {"VERIFIED", "ENGINE_ERROR"} /\ ControlsValid(m)
      /\ \A c \in DOMAIN m.candidates :
           /\ m.candidates[c].status \notin {"UNSTABLE", "INCONCLUSIVE", "INVALID"}
           /\ \A w \in Targets : WorldDetection(m, c, w) # "NOT_ESTABLISHED"
  BY NotObservedExcludes
<1>3. ControlsAreValid(obs)
  BY <1>1, <1>2, DetectionNeedsControls
<1>4. ASSUME NEW c \in Candidates PROVE Status(obs, c) = "WEAK_ORACLE"
  <2>1. c \in DOMAIN m.candidates /\ m.candidates[c].status = Status(obs, c)
    BY <1>1 DEF Assess
  <2>2. Status(obs, c) \notin {"UNSTABLE", "INCONCLUSIVE", "INVALID"}
    BY <1>2, <2>1
  <2>3. Status(obs, c) # "ELIGIBLE"
    <3>1. PICK d \in DecisionsGiven(obs, Assess(obs)) :
            m.decision = [status |-> d.status, selected |-> d.selected, reason |-> ReasonFor(obs, d)]
      BY <1>1, ReplayedManifest
    <3>2. d.status \notin {"VERIFIED", "ENGINE_ERROR"}
      BY <1>2, <3>1
    <3> QED BY <1>3, <3>2, NoneIsEligible
  <2> QED BY <2>2, <2>3 DEF Status
<1>5. ASSUME NEW c \in Candidates
      PROVE  /\ ~TargetPassed(obs, c)
             /\ GreenIn(obs, c, "REFERENCE") /\ GreenIn(obs, c, "NEUTRAL")
  BY <1>4 DEF Status
<1>6. ASSUME NEW o \in obs PROVE o.outcome \in {"PASS", "ASSERTION_FAILURE"}
  <2>1. o.world \in Worlds /\ (o.candidate = Control \/ o.candidate \in Candidates)
    BY <1>1, RunOfSomeone
  <2>2. o \in RunsFor(obs, o.candidate, o.world)
    BY DEF RunsFor
  <2>3. CASE o.candidate = Control
    BY <1>3, <2>1, <2>2, <2>3 DEF ControlsAreValid
  <2>4. CASE o.candidate \in Candidates /\ o.world \notin Targets
    <3>1. o.world \in WorldsOf("REFERENCE") \cup WorldsOf("NEUTRAL")
      BY <2>1, <2>4, WorldKindOf
    <3> QED BY <1>5, <2>2, <2>4, <3>1 DEF GreenIn
  <2>5. CASE o.candidate \in Candidates /\ o.world \in Targets
    <3>1. WorldDetection(m, o.candidate, o.world) # "NOT_ESTABLISHED"
      BY <1>1, <1>2, <2>5 DEF Assess
    <3>2. WorldSignal(m, o.candidate, o.world) \in {"RED", "GREEN"}
      BY <2>5, <3>1 DEF WorldDetection
    <3> DEFINE ends == {p.outcome : p \in RunsFor(obs, o.candidate, o.world)}
    <3>3. o.outcome \in ends
      BY <2>2
    <3>4. ends = {"ASSERTION_FAILURE"} \/ ends = {"PASS"}
      BY <3>2, SignalIsSeen
    <3> HIDE DEF ends
    <3> QED BY <3>3, <3>4
  <2> QED BY <2>1, <2>3, <2>4, <2>5
<1> QED BY <1>5, <1>6

(* What DetectionIsObserved says of the source and the body of an export.  *)
DetectionSeen(m, b) ==
  LET obs == m.observations
  IN /\ b.detection = "OBSERVED" => \E c \in DOMAIN b.candidates : Shows(obs, c)
     /\ b.detection = "NOT_OBSERVED" =>
          /\ \A c \in DOMAIN b.candidates : ~TargetPassed(obs, c)
          /\ \A o \in obs : o.outcome \in {"PASS", "ASSERTION_FAILURE"}
     /\ \A c \in DOMAIN b.candidates, w \in Worlds :
          LET ends == {o.outcome : o \in {p \in obs : p.candidate = c /\ p.world = w}}
          IN /\ b.candidates[c].worlds[w].signal = "RED" => ends = {"ASSERTION_FAILURE"}
             /\ b.candidates[c].worlds[w].signal = "GREEN" => ends = {"PASS"}
             /\ b.candidates[c].worlds[w].detection = "OBSERVED" =>
                  \A o \in obs : o.candidate = Control => o.outcome = "PASS"

(* An export made from a manifest that replays says what was seen.         *)
LEMMA ExportIsSeen ==
  ASSUME NEW m, NEW asked, ExportAccepts(m), IsFiniteSet(m.observations)
  PROVE  DetectionSeen(m, ExportBody(m, asked))
<1> DEFINE obs == m.observations
           b == ExportBody(m, asked)
<1>1. ReplayManifest(m) /\ ParsesAsManifest(m) /\ m.candidates = Assess(obs)
  BY ReplayedManifest DEF ExportAccepts
<1>2. /\ b.detection = CampaignDetection(m)[1]
      /\ b.candidates = [c \in DOMAIN m.candidates |->
                           [status |-> m.candidates[c].status, selected |-> c \in Selected(m),
                            worlds |-> [w \in Worlds |-> ExportedWorld(m, c, w)]]]
  BY DEF ExportBody
<1> HIDE DEF b
<1>3. DOMAIN m.candidates = Candidates
  BY <1>1 DEF Assess
<1>4. DOMAIN b.candidates = Candidates
  BY <1>2, <1>3
<1>5. ASSUME NEW c \in Candidates, NEW w \in Worlds
      PROVE  /\ b.candidates[c].worlds[w].signal = WorldSignal(m, c, w)
             /\ b.candidates[c].worlds[w].detection = WorldDetection(m, c, w)
  <2>1. b.candidates[c].worlds = [v \in Worlds |-> ExportedWorld(m, c, v)]
    BY <1>2, <1>3
  <2>2. b.candidates[c].worlds[w] = ExportedWorld(m, c, w)
    BY <2>1
  <2> QED BY <2>2 DEF ExportedWorld
<1>6. ASSUME b.detection = "OBSERVED" PROVE \E c \in DOMAIN b.candidates : Shows(obs, c)
  <2>1. m.decision.status = "VERIFIED"
    BY <1>2, <1>6, ObservedIsVerified
  <2> QED BY <1>1, <1>4, <2>1, VerifiedShows
<1>7. ASSUME b.detection = "NOT_OBSERVED"
      PROVE  /\ \A c \in DOMAIN b.candidates : ~TargetPassed(obs, c)
             /\ \A o \in obs : o.outcome \in {"PASS", "ASSERTION_FAILURE"}
  BY <1>2, <1>4, <1>7, NotObservedRuns
<1>8. ASSUME NEW c \in Candidates, NEW w \in Worlds
      PROVE  LET ends == {o.outcome : o \in {p \in obs : p.candidate = c /\ p.world = w}}
             IN /\ b.candidates[c].worlds[w].signal = "RED" => ends = {"ASSERTION_FAILURE"}
                /\ b.candidates[c].worlds[w].signal = "GREEN" => ends = {"PASS"}
                /\ b.candidates[c].worlds[w].detection = "OBSERVED" =>
                     \A o \in obs : o.candidate = Control => o.outcome = "PASS"
  <2> DEFINE ends == {o.outcome : o \in {p \in obs : p.candidate = c /\ p.world = w}}
  <2>1. ends = {o.outcome : o \in RunsFor(obs, c, w)}
    BY DEF RunsFor
  <2>2. /\ WorldSignal(m, c, w) = "RED" => ends = {"ASSERTION_FAILURE"}
        /\ WorldSignal(m, c, w) = "GREEN" => ends = {"PASS"}
    <3> HIDE DEF ends
    <3> QED BY <2>1, SignalIsSeen
  <2>3. ASSUME WorldDetection(m, c, w) = "OBSERVED", NEW o \in obs, o.candidate = Control
        PROVE  o.outcome = "PASS"
    <3>1. ControlsValid(m)
      BY <2>3 DEF WorldDetection, Established
    <3>2. ControlsAreValid(obs)
      BY <1>1, <3>1, DetectionNeedsControls
    <3>3. o.world \in Worlds /\ o \in RunsFor(obs, Control, o.world)
      BY <1>1, <2>3, RunOfSomeone DEF RunsFor
    <3> QED BY <3>2, <3>3 DEF ControlsAreValid
  <2> QED BY <1>5, <2>2, <2>3
<1>9. DetectionSeen(m, b)
  BY <1>4, <1>6, <1>7, <1>8 DEF DetectionSeen
<1> QED BY <1>9 DEF b

-----------------------------------------------------------------------------
(* The document at hand.                                                   *)

(* As long as nobody changed anything, a manifest is what was decided, and *)
(* an export what was made of a manifest; the observations in them stay    *)
(* finitely many when somebody does.                                       *)
DocumentInv ==
  /\ edited \in BOOLEAN
  /\ document.kind = "MANIFEST" =>
       /\ IsFiniteSet(document.at.observations)
       /\ ~edited => \E obs \in Evidences : document.at = DecideEvidence("taken", obs)
  /\ document.kind = "EXPORT" =>
       /\ IsFiniteSet(document.at.body.source.observations)
       /\ ~edited => \E m, asked : document.at = CreateExport(m, asked)

(* The fields of a manifest, each with what it is. *)
ManifestFields == {"repository", "observations", "candidates", "decision",
                   "decisionDigest", "artifactDigest"}

(* What a decision records is finite and has a manifest's fields.          *)
LEMMA DecidedIsFinite ==
  ASSUME NEW obs, IsFiniteSet(obs)
  PROVE  /\ IsFiniteSet(DecideEvidence("taken", obs).observations)
         /\ DOMAIN DecideEvidence("taken", obs) = ManifestFields
<1> DEFINE d == CHOOSE x \in DecisionsGiven(obs, Tabled(Assess(obs))) : TRUE
           broken == d.status = "ENGINE_ERROR"
           none == [c \in {} |-> {}]
           kept == IF broken THEN {} ELSE obs
           assessed == IF broken THEN none ELSE Tabled(Assess(obs))
           repository == IF broken THEN "invalid" ELSE "taken"
           decision == [status |-> d.status, selected |-> d.selected, reason |-> ReasonFor(obs, d)]
           bare == [repository |-> repository, observations |-> kept, candidates |-> assessed,
                    decision |-> decision, decisionDigest |-> {}, artifactDigest |-> {}]
<1>1. DecideEvidence("taken", obs) = SealBoth(bare)
  BY DEF DecideEvidence
<1>2. IsFiniteSet(kept)
  <2> HIDE DEF d
  <2> QED BY FS_EmptySet
<1> HIDE DEF repository, kept, assessed, decision
<1>3. SealBoth(bare).observations = kept /\ DOMAIN SealBoth(bare) = ManifestFields
  BY DEF SealBoth, SealArtifact, ManifestFields
<1> QED BY <1>1, <1>2, <1>3

(* Making the digests fit changes no observation. *)
LEMMA SealingKeeps ==
  ASSUME NEW m, "observations" \in DOMAIN m
  PROVE  /\ SealArtifact(m).observations = m.observations
         /\ SealBoth(m).observations = m.observations
<1> DEFINE n == [m EXCEPT !.decisionDigest = DigestProjection(m)]
<1>1. DOMAIN n = DOMAIN m /\ n.observations = m.observations
  OBVIOUS
<1>2. ASSUME NEW x, "observations" \in DOMAIN x PROVE SealArtifact(x).observations = x.observations
  <2> DEFINE p == ArtifactProjection(x)
  <2>1. SealArtifact(x) = [x EXCEPT !.artifactDigest = p]
    BY DEF SealArtifact
  <2> HIDE DEF p
  <2> QED BY <1>2, <2>1
<1> HIDE DEF n
<1> QED BY <1>1, <1>2 DEF SealBoth, n

(* A change of a manifest leaves finitely many observations.               *)
LEMMA ChangedIsFinite ==
  ASSUME NEW m, DOMAIN m = ManifestFields, IsFiniteSet(m.observations), NEW d \in ChangesOfManifest(m)
  PROVE  "observations" \in DOMAIN d /\ IsFiniteSet(d.observations)
<1> USE DEF ManifestFields
<1>1. CASE \E o \in TouchedIn(m) :
             d = [m EXCEPT !.observations = (@ \ {o}) \cup {[o EXCEPT !.outcome = "ASSERTION_FAILURE"]}]
  <2>1. PICK o \in TouchedIn(m) :
             d = [m EXCEPT !.observations = (@ \ {o}) \cup {[o EXCEPT !.outcome = "ASSERTION_FAILURE"]}]
    BY <1>1
  <2> DEFINE p == [o EXCEPT !.outcome = "ASSERTION_FAILURE"]
  <2>2. d = [m EXCEPT !.observations = (m.observations \ {o}) \cup {p}]
    BY <2>1
  <2> HIDE DEF p
  <2>3. IsFiniteSet((m.observations \ {o}) \cup {p})
    BY FS_RemoveElement, FS_AddElement
  <2> QED BY <2>2, <2>3
<1>2. CASE \E o \in TouchedIn(m) : d = [m EXCEPT !.observations = @ \ {o}]
  <2>1. PICK o \in TouchedIn(m) : d = [m EXCEPT !.observations = m.observations \ {o}]
    BY <1>2
  <2>2. IsFiniteSet(m.observations \ {o})
    BY FS_RemoveElement
  <2> QED BY <2>1, <2>2
<1>3. CASE \E o \in TouchedIn(m) :
             d = [m EXCEPT !.observations = (@ \ {o}) \cup {[o EXCEPT !.ms = 0]}]
  <2>1. PICK o \in TouchedIn(m) : d = [m EXCEPT !.observations = (@ \ {o}) \cup {[o EXCEPT !.ms = 0]}]
    BY <1>3
  <2> DEFINE p == [o EXCEPT !.ms = 0]
  <2>2. d = [m EXCEPT !.observations = (m.observations \ {o}) \cup {p}]
    BY <2>1
  <2> HIDE DEF p
  <2>3. IsFiniteSet((m.observations \ {o}) \cup {p})
    BY FS_RemoveElement, FS_AddElement
  <2> QED BY <2>2, <2>3
<1>4. CASE \E c \in DOMAIN m.candidates :
             d = [m EXCEPT !.candidates[c].status = "ELIGIBLE", !.candidates[c].killed = Targets,
                           !.decision = [status |-> "VERIFIED", selected |-> <<c>>,
                                         reason |-> "POLICY_SATISFIED"]]
  <2>1. DOMAIN d = DOMAIN m /\ d.observations = m.observations
    BY <1>4
  <2> QED BY <2>1
<1>5. CASE d = [m EXCEPT !.decision.status = "REJECTED", !.decision.selected = <<>>]
  <2>1. DOMAIN d = DOMAIN m /\ d.observations = m.observations
    BY <1>5
  <2> QED BY <2>1
<1> QED BY <1>1, <1>2, <1>3, <1>4, <1>5 DEF ChangesOfManifest

(* No change of an export touches its source or its request.               *)
LEMMA ChangedKeepsSource ==
  ASSUME NEW b, {"source", "request"} \subseteq DOMAIN b, NEW d \in ChangesOfExport(b)
  PROVE  d.source = b.source /\ d.request = b.request
<1>1. CASE \E e : d = Saying(b, e)
  BY <1>1 DEF Saying
<1>2. CASE \E c, w : d = SeenRed(b, c, w)
  BY <1>2 DEF SeenRed
<1>3. CASE d = [b EXCEPT !.requested = "COVERED"]
  BY <1>3
<1>4. CASE d = [b EXCEPT !.git = "RECORDED"]
  BY <1>4
<1> QED BY <1>1, <1>2, <1>3, <1>4 DEF ChangesOfExport

(* At first there is no document, or a manifest just decided.              *)
LEMMA InitDocumentInv == Init => DocumentInv
<1> SUFFICES ASSUME Init PROVE DocumentInv
  OBVIOUS
<1>1. edited = FALSE
  BY DEF Init
<1>2. CASE document = [kind |-> "NONE"]
  BY <1>1, <1>2 DEF DocumentInv
<1>3. CASE \E obs \in Evidences : document = [kind |-> "MANIFEST", at |-> DecideEvidence("taken", obs)]
  <2>1. PICK obs \in Evidences : document = [kind |-> "MANIFEST", at |-> DecideEvidence("taken", obs)]
    BY <1>3
  <2>2. document.kind = "MANIFEST" /\ document.at = DecideEvidence("taken", obs)
    BY <2>1
  <2>3. IsFiniteSet(document.at.observations)
    BY <2>2, DecidedIsFinite, EvidencesAssumption
  <2> QED BY <1>1, <2>2, <2>3 DEF DocumentInv
<1> QED BY <1>2, <1>3 DEF Init

(* Making a document or leaving it. *)
LEMMA MakingKeepsDocument ==
  ASSUME DocumentInv, [AcquireStep \/ MakeProfile \/ MakeExport \/ MakeProfileV2]_vars
  PROVE  DocumentInv'
<1>1. edited' = edited
  BY DEF AcquireStep, MakeProfile, MakeExport, MakeProfileV2, vars
<1>2. CASE document' = document
  BY <1>1, <1>2 DEF DocumentInv
<1>3. CASE \E k \in {"ACQUISITION", "PROFILE", "PROFILE_V2"} : \E d : document' = [kind |-> k, at |-> d]
  <2>1. document'.kind \in {"ACQUISITION", "PROFILE", "PROFILE_V2"}
    BY <1>3
  <2> QED BY <1>1, <2>1 DEF DocumentInv
<1>4. CASE MakeExport
  <2>1. document.kind = "MANIFEST"
    BY <1>4 DEF MakeExport
  <2>2. PICK asked : document' = [kind |-> "EXPORT", at |-> CreateExport(document.at, asked)]
    BY <1>4 DEF MakeExport, Holding
  <2> DEFINE e == CreateExport(document.at, asked)
  <2>3. e.body.source = document.at
    BY DEF CreateExport, Sealed, ExportBody
  <2> HIDE DEF e
  <2>4. document'.kind = "EXPORT" /\ document'.at = e
    BY <2>2 DEF e
  <2>5. IsFiniteSet(document'.at.body.source.observations)
    BY <2>1, <2>3, <2>4 DEF DocumentInv
  <2>6. \E m, x : document'.at = CreateExport(m, x)
    BY <2>4 DEF e
  <2> QED BY <1>1, <2>4, <2>5, <2>6 DEF DocumentInv
<1>5. CASE AcquireStep \/ MakeProfile \/ MakeProfileV2
  BY <1>2, <1>3, <1>5 DEF AcquireStep, MakeProfile, MakeProfileV2, Holding
<1> QED BY <1>2, <1>4, <1>5 DEF vars

(* A change by hand keeps what is known of the document.                   *)
LEMMA EditKeepsDocument ==
  ASSUME DocumentInv, Edit
  PROVE  DocumentInv'
<1>1. PICK d \in Changes(document) : document' = [kind |-> document.kind, at |-> d]
  BY DEF Edit
<1>2. ~edited /\ edited' = TRUE
  BY DEF Edit, DocumentInv
<1>3. document'.kind = document.kind /\ document'.at = d
  BY <1>1
<1>4. ASSUME document.kind = "MANIFEST" PROVE IsFiniteSet(d.observations)
  <2> DEFINE m == document.at
  <2>1. PICK obs \in Evidences : m = DecideEvidence("taken", obs)
    BY <1>2, <1>4 DEF DocumentInv
  <2>2. DOMAIN m = ManifestFields /\ IsFiniteSet(m.observations)
    BY <2>1, DecidedIsFinite, EvidencesAssumption
  <2> DEFINE changed == ChangesOfManifest(m)
  <2>3. \A x \in changed : "observations" \in DOMAIN x /\ IsFiniteSet(x.observations)
    <3> HIDE DEF m
    <3> QED BY <2>2, ChangedIsFinite
  <2>4. d \in changed \cup {SealArtifact(x) : x \in changed} \cup {SealBoth(x) : x \in changed}
    BY <1>4 DEF Changes
  <2> HIDE DEF changed, m
  <2>5. PICK x \in changed : d = x \/ d = SealArtifact(x) \/ d = SealBoth(x)
    BY <2>4
  <2> QED BY <2>3, <2>5, SealingKeeps
<1>5. ASSUME document.kind = "EXPORT" PROVE IsFiniteSet(d.body.source.observations)
  <2>1. PICK m, asked : document.at = CreateExport(m, asked)
    BY <1>2, <1>5 DEF DocumentInv
  <2> DEFINE b == document.at.body
  <2>2. b = ExportBody(m, asked)
    BY <2>1 DEF CreateExport, Sealed
  <2>3. {"source", "request"} \subseteq DOMAIN b
    BY <2>2 DEF ExportBody
  <2>4. d \in {Sealed(x) : x \in ChangesOfExport(b)}
    BY <1>1, <1>5 DEF Changes
  <2>5. PICK x \in ChangesOfExport(b) : d = Sealed(x)
    BY <2>4
  <2> HIDE DEF b
  <2>6. x.source = b.source
    BY <2>3, ChangedKeepsSource
  <2>7. d.body = x
    BY <2>5 DEF Sealed
  <2> QED BY <1>5, <2>6, <2>7 DEF DocumentInv, b
<1> QED BY <1>2, <1>3, <1>4, <1>5 DEF DocumentInv

(* An export that replays says only what its runs show, whoever made or    *)
(* changed it: see DetectionIsObserved.                                    *)
THEOREM Detected == Spec => []DetectionIsObserved
<1>1. Init => DocumentInv
  BY InitDocumentInv
<1>2. DocumentInv /\ [Next]_vars => DocumentInv'
  BY MakingKeepsDocument, EditKeepsDocument DEF Next
<1>3. DocumentInv => DetectionIsObserved
  <2> SUFFICES ASSUME DocumentInv, document.kind = "EXPORT", Replays(document)
               PROVE  DetectionSeen(document.at.body.source, document.at.body)
    BY Zenon DEF DetectionIsObserved, DetectionSeen
  <2> DEFINE e == document.at
             m == document.at.body.source
  <2>1. /\ ExportAccepts(m) /\ e = CreateExport(m, e.body.request)
    BY DEF Replays, ReplayExport
  <2>2. e.body = ExportBody(m, e.body.request)
    <3> HIDE DEF m
    <3> DEFINE x == ExportBody(m, e.body.request)
    <3>1. e = [body |-> x, digest |-> x]
      BY <2>1 DEF CreateExport, Sealed
    <3> HIDE DEF x
    <3>2. e.body = x
      BY <3>1
    <3> QED BY <3>2 DEF x
  <2>3. IsFiniteSet(m.observations)
    BY DEF DocumentInv
  <2>4. DetectionSeen(m, ExportBody(m, e.body.request))
    <3> HIDE DEF m, e
    <3> QED BY <2>1, <2>3, ExportIsSeen
  <2> QED BY <2>2, <2>4
<1> QED BY <1>1, <1>2, <1>3, PTL DEF Spec

-----------------------------------------------------------------------------
(* A finished measurement is the benchmark that was planned.               *)

(* The place and the turn of the t-th measurement of a candidate. *)
LEMMA PlaceOfTurn ==
  ASSUME request \in Requests, NEW x \in Nat \ {0}, NEW t \in 1 .. PerSubject
  PROVE  LET j == (x - 1) * PerSubject + t IN Place(j) = x /\ Turn(j) = t
<1> DEFINE k == PerSubject
           q == x - 1
           j == q * k + t
<1>1. k \in Nat \ {0} /\ q \in Nat /\ t \in Nat /\ 1 <= t /\ t <= k
  BY PlanNumbers
<1>2. Place(j) = (j - 1) \div k + 1 /\ Turn(j) = ((j - 1) % k) + 1
  BY DEF Place, Turn
<1> HIDE DEF k, q
<1>3. q * k \in Nat /\ k * q = q * k /\ (q + 1) * k = q * k + k
  BY <1>1
<1>4. j - 1 \in Nat /\ q * k <= j - 1 /\ j - 1 < (q + 1) * k
  BY <1>1, <1>3
<1>5. (j - 1) \div k = q
  BY <1>1, <1>4, QuotientIs
<1>6. j - 1 = k * q + ((j - 1) % k) /\ (j - 1) % k \in Int
  <2> DEFINE i == j - 1
  <2>1. i \in Int /\ k \in Nat \ {0}
    BY <1>1, <1>4
  <2>2. i \div k = q
    BY <1>5
  <2> HIDE DEF i
  <2>3. i = k * (i \div k) + (i % k) /\ i % k \in Int
    BY <2>1, Divided
  <2>4. i = k * q + (i % k) /\ i % k \in Int
    BY <2>2, <2>3
  <2> QED BY <2>4 DEF i
<1>7. ((j - 1) % k) + 1 = t
  <2> DEFINE r == (j - 1) % k
  <2> HIDE DEF r
  <2>1. q * k + t - 1 = q * k + r /\ r \in Int
    BY <1>3, <1>6 DEF r
  <2>2. r + 1 = t
    BY <1>1, <1>3, <2>1
  <2> QED BY <2>2 DEF r
<1>8. q + 1 = x
  BY DEF q
<1> QED BY <1>2, <1>5, <1>7, <1>8 DEF k, q

(* The slots of a regime and role are those of the n turns after the first *)
(* off, numbered from one.                                                 *)
AreTurns(regime, role, off, n) ==
  \A i : Turn(i) \in 1 .. PerSubject =>
    /\ (Slot(i).regime = regime /\ Slot(i).role = role) <=> Turn(i) \in off + 1 .. off + n
    /\ Turn(i) \in off + 1 .. off + n => Slot(i).ordinal = Turn(i) - off

(* The runs of a candidate in a regime and role are n, numbered from one.  *)
AreRuns(measured, c, regime, role, n) ==
  LET group == RunsOf(measured, c, regime, role)
  IN {r.ordinal : r \in group} = 1 .. n /\ Cardinality(group) = n

(* The measurements of one subject, regime and role are one run of turns.  *)
LEMMA GroupOfTurns ==
  ASSUME request \in Requests, IsMeasurable(manifest), NEW measured, NEW around,
         InOrder(measured, around), Cardinality(measured) = Total,
         NEW x \in 1 .. Len(manifest.decision.selected), NEW regime, NEW role,
         NEW off \in Nat, NEW n \in Nat, off + n <= PerSubject,
         AreTurns(regime, role, off, n)
  PROVE  AreRuns(measured, manifest.decision.selected[x], regime, role, n)
<1> DEFINE s0 == manifest.decision.selected
           c == s0[x]
           group == RunsOf(measured, c, regime, role)
<1>1. /\ measured = {s.run : s \in around}
      /\ \A s \in around : \E j \in 1 .. Total : IsPlaced(s, j)
      /\ \A j \in 1 .. Total : \E s \in around : IsPlaced(s, j)
      /\ \A j \in 1 .. Total : \A s, t \in around : IsPlaced(s, j) /\ IsPlaced(t, j) => s = t
  BY DEF InOrder
<1>2. /\ PerSubject \in Nat /\ Len(s0) \in Nat /\ Total = Len(s0) * PerSubject
      /\ DOMAIN s0 = 1 .. Len(s0) /\ \A i, j \in 1 .. Len(s0) : s0[i] = s0[j] => i = j
  BY SeqOfCandidates, PlanNumbers DEF IsMeasurable, Total, PerSubject
<1>2a. \A i : Turn(i) \in 1 .. PerSubject =>
            /\ (Slot(i).regime = regime /\ Slot(i).role = role) <=> Turn(i) \in off + 1 .. off + n
            /\ Turn(i) \in off + 1 .. off + n => Slot(i).ordinal = Turn(i) - off
  BY DEF AreTurns
<1>3. ASSUME NEW r \in group
      PROVE  \E s \in around : \E j \in 1 .. Total :
               /\ IsPlaced(s, j) /\ r = s.run /\ Place(j) = x
               /\ Turn(j) \in off + 1 .. off + n /\ r.ordinal = Turn(j) - off
  <2>1. r \in measured /\ r.candidate = c /\ r.regime = regime /\ r.role = role
    BY DEF RunsOf
  <2>2. PICK s \in around : r = s.run
    BY <1>1, <2>1
  <2>3. PICK j \in 1 .. Total : IsPlaced(s, j)
    BY <1>1
  <2>4. Place(j) \in 1 .. Len(s0) /\ Turn(j) \in 1 .. PerSubject
    BY MeasurementAt
  <2>5. /\ r.candidate = Subject(j) /\ r.regime = Slot(j).regime /\ r.role = Slot(j).role
        /\ r.ordinal = Slot(j).ordinal
    BY <2>2, <2>3, RunSays DEF IsPlaced
  <2>6. Place(j) = x
    <3>1. s0[Place(j)] = s0[x]
      BY <2>1, <2>5, SubjectAt
    <3> QED BY <3>1, <2>4, <1>2
  <2>7. Turn(j) \in off + 1 .. off + n
    BY <2>1, <2>4, <2>5, <1>2a
  <2>8. r.ordinal = Turn(j) - off
    BY <2>4, <2>5, <2>7, <1>2a
  <2> QED BY <2>2, <2>3, <2>6, <2>7, <2>8
<1>4. ASSUME NEW o \in 1 .. n
      PROVE  \E r \in group : r.ordinal = o
  <2> DEFINE j == (x - 1) * PerSubject + (off + o)
  <2>1. off + o \in 1 .. PerSubject /\ x \in Nat \ {0}
    BY <1>2
  <2>2. Place(j) = x /\ Turn(j) = off + o
    BY <2>1, PlaceOfTurn
  <2>3. j \in 1 .. Total
    <3> DEFINE k == PerSubject
               l == Len(s0)
               t == off + o
               y == x - 1
    <3>1. k \in Nat /\ l \in Nat /\ t \in Nat /\ 1 <= t /\ t <= k /\ y \in Nat /\ y + 1 <= l /\ Total = l * k
      BY <1>2, <2>1
    <3> HIDE DEF k, l, t, y
    <3>2. (y + 1) * k <= l * k /\ (y + 1) * k = y * k + k /\ y * k \in Nat
      BY <3>1
    <3>3. y * k + t \in 1 .. Total
      BY <3>1, <3>2
    <3> QED BY <3>3 DEF k, l, t, y
  <2> HIDE DEF j
  <2>4. PICK s \in around : IsPlaced(s, j)
    BY <1>1, <2>3
  <2>5. /\ s.run.candidate = Subject(j) /\ s.run.regime = Slot(j).regime /\ s.run.role = Slot(j).role
        /\ s.run.ordinal = Slot(j).ordinal
    BY <2>4, RunSays DEF IsPlaced
  <2>6. Turn(j) \in 1 .. PerSubject /\ Turn(j) \in off + 1 .. off + n
    BY <2>1, <2>2
  <2>7. Slot(j).regime = regime /\ Slot(j).role = role /\ Slot(j).ordinal = o
    BY <2>2, <2>6, <1>2a
  <2>8. s.run \in measured /\ s.run.candidate = c
    BY <1>1, <2>2, <2>5, SubjectAt
  <2>9. s.run \in group
    BY <2>5, <2>7, <2>8 DEF RunsOf
  <2> QED BY <2>5, <2>7, <2>9
<1>5. ASSUME NEW r \in group, NEW q \in group, r.ordinal = q.ordinal
      PROVE  r = q
  <2>1. PICK s \in around, i \in 1 .. Total :
          /\ IsPlaced(s, i) /\ r = s.run /\ Place(i) = x
          /\ Turn(i) \in off + 1 .. off + n /\ r.ordinal = Turn(i) - off
    BY <1>3
  <2>2. PICK t \in around, j \in 1 .. Total :
          /\ IsPlaced(t, j) /\ q = t.run /\ Place(j) = x
          /\ Turn(j) \in off + 1 .. off + n /\ q.ordinal = Turn(j) - off
    BY <1>3
  <2>3. Turn(i) = Turn(j)
    BY <1>5, <2>1, <2>2
  <2>4. PerSubject # 0 /\ i \in Nat \ {0} /\ j \in Nat \ {0}
    BY MeasurementAt
  <2>5. i = j
    BY <2>1, <2>2, <2>3, <2>4, PlacesApart
  <2> QED BY <1>1, <2>1, <2>2, <2>5
<1> DEFINE ordinals == {r.ordinal : r \in group}
           f == [o \in 1 .. n |-> CHOOSE r \in group : r.ordinal = o]
<1> HIDE DEF group
<1>6. ordinals = 1 .. n
  <2>1. ASSUME NEW r \in group PROVE r.ordinal \in 1 .. n
    <3>1. PICK j \in 1 .. Total : Turn(j) \in off + 1 .. off + n /\ r.ordinal = Turn(j) - off
      BY <1>3
    <3> QED BY <3>1
  <2> QED BY <2>1, <1>4
<1>7. f \in Bijection(1 .. n, group)
  <2>1. \A o \in 1 .. n : f[o] \in group /\ f[o].ordinal = o
    BY <1>4
  <2>2. f \in [1 .. n -> group]
    BY <2>1
  <2>3. \A r \in group : r.ordinal \in 1 .. n
    BY <1>6
  <2> HIDE DEF f, ordinals
  <2>4. \A o, p \in 1 .. n : f[o] = f[p] => o = p
    BY <2>1
  <2>5. \A r \in group : \E o \in 1 .. n : f[o] = r
    BY <1>5, <2>1, <2>3
  <2> QED BY <2>2, <2>4, <2>5 DEF Bijection, Injection, IsInjective, Surjection
<1>8. Cardinality(group) = n
  <2>1. IsFiniteSet(1 .. n) /\ Cardinality(1 .. n) = n
    BY FS_Interval
  <2>2. ExistsBijection(1 .. n, group)
    BY <1>7 DEF ExistsBijection
  <2> QED BY <2>1, <2>2, FS_Bijection
<1> QED BY <1>6, <1>8 DEF group, AreRuns

-----------------------------------------------------------------------------
(* A result with an artifact replays.                                      *)

(* What decideEvidence seals. *)
LEMMA ManifestIsSealed ==
  ASSUME NEW repository, NEW obs
  PROVE  LET m == DecideEvidence(repository, obs)
         IN /\ DecisionDigestValid(m) /\ ArtifactDigestValid(m)
            /\ m.decision.status = "ENGINE_ERROR" => m.repository = "invalid"
            /\ DOMAIN m = ManifestFields
<1> DEFINE d == CHOOSE x \in DecisionsGiven(obs, Tabled(Assess(obs))) : TRUE
           broken == d.status = "ENGINE_ERROR"
           none == [c \in {} |-> {}]
           kept == IF broken THEN {} ELSE obs
           assessed == IF broken THEN none ELSE Tabled(Assess(obs))
           from == IF broken THEN "invalid" ELSE repository
           reason == ReasonFor(obs, d)
           decision == [status |-> d.status, selected |-> d.selected, reason |-> reason]
           bare == [repository |-> from, observations |-> kept, candidates |-> assessed,
                    decision |-> decision, decisionDigest |-> {}, artifactDigest |-> {}]
           m == DecideEvidence(repository, obs)
<1>1. m = SealBoth(bare)
  BY DEF DecideEvidence
<1>2. decision.status = "ENGINE_ERROR" => from = "invalid"
  <2> HIDE DEF d, reason
  <2> QED OBVIOUS
<1> HIDE DEF kept, assessed, from, decision, m
<1> DEFINE dd == DigestProjection(bare)
           half == [bare EXCEPT !.decisionDigest = dd]
           ad == ArtifactProjection(half)
<1>3. dd = [repository |-> from, observations |-> {WithoutTiming(o) : o \in kept},
            candidates |-> assessed, decision |-> decision]
  BY DEF DigestProjection
<1> HIDE DEF dd
<1>4. half = [repository |-> from, observations |-> kept, candidates |-> assessed,
              decision |-> decision, decisionDigest |-> dd, artifactDigest |-> {}]
  OBVIOUS
<1>5. ad = [repository |-> from, observations |-> kept, candidates |-> assessed,
            decision |-> decision, decisionDigest |-> dd]
  BY <1>4 DEF ArtifactProjection
<1>6. m = [half EXCEPT !.artifactDigest = ad]
  BY <1>1 DEF SealBoth, SealArtifact, dd
<1> HIDE DEF ad, half
<1>7. m = [repository |-> from, observations |-> kept, candidates |-> assessed,
           decision |-> decision, decisionDigest |-> dd, artifactDigest |-> ad]
  BY <1>4, <1>6
<1>8. /\ m.repository = from /\ m.observations = kept /\ m.candidates = assessed
      /\ m.decision = decision /\ m.decisionDigest = dd /\ m.artifactDigest = ad
  BY <1>7
<1>9. DecisionDigestValid(m)
  BY <1>3, <1>8 DEF DecisionDigestValid, DigestProjection
<1>10. ArtifactDigestValid(m)
  BY <1>5, <1>8 DEF ArtifactDigestValid, ArtifactProjection
<1>11. DOMAIN m = ManifestFields
  BY <1>7 DEF ManifestFields
<1> QED BY <1>2, <1>8, <1>9, <1>10, <1>11 DEF m

(* A manifest that was decided replays, unless it is of an invalid         *)
(* repository.                                                             *)
LEMMA DecidedReplays ==
  ASSUME NEW obs, NEW repository, repository # "invalid",
         DecideEvidence(repository, obs).decision.status # "ENGINE_ERROR"
  PROVE  LET m == DecideEvidence(repository, obs)
         IN ReplayManifest(m) /\ m.repository = repository /\ m.observations = obs
<1> DEFINE m == DecideEvidence(repository, obs)
<1>1. PICK d \in DecisionsGiven(obs, Assess(obs)) :
        /\ m.decision = [status |-> d.status, selected |-> d.selected, reason |-> ReasonFor(obs, d)]
        /\ d.status # "ENGINE_ERROR" =>
             m.observations = obs /\ m.candidates = Assess(obs) /\ m.repository = repository
  BY ManifestHolds
<1>2. m.decision.status # "ENGINE_ERROR"
  OBVIOUS
<1>3. DecisionDigestValid(m) /\ ArtifactDigestValid(m)
  BY ManifestIsSealed
<1> DEFINE again == DecideEvidence(m.repository, m.observations)
<1>4. m.observations = obs /\ m.repository = repository
  <2> HIDE DEF m
  <2>1. m.decision.status = d.status
    BY <1>1
  <2> QED BY <1>1, <1>2, <2>1
<1>5. again = m
  <2>1. \A r, o : r = repository /\ o = obs => DecideEvidence(r, o) = DecideEvidence(repository, obs)
    OBVIOUS
  <2> QED BY <1>4, <2>1
<1> HIDE DEF m, again
<1>6. DecisionSemanticsValid(m)
  BY <1>2, <1>5 DEF DecisionSemanticsValid, again
<1> QED BY <1>3, <1>4, <1>6 DEF ReplayManifest, m

(* The candidates a replayed verified manifest selects are eligible and    *)
(* no more than the maximum.                                               *)
LEMMA SelectedFew ==
  ASSUME NEW m, ReplayManifest(m), m.decision.status = "VERIFIED"
  PROVE  /\ \A c \in Selected(m) : m.candidates[c].status = "ELIGIBLE"
         /\ Cardinality(Selected(m)) \in Nat /\ Cardinality(Selected(m)) <= MaximumSelected
<1> DEFINE obs == m.observations
           a == Assess(obs)
<1>1. PICK d \in DecisionsGiven(obs, Assess(obs)) :
        /\ d.status # "ENGINE_ERROR"
        /\ m.decision = [status |-> d.status, selected |-> d.selected, reason |-> ReasonFor(obs, d)]
  BY ReplayedManifest
<1>2. m.candidates = Assess(obs)
  BY ReplayedManifest
<1>3. d.status = "VERIFIED" /\ m.decision.selected = d.selected
  BY <1>1
<1> DEFINE s == d.selected
<1>4. s \in CandidateSeqs /\ IsSelection(Assess(obs), s) /\ s # <<>>
  BY <1>3, VerifiedRestsOn
<1>5. PICK n \in 0 .. Cardinality(Candidates) : s \in [1 .. n -> Candidates]
  BY <1>4 DEF CandidateSeqs
<1>6. /\ n \in Nat /\ DOMAIN s = 1 .. n /\ n # 0
      /\ \A i, j \in 1 .. n : s[i] = s[j] => i = j
  <2>1. Cardinality(Candidates) \in Nat
    BY EvidenceAssumption, FS_CardinalityType
  <2>2. n \in Nat /\ DOMAIN s = 1 .. n
    BY <1>5, <2>1
  <2>3. n # 0
    BY <1>4, <1>5, <2>2
  <2> QED BY <2>2, <2>3, <1>4 DEF CandidateSeqs
<1>7. ASSUME NEW k \in 0 .. n PROVE Cardinality(Taken(s, k)) = k
  <2> DEFINE f == [i \in 1 .. k |-> s[i]]
  <2> HIDE DEF s
  <2>1. f \in Bijection(1 .. k, Taken(s, k))
    BY <1>6 DEF Bijection, Injection, IsInjective, Surjection, Taken
  <2>2. ExistsBijection(1 .. k, Taken(s, k))
    BY <2>1 DEF ExistsBijection
  <2>3. IsFiniteSet(1 .. k) /\ Cardinality(1 .. k) = k
    BY <1>6, FS_Interval
  <2> QED BY <2>2, <2>3, FS_Bijection
<1>8. Selected(m) = Taken(s, n)
  BY <1>3, <1>6 DEF Selected, Taken
<1>9. n - 1 < MaximumSelected
  <2>1. s[n] \in NextChoice(Assess(obs), Taken(s, n - 1))
    BY <1>4, <1>6 DEF IsSelection
  <2>2. ~(Cardinality(Taken(s, n - 1)) >= MaximumSelected)
    BY <2>1 DEF NextChoice
  <2>3. Cardinality(Taken(s, n - 1)) = n - 1
    BY <1>6, <1>7
  <2> QED BY <2>2, <2>3, <1>6, EvidenceAssumption
<1>10. Cardinality(Selected(m)) = n
  BY <1>6, <1>7, <1>8
<1>11. ASSUME NEW c \in Selected(m) PROVE m.candidates[c].status = "ELIGIBLE"
  <2>1. PICK i \in DOMAIN s : c = s[i]
    BY <1>3 DEF Selected
  <2>2. c \in Candidates /\ Status(obs, c) = "ELIGIBLE"
    BY <1>4, <2>1, SelectedAreEligible
  <2> QED BY <1>2, <2>2 DEF Assess
<1>12. n \in Nat /\ n <= MaximumSelected
  <2>1. MaximumSelected \in Nat
    BY EvidenceAssumption
  <2> QED BY <2>1, <1>6, <1>9
<1> QED BY <1>10, <1>11, <1>12

(* The planned runs of a candidate have been executed.                     *)
LEMMA PlanExecuted ==
  ASSUME request \in Requests, IsMeasurable(manifest), NEW measured, NEW around,
         InOrder(measured, around), Cardinality(measured) = Total, NEW c \in Selected(manifest)
  PROVE  PlanIsExecuted(Plan, measured, c)
<1>1. PICK x \in 1 .. Len(manifest.decision.selected) : c = manifest.decision.selected[x]
  <2>1. manifest.decision.selected \in CandidateSeqs
    BY DEF IsMeasurable
  <2> QED BY <2>1, SeqOfCandidates DEF Selected
<1> DEFINE cold == Plan.cold
           warmup == Plan.warmup
           warm == Plan.warm
<1>2. cold \in Nat /\ warmup \in Nat /\ warm \in Nat /\ PerSubject = cold + warmup + warm
  BY PlanNumbers DEF PerSubject, PerCandidate
<1> HIDE DEF cold, warmup, warm
<1> DEFINE at(i, regime, role, off) ==
             Slot(i).regime = regime /\ Slot(i).role = role /\ Slot(i).ordinal = Turn(i) - off
<1>3. ASSUME NEW i, Turn(i) \in 1 .. PerSubject
      PROVE  /\ Turn(i) <= cold => at(i, "COLD", "MEASUREMENT", 0)
             /\ (cold < Turn(i) /\ Turn(i) <= cold + warmup) => at(i, "WARM", "WARMUP", cold)
             /\ cold + warmup < Turn(i) => at(i, "WARM", "MEASUREMENT", cold + warmup)
  <2>1. /\ Turn(i) <= cold =>
             Slot(i) = [regime |-> "COLD", role |-> "MEASUREMENT", ordinal |-> Turn(i)]
        /\ (cold < Turn(i) /\ Turn(i) <= cold + warmup) =>
             Slot(i) = [regime |-> "WARM", role |-> "WARMUP", ordinal |-> Turn(i) - cold]
        /\ cold + warmup < Turn(i) =>
             Slot(i) = [regime |-> "WARM", role |-> "MEASUREMENT", ordinal |-> Turn(i) - cold - warmup]
    BY <1>3, SlotOfTurn DEF cold, warmup
  <2>2. Turn(i) \in Nat /\ Turn(i) - 0 = Turn(i) /\ Turn(i) - cold - warmup = Turn(i) - (cold + warmup)
    BY <1>2, <1>3
  <2> QED BY <2>1, <2>2
<1> HIDE DEF at
<1>4. ASSUME NEW regime, NEW role, NEW off \in Nat, NEW n \in Nat, off + n <= PerSubject,
             AreTurns(regime, role, off, n)
      PROVE  AreRuns(measured, c, regime, role, n)
  BY <1>1, <1>4, GroupOfTurns
<1>5. AreRuns(measured, c, "COLD", "MEASUREMENT", cold)
  <2>1. AreTurns("COLD", "MEASUREMENT", 0, cold)
    BY <1>2, <1>3 DEF AreTurns, at
  <2> QED BY <1>2, <1>4, <2>1
<1>6. AreRuns(measured, c, "WARM", "WARMUP", warmup)
  <2>1. AreTurns("WARM", "WARMUP", cold, warmup)
    BY <1>2, <1>3 DEF AreTurns, at
  <2> QED BY <1>2, <1>4, <2>1
<1>7. AreRuns(measured, c, "WARM", "MEASUREMENT", warm)
  <2>1. AreTurns("WARM", "MEASUREMENT", cold + warmup, warm)
    BY <1>2, <1>3 DEF AreTurns, at
  <2> QED BY <1>2, <1>4, <2>1
<1>8. AreRuns(measured, c, "COLD", "WARMUP", 0)
  <2>1. AreTurns("COLD", "WARMUP", 0, 0)
    BY <1>2, <1>3 DEF AreTurns, at
  <2> QED BY <1>2, <1>4, <2>1
<1>9. RunsOf(measured, c, "COLD", "WARMUP") = {}
  <2> DEFINE none == RunsOf(measured, c, "COLD", "WARMUP")
  <2>1. {r.ordinal : r \in none} = 1 .. 0
    BY <1>8 DEF AreRuns
  <2> HIDE DEF none
  <2>2. {r.ordinal : r \in none} = {}
    BY <2>1
  <2>3. none = {}
    BY <2>2
  <2> QED BY <2>3 DEF none
<1>10. \A regime \in Regimes, role \in {"WARMUP", "MEASUREMENT"} :
         LET group == RunsOf(measured, c, regime, role)
         IN {r.ordinal : r \in group} = 1 .. Cardinality(group)
  <2>1. ASSUME NEW regime, NEW role, NEW n, AreRuns(measured, c, regime, role, n)
        PROVE  LET group == RunsOf(measured, c, regime, role)
               IN {r.ordinal : r \in group} = 1 .. Cardinality(group)
    BY <2>1 DEF AreRuns
  <2> QED BY <2>1, <1>5, <1>6, <1>7, <1>8 DEF Regimes
<1>11. /\ Cardinality(RunsOf(measured, c, "COLD", "MEASUREMENT")) = Plan.cold
       /\ Cardinality(RunsOf(measured, c, "WARM", "WARMUP")) = Plan.warmup
       /\ Cardinality(RunsOf(measured, c, "WARM", "MEASUREMENT")) = Plan.warm
  BY <1>5, <1>6, <1>7 DEF AreRuns, cold, warmup, warm
<1> QED BY <1>9, <1>10, <1>11 DEF PlanIsExecuted

(* What a run records of its times, and the digest of its candidate. *)
LEMMA RunIsExact ==
  ASSUME NEW i, NEW e
  PROVE  RunOf(i, e).digest = Digest[RunOf(i, e).candidate] /\ TimingIsExact(RunOf(i, e))
<1> DEFINE measures == Measures(e)
           subject == Subject(i)
           digest == Digest[subject]
           total == TotalOf(e.phases)
           fails == FailureOutcome(e)
           slot == Slot(i)
           base == [candidate |-> subject, digest |-> digest, regime |-> slot.regime,
                    role |-> slot.role, ordinal |-> slot.ordinal]
           run == RunOf(i, e)
<1>1. run =
        IF measures
        THEN [candidate |-> base.candidate, digest |-> base.digest, regime |-> base.regime,
              role |-> base.role, ordinal |-> base.ordinal, outcome |-> "PASS",
              phases |-> e.phases, total |-> total, cpu |-> e.cpu]
        ELSE [candidate |-> base.candidate, digest |-> base.digest, regime |-> base.regime,
              role |-> base.role, ordinal |-> base.ordinal, outcome |-> fails,
              phases |-> NoTimes, total |-> Untimed, cpu |-> Untimed]
  BY DEF RunOf
<1>2. fails # "PASS"
  BY DEF FailureOutcome, Readable
<1> HIDE DEF measures, digest, total, fails, subject, slot, run
<1>3. run.candidate = subject /\ run.digest = digest
  BY <1>1
<1>4. /\ measures => run.outcome = "PASS" /\ run.total = total /\ run.phases = e.phases
      /\ ~measures => /\ run.outcome # "PASS" /\ run.phases = NoTimes
                      /\ run.total = Untimed /\ run.cpu = Untimed
  BY <1>1, <1>2
<1>5. TimingIsExact(run)
  BY <1>4 DEF TimingIsExact, Passed, total
<1> QED BY <1>3, <1>5 DEF digest, run

(* The parts of a benchmark. *)
LEMMA BenchmarkParts ==
  ASSUME NEW m, NEW world, NEW policy, NEW fingerprint, NEW measured
  PROVE  LET b == CreateBenchmark(m, world, policy, fingerprint, measured).body
         IN /\ CreateBenchmark(m, world, policy, fingerprint, measured) = Sealed(b)
            /\ b.source = m /\ b.world = world /\ b.policy = policy
            /\ b.fingerprint = fingerprint /\ b.runs = measured
            /\ b.sourceArtifact = m.artifactDigest /\ b.sourceDecision = m.decisionDigest
            /\ b.policyDigest = policy /\ b.fingerprintDigest = fingerprint
            /\ b.scope = ComparisonScope(m, world, fingerprint)
            /\ b.summaries = Summaries(m, policy, measured)
<1> DEFINE ad == m.artifactDigest
           dd == m.decisionDigest
           scope == ComparisonScope(m, world, fingerprint)
           summaries == Summaries(m, policy, measured)
           b == [source |-> m, sourceArtifact |-> ad, sourceDecision |-> dd, world |-> world,
                 policy |-> policy, policyDigest |-> policy, fingerprint |-> fingerprint,
                 fingerprintDigest |-> fingerprint, scope |-> scope, runs |-> measured,
                 summaries |-> summaries]
<1>1. CreateBenchmark(m, world, policy, fingerprint, measured) = Sealed(b)
  BY DEF CreateBenchmark
<1> HIDE DEF ad, dd, scope, summaries
<1>2. /\ b.source = m /\ b.world = world /\ b.policy = policy
      /\ b.fingerprint = fingerprint /\ b.runs = measured
      /\ b.sourceArtifact = ad /\ b.sourceDecision = dd
      /\ b.policyDigest = policy /\ b.fingerprintDigest = fingerprint
      /\ b.scope = scope /\ b.summaries = summaries
  OBVIOUS
<1> HIDE DEF b
<1>3. Sealed(b).body = b
  BY DEF Sealed
<1> QED BY <1>1, <1>2, <1>3 DEF ad, dd, scope, summaries

(* A sealed document is one. *)
LEMMA SealedParts ==
  ASSUME NEW b
  PROVE  Sealed(b).body = b /\ Sealed(b).digest = b /\ Sealed(b) # NoArtifact
<1>1. DOMAIN Sealed(b) = {"body", "digest"} /\ DOMAIN NoArtifact = {"body"}
  BY DEF Sealed, NoArtifact
<1> QED BY <1>1 DEF Sealed

(* The body of a benchmark is a record with summaries.                     *)
LEMMA BenchmarkIsRecord ==
  ASSUME NEW m, NEW world, NEW policy, NEW fingerprint, NEW measured
  PROVE  LET b == CreateBenchmark(m, world, policy, fingerprint, measured).body
         IN "summaries" \in DOMAIN b /\ b = [x \in DOMAIN b |-> b[x]]
<1> DEFINE ad == m.artifactDigest
           dd == m.decisionDigest
           scope == ComparisonScope(m, world, fingerprint)
           summaries == Summaries(m, policy, measured)
           b == [source |-> m, sourceArtifact |-> ad, sourceDecision |-> dd, world |-> world,
                 policy |-> policy, policyDigest |-> policy, fingerprint |-> fingerprint,
                 fingerprintDigest |-> fingerprint, scope |-> scope, runs |-> measured,
                 summaries |-> summaries]
<1>1. CreateBenchmark(m, world, policy, fingerprint, measured) = Sealed(b)
  BY DEF CreateBenchmark
<1> HIDE DEF ad, dd, scope, summaries
<1>2. "summaries" \in DOMAIN b /\ b = [x \in DOMAIN b |-> b[x]]
  OBVIOUS
<1> HIDE DEF b
<1>3. Sealed(b).body = b
  BY SealedParts
<1> QED BY <1>1, <1>2, <1>3

(* A benchmark replays as it was made.                                     *)
LEMMA BenchmarkReplays ==
  ASSUME NEW m, NEW world, NEW policy, NEW fingerprint, NEW measured,
         BenchmarkAccepts(m, world, policy, measured)
  PROVE  ReplayBenchmark(CreateBenchmark(m, world, policy, fingerprint, measured))
<1> DEFINE artifact == CreateBenchmark(m, world, policy, fingerprint, measured)
           b == artifact.body
<1>1. /\ artifact = Sealed(b)
      /\ b.source = m /\ b.world = world /\ b.policy = policy
      /\ b.fingerprint = fingerprint /\ b.runs = measured
      /\ b.sourceArtifact = m.artifactDigest /\ b.sourceDecision = m.decisionDigest
      /\ b.policyDigest = policy /\ b.fingerprintDigest = fingerprint
      /\ b.scope = ComparisonScope(m, world, fingerprint)
      /\ b.summaries = Summaries(m, policy, measured)
  BY BenchmarkParts
<1>2. artifact.digest = b
  <2> HIDE DEF artifact
  <2> DEFINE x == artifact.body
  <2> HIDE DEF x
  <2>1. artifact = Sealed(x)
    BY <1>1 DEF x
  <2>2. artifact.digest = x
    BY <2>1, SealedParts
  <2> QED BY <2>2 DEF x
<1> HIDE DEF artifact
<1> QED BY <1>1, <1>2 DEF ReplayBenchmark, artifact

(* The parts of a result. *)
LEMMA ResultParts ==
  ASSUME NEW status, NEW source, NEW artifact, NEW context
  PROVE  LET r == ResultOf(status, source, artifact, context)
         IN /\ r.status = status /\ r.source = source /\ r.artifact = artifact /\ r.context = context
            /\ SealResult(r).digest = r.digest
<1> DEFINE r == ResultOf(status, source, artifact, context)
           digest == [status |-> status, source |-> source, artifact |-> artifact, context |-> context]
<1>1. r = [status |-> status, source |-> source, artifact |-> artifact, context |-> context,
           digest |-> digest]
  BY DEF ResultOf, SealResult
<1> HIDE DEF r, digest
<1>2. /\ r.status = status /\ r.source = source /\ r.artifact = artifact /\ r.context = context
      /\ r.digest = digest
  BY <1>1
<1>3. SealResult(r).digest = digest
  BY <1>1 DEF SealResult, digest
<1> QED BY <1>2, <1>3 DEF r, digest

(* The source of the measurements: a manifest of the snapshot that was     *)
(* replayed before the first of them.                                      *)
SourceInv ==
  stage = "MEASURING" =>
    /\ ParsesAsManifest(manifest) /\ ReplayManifest(manifest)
    /\ manifest.decision.status = "VERIFIED" /\ manifest.repository = "taken"

(* An acquisition measures the manifest its own campaign decided.          *)
LEMMA AcquireKeepsSource ==
  ASSUME SourceInv, Acquire
  PROVE  SourceInv'
<1>1. CASE Verify
  <2>1. snapshot = "taken"
    BY <1>1 DEF Verify
  <2>2. PICK obs \in Evidence1 :
          LET m == DecideEvidence(snapshot, obs)
          IN /\ manifest' = m /\ ParsesAsManifest(m)
             /\ stage' = "MEASURING" => m.decision.status = "VERIFIED" /\ ReplayManifest(m)
    BY <1>1 DEF Verify
  <2> DEFINE m == DecideEvidence("taken", obs)
  <2>3. /\ manifest' = m /\ ParsesAsManifest(m)
        /\ stage' = "MEASURING" => m.decision.status = "VERIFIED" /\ ReplayManifest(m)
    BY <2>1, <2>2
  <2>4. m.decision.status = "VERIFIED" => m.repository = "taken"
    <3>1. "taken" # "invalid"
      OBVIOUS
    <3> QED BY <3>1, DecidedReplays
  <2> HIDE DEF m
  <2> QED BY <2>3, <2>4 DEF SourceInv
<1>2. CASE \/ Refuse \/ TakeSnapshot \/ CampaignThrows \/ DriftedDuringCampaign \/ MeasurementThrows
           \/ Finish \/ DriftedDuringMeasurement
  <2>1. stage' # "MEASURING"
    BY <1>2 DEF Refuse, TakeSnapshot, CampaignThrows, DriftedDuringCampaign, MeasurementThrows, Finish,
                DriftedDuringMeasurement, Fail
  <2> QED BY <2>1 DEF SourceInv
<1>3. CASE Disturb \/ Measure
  <2>1. stage' = stage /\ manifest' = manifest
    BY <1>3 DEF Disturb, Measure
  <2> QED BY <2>1 DEF SourceInv
<1> QED BY <1>1, <1>2, <1>3 DEF Acquire

(* What is measured is accepted for a benchmark. *)
LEMMA MeasuredIsAccepted ==
  ASSUME AcquisitionInv, SourceInv, stage = "MEASURING", Cardinality(runs) = Total,
         RequestIsAccepted(request)
  PROVE  BenchmarkAccepts(manifest, ReferenceWorld, Plan, runs)
<1>1. /\ request \in Requests
      /\ IsMeasurable(manifest) /\ InOrder(runs, surroundings)
  BY DEF AcquisitionInv, AsRequested, WellMeasured
<1>2. /\ ParsesAsManifest(manifest) /\ ReplayManifest(manifest)
      /\ manifest.decision.status = "VERIFIED"
  BY DEF SourceInv
<1>3. /\ \A c \in Selected(manifest) : manifest.candidates[c].status = "ELIGIBLE"
      /\ Cardinality(Selected(manifest)) \in Nat /\ Cardinality(Selected(manifest)) <= MaximumSelected
  BY <1>2, SelectedFew
<1>4. Cardinality(Selected(manifest)) * PerCandidate(Plan) <= Plan.maximumExecutions
  <2> DEFINE n == Cardinality(Selected(manifest))
             k == PerCandidate(Plan)
             most == Plan.maximumExecutions
  <2>1. MaximumSelected * k <= most
    BY DEF RequestIsAccepted, Plan
  <2>2. k \in Nat /\ most \in Nat
    BY <1>1, PlanNumbers, RequestsAssumption DEF PerSubject, Plan
  <2>3. n \in Nat /\ n <= MaximumSelected /\ MaximumSelected \in Nat
    BY <1>3, EvidenceAssumption
  <2> HIDE DEF n, k, most
  <2>4. n * k <= MaximumSelected * k
    BY <2>2, <2>3
  <2>5. n * k <= most
    BY <2>1, <2>2, <2>3, <2>4
  <2> QED BY <2>5 DEF n, k, most
<1>5. ASSUME NEW r \in runs
      PROVE  r.candidate \in Selected(manifest) /\ r.digest = Digest[r.candidate] /\ TimingIsExact(r)
  <2>1. PICK s \in surroundings : r = s.run
    BY <1>1 DEF InOrder
  <2>2. PICK j \in 1 .. Total : r = RunOf(j, s.end)
    BY <1>1, <2>1 DEF InOrder, IsPlaced
  <2>3. r.candidate \in Selected(manifest)
    <3>1. Place(j) \in 1 .. Len(manifest.decision.selected)
      BY <1>1, MeasurementAt
    <3>2. manifest.decision.selected \in CandidateSeqs
      BY <1>1 DEF IsMeasurable
    <3>3. Place(j) \in DOMAIN manifest.decision.selected
      BY <3>1, <3>2, SeqOfCandidates
    <3>4. r.candidate = manifest.decision.selected[Place(j)]
      BY <2>2, RunSays, SubjectAt
    <3> QED BY <3>3, <3>4 DEF Selected
  <2> QED BY <2>2, <2>3, RunIsExact
<1>6. \A c \in Selected(manifest) : PlanIsExecuted(Plan, runs, c)
  BY <1>1, PlanExecuted
<1>7. InputsAreValid(manifest, Plan, runs)
  BY <1>2, <1>3, <1>4, <1>5, <1>6 DEF InputsAreValid
<1>8. SourceIsBound(manifest, ReferenceWorld)
  BY <1>2, <1>3 DEF SourceIsBound, RequestIsAccepted
<1> QED BY <1>2, <1>7, <1>8 DEF BenchmarkAccepts

(* The result r of an acquisition with an artifact a, as it is made from   *)
(* the manifest m in the context c.                                        *)
IsResultOf(r, m, a, c) ==
  /\ r = ResultOf(AcquisitionStatus(a.body.summaries), m, a, c)
  /\ \E world, policy, fingerprint, measured : a = CreateBenchmark(m, world, policy, fingerprint, measured)
  /\ \E q, ids : c = ContextOf(q, ids)

(* The result of a finished acquisition replays.                           *)
LEMMA FinishReplays ==
  ASSUME AcquisitionInv, SourceInv, Finish
  PROVE  /\ ReplayAcquisition(result')
         /\ \E m, a, c : IsResultOf(result', m, a, c)
<1>1. stage = "MEASURING" /\ Cardinality(runs) = Total
  BY DEF Finish
<1>2. /\ ParsesAsManifest(manifest) /\ ReplayManifest(manifest)
      /\ manifest.decision.status = "VERIFIED" /\ manifest.repository = "taken"
  BY <1>1 DEF SourceInv
<1>3. RequestIsAccepted(request)
  BY <1>1 DEF AcquisitionInv, AsRequested
<1> DEFINE selected == manifest.decision.selected
           context == ContextOf(request, selected)
           fingerprint == FingerprintOf(context)
           artifact == CreateBenchmark(manifest, ReferenceWorld, Plan, fingerprint, runs)
           status == AcquisitionStatus(artifact.body.summaries)
           r == ResultOf(status, manifest, artifact, context)
<1>4. result' = r
  BY DEF Finish
<1>5. ReplayBenchmark(artifact)
  BY <1>1, <1>3, MeasuredIsAccepted, BenchmarkReplays
<1>6. /\ artifact # NoArtifact /\ artifact.body.source = manifest
      /\ artifact.body.world = ReferenceWorld /\ artifact.body.fingerprint = fingerprint
  <2> DEFINE b == artifact.body
  <2>1. /\ artifact = Sealed(b) /\ b.source = manifest
        /\ b.world = ReferenceWorld /\ b.fingerprint = fingerprint
    BY BenchmarkParts
  <2> HIDE DEF artifact, fingerprint
  <2>2. Sealed(b) # NoArtifact
    <3> HIDE DEF b
    <3> QED BY SealedParts
  <2> QED BY <2>1, <2>2
<1>7. /\ context.snapshot = "taken" /\ context.world = ReferenceWorld /\ context.candidateIds = selected
      /\ context.command = Command /\ context.graph = context.dependencies
  BY DEF ContextOf
<1>8. status # "SOURCE_NOT_VERIFIED"
  BY DEF AcquisitionStatus
<1> HIDE DEF artifact, context, status, r
<1>9. /\ r.status = status /\ r.source = manifest /\ r.artifact = artifact /\ r.context = context
      /\ SealResult(r).digest = r.digest
  <2>1. r = ResultOf(status, manifest, artifact, context)
    BY DEF r
  <2>2. /\ ResultOf(status, manifest, artifact, context).status = status
        /\ ResultOf(status, manifest, artifact, context).source = manifest
        /\ ResultOf(status, manifest, artifact, context).artifact = artifact
        /\ ResultOf(status, manifest, artifact, context).context = context
        /\ SealResult(ResultOf(status, manifest, artifact, context)).digest
             = ResultOf(status, manifest, artifact, context).digest
    BY ResultParts
  <2> QED BY <2>1, <2>2
<1>10. ContextIsBound(r)
  BY <1>2, <1>3, <1>6, <1>7, <1>9 DEF ContextIsBound, RequestIsAccepted
<1>11. ReplayAcquisition(r)
  BY <1>2, <1>5, <1>6, <1>8, <1>9, <1>10 DEF ReplayAcquisition, status
<1>12. IsResultOf(r, manifest, artifact, context)
  <2>1. artifact = CreateBenchmark(manifest, ReferenceWorld, Plan, fingerprint, runs)
    BY DEF artifact
  <2>2. context = ContextOf(request, selected)
    BY DEF context
  <2>3. r = ResultOf(AcquisitionStatus(artifact.body.summaries), manifest, artifact, context)
    BY DEF r, status
  <2> HIDE DEF fingerprint, selected
  <2> QED BY <2>1, <2>2, <2>3 DEF IsResultOf
<1> QED BY <1>4, <1>11, <1>12

-----------------------------------------------------------------------------
(* Every document replays as it was made.                                  *)

(* What a profile records of its source and its policy.                    *)
LEMMA ProfileParts ==
  ASSUME NEW m, NEW policy
  PROVE  LET b == CreateProfile(m, policy).body
         IN /\ CreateProfile(m, policy) = Sealed(b)
            /\ b.source = m /\ b.policy = policy /\ b.policyDigest = policy
            /\ b.qualified \subseteq DOMAIN b.entries /\ "source" \in DOMAIN b
<1> DEFINE entries == Tabled(ProfileEntries(m, policy))
           killed == [c \in DOMAIN entries |-> entries[c].killed]
           p95 == [c \in DOMAIN entries |-> entries[c].p95]
           b == ProfileOf(m, policy, entries, killed, p95)
<1>1. CreateProfile(m, policy) = Sealed(b)
  BY DEF CreateProfile, ProfileBody
<1> HIDE DEF entries, killed, p95
<1> DEFINE status == ProfileStatus({entries[c].classification : c \in DOMAIN entries})
           frontier == Frontier(entries)
           portfolios == [i \in DOMAIN policy.lanes |->
                            LanePortfolio({c \in DOMAIN entries : i \in entries[c].lanes},
                                          killed, p95, policy.lanes[i])]
           qualified == {c \in DOMAIN entries : entries[c].classification = "QUALIFIED"}
<1>2. b = [source |-> m, sourceDigest |-> m.artifactDigest, policy |-> policy, policyDigest |-> policy,
           status |-> status, entries |-> entries, frontier |-> frontier,
           portfolios |-> portfolios, qualified |-> qualified]
  BY DEF ProfileOf
<1>3. qualified \subseteq DOMAIN entries
  OBVIOUS
<1> HIDE DEF b, status, frontier, portfolios, qualified
<1>4. /\ b.source = m /\ b.policy = policy /\ b.policyDigest = policy
      /\ b.qualified = qualified /\ b.entries = entries /\ "source" \in DOMAIN b
  BY <1>2
<1>5. CreateProfile(m, policy).body = b
  BY <1>1, SealedParts
<1> QED BY <1>1, <1>3, <1>4, <1>5

(* A profile replays as it was made.                                       *)
LEMMA ProfileReplays ==
  ASSUME NEW m, NEW policy, ProfileAccepts(m, policy)
  PROVE  ReplayProfile(CreateProfile(m, policy))
<1> DEFINE report == CreateProfile(m, policy)
           b == report.body
<1>1. /\ report = Sealed(b)
      /\ b.source = m /\ b.policy = policy /\ b.policyDigest = policy
      /\ b.qualified \subseteq DOMAIN b.entries
  BY ProfileParts
<1>2. report.digest = b
  BY <1>1, SealedParts
<1>3. report = CreateProfile(b.source, b.policy)
  BY <1>1
<1> HIDE DEF report
<1> QED BY <1>1, <1>2, <1>3 DEF ReplayProfile, report

(* What an export records of its source and its request.                   *)
LEMMA ExportParts ==
  ASSUME NEW m, NEW asked
  PROVE  LET b == CreateExport(m, asked).body
         IN /\ CreateExport(m, asked) = Sealed(b)
            /\ b.source = m /\ b.request = asked /\ {"source", "request"} \subseteq DOMAIN b
<1> DEFINE b == ExportBody(m, asked)
<1>1. CreateExport(m, asked) = Sealed(b)
  BY DEF CreateExport
<1>2. b.source = m /\ b.request = asked /\ {"source", "request"} \subseteq DOMAIN b
  BY DEF ExportBody
<1> HIDE DEF b
<1>3. CreateExport(m, asked).body = b
  BY <1>1, SealedParts
<1> QED BY <1>1, <1>2, <1>3

(* An export replays as it was made.                                       *)
LEMMA ExportReplays ==
  ASSUME NEW m, NEW asked, ExportAccepts(m)
  PROVE  ReplayExport(CreateExport(m, asked))
<1> DEFINE export == CreateExport(m, asked)
           b == export.body
<1>1. export = Sealed(b) /\ b.source = m /\ b.request = asked
  BY ExportParts
<1>2. export.digest = b
  BY <1>1, SealedParts
<1>3. export = CreateExport(b.source, b.request)
  BY <1>1
<1> HIDE DEF export
<1> QED BY <1>1, <1>2, <1>3 DEF ReplayExport, export

(* What a second profile records of its source and its policy.             *)
LEMMA ProfileV2Parts ==
  ASSUME NEW artifact, NEW policy
  PROVE  LET b == CreateProfileV2(artifact, policy).body
         IN /\ CreateProfileV2(artifact, policy) = Sealed(b)
            /\ b.source = artifact /\ b.sourceDigest = artifact.digest
            /\ b.scope = artifact.body.scope /\ b.policy = policy /\ b.policyDigest = policy
            /\ DOMAIN b.entries \cap b.excluded = {} /\ "source" \in DOMAIN b
<1> DEFINE warm == WarmSummaries(artifact.body)
           matches == policy.scope = artifact.body.scope
           p95 == [c \in DOMAIN warm |-> WarmP95(warm[c])]
           killed == KillsOfSelected(artifact.body)
           portfolios == IF Evaluable(matches, warm) THEN PortfoliosV2(policy.lanes, killed, p95) ELSE <<>>
           b == ProfileV2Of(artifact, policy, matches, warm, p95, killed, portfolios)
           chosen == Selected(artifact.body.source)
<1>1. CreateProfileV2(artifact, policy) = Sealed(b)
  BY DEF CreateProfileV2, ProfileV2Body, ProfileV2Priced
<1>2. DOMAIN warm = chosen
  BY DEF WarmSummaries
<1> HIDE DEF warm, matches, p95, killed, portfolios
<1> DEFINE status == ProfileV2Status(matches, warm, portfolios)
           scope == artifact.body.scope
           source == artifact.body.source
           excluded == {c \in DOMAIN source.candidates : source.candidates[c].status = "ELIGIBLE"} \ chosen
           entries == [c \in DOMAIN warm |->
                         [classification |-> ClassificationV2(matches, warm[c], policy.lanes),
                          status |-> warm[c].status, p95 |-> p95[c], killed |-> killed[c]]]
           frontier == IF Evaluable(matches, warm)
                       THEN FrontierV2([c \in DOMAIN warm |-> TargetWeight(killed[c])],
                                       [c \in DOMAIN warm |-> Cardinality(killed[c] \cap RequiredTargets)],
                                       p95)
                       ELSE {}
<1>3. b = [source |-> artifact, sourceDigest |-> artifact.digest, scope |-> scope,
           policy |-> policy, policyDigest |-> policy, status |-> status, excluded |-> excluded,
           entries |-> entries, frontier |-> frontier, portfolios |-> portfolios]
  BY DEF ProfileV2Of
<1>4. DOMAIN entries \cap excluded = {}
  BY <1>2
<1> HIDE DEF b, status, excluded, entries, frontier, scope, chosen
<1>5. /\ b.source = artifact /\ b.sourceDigest = artifact.digest /\ b.scope = scope
      /\ b.policy = policy /\ b.policyDigest = policy
      /\ b.entries = entries /\ b.excluded = excluded /\ "source" \in DOMAIN b
  BY <1>3
<1>6. CreateProfileV2(artifact, policy).body = b
  BY <1>1, SealedParts
<1> QED BY <1>1, <1>4, <1>5, <1>6 DEF scope

(* A second profile replays as it was made.                                *)
LEMMA ProfileV2Replays ==
  ASSUME NEW artifact, NEW policy, ProfileV2Accepts(artifact, policy)
  PROVE  ReplayProfileV2(CreateProfileV2(artifact, policy))
<1> DEFINE report == CreateProfileV2(artifact, policy)
           b == report.body
<1>1. /\ report = Sealed(b)
      /\ b.source = artifact /\ b.sourceDigest = artifact.digest
      /\ b.scope = artifact.body.scope /\ b.policy = policy /\ b.policyDigest = policy
      /\ DOMAIN b.entries \cap b.excluded = {}
  BY ProfileV2Parts
<1>2. report.digest = b
  BY <1>1, SealedParts
<1>3. report = CreateProfileV2(b.source, b.policy)
  BY <1>1
<1> HIDE DEF report
<1> QED BY <1>1, <1>2, <1>3 DEF ReplayProfileV2, report

(* A manifest replays exactly if its repository is valid. *)
LEMMA ManifestReplays ==
  ASSUME NEW obs \in Evidences
  PROVE  LET m == DecideEvidence("taken", obs)
         IN (ParsesAsManifest(m) /\ ReplayManifest(m)) <=> m.repository # "invalid"
<1> DEFINE m == DecideEvidence("taken", obs)
<1>1. PICK d \in DecisionsGiven(obs, Assess(obs)) :
        /\ m.decision = [status |-> d.status, selected |-> d.selected, reason |-> ReasonFor(obs, d)]
        /\ d.status # "ENGINE_ERROR" =>
             m.observations = obs /\ m.candidates = Assess(obs) /\ m.repository = "taken"
  BY ManifestHolds
<1>2. m.decision.status = "ENGINE_ERROR" => m.repository = "invalid"
  BY ManifestIsSealed
<1>3. m.decision.status # "ENGINE_ERROR" => ReplayManifest(m)
  <2>1. "taken" # "invalid"
    OBVIOUS
  <2> QED BY <2>1, DecidedReplays
<1> HIDE DEF m
<1>4. m.decision.status = d.status /\ m.decision.selected = d.selected
  BY <1>1
<1>5. CASE d.status = "ENGINE_ERROR"
  <2>1. ~ReplayManifest(m)
    <3>1. SUFFICES ASSUME ReplayManifest(m) PROVE FALSE
      OBVIOUS
    <3>2. m.decision.status # "ENGINE_ERROR"
      <4>1. PICK e : e.status # "ENGINE_ERROR" /\
                     m.decision = [status |-> e.status, selected |-> e.selected,
                                   reason |-> ReasonFor(m.observations, e)]
        BY <3>1, ReplayedManifest
      <4> QED BY <4>1
    <3> QED BY <1>4, <1>5, <3>2
  <2> QED BY <1>2, <1>4, <1>5, <2>1 DEF m
<1>6. CASE d.status # "ENGINE_ERROR"
  <2>1. m.observations = obs /\ m.candidates = Assess(obs) /\ m.repository = "taken"
    BY <1>1, <1>6
  <2>2. Acceptable(obs)
    BY <1>6 DEF DecisionsGiven
  <2>3. \A i \in DOMAIN d.selected : d.selected[i] \in Candidates
    <3>1. d.selected \in CandidateSeqs \/ d.selected = <<>>
      BY DEF DecisionsGiven, Conclude
    <3>2. CASE d.selected = <<>>
      BY <3>2
    <3>3. CASE d.selected \in CandidateSeqs
      BY <3>3 DEF CandidateSeqs
    <3> QED BY <3>1, <3>2, <3>3
  <2>4. \A o \in obs : o.world \in Worlds /\ o.candidate \in Candidates \cup {Control}
    BY EvidencesAssumption
  <2>5. DOMAIN Assess(obs) = Candidates /\ \A c \in Candidates : Assess(obs)[c].killed \subseteq Worlds
    BY DEF Assess, KilledTargets, KilledWorlds, Targets, WorldsOf
  <2>6. ParsesAsManifest(m)
    <3>1. (m.decision.status = "ENGINE_ERROR") <=> (m.repository = "invalid")
      BY <1>4, <1>6, <2>1
    <3>2. \A o, p \in m.observations : o.runId = p.runId => o = p
      BY <2>1, <2>2 DEF Acceptable
    <3>3. \A i \in DOMAIN m.decision.selected : m.decision.selected[i] \in DOMAIN m.candidates
      BY <1>4, <2>1, <2>3, <2>5
    <3>4. \A o \in m.observations : o.world \in Worlds /\ o.candidate \in DOMAIN m.candidates \cup {Control}
      BY <2>1, <2>4, <2>5
    <3>5. \A c \in DOMAIN m.candidates : m.candidates[c].killed \subseteq Worlds
      BY <2>1, <2>5
    <3> QED BY <3>1, <3>2, <3>3, <3>4, <3>5 DEF ParsesAsManifest
  <2>7. m.repository # "invalid"
    BY <2>1
  <2> QED BY <1>3, <1>4, <1>6, <2>6, <2>7 DEF m
<1> QED BY <1>5, <1>6

-----------------------------------------------------------------------------
(* What was changed by hand and still replays.                             *)

(* An export is what its source and its request make it. *)
LEMMA ChangedExportFails ==
  ASSUME NEW m, NEW asked, NEW e, e = CreateExport(m, asked),
         NEW x \in ChangesOfExport(e.body), ReplayExport(Sealed(x))
  PROVE  Sealed(x) = e
<1>1. e.body.source = m /\ e.body.request = asked /\ {"source", "request"} \subseteq DOMAIN e.body
  BY ExportParts
<1>2. x.source = m /\ x.request = asked
  BY <1>1, ChangedKeepsSource
<1> DEFINE d == Sealed(x)
<1>3. d.body = x
  BY SealedParts
<1>4. d = CreateExport(d.body.source, d.body.request)
  <2> HIDE DEF d
  <2> QED BY DEF ReplayExport, d
<1> HIDE DEF d
<1> QED BY <1>2, <1>3, <1>4 DEF d

(* No change of a profile touches its source. *)
LEMMA ChangedProfileKeepsSource ==
  ASSUME NEW b, "source" \in DOMAIN b, NEW x \in ChangesOfProfile(b)
  PROVE  x.source = b.source
<1>1. CASE x = [b EXCEPT !.status = "QUALIFIED", !.qualified = DOMAIN b.entries]
  BY <1>1
<1>2. CASE \E c \in DOMAIN b.entries :
             x = [b EXCEPT !.entries[c].classification = "QUALIFIED", !.qualified = @ \cup {c}]
  BY <1>2
<1>3. CASE x = [b EXCEPT !.policy.minimumSamples = 1, !.policyDigest.minimumSamples = 1]
  BY <1>3
<1>4. CASE x = [b EXCEPT !.portfolios[1].selected = <<>>]
  BY <1>4
<1> QED BY <1>1, <1>2, <1>3, <1>4 DEF ChangesOfProfile

(* A change of a second profile leaves its source alone.                   *)
LEMMA ChangedProfileV2KeepsSource ==
  ASSUME NEW b, "source" \in DOMAIN b, NEW x \in ChangesOfProfileV2(b)
  PROVE  x.source = b.source
<1>1. CASE x = [b EXCEPT !.status = "QUALIFIED"]
  BY <1>1
<1>2. CASE x = [b EXCEPT !.frontier = DOMAIN b.entries]
  BY <1>2
<1>3. CASE x = [b EXCEPT !.policy.scope = b.scope, !.policyDigest.scope = b.scope]
  BY <1>3
<1>4. CASE x = [b EXCEPT !.scope = OtherScope(b.scope)]
  BY <1>4
<1> QED BY <1>1, <1>2, <1>3, <1>4 DEF ChangesOfProfileV2

(* What a result that replays says of its parts. *)
LEMMA ReplayedResult ==
  ASSUME NEW s, NEW m, NEW a, NEW c, ReplayAcquisition(ResultOf(s, m, a, c))
  PROVE  /\ s = AcquisitionStatus(a.body.summaries) /\ a # NoArtifact
         /\ a.body.source = m /\ ReplayBenchmark(a)
         /\ c.snapshot = m.repository /\ c.candidateIds = m.decision.selected
         /\ c.world = a.body.world /\ c.command = Command /\ c.graph = c.dependencies
         /\ FingerprintOf(c) = a.body.fingerprint
<1> DEFINE r == ResultOf(s, m, a, c)
<1>1. r.status = s /\ r.source = m /\ r.artifact = a /\ r.context = c
  BY ResultParts
<1>2. ReplayAcquisition(r)
  OBVIOUS
<1> HIDE DEF r
<1> QED BY <1>1, <1>2 DEF ReplayAcquisition, ContextIsBound

(* A fingerprint tells what it was taken of. *)
LEMMA FingerprintTells ==
  ASSUME NEW c, NEW d, FingerprintOf(c) = FingerprintOf(d)
  PROVE  /\ c.executableDigest = d.executableDigest /\ c.command = d.command
         /\ c.reporterPath = d.reporterPath /\ c.reporterDigest = d.reporterDigest
         /\ c.graph = d.graph
<1>1. \A x : /\ FingerprintOf(x).graph = x.graph /\ FingerprintOf(x).reporter = x.reporterDigest
             /\ FingerprintOf(x).tool.digest = x.executableDigest
             /\ FingerprintOf(x).tool.configuration[1] = x.command
             /\ FingerprintOf(x).tool.configuration[2] = x.reporterPath
  BY DEF FingerprintOf
<1> QED BY <1>1

(* So two contexts of one source and one artifact are the same. *)
ContextFields == {"snapshot", "world", "candidateIds", "command", "executableDigest",
                  "reporterPath", "reporterDigest", "dependencies", "graph"}

IsContext(c) == DOMAIN c = ContextFields /\ c = [x \in ContextFields |-> c[x]]

(* Two contexts under which the same result replays are the same.          *)
LEMMA ContextDetermined ==
  ASSUME NEW s, NEW m, NEW a, NEW c, NEW d, IsContext(c), IsContext(d),
         ReplayAcquisition(ResultOf(s, m, a, c)), ReplayAcquisition(ResultOf(s, m, a, d))
  PROVE  c = d
<1>1. /\ c.snapshot = d.snapshot /\ c.candidateIds = d.candidateIds /\ c.world = d.world
      /\ c.graph = c.dependencies /\ d.graph = d.dependencies
      /\ FingerprintOf(c) = FingerprintOf(d)
  BY ReplayedResult
<1>2. /\ c.executableDigest = d.executableDigest /\ c.command = d.command
      /\ c.reporterPath = d.reporterPath /\ c.reporterDigest = d.reporterDigest
      /\ c.graph = d.graph
  BY <1>1, FingerprintTells
<1>3. \A x \in ContextFields : c[x] = d[x]
  BY <1>1, <1>2 DEF ContextFields
<1>4. [x \in ContextFields |-> c[x]] = [x \in ContextFields |-> d[x]]
  BY <1>3
<1> QED BY <1>4 DEF IsContext

(* The context an acquisition records is well formed.                      *)
LEMMA ContextIsOne ==
  ASSUME NEW q, NEW ids
  PROVE  IsContext(ContextOf(q, ids))
<1> DEFINE at == ContentAt(q.reporter, "taken")
           deps == Dependencies(q, "taken")
           reporter == q.reporter
           c == [snapshot |-> "taken", world |-> ReferenceWorld, candidateIds |-> ids,
                 command |-> Command, executableDigest |-> Command,
                 reporterPath |-> reporter, reporterDigest |-> at,
                 dependencies |-> deps, graph |-> deps]
<1>1. ContextOf(q, ids) = c
  BY DEF ContextOf
<1> HIDE DEF at, deps, reporter
<1>2. IsContext(c)
  BY DEF IsContext, ContextFields
<1> QED BY <1>1, <1>2

(* A changed context is well formed.                                       *)
LEMMA ChangedContextIsOne ==
  ASSUME NEW c, IsContext(c), NEW d \in ChangesOfContext(c)
  PROVE  IsContext(d)
<1>1. ASSUME NEW e, NEW f, NEW v, e = [c EXCEPT ![f] = v] PROVE IsContext(e)
  BY <1>1 DEF IsContext
<1>2. ASSUME NEW e, NEW f, NEW v, e = [c EXCEPT !.dependencies = f, !.graph = v] PROVE IsContext(e)
  BY <1>2 DEF IsContext
<1> QED BY <1>1, <1>2 DEF ChangesOfContext

(* Without an artifact nothing ties the context down, and it is refused.   *)
LEMMA BareResultFails ==
  ASSUME NEW s, NEW m, NEW c
  PROVE  ~ReplayAcquisition(ResultOf(s, m, NoArtifact, c))
BY ReplayedResult

(* A result without an artifact does not replay, changed or not.           *)
LEMMA ChangedBareFails ==
  ASSUME NEW s, NEW m, NEW c, NEW d \in ChangesOfAcquisition(ResultOf(s, m, NoArtifact, c))
  PROVE  ~ReplayAcquisition(d)
<1> DEFINE r == ResultOf(s, m, NoArtifact, c)
<1>1. r.artifact = NoArtifact
  BY ResultParts
<1> HIDE DEF r
<1>2. \E t, n, e : d = ResultOf(t, n, r.artifact, e)
  BY <1>1 DEF ChangesOfAcquisition, r
<1> QED BY <1>1, <1>2, BareResultFails

(* A result is determined by what it was made of: no change of it replays. *)
LEMMA ChangedResultFails ==
  ASSUME NEW r, NEW m, NEW a, NEW c, IsResultOf(r, m, a, c), ReplayAcquisition(r),
         NEW d \in ChangesOfAcquisition(r), ReplayAcquisition(d)
  PROVE  d = r
<1> DEFINE s == AcquisitionStatus(a.body.summaries)
<1>1. r = ResultOf(s, m, a, c) /\ IsContext(c)
  BY ContextIsOne DEF IsResultOf
<1> HIDE DEF s
<1>2. r.status = s /\ r.source = m /\ r.artifact = a /\ r.context = c
  BY <1>1, ResultParts
<1>3. /\ s = AcquisitionStatus(a.body.summaries) /\ a # NoArtifact
      /\ a.body.source = m
  BY <1>1, ReplayedResult
<1>4. ASSUME NEW t, d = ResultOf(t, m, a, c) PROVE d = r
  BY <1>1, <1>3, <1>4, ReplayedResult
<1>5. ASSUME NEW e \in ChangesOfContext(c), d = ResultOf(s, m, a, e) PROVE d = r
  <2>1. IsContext(e)
    BY <1>1, ChangedContextIsOne
  <2>2. c = e
    BY <1>1, <1>5, <2>1, ContextDetermined
  <2> QED BY <1>1, <1>5, <2>2
<1>6. ASSUME NEW n, d = ResultOf(s, n, a, c) PROVE d = r
  <2>1. a.body.source = n
    BY <1>6, ReplayedResult
  <2> QED BY <1>1, <1>3, <1>6, <2>1
<1>7. ASSUME NEW x, d = ResultOf(s, m, Sealed([a.body EXCEPT !.summaries[x].status = "MEASURED"]), c)
      PROVE  d = r
  <2> DEFINE b == a.body
             other == [b EXCEPT !.summaries[x].status = "MEASURED"]
             changed == [b.summaries EXCEPT ![x].status = "MEASURED"]
  <2>1. PICK world, policy, fingerprint, measured : a = CreateBenchmark(m, world, policy, fingerprint, measured)
    BY DEF IsResultOf
  <2>2. /\ a = Sealed(b) /\ b.source = m /\ b.policy = policy /\ b.runs = measured
        /\ b.summaries = Summaries(m, policy, measured)
    BY <2>1, BenchmarkParts
  <2>2a. "summaries" \in DOMAIN b /\ b = [y \in DOMAIN b |-> b[y]]
    BY <2>1, BenchmarkIsRecord
  <2>3. other = [b EXCEPT !.summaries = changed]
    OBVIOUS
  <2>4. ReplayBenchmark(Sealed(other))
    BY <1>7, ReplayedResult
  <2> HIDE DEF b, other, changed
  <2>5. other.source = b.source /\ other.policy = b.policy /\ other.runs = b.runs /\ other.summaries = changed
    BY <2>2a, <2>3
  <2>6. other.summaries = Summaries(other.source, other.policy, other.runs)
    <3>1. Sealed(other).body = other
      BY SealedParts
    <3> QED BY <2>4, <3>1 DEF ReplayBenchmark
  <2>7. changed = b.summaries
    BY <2>2, <2>5, <2>6
  <2>8. other = b
    BY <2>2a, <2>3, <2>7
  <2> QED BY <1>1, <1>7, <2>2, <2>8 DEF b, other
<1>8. \/ \E t : d = ResultOf(t, m, a, c)
      \/ \E e \in ChangesOfContext(c) : d = ResultOf(s, m, a, e)
      \/ \E n : d = ResultOf(s, n, a, c)
      \/ \E x : d = ResultOf(s, m, Sealed([a.body EXCEPT !.summaries[x].status = "MEASURED"]), c)
  BY <1>2, <1>3 DEF ChangesOfAcquisition
<1> QED BY <1>4, <1>5, <1>6, <1>7, <1>8

-----------------------------------------------------------------------------
(* Documents as they were made, and as they were changed.                  *)

(* How the document d was made: one that was refused is not there.         *)
Made(d) ==
  \/ d.kind = "NONE"
  \/ d.kind = "MANIFEST" /\ \E obs \in Evidences : d.at = DecideEvidence("taken", obs)
  \/ d.kind = "PROFILE" /\ \E m, policy : ProfileAccepts(m, policy) /\ d.at = CreateProfile(m, policy)
  \/ d.kind = "EXPORT" /\ \E m, asked : ExportAccepts(m) /\ d.at = CreateExport(m, asked)
  \/ /\ d.kind = "PROFILE_V2"
     /\ \E artifact, policy : /\ ProfileV2Accepts(artifact, policy)
                              /\ d.at = CreateProfileV2(artifact, policy)
  \/ d.kind = "ACQUISITION" /\ \E s, m, c : d.at = ResultOf(s, m, NoArtifact, c)
  \/ /\ d.kind = "ACQUISITION" /\ ReplayAcquisition(d.at)
     /\ \E m, a, c : IsResultOf(d.at, m, a, c)

(* What a change leaves of it, if it still replays.                        *)
ChangedWell ==
  Replays(document) =>
    /\ document.kind \in {"EXPORT", "ACQUISITION"} => document = original
    /\ document.kind \in {"PROFILE", "PROFILE_V2"} =>
         document.at.body.source = original.at.body.source

HistoryInv ==
  /\ edited \in BOOLEAN
  /\ document.kind \in {"NONE", "MANIFEST", "PROFILE", "EXPORT", "PROFILE_V2", "ACQUISITION"}
  /\ ~edited => Made(document) /\ original = document
  /\ edited => document.kind # "NONE" /\ ChangedWell

(* At first the document is as it was made.                                *)
LEMMA InitHistory == Init => HistoryInv
<1> SUFFICES ASSUME Init PROVE HistoryInv
  OBVIOUS
<1>1. edited = FALSE /\ original = document
  BY DEF Init
<1>2. CASE document = [kind |-> "NONE"]
  BY <1>1, <1>2 DEF HistoryInv, Made
<1>3. CASE \E obs \in Evidences : document = [kind |-> "MANIFEST", at |-> DecideEvidence("taken", obs)]
  <2>1. PICK obs \in Evidences : document = [kind |-> "MANIFEST", at |-> DecideEvidence("taken", obs)]
    BY <1>3
  <2> DEFINE m == DecideEvidence("taken", obs)
  <2> HIDE DEF m
  <2>2. document.kind = "MANIFEST" /\ document.at = m
    BY <2>1 DEF m
  <2>3. Made(document)
    BY <2>2 DEF Made, m
  <2> QED BY <1>1, <2>2, <2>3 DEF HistoryInv
<1> QED BY <1>2, <1>3 DEF Init

(* A document that has just been made is as it was made. *)
LEMMA HoldingKeepsHistory ==
  ASSUME HistoryInv, edited' = edited, NEW kind, NEW d, Holding(kind, d),
         Made([kind |-> kind, at |-> d]),
         kind \in {"PROFILE", "EXPORT", "PROFILE_V2", "ACQUISITION"}
  PROVE  HistoryInv'
<1>1. /\ document' = [kind |-> kind, at |-> d] /\ original' = document'
      /\ document'.kind = kind
  BY DEF Holding
<1>2. edited' \in BOOLEAN
  BY DEF HistoryInv
<1>3. Made(document)'
  BY <1>1 DEF Made
<1>4. ChangedWell'
  BY <1>1 DEF ChangedWell
<1> QED BY <1>1, <1>2, <1>3, <1>4 DEF HistoryInv

(* A step that leaves the documents alone keeps their history.             *)
LEMMA QuietKeepsHistory ==
  ASSUME HistoryInv, UNCHANGED <<document, original, edited>>
  PROVE  HistoryInv'
<1>1. Made(document)' <=> Made(document)
  BY DEF Made
<1>2. ChangedWell' <=> ChangedWell
  <2>1. Replays(document)' <=> Replays(document)
    BY DEF Replays
  <2> QED BY <2>1 DEF ChangedWell
<1> QED BY <1>1, <1>2 DEF HistoryInv

(* The result of an acquisition is a document as it was made.              *)
LEMMA AcquireKeepsHistory ==
  ASSUME HistoryInv, AcquisitionInv, SourceInv, AcquireStep
  PROVE  HistoryInv'
<1>1. CASE result' = result
  BY <1>1, QuietKeepsHistory DEF AcquireStep
<1>2. CASE result' # result
  <2>1. Holding("ACQUISITION", result') /\ edited' = edited /\ Acquire
    BY <1>2 DEF AcquireStep
  <2>2. Verify \/ Finish
    BY <1>2, <2>1 DEF Acquire, Refuse, TakeSnapshot, Disturb, CampaignThrows, DriftedDuringCampaign,
                      Measure, MeasurementThrows, DriftedDuringMeasurement, Fail
  <2>3. ASSUME Verify PROVE \E s, m, c : result' = ResultOf(s, m, NoArtifact, c)
    BY <1>2, <2>3 DEF Verify
  <2>4. ASSUME Finish PROVE ReplayAcquisition(result') /\ \E m, a, c : IsResultOf(result', m, a, c)
    BY <2>4, FinishReplays
  <2> DEFINE d == [kind |-> "ACQUISITION", at |-> result']
  <2>5. d.kind = "ACQUISITION" /\ d.at = result'
    OBVIOUS
  <2> HIDE DEF d
  <2>6. Made(d)
    BY <2>2, <2>3, <2>4, <2>5 DEF Made
  <2> QED BY <2>1, <2>6, HoldingKeepsHistory DEF d
<1> QED BY <1>1, <1>2

(* A new profile is a document as it was made.                             *)
LEMMA MakeProfileKeepsHistory ==
  ASSUME HistoryInv, MakeProfile
  PROVE  HistoryInv'
<1>1. PICK policy : /\ ProfileAccepts(document.at, policy)
                    /\ Holding("PROFILE", CreateProfile(document.at, policy))
  BY DEF MakeProfile
<1>2. edited' = edited
  BY DEF MakeProfile
<1> DEFINE m == document.at
           made == CreateProfile(m, policy)
           d == [kind |-> "PROFILE", at |-> made]
<1> HIDE DEF m, made
<1>3. d.kind = "PROFILE" /\ d.at = made
  OBVIOUS
<1> HIDE DEF d
<1>4. Made(d)
  <2>1. ProfileAccepts(m, policy) /\ d.at = CreateProfile(m, policy)
    BY <1>1, <1>3 DEF m, made
  <2> QED BY <1>3, <2>1 DEF Made
<1> QED BY <1>1, <1>2, <1>4, HoldingKeepsHistory DEF d, made, m

(* A new export is a document as it was made.                              *)
LEMMA MakeExportKeepsHistory ==
  ASSUME HistoryInv, MakeExport
  PROVE  HistoryInv'
<1>1. PICK asked : /\ ExportAccepts(document.at)
                   /\ Holding("EXPORT", CreateExport(document.at, asked))
  BY DEF MakeExport
<1>2. edited' = edited
  BY DEF MakeExport
<1> DEFINE m == document.at
           made == CreateExport(m, asked)
           d == [kind |-> "EXPORT", at |-> made]
<1> HIDE DEF m, made
<1>3. d.kind = "EXPORT" /\ d.at = made
  OBVIOUS
<1> HIDE DEF d
<1>4. Made(d)
  <2>1. ExportAccepts(m) /\ d.at = CreateExport(m, asked)
    BY <1>1, <1>3 DEF m, made
  <2> QED BY <1>3, <2>1 DEF Made
<1> QED BY <1>1, <1>2, <1>4, HoldingKeepsHistory DEF d, made, m

(* A new second profile is a document as it was made.                      *)
LEMMA MakeProfileV2KeepsHistory ==
  ASSUME HistoryInv, MakeProfileV2
  PROVE  HistoryInv'
<1>1. PICK policy : /\ ProfileV2Accepts(document.at.artifact, policy)
                    /\ Holding("PROFILE_V2", CreateProfileV2(document.at.artifact, policy))
  BY DEF MakeProfileV2
<1>2. edited' = edited
  BY DEF MakeProfileV2
<1> DEFINE artifact == document.at.artifact
           made == CreateProfileV2(artifact, policy)
           d == [kind |-> "PROFILE_V2", at |-> made]
<1> HIDE DEF artifact, made
<1>3. d.kind = "PROFILE_V2" /\ d.at = made
  OBVIOUS
<1> HIDE DEF d
<1>4. Made(d)
  <2>1. ProfileV2Accepts(artifact, policy) /\ d.at = CreateProfileV2(artifact, policy)
    BY <1>1, <1>3 DEF artifact, made
  <2> QED BY <1>3, <2>1 DEF Made
<1> QED BY <1>1, <1>2, <1>4, HoldingKeepsHistory DEF d, made, artifact

(* Only the first change is made by hand: what it leaves either does not   *)
(* replay or is of the same source.                                        *)
LEMMA EditKeepsHistory ==
  ASSUME HistoryInv, Edit
  PROVE  HistoryInv'
<1>1. /\ ~edited /\ edited' = TRUE /\ original' = original
      /\ Made(document) /\ original = document
  BY DEF Edit, HistoryInv
<1>2. PICK d \in Changes(document) \ (IF document.kind = "NONE" THEN {} ELSE {document.at}) :
        document' = [kind |-> document.kind, at |-> d]
  BY DEF Edit
<1>3. document'.kind = document.kind /\ document'.at = d
  BY <1>2
<1>4. document.kind # "NONE"
  BY <1>2 DEF Changes
<1>5. d \in Changes(document) /\ d # document.at
  BY <1>2, <1>4
<1>6. ASSUME document.kind = "EXPORT", Replays(document)' PROVE FALSE
  <2>1. PICK m, asked : document.at = CreateExport(m, asked)
    BY <1>1, <1>6 DEF Made
  <2>2. PICK x \in ChangesOfExport(document.at.body) : d = Sealed(x)
    BY <1>5, <1>6 DEF Changes
  <2>3. ReplayExport(d)
    BY <1>3, <1>6 DEF Replays
  <2> QED BY <1>5, <2>1, <2>2, <2>3, ChangedExportFails
<1>7. ASSUME document.kind = "ACQUISITION", Replays(document)' PROVE FALSE
  <2>1. ReplayAcquisition(d)
    BY <1>3, <1>7 DEF Replays
  <2>2. d \in ChangesOfAcquisition(document.at)
    BY <1>5, <1>7 DEF Changes
  <2>3. ASSUME NEW s, NEW m, NEW c, document.at = ResultOf(s, m, NoArtifact, c) PROVE FALSE
    BY <2>1, <2>2, <2>3, ChangedBareFails
  <2>4. ASSUME NEW m, NEW a, NEW c, ReplayAcquisition(document.at), IsResultOf(document.at, m, a, c)
        PROVE  FALSE
    BY <1>5, <2>1, <2>2, <2>4, ChangedResultFails
  <2> QED BY <1>1, <1>7, <2>3, <2>4 DEF Made
<1>8. ASSUME document.kind = "PROFILE" PROVE d.body.source = document.at.body.source
  <2>1. PICK m, policy : document.at = CreateProfile(m, policy)
    BY <1>1, <1>8 DEF Made
  <2>2. PICK x \in ChangesOfProfile(document.at.body) : d = Sealed(x)
    BY <1>5, <1>8 DEF Changes
  <2>3. "source" \in DOMAIN document.at.body
    BY <2>1, ProfileParts
  <2>4. x.source = document.at.body.source
    BY <2>3, ChangedProfileKeepsSource
  <2>5. d.body = x
    BY <2>2, SealedParts
  <2> QED BY <2>4, <2>5
<1>9. ASSUME document.kind = "PROFILE_V2" PROVE d.body.source = document.at.body.source
  <2>1. PICK artifact, policy : document.at = CreateProfileV2(artifact, policy)
    BY <1>1, <1>9 DEF Made
  <2>2. PICK x \in ChangesOfProfileV2(document.at.body) : d = Sealed(x)
    BY <1>5, <1>9 DEF Changes
  <2>3. "source" \in DOMAIN document.at.body
    BY <2>1, ProfileV2Parts
  <2>4. x.source = document.at.body.source
    BY <2>3, ChangedProfileV2KeepsSource
  <2>5. d.body = x
    BY <2>2, SealedParts
  <2> QED BY <2>4, <2>5
<1>10. ChangedWell'
  BY <1>1, <1>3, <1>6, <1>7, <1>8, <1>9 DEF ChangedWell
<1> QED BY <1>1, <1>3, <1>4, <1>10 DEF HistoryInv

(* As it was made, a document replays exactly if it may. *)
LEMMA MadeSeparates ==
  ASSUME ~edited, Made(document)
  PROVE  Replays(document) <=> MayReplay
<1>1. CASE document.kind = "NONE"
  BY <1>1 DEF Replays, MayReplay
<1>2. CASE document.kind = "MANIFEST"
  <2>1. PICK obs \in Evidences : document.at = DecideEvidence("taken", obs)
    BY <1>2 DEF Made
  <2>2. (ParsesAsManifest(document.at) /\ ReplayManifest(document.at)) <=> document.at.repository # "invalid"
    BY <2>1, ManifestReplays
  <2>3. Replays(document) <=> (ParsesAsManifest(document.at) /\ ReplayManifest(document.at))
    BY <1>2 DEF Replays
  <2>4. MayReplay <=> document.at.repository # "invalid"
    BY <1>2 DEF MayReplay
  <2> QED BY <2>2, <2>3, <2>4
<1>3. CASE document.kind = "PROFILE"
  <2>1. ReplayProfile(document.at)
    BY <1>3, ProfileReplays DEF Made
  <2> QED BY <1>3, <2>1 DEF Replays, MayReplay
<1>4. CASE document.kind = "EXPORT"
  <2>1. ReplayExport(document.at)
    BY <1>4, ExportReplays DEF Made
  <2> QED BY <1>4, <2>1 DEF Replays, MayReplay
<1>5. CASE document.kind = "PROFILE_V2"
  <2>1. ReplayProfileV2(document.at)
    BY <1>5, ProfileV2Replays DEF Made
  <2> QED BY <1>5, <2>1 DEF Replays, MayReplay
<1>6. CASE document.kind = "ACQUISITION"
  <2>1. ReplayAcquisition(document.at) <=> document.at.artifact # NoArtifact
    <3>1. ASSUME NEW s, NEW m, NEW c, document.at = ResultOf(s, m, NoArtifact, c)
          PROVE  ~ReplayAcquisition(document.at) /\ document.at.artifact = NoArtifact
      BY <3>1, BareResultFails, ResultParts
    <3>2. ASSUME NEW m, NEW a, NEW c, ReplayAcquisition(document.at), IsResultOf(document.at, m, a, c)
          PROVE  document.at.artifact # NoArtifact
      BY <3>2 DEF ReplayAcquisition, ContextIsBound
    <3> QED BY <1>6, <3>1, <3>2 DEF Made
  <2>2. Replays(document) <=> ReplayAcquisition(document.at)
    BY <1>6 DEF Replays
  <2>3. MayReplay <=> document.at.artifact # NoArtifact
    BY <1>6 DEF MayReplay
  <2> QED BY <2>1, <2>2, <2>3
<1> QED BY <1>1, <1>2, <1>3, <1>4, <1>5, <1>6 DEF Made

(* Replay separates the documents that may replay from those that may not, *)
(* as they were made and after a change: see ReplaySeparates.              *)
THEOREM Separates == Spec => []ReplaySeparates
<1> DEFINE Inv == AcquisitionInv /\ SourceInv /\ DocumentInv /\ HistoryInv
<1>1. Init => Inv
  <2>1. Init => SourceInv
    BY DEF Init, AcquisitionInit, SourceInv
  <2> QED BY <2>1, InitAcquisitionInv, InitDocumentInv, InitHistory
<1>2. Inv /\ [Next]_vars => Inv'
  <2> SUFFICES ASSUME Inv, [Next]_vars PROVE Inv'
    OBVIOUS
  <2>1. Acquire \/ UNCHANGED acquisitionVars
    BY DEF Next, AcquireStep, MakeProfile, MakeExport, MakeProfileV2, Edit, vars
  <2>2. AcquisitionInv'
    BY <2>1, AcquireKeepsAcquisition, QuietKeepsAcquisition
  <2>3. SourceInv'
    <3>1. CASE Acquire
      BY <3>1, AcquireKeepsSource
    <3>2. CASE UNCHANGED acquisitionVars
      BY <3>2 DEF SourceInv, acquisitionVars
    <3> QED BY <2>1, <3>1, <3>2
  <2>4. DocumentInv'
    BY MakingKeepsDocument, EditKeepsDocument DEF Next
  <2>5. HistoryInv'
    <3>1. CASE AcquireStep
      BY <3>1, AcquireKeepsHistory
    <3>2. CASE MakeProfile
      BY <3>2, MakeProfileKeepsHistory
    <3>3. CASE MakeExport
      BY <3>3, MakeExportKeepsHistory
    <3>4. CASE MakeProfileV2
      BY <3>4, MakeProfileV2KeepsHistory
    <3>5. CASE Edit
      BY <3>5, EditKeepsHistory
    <3>6. CASE UNCHANGED vars
      BY <3>6, QuietKeepsHistory DEF vars
    <3> QED BY <3>1, <3>2, <3>3, <3>4, <3>5, <3>6 DEF Next
  <2> QED BY <2>2, <2>3, <2>4, <2>5
<1>3. Inv => ReplaySeparates
  <2> SUFFICES ASSUME Inv PROVE ReplaySeparates
    OBVIOUS
  <2>1. CASE ~edited
    <3>1. Replays(document) <=> MayReplay
      BY <2>1, MadeSeparates DEF HistoryInv
    <3> QED BY <3>1 DEF ReplaySeparates
  <2>2. CASE edited
    <3>1. ASSUME Replays(document), document.kind = "MANIFEST" PROVE MayReplay
      <4> DEFINE m == document.at
      <4>1. ParsesAsManifest(m) /\ ReplayManifest(m)
        BY <3>1 DEF Replays
      <4>2. IsFiniteSet(m.observations)
        BY <3>1 DEF DocumentInv
      <4>3. m.decision.status = "VERIFIED" <=>
              \E c \in Candidates : Shows(m.observations, c) /\ TargetPassed(m.observations, c)
        <5> HIDE DEF m
        <5>1. ASSUME m.decision.status = "VERIFIED"
              PROVE  \E c \in Candidates : Shows(m.observations, c) /\ TargetPassed(m.observations, c)
          BY <4>1, <4>2, <5>1, VerifiedShows
        <5>2. ASSUME m.decision.status # "VERIFIED", NEW c \in Candidates
              PROVE  ~(Shows(m.observations, c) /\ TargetPassed(m.observations, c))
          BY <4>1, <4>2, <5>2, UnverifiedShowsNone
        <5> QED BY <5>1, <5>2
      <4> QED BY <2>2, <3>1, <4>3 DEF MayReplay
    <3>2. ASSUME Replays(document), document.kind \in {"EXPORT", "ACQUISITION"} PROVE MayReplay
      <4>1. document = original
        BY <2>2, <3>2 DEF HistoryInv, ChangedWell
      <4> QED BY <2>2, <3>2, <4>1 DEF MayReplay
    <3>3. ASSUME Replays(document), document.kind \in {"PROFILE", "PROFILE_V2"} PROVE MayReplay
      <4>1. document.at.body.source = original.at.body.source
        BY <2>2, <3>3 DEF HistoryInv, ChangedWell
      <4> QED BY <2>2, <3>3, <4>1 DEF MayReplay
    <3>4. Replays(document) => MayReplay
      BY <2>2, <3>1, <3>2, <3>3 DEF HistoryInv
    <3> QED BY <2>2, <3>4 DEF ReplaySeparates
  <2> QED BY <2>1, <2>2
<1> QED BY <1>1, <1>2, <1>3, PTL DEF Spec
=============================================================================
