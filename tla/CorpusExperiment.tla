--------------------------- MODULE CorpusExperiment ---------------------------
(***************************************************************************)
(* Splitting a corpus into calibration and holdout, and the H3 experiment  *)
(* over the holdout (src/core/index.ts and the corpus parsers of           *)
(* src/contracts/index.ts).  Two principals commit secret shares beside    *)
(* the cases, the revealed shares make the seed, and the seed orders the   *)
(* cases of every source.  Of the experiment: what a plan declares before  *)
(* any run, what an artifact claims after all of them, and what replay     *)
(* derives from the bytes of the evidence.                                 *)
(*                                                                         *)
(* Lists that the code keeps sorted by id are sets here.  A content is its *)
(* own digest; the evidence store is the set of the contents at hand.      *)
(***************************************************************************)
EXTENDS CorpusProvenance, Sequences, Functions

CONSTANT
    Score(_, _)         \* Score(seed, caseId): the place a seed gives a case, a natural

Precedes(a, b) == a[1] < b[1] \/ (a[1] = b[1] /\ a[2] < b[2])

Before(seed, a, b) ==
    \/ Score(seed, a) < Score(seed, b)
    \/ Score(seed, a) = Score(seed, b) /\ Precedes(a, b)

\* The cases in the order of a seed.
Arranged(cases, seed) ==
    CHOOSE order \in [1 .. Cardinality(cases) -> cases] :
        \A i, j \in 1 .. Cardinality(cases) : i < j => Before(seed, order[i], order[j])

-----------------------------------------------------------------------------
(* Allocations. *)

AllocationDigest(a) ==
    Sha256([seed |-> a.seed, strata |-> a.strata, assignments |-> a.assignments,
            calibration |-> a.calibration, holdout |-> a.holdout])

RequestParses(strata) ==
    /\ UniqueBy(strata, "sourceId")
    /\ UniqueBy(strata, "identity")
    /\ \A s, t \in strata : s # t => s.cases \cap t.cases = {}
    /\ \A s \in strata : /\ Cardinality(s.cases) >= 2
                         /\ s.calibrationCount \in 1 .. Cardinality(s.cases) - 1

\* One source keeps its first cases for calibration; strata are those of the request.
Allocated(stratum, strata, seed) ==
    LET order == Arranged(stratum.cases, seed)
    IN  [sourceId |-> stratum.sourceId, identity |-> stratum.identity,
         calibrationCount |-> stratum.calibrationCount, cases |-> stratum.cases,
         calibration |-> SubSeq(order, 1, stratum.calibrationCount),
         holdout |-> SubSeq(order, stratum.calibrationCount + 1, Len(order))]

\* The two sides are the parts of the one order.
CreateAllocation(seed, strata) ==
    LET allocated == {Allocated(s, strata, seed) : s \in strata}
        cases == UNION {s.cases : s \in strata}
        order == Arranged(cases, seed)
        source(c) == CHOOSE s \in strata : c \in s.cases
        calibrated == UNION {Range(s.calibration) : s \in allocated}
        allocation ==
            [seed |-> seed, strata |-> allocated,
             assignments |-> [i \in DOMAIN order |->
                [caseId |-> order[i], sourceId |-> source(order[i]).sourceId,
                 score |-> Score(seed, order[i]),
                 partition |-> IF order[i] \in calibrated THEN "CALIBRATION" ELSE "HOLDOUT"]],
             calibration |-> Arranged(calibrated, seed),
             holdout |-> Arranged(cases \ calibrated, seed)]
    IN  [seed |-> seed, strata |-> allocated, assignments |-> allocation.assignments,
         calibration |-> allocation.calibration, holdout |-> allocation.holdout,
         digest |-> AllocationDigest(allocation)]

\* parseAgenticCorpusAllocation's counts.
AllocationParses(a) ==
    LET cases == UNION {s.cases : s \in a.strata}
    IN  /\ Len(a.calibration) = SumFunctionOnSet([s \in a.strata |-> s.calibrationCount], a.strata)
        /\ Len(a.holdout) = Cardinality(cases) - Len(a.calibration)
        /\ Len(a.assignments) = Cardinality(cases)
        /\ UniqueBy(a.strata, "sourceId") /\ UniqueBy(a.strata, "identity")
        /\ \A s \in a.strata : /\ s.calibrationCount < Cardinality(s.cases)
                               /\ Len(s.calibration) = s.calibrationCount
                               /\ Len(s.holdout) = Cardinality(s.cases) - s.calibrationCount
        /\ \A s, t \in a.strata : s # t =>
              /\ s.cases \cap t.cases = {}
              /\ Range(s.calibration) \cap Range(t.calibration) = {}
              /\ Range(s.holdout) \cap Range(t.holdout) = {}
        /\ IsInjective(a.calibration \o a.holdout)
        /\ IsInjective([i \in DOMAIN a.assignments |-> a.assignments[i].caseId])

StrataOf(a) == {[sourceId |-> s.sourceId, identity |-> s.identity,
                 calibrationCount |-> s.calibrationCount, cases |-> s.cases] : s \in a.strata}

\* replayAgenticCorpusAllocation; the allocation is recomputed from its own seed and strata.
AllocationReplays(a) ==
    /\ AllocationParses(a)
    /\ a.digest = AllocationDigest(a)
    /\ RequestParses(StrataOf(a))
    /\ a = [CreateAllocation(a.seed, StrataOf(a)) EXCEPT !.digest = a.digest]

-----------------------------------------------------------------------------
(* Commitment and reveal. *)

\* A share commitment binds the secret and the key it was committed under.
ShareCommitment(keyId, secret) == Sha256([keyId |-> keyId, secret |-> secret])

CommitmentProjection(c) ==
    [policyDigest |-> c.policyDigest, caseSet |-> c.caseSet, strata |-> c.strata,
     signers |-> {[role |-> s.role, keyId |-> s.keyId, share |-> s.share] : s \in c.signers}]

CommitmentDigest(c) == Sha256([projection |-> CommitmentProjection(c),
                               signatures |-> {s.signature : s \in c.signers}])

RevealDigest(r) == Sha256([commitment |-> r.commitment, shares |-> r.shares])

\* The seed is made of the secrets in the order of the key ids: the function of the key ids.
FinalSeed(r) == [k \in {s.keyId : s \in r.shares} |-> (CHOOSE s \in r.shares : s.keyId = k).secret]

CasesOf(c, stratum) ==
    {x.caseId : x \in {y \in c.caseSet : /\ y.sourceId = stratum.sourceId
                                         /\ y.identity = stratum.identity}}

CommittedStrata(c) ==
    {[sourceId |-> s.sourceId, identity |-> s.identity, calibrationCount |-> s.calibrationCount,
      cases |-> CasesOf(c, s)] : s \in c.strata}

CommitmentParses(c) ==
    /\ UniqueBy(c.caseSet, "caseId")
    /\ UniqueBy(c.strata, "sourceId") /\ UniqueBy(c.strata, "identity")
    /\ UniqueBy(c.signers, "keyId") /\ UniqueBy(c.signers, "role")
    /\ Cardinality(c.signers) = 2
    /\ {<<x.sourceId, x.identity>> : x \in c.caseSet} = {<<s.sourceId, s.identity>> : s \in c.strata}
    /\ \A s \in c.strata : /\ Cardinality(CasesOf(c, s)) >= 2
                           /\ s.calibrationCount < Cardinality(CasesOf(c, s))

RevealParses(r) == UniqueBy(r.shares, "keyId") /\ Cardinality(r.shares) = 2

\* verifyAgenticCorpusAllocationCommitmentSignatures.
SignaturesValid(c, policy, pin) ==
    LET bytes == CommitmentProjection(c)
        sources(x) == {s \in policy.sources : s.sourceId = x.sourceId /\ s.identity = x.identity}
    IN  \E author \in {s \in c.signers : s.role = "AUTHOR"},
           reviewer \in {s \in c.signers : s.role = "REVIEWER"} :
           /\ PolicyTrusted(policy, pin)
           /\ PrincipalsDistinct(policy, author.keyId, reviewer.keyId)
           /\ \A x \in c.caseSet : \E s \in sources(x) :
                 MayAuthor(policy, author.keyId, s) /\ MayReview(policy, reviewer.keyId, s)
           /\ SignatureValid(policy, author.keyId, bytes, author.signature)
           /\ SignatureValid(policy, reviewer.keyId, bytes, reviewer.signature)


\* Mutant: the shares of the reveal are not those that were committed.
RevealBound(c, r) ==
    /\ r.commitment = c.digest
    /\ r.digest = RevealDigest(r)
    /\ \A s \in c.signers : \E share \in r.shares : share.keyId = s.keyId

RevealValid(c, r) ==
    /\ r.commitment = c.digest
    /\ r.digest = RevealDigest(r)
    /\ \A s \in c.signers : \E share \in r.shares :
          share.keyId = s.keyId /\ s.share = ShareCommitment(s.keyId, share.secret)

\* replayAgenticCorpusAllocationCommitment, with the two digests the operator has pinned.
CommitmentRails(c, r, a, policy, policyPin, commitmentPin) ==
    LET seed == FinalSeed(r)
    IN  [schemaValid |-> /\ CommitmentParses(c) /\ RevealParses(r)
                         /\ AllocationParses(a) /\ PolicyParses(policy),
         externalTrustAnchorValid |-> policy.digest = policyPin /\ c.policyDigest = policyPin,
         externalCommitmentAnchorValid |-> c.digest = commitmentPin,
         commitmentDigestValid |-> c.digest = CommitmentDigest(c),
         commitmentSignaturesValid |-> SignaturesValid(c, policy, policyPin),
         revealValid |-> RevealValid(c, r),
         finalSeedDigestValid |-> a.seed = seed,
         allocationReplayValid |-> AllocationReplays(a),
         allocationBindingValid |->
            RequestParses(CommittedStrata(c)) /\ a = CreateAllocation(seed, CommittedStrata(c))]

-----------------------------------------------------------------------------
(* The experiment. *)

Arms == {"BASELINE", "PROFILE"}
States == {"BUGGY", "FIXED", "REQUIRED_SUITE"}

Failures == {"ASSERTION_FAILURE", "COMPILE_FAILURE", "COLLECTION_FAILURE", "INFRA_ERROR",
             "NO_TEST_DISCOVERED"}

PlanDigest(plan) == Sha256([x \in DOMAIN plan \ {"digest"} |-> plan[x]])
SuiteDigest(candidates) == Sha256([suite |-> candidates])
CandidateSetDigest(candidates) == Sha256(candidates)
CommandDigest(command) == Sha256(command)

-----------------------------------------------------------------------------
(* The plan. *)

PlanParses(plan) ==
    /\ UniqueBy(plan.subjects, "caseId")
    /\ UniqueBy(plan.commands, "commandId")
    /\ UniqueBy(plan.schedule, "runId")
    /\ plan.attempts >= 2
    /\ \A arm \in Arms : /\ plan.arms[arm].selected # {}
                         /\ UniqueBy(plan.arms[arm].universe, "candidateId")
                         /\ plan.arms[arm].selected \subseteq plan.arms[arm].universe

SubjectsValid(plan, allocation, commitment) ==
    /\ {s.caseId : s \in plan.subjects} = Range(allocation.holdout)
    /\ \A s \in plan.subjects : \E x \in commitment.caseSet :
          /\ x.caseId = s.caseId
          /\ x.caseDigest = s.caseDigest /\ x.provenanceDigest = s.provenanceDigest
          /\ x.sourceId = s.sourceId /\ x.identity = s.identity

ArmsValid(plan) ==
    /\ plan.arms["BASELINE"].universe = plan.arms["PROFILE"].universe
    /\ \A arm \in Arms : plan.arms[arm].suite = SuiteDigest(plan.arms[arm].selected)

CommandsValid(plan) ==
    \A c \in plan.commands :
        /\ c.adapterId \in plan.adapters
        /\ c.state = "REQUIRED_SUITE" \/ c.suite = plan.arms[c.arm].suite

Slot(x) == <<x.caseId, x.arm, x.attempt, x.state>>
Commands(plan, id) == {c \in plan.commands : c.commandId = id}

\* Every case, arm, attempt and state exactly once, each run by a command for its arm and state.
ScheduleValid(plan) ==
    /\ \A x, y \in plan.schedule : Slot(x) = Slot(y) => x = y
    /\ {Slot(x) : x \in plan.schedule} =
          {s.caseId : s \in plan.subjects} \X Arms \X (1 .. plan.attempts) \X States
    /\ \A x \in plan.schedule : \E c \in Commands(plan, x.commandId) :
          c.state = x.state /\ c.arm = x.arm

Runs(plan, arm) == {x \in plan.schedule : x.arm = arm}

TimeoutOf(plan, arm) ==
    LET ofCommand(id) == SumFunctionOnSet([c \in Commands(plan, id) |-> c.timeout],
                                          Commands(plan, id))
    IN  SumFunctionOnSet([x \in Runs(plan, arm) |-> ofCommand(x.commandId)], Runs(plan, arm))

BudgetValid(plan) ==
    /\ \A arm \in Arms : /\ plan.budget.runs[arm] = Cardinality(Runs(plan, arm))
                         /\ plan.budget.timeout[arm] = TimeoutOf(plan, arm)
    /\ plan.budget.runs["BASELINE"] = plan.budget.runs["PROFILE"]
    /\ plan.budget.timeout["BASELINE"] = plan.budget.timeout["PROFILE"]

\* replayAgenticCorpusExperimentPlan, with the digests the operator has pinned.
PlanRails(plan, pins, allocation, commitment) ==
    [schemaValid |-> PlanParses(plan),
     externalPlanAnchorValid |-> plan.digest = pins.plan,
     planDigestValid |-> plan.digest = PlanDigest(plan),
     allocationBindingValid |-> /\ plan.policyDigest = pins.policy
                                /\ plan.commitmentDigest = pins.commitment
                                /\ plan.allocationDigest = allocation.digest,
     subjectSetValid |-> SubjectsValid(plan, allocation, commitment),
     armsValid |-> ArmsValid(plan),
     commandsValid |-> CommandsValid(plan),
     scheduleValid |-> ScheduleValid(plan),
     budgetValid |-> BudgetValid(plan)]

-----------------------------------------------------------------------------
(* The result. *)

ClassifyAttempt(attempt) ==
    IF attempt["FIXED"].outcome # "PASS" \/ attempt["REQUIRED_SUITE"].outcome # "PASS"
    THEN "INSUFFICIENT"
    ELSE IF attempt["BUGGY"].outcome = "PASS" THEN "NOT_DETECTED"
    ELSE IF attempt["BUGGY"] = [outcome |-> "ASSERTION_FAILURE", attributed |-> TRUE]
         THEN "DETECTED" ELSE "INSUFFICIENT"

\* Attempts must agree.
ClassifyArm(attempts) ==
    LET classes == {ClassifyAttempt(attempts[i]) : i \in DOMAIN attempts}
    IN  IF Cardinality(classes) = 1 THEN CHOOSE c \in classes : TRUE ELSE "INSUFFICIENT"

Detected(payload, arm) == {c \in DOMAIN payload : ClassifyArm(payload[c][arm]) = "DETECTED"}

Inconclusive(payload) ==
    {c \in DOMAIN payload : \E arm \in Arms : ClassifyArm(payload[c][arm]) = "INSUFFICIENT"}

NonInferior(payload, cases, deficit) ==
    /\ Inconclusive(payload) \cap cases = {}
    /\ Cardinality(Detected(payload, "PROFILE") \cap cases) + deficit
          >= Cardinality(Detected(payload, "BASELINE") \cap cases)

SourcesOf(plan) == {<<s.sourceId, s.identity>> : s \in plan.subjects}
CasesFrom(plan, source) ==
    {s.caseId : s \in {t \in plan.subjects : <<t.sourceId, t.identity>> = source}}


\* Mutant: the gain on one source makes up for the loss on another.
DeriveAggregate(payload, plan) ==
    [status |-> IF Inconclusive(payload) # {} THEN "INSUFFICIENT"
                ELSE IF NonInferior(payload, DOMAIN payload, plan.deficit) THEN "SUPPORTED"
                ELSE "NOT_SUPPORTED",
     detected |-> [arm \in Arms |-> Detected(payload, arm)],
     inconclusive |-> Inconclusive(payload),
     sources |-> [s \in SourcesOf(plan) |-> NonInferior(payload, CasesFrom(plan, s), plan.deficit)]]

\* deriveExperimentResult: non-inferior in aggregate and on every source by itself.
DeriveResult(payload, plan) ==
    LET sources == [s \in SourcesOf(plan) |->
                       NonInferior(payload, CasesFrom(plan, s), plan.deficit)]
        nonInferior == /\ NonInferior(payload, DOMAIN payload, plan.deficit)
                       /\ \A s \in DOMAIN sources : sources[s]
    IN  [status |-> IF Inconclusive(payload) # {} THEN "INSUFFICIENT"
                    ELSE IF nonInferior THEN "SUPPORTED" ELSE "NOT_SUPPORTED",
         detected |-> [arm \in Arms |-> Detected(payload, arm)],
         inconclusive |-> Inconclusive(payload),
         sources |-> sources]

-----------------------------------------------------------------------------
(* Receipts and the artifact. *)

ReceiptDigest(receipt) == Sha256([x \in DOMAIN receipt \ {"digest"} |-> receipt[x]])

ArtifactDigest(a) == Sha256([x \in DOMAIN a \ {"digest"} |-> a[x]])

\* createAgenticCorpusExperimentArtifact: the result follows from the payload and the plan.
CreateArtifact(request, plan) ==
    LET artifact ==
            [planDigest |-> request.planDigest, allocationDigest |-> request.allocationDigest,
             policyDigest |-> request.policyDigest, bindings |-> request.bindings,
             payload |-> request.payload,
             candidateSet |-> CandidateSetDigest(plan.arms["BASELINE"].universe),
             evidenceSet |-> Sha256(request.bindings), payloadDigest |-> Sha256(request.payload),
             result |-> DeriveResult(request.payload, plan), digest |-> Absent]
    IN  [artifact EXCEPT !.digest = ArtifactDigest(artifact)]

ArtifactParses(a) ==
    UniqueBy(a.bindings, "runId") /\ UniqueBy(a.bindings, "receiptDigest")
        /\ UniqueBy(a.bindings, "content")

\* resolveAgenticCorpusExperimentEvidence: every digest has its own content in the store.
Resolved(store, digests) == digests \subseteq store

RequiredRepository(subject, state) == IF state = "BUGGY" THEN subject.buggy ELSE subject.fixed

ReceiptBound(plan, binding, receipt) ==
    \E x \in plan.schedule, c \in plan.commands, s \in plan.subjects :
        /\ x.runId = binding.runId /\ c.commandId = receipt.commandId /\ s.caseId = receipt.caseId
        /\ receipt.runId = binding.runId
        /\ receipt.digest = binding.receiptDigest /\ receipt.digest = ReceiptDigest(receipt)
        /\ receipt.planDigest = plan.digest
        /\ receipt.commandId = x.commandId /\ receipt.command = CommandDigest(c)
        /\ Slot(receipt) = Slot(x)
        /\ receipt.state = c.state
        /\ receipt.repository = RequiredRepository(s, receipt.state)
        /\ receipt.suite = c.suite /\ receipt.timeout = c.timeout
        /\ receipt.state = "REQUIRED_SUITE" => receipt.suite = s.requiredSuite

\* The commands whose caps apply to the outputs of a receipt.
OutputsResolve(plan, store, receipt) ==
    /\ Resolved(store, {receipt.stdout, receipt.stderr, receipt.structured})
    /\ \A c \in Commands(plan, receipt.commandId) :
          receipt.stdout.size <= c.maxStdout /\ receipt.stderr.size <= c.maxStderr

ProcessConsistent(structured, process) ==
    CASE structured.outcome = "PASS" -> ~process.timedOut /\ process.exitCode = 0
      [] structured.outcome = "PROCESS_CRASH" -> ~process.timedOut /\ process.exitCode = Absent
      [] structured.outcome = "TIMEOUT" -> process.timedOut
      [] structured.outcome \in Failures ->
            ~process.timedOut /\ process.exitCode \notin {Absent, 0}

\* The receipts whose own content is in the store and parses; those of a declared run; those
\* whose outputs are at hand and report an outcome.
ReceiptsAtHand(a, store) ==
    {b \in a.bindings : Resolved(store, {b.content}) /\ "runId" \in DOMAIN b.content}
BoundRuns(plan, atHand) ==
    {b \in atHand : /\ \E x \in plan.schedule : x.runId = b.runId
                    /\ Commands(plan, b.content.commandId) # {}
                    /\ \E s \in plan.subjects : s.caseId = b.content.caseId}
Observing(plan, bound, store) ==
    {b \in bound : /\ OutputsResolve(plan, store, b.content)
                   /\ "outcome" \in DOMAIN b.content.structured}

\* The payload that the evidence supports; a slot without evidence is an infrastructure error.
DerivedPayload(plan, observing) ==
    [c \in {s.caseId : s \in plan.subjects} |-> [arm \in Arms |->
        [i \in 1 .. plan.attempts |-> [state \in States |->
            LET seen == {b \in observing : \E x \in plan.schedule :
                            x.runId = b.runId /\ Slot(x) = <<c, arm, i, state>>}
            IN  IF seen = {} THEN [outcome |-> "INFRA_ERROR", attributed |-> FALSE]
                ELSE (CHOOSE b \in seen : TRUE).content.structured]]]]

\* The set of the one payload that is derived.
Payloads(plan, bound, store) ==
    {DerivedPayload(plan, observing) : observing \in {Observing(plan, bound, store)}}

SubjectDigestsValid(plan, evidence) ==
    /\ Cardinality(plan.subjects) = Cardinality(evidence)
    /\ \A s \in plan.subjects : \E e \in evidence :
          /\ e.document.caseId = s.caseId
          /\ \A metric \in {"h1", "h2", "h3", "h4"} : e.document[metric] = Absent
          /\ s.caseDigest = Sha256(e.document)
          /\ s.provenanceDigest = e.provenance.digest
          /\ s.sourceId = e.provenance.source.sourceId
          /\ s.identity = e.provenance.source.identity

ProvenanceReplays(plan, evidence, policy, pin) ==
    \A s \in plan.subjects : \E e \in evidence :
        e.document.caseId = s.caseId
            /\ AllTrue(ProvenanceRails(e.document, e.provenance, policy, pin))

\* replayAgenticCorpusExperimentArtifact; d is everything but the artifact.
ArtifactRails(a, d) ==
    LET commitment == CommitmentRails(d.commitment, d.reveal, d.allocation, d.policy,
                                      d.pins.policy, d.pins.commitment)
        plan == d.plan
        planned == PlanRails(plan, d.pins, d.allocation, d.commitment)
        atHand == ReceiptsAtHand(a, d.store)
        bound == BoundRuns(plan, atHand)
        payloads == Payloads(plan, bound, d.store)
    IN  [schemaValid |-> ArtifactParses(a),
         artifactDigestValid |-> a.digest = ArtifactDigest(a),
         commitmentRevealValid |-> AllTrue(commitment),
         allocationBindingValid |-> /\ a.allocationDigest = d.allocation.digest
                                    /\ a.planDigest = plan.digest
                                    /\ a.policyDigest = d.pins.policy,
         planSemanticsValid |-> AllTrue(planned),
         subjectDigestsValid |-> SubjectDigestsValid(plan, d.subjects),
         provenanceReplayValid |-> ProvenanceReplays(plan, d.subjects, d.policy, d.pins.policy),
         scheduleValid |-> {x.runId : x \in plan.schedule} = {b.runId : b \in a.bindings},
         budgetValid |-> Cardinality(a.bindings) = Cardinality(plan.schedule),
         evidenceSetDigestValid |-> a.evidenceSet = Sha256(a.bindings),
         receiptBindingsValid |-> /\ bound = a.bindings
                                  /\ \A b \in bound : ReceiptBound(plan, b, b.content),
         candidateEvidenceValid |->
            /\ a.candidateSet = CandidateSetDigest(plan.arms["BASELINE"].universe)
            /\ Resolved(d.store, {c.digest : c \in plan.arms["BASELINE"].universe}),
         outputBytesResolved |-> \A b \in bound : OutputsResolve(plan, d.store, b.content),
         structuredResultsValid |->
            \A b \in bound : OutputsResolve(plan, d.store, b.content) =>
                /\ "outcome" \in DOMAIN b.content.structured
                /\ ProcessConsistent(b.content.structured, b.content.process),
         payloadDigestValid |-> a.payloadDigest = Sha256(a.payload),
         observationSemanticsValid |-> a.payload \in payloads,
         resultSemanticsValid |-> \E payload \in payloads : a.result = DeriveResult(payload, plan)]
=============================================================================
