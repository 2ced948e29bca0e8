----------------------------- MODULE CorpusStudy -----------------------------
(***************************************************************************)
(* The life of an agentic-corpus experiment                                *)
(* (docs/agentic-corpus-experiment-h3.md): two principals commit, the      *)
(* shares are revealed, the corpus is split, a plan is declared and        *)
(* pinned, every scheduled run is executed, an artifact is assembled and   *)
(* replayed.  At most one mishap happens on the way; the documents are     *)
(* what the principals' choices and that mishap make of them.              *)
(***************************************************************************)
EXTENDS CorpusExperiment

CONSTANTS
    Policy,             \* the trust policy
    Held,               \* Held[sourceId]: the cases of a source
    Calibrated,         \* Calibrated[sourceId]: how many of them are for calibration
    Author, Reviewer, SecondKey,    \* key ids; SecondKey is another key of the author
    Secrets,            \* the shares a principal can draw
    Deficits,           \* the detection deficits a plan can allow
    Candidates,         \* Candidates[arm]: the tests an arm selects
    Corpora             \* corpora with metrics, for the evaluations

Attempts == 2
Timeout == 5

\* What the suite of an arm does on a case; FLAKES misses the bug once, BREAKS does not compile.
Behaviours == {"DETECTS", "MISSES", "FLAKES", "BREAKS"}

\* When a mishap can happen.
MishapsAt ==
    [CORPUS |-> {"ONE_SUBJECT"},
     COMMITTED |-> {"SHARE_CHANGED", "CASE_EDITED", "SPLIT_CHANGED"},
     ALLOCATED |-> {"SLOT_DROPPED", "ARM_FAVOURED", "SUBJECT_DROPPED"},
     DECLARED |-> {"PLAN_CHANGED", "TIMED_OUT"},
     EXECUTED |-> {"RECEIPT_LOST", "OUTPUT_LOST", "RECEIPTS_SWAPPED", "RUN_OMITTED",
                   "RESULT_EDITED", "PAYLOAD_EDITED"}]

VARIABLES
    stage, mishap, deficit,
    secrets, commitment, reveal, allocation,    \* what the principals drew, and the split
    pinned, plan,       \* the digest of the plan as declared; the plan at hand
    behaviour, receipts,    \* what the suites do; the receipts of their runs
    verdict, answer

documents == <<commitment, reveal, allocation, pinned, plan, receipts>>
vars == <<stage, mishap, deficit, secrets, documents, behaviour, verdict, answer>>

-----------------------------------------------------------------------------
(* The documents. *)

KeyOf(keyId) == (CHOOSE k \in Policy.keys : k.keyId = keyId).key
IdentityOf(sourceId) == (CHOOSE s \in Policy.sources : s.sourceId = sourceId).identity
AllCases == UNION {Held[s] : s \in DOMAIN Held}
SourceOf(c) == CHOOSE s \in DOMAIN Held : c \in Held[s]

Document(c, revision) ==
    [caseId |-> c, sourceId |-> SourceOf(c), revision |-> revision,
     h1 |-> Absent, h2 |-> Absent, h3 |-> Absent, h4 |-> Absent]

Vouched(document, author, reviewer) ==
    LET execution == [protocolId |-> "protocol", evidence |-> {"log"}]
        unsigned == [policyDigest |-> Policy.digest, caseId |-> document.caseId,
                     caseDigest |-> Sha256(document),
                     source |-> [sourceId |-> document.sourceId, revision |-> document.revision,
                                 identity |-> IdentityOf(document.sourceId)],
                     execution |-> [protocolId |-> "protocol", evidence |-> {"log"},
                                    receipt |-> ReceiptOf(execution)],
                     author |-> [keyId |-> author], reviewer |-> [keyId |-> reviewer]]
        by(keyId) == [keyId |-> keyId,
                      signature |-> Signed(KeyOf(keyId), ProvenanceProjection(unsigned))]
        signed == [policyDigest |-> unsigned.policyDigest, caseId |-> unsigned.caseId,
                   caseDigest |-> unsigned.caseDigest, source |-> unsigned.source,
                   execution |-> unsigned.execution, author |-> by(author),
                   reviewer |-> by(reviewer), digest |-> Absent]
    IN  [signed EXCEPT !.digest = ProvenanceDigest(signed)]

Signers == IF mishap = "ONE_SUBJECT" THEN {<<"AUTHOR", Author>>, <<"REVIEWER", SecondKey>>}
           ELSE {<<"AUTHOR", Author>>, <<"REVIEWER", Reviewer>>}

Provenance(c) == Vouched(Document(c, "r1"), Author, Reviewer)

CommitmentTo(drawn) ==
    LET share(s) == ShareCommitment(s[2], drawn[s[1]])
        unsigned ==
            [policyDigest |-> Policy.digest,
             caseSet |-> {[caseId |-> c, caseDigest |-> Sha256(Document(c, "r1")),
                           provenanceDigest |-> Provenance(c).digest, sourceId |-> SourceOf(c),
                           identity |-> IdentityOf(SourceOf(c))] : c \in AllCases},
             strata |-> {[sourceId |-> s, identity |-> IdentityOf(s),
                          calibrationCount |-> Calibrated[s]] : s \in DOMAIN Held},
             signers |-> {[role |-> s[1], keyId |-> s[2], share |-> share(s)] : s \in Signers}]
        signed ==
            [policyDigest |-> unsigned.policyDigest, caseSet |-> unsigned.caseSet,
             strata |-> unsigned.strata,
             signers |-> {[role |-> s[1], keyId |-> s[2], share |-> share(s),
                           signature |-> Signed(KeyOf(s[2]), CommitmentProjection(unsigned))] :
                             s \in Signers},
             digest |-> Absent]
    IN  [signed EXCEPT !.digest = CommitmentDigest(signed)]

\* The author draws again after the commitment.
Revealed ==
    LET secret(s) == IF mishap = "SHARE_CHANGED" /\ s[1] = "AUTHOR"
                     THEN CHOOSE x \in Secrets : x # secrets["AUTHOR"]
                     ELSE secrets[s[1]]
        shares == {[keyId |-> s[2], secret |-> secret(s)] : s \in Signers}
        unsealed == [commitment |-> commitment.digest, shares |-> shares, digest |-> Absent]
    IN  [unsealed EXCEPT !.digest = RevealDigest(unsealed)]

\* A split for other shares than those revealed is a valid allocation in itself.
AllocationFor(revealed) ==
    LET seed == FinalSeed(revealed)
        other == [k \in DOMAIN seed |-> CHOOSE x \in Secrets : x # seed[k]]
    IN  CreateAllocation(IF mishap = "SPLIT_CHANGED" THEN other ELSE seed,
                         CommittedStrata(commitment))

\* The suite that guards every case: no candidate of its own.
RequiredSuite == SuiteDigest({})

Slots(cases) == cases \X Arms \X (1 .. Attempts) \X States

Drafted(cases, changed) ==
    LET slots == LET all == Slots(cases)
                 IN  IF mishap = "SLOT_DROPPED" THEN all \ {CHOOSE x \in all : TRUE} ELSE all
        universe == {[candidateId |-> k, digest |-> [candidate |-> k]] :
                        k \in UNION {Candidates[arm] : arm \in Arms}}
        selected(arm) ==
            LET chosen == {k \in universe : k.candidateId \in Candidates[arm]}
            IN  IF changed /\ arm = "PROFILE" THEN universe ELSE chosen
        timeout(arm) == IF mishap = "ARM_FAVOURED" /\ arm = "PROFILE" THEN 2 * Timeout ELSE Timeout
    IN  [policyDigest |-> Policy.digest, commitmentDigest |-> commitment.digest,
         allocationDigest |-> allocation.digest, attempts |-> Attempts, deficit |-> deficit,
         adapters |-> {"adapter"},
         subjects |-> {[caseId |-> x.caseId, caseDigest |-> x.caseDigest,
                        provenanceDigest |-> x.provenanceDigest, sourceId |-> x.sourceId,
                        identity |-> x.identity, buggy |-> <<x.caseId, "buggy">>,
                        fixed |-> <<x.caseId, "fixed">>, requiredSuite |-> RequiredSuite] :
                          x \in {y \in commitment.caseSet : y.caseId \in cases}},
         arms |-> [arm \in Arms |-> [universe |-> universe, selected |-> selected(arm),
                                     suite |-> SuiteDigest(selected(arm))]],
         commands |-> {[commandId |-> <<arm, state>>, adapterId |-> "adapter", arm |-> arm,
                        state |-> state, timeout |-> timeout(arm), maxStdout |-> 1,
                        maxStderr |-> 1,
                        suite |-> IF state = "REQUIRED_SUITE" THEN RequiredSuite
                                  ELSE SuiteDigest(selected(arm))] :
                          arm \in Arms, state \in States},
         schedule |-> {[runId |-> x, caseId |-> x[1], arm |-> x[2], attempt |-> x[3],
                        state |-> x[4], commandId |-> <<x[2], x[4]>>] : x \in slots},
         budget |-> [runs |-> [arm \in Arms |-> Cardinality({x \in slots : x[2] = arm})],
                     timeout |-> [arm \in Arms |->
                        timeout(arm) * Cardinality({x \in slots : x[2] = arm})]],
         digest |-> Absent]

Declared(cases, changed) ==
    [Drafted(cases, changed) EXCEPT !.digest = PlanDigest(Drafted(cases, changed))]

Holdout == Range(allocation.holdout)

DeclaredPlan == Declared(IF mishap = "SUBJECT_DROPPED"
                         THEN Holdout \ {CHOOSE c \in Holdout : TRUE} ELSE Holdout, FALSE)

\* What a run of the schedule does.
Observed(does, attempt, state) ==
    CASE state = "FIXED" /\ does = "BREAKS" ->
                [outcome |-> "COMPILE_FAILURE", attributed |-> FALSE]
          [] state = "BUGGY" /\ (does = "DETECTS" \/ (does = "FLAKES" /\ attempt = 1)) ->
                [outcome |-> "ASSERTION_FAILURE", attributed |-> TRUE]
          [] OTHER -> [outcome |-> "PASS", attributed |-> FALSE]

\* The run a mishap is about: one on the buggy revision.
Affected == CHOOSE x \in plan.schedule : x.state = "BUGGY"

\* A run that timed out after its assertion failed kept the report of the failure.
ReceiptFor(x, does) ==
    LET structured == Observed(does[<<x.caseId, x.arm>>], x.attempt, x.state)
        late == mishap = "TIMED_OUT" /\ x = Affected
        command == CHOOSE c \in plan.commands : c.commandId = x.commandId
        subject == CHOOSE s \in plan.subjects : s.caseId = x.caseId
        receipt ==
            [runId |-> x.runId, planDigest |-> plan.digest, commandId |-> x.commandId,
             command |-> CommandDigest(command), caseId |-> x.caseId, arm |-> x.arm,
             attempt |-> x.attempt, state |-> x.state,
             repository |-> RequiredRepository(subject, x.state), suite |-> command.suite,
             timeout |-> command.timeout, stdout |-> [size |-> 1, text |-> x.runId],
             stderr |-> [size |-> 0, text |-> <<>>], structured |-> structured,
             process |-> [timedOut |-> late,
                          exitCode |-> IF late THEN Absent
                                       ELSE IF structured.outcome = "PASS" THEN 0 ELSE 1],
             digest |-> Absent]
    IN  [receipt EXCEPT !.digest = ReceiptDigest(receipt)]

ReceiptOfRun(x) == CHOOSE r \in receipts : r.runId = x.runId

\* The contents at hand when the artifact is replayed: those of every receipt and every test.
Kept(r) == {r, r.stdout, r.stderr, r.structured}
Tests == {k.digest : k \in plan.arms["BASELINE"].universe}
Lost == IF mishap = "RECEIPT_LOST" THEN {ReceiptOfRun(Affected)}
        ELSE IF mishap = "OUTPUT_LOST" THEN {ReceiptOfRun(Affected).stdout} ELSE {}
Store == (Tests \cup UNION {Kept(r) : r \in receipts}) \ Lost

\* Two runs of a case and state exchange their receipts, or one is left out.
Bindings ==
    LET a == Affected
        b == CHOOSE y \in plan.schedule : /\ y.caseId = a.caseId /\ y.state = a.state
                                          /\ y.attempt = a.attempt /\ y.arm # a.arm
        from(x) == IF mishap # "RECEIPTS_SWAPPED" THEN x
                   ELSE IF x = a THEN b ELSE IF x = b THEN a ELSE x
        bind(x, r) == [runId |-> x.runId, receiptDigest |-> r.digest, content |-> r]
        bound == IF mishap = "RUN_OMITTED" THEN plan.schedule \ {a} ELSE plan.schedule
    IN  {bind(x, ReceiptOfRun(from(x))) : x \in bound}

Reported(x) ==
    IF mishap = "PAYLOAD_EDITED" /\ x = Slot(Affected)
    THEN [outcome |-> "INFRA_ERROR", attributed |-> FALSE]
    ELSE Observed(behaviour[<<x[1], x[2]>>], x[3], x[4])

Request ==
    [planDigest |-> plan.digest, allocationDigest |-> allocation.digest,
     policyDigest |-> Policy.digest, bindings |-> Bindings,
     payload |-> [c \in {s.caseId : s \in plan.subjects} |-> [arm \in Arms |->
                    [i \in 1 .. Attempts |-> [state \in States |->
                        Reported(<<c, arm, i, state>>)]]]]]

\* The other result, under a digest of its own.
Edited(artifact) ==
    LET status == IF artifact.result.status = "SUPPORTED" THEN "NOT_SUPPORTED" ELSE "SUPPORTED"
        edited == [artifact EXCEPT !.result.status = status]
    IN  [edited EXCEPT !.digest = ArtifactDigest(edited)]

Artifact ==
    LET artifact == CreateArtifact(Request, plan)
    IN  IF mishap = "RESULT_EDITED" THEN Edited(artifact) ELSE artifact

Dossier ==
    [commitment |-> commitment, reveal |-> reveal, allocation |-> allocation, policy |-> Policy,
     pins |-> [policy |-> Policy.digest, commitment |-> commitment.digest, plan |-> pinned],
     plan |-> plan, store |-> Store,
     subjects |-> {[document |-> Document(s.caseId, IF mishap = "CASE_EDITED" THEN "r2" ELSE "r1"),
                    provenance |-> Provenance(s.caseId)] : s \in plan.subjects}]

-----------------------------------------------------------------------------
(* The steps. *)

Init ==
    /\ stage = "CORPUS" /\ mishap = "NONE"
    /\ deficit \in Deficits
    /\ secrets = Absent /\ commitment = Absent /\ reveal = Absent /\ allocation = Absent
    /\ pinned = Absent /\ plan = Absent
    /\ behaviour = Absent /\ receipts = {}
    /\ verdict = Absent /\ answer = Absent

Commit ==
    /\ stage = "CORPUS"
    /\ stage' = "COMMITTED"
    /\ secrets' \in [{"AUTHOR", "REVIEWER"} -> Secrets]
    /\ commitment' = CommitmentTo(secrets')
    /\ UNCHANGED <<mishap, deficit, reveal, allocation, pinned, plan, behaviour, receipts,
                   verdict, answer>>

RevealAndAllocate ==
    /\ stage = "COMMITTED"
    /\ stage' = "ALLOCATED"
    /\ reveal' = Revealed
    /\ allocation' = AllocationFor(reveal')
    /\ UNCHANGED <<mishap, deficit, secrets, commitment, pinned, plan, behaviour, receipts,
                   verdict, answer>>

Declare ==
    /\ stage = "ALLOCATED"
    /\ stage' = "DECLARED"
    /\ plan' = DeclaredPlan
    /\ pinned' = plan'.digest
    /\ UNCHANGED <<mishap, deficit, secrets, commitment, reveal, allocation, behaviour, receipts,
                   verdict, answer>>

Plain == {"DETECTS", "MISSES"}

\* Bounds: one suite at most flakes or breaks, on one case, where all else detects; a study with
\* a mishap allows no deficit and has plain suites that do the same on every case.
Explored(does) == \/ Range(does) \subseteq Plain
                  \/ \E x \in DOMAIN does : \A y \in DOMAIN does \ {x} : does[y] = "DETECTS"
Uniform(does) == /\ Range(does) \subseteq Plain
                 /\ \A x, y \in DOMAIN does : x[2] = y[2] => does[x] = does[y]

Execute ==
    /\ stage = "DECLARED"
    /\ stage' = "EXECUTED"
    /\ behaviour' \in [Holdout \X Arms -> Behaviours]
    /\ IF mishap = "NONE" THEN Explored(behaviour') ELSE Uniform(behaviour')
    /\ receipts' = {ReceiptFor(x, behaviour') : x \in plan.schedule}
    /\ UNCHANGED <<mishap, deficit, secrets, commitment, reveal, allocation, pinned, plan,
                   verdict, answer>>

\* A plan changed after its declaration is given to the runs; the other mishaps show when the
\* documents they are about are made or replayed.
Mishap ==
    /\ stage \in DOMAIN MishapsAt
    /\ mishap = "NONE" /\ deficit = 0
    /\ stage = "EXECUTED" => Uniform(behaviour)
    /\ mishap' \in MishapsAt[stage]
    /\ plan' = IF mishap' = "PLAN_CHANGED" THEN Declared(Holdout, TRUE) ELSE plan
    /\ UNCHANGED <<stage, deficit, secrets, commitment, reveal, allocation, pinned, behaviour,
                   receipts, verdict, answer>>

\* The artifact is assembled and replayed.
Replay ==
    /\ stage = "EXECUTED"
    /\ stage' = "REPLAYED"
    /\ \E artifact \in {Artifact}, dossier \in {Dossier} :
       \E rails \in {ArtifactRails(artifact, dossier)} :
          verdict' = [result |-> artifact.result, failed |-> {r \in DOMAIN rails : ~rails[r]}]
    /\ UNCHANGED <<mishap, deficit, secrets, documents, behaviour, answer>>

\* The other use of a corpus: its evaluation by the metrics in the cases.
Evaluate ==
    /\ stage = "CORPUS"
    /\ mishap = "NONE"
    /\ stage' = "EVALUATED"
    /\ \E corpus \in Corpora :
          answer' = [corpus |-> corpus, public |-> EvaluatePublic(corpus, Policy, Policy.digest),
                     holdout |-> EvaluateHoldout(corpus, Policy, Policy.digest)]
    /\ UNCHANGED <<mishap, deficit, secrets, documents, behaviour, verdict>>

Next == Commit \/ RevealAndAllocate \/ Declare \/ Execute \/ Mishap \/ Replay \/ Evaluate

Spec == Init /\ [][Next]_vars

-----------------------------------------------------------------------------
(* What a reader of the verdict relies on. *)

\* The judgement of someone who watched the suites themselves.
Caught(cases, arm) == {c \in cases : behaviour[<<c, arm>>] = "DETECTS"}
Sound(cases) == Cardinality(Caught(cases, "PROFILE")) + deficit
                    >= Cardinality(Caught(cases, "BASELINE"))
Judgement ==
    IF ~(Range(behaviour) \subseteq Plain) THEN "INSUFFICIENT"
    ELSE IF Sound(Holdout) /\ \A s \in DOMAIN Held : Sound(Holdout \cap Held[s])
         THEN "SUPPORTED" ELSE "NOT_SUPPORTED"

\* An artifact replays as valid exactly when nothing went wrong between the commitment and the
\* replay, and then its status is what the suites really showed: inconclusive when one of them
\* is flaky or broken, and supported only without a loss on any single source
\* (replayAgenticCorpusExperimentArtifact).
VerdictIsGenuine ==
    stage = "REPLAYED" =>
        /\ verdict.failed = {} <=> mishap = "NONE"
        /\ verdict.failed = {} => verdict.result.status = Judgement

\* A valid verdict is about the split that the committed shares determine, of which every
\* source has cases on both sides, and no two calibration/holdout splits share those shares.
SplitIsCommitted ==
    (stage = "REPLAYED" /\ verdict.failed = {}) =>
        LET seed == [k \in {Author, Reviewer} |->
                        secrets[IF k = Author THEN "AUTHOR" ELSE "REVIEWER"]]
        IN  \A s \in DOMAIN Held :
               /\ Cardinality(Held[s] \ Holdout) = Calibrated[s]
               /\ Held[s] \cap Holdout # {}
               /\ \A c \in Held[s] \ Holdout, d \in Held[s] \cap Holdout :
                     Score(seed, c) <= Score(seed, d)

\* A corpus that is evaluated has, for every case, a sidecar that two different people allowed
\* for its source have signed over exactly this document, some case for every hypothesis, and
\* every case counted once per hypothesis (loadCorpus, statusFor, the two evaluations).
EvaluatedIsVouched ==
    (stage = "EVALUATED" /\ answer.public.status = "EVALUATED") =>
        LET corpus == answer.corpus
            subjectOf(signature) == {k.subject : k \in {x \in Policy.keys : x.key = signature.key}}
            vouches(sidecar, c) ==
                /\ sidecar.name = c.name
                /\ sidecar.document.author.signature.bytes.caseDigest = Sha256(c.document)
                /\ sidecar.document.reviewer.signature.bytes.caseDigest = Sha256(c.document)
                /\ \E s \in Policy.sources,
                      x \in subjectOf(sidecar.document.author.signature),
                      y \in subjectOf(sidecar.document.reviewer.signature) :
                      /\ s.sourceId = c.document.sourceId
                      /\ x \in s.authors /\ y \in s.reviewers /\ x # y
            counted(counts) == counts["SUPPORT"] + counts["OPPOSITION"] + counts["INSUFFICIENT"]
        IN  /\ \A split \in {corpus.public, corpus.private} : \A c \in Cases(split) :
                  \E sidecar \in {f \in split : f.kind = "provenance"} : vouches(sidecar, c)
            /\ answer.holdout.status = "EVALUATED"
            /\ \A h \in Hypotheses :
                  /\ counted(answer.public.hypotheses[h]) = Cardinality(Cases(corpus.public))
                  /\ counted(answer.holdout.hypotheses[h]) = Cardinality(Cases(corpus.private))
                  /\ \E c \in Documents(corpus.public) \cup Documents(corpus.private) :
                        EvaluateCase(c)[h] # "INSUFFICIENT"
=============================================================================
