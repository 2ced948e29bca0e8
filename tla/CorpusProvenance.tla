--------------------------- MODULE CorpusProvenance ---------------------------
(***************************************************************************)
(* The agentic corpus (src/evaluation/agentic-corpus.ts): who may vouch    *)
(* for a case, which corpus loads, when it is ready, and what its          *)
(* evaluation answers.                                                     *)
(*                                                                         *)
(* A digest is the content it was computed from, a signature the pair of   *)
(* the key and the bytes it signed, and the id of a key its fingerprint.   *)
(* A file name is a pair of its portable key and its spelling.             *)
(***************************************************************************)
EXTENDS Naturals, FiniteSets

CONSTANTS
    Absent,             \* an optional member that is not there
    MinimumCases,       \* 20 in the code
    MinimumSources      \* 3 in the code

Sha256(content) == [sha256 |-> content]
Signed(key, bytes) == [key |-> key, bytes |-> bytes]

AllTrue(rails) == \A rail \in DOMAIN rails : rails[rail]
UniqueBy(things, field) == Cardinality({x[field] : x \in things}) = Cardinality(things)

-----------------------------------------------------------------------------
(* The trust policy. *)

PolicyDigest(policy) == Sha256([keys |-> policy.keys, sources |-> policy.sources])

PolicyParses(policy) ==
    /\ Cardinality(policy.keys) >= 2
    /\ policy.sources # {}
    /\ UniqueBy(policy.keys, "keyId")
    /\ UniqueBy(policy.sources, "sourceId")
    /\ UniqueBy(policy.sources, "identity")

\* trustedKey: the entry of a key id, when its key has that fingerprint (at most one).
TrustedKeys(policy, keyId) ==
    {k \in policy.keys : k.keyId = keyId /\ k.keyId = Sha256(k.key)}

PolicyTrusted(policy, pin) ==
    /\ policy.digest = pin
    /\ policy.digest = PolicyDigest(policy)
    /\ \A k \in policy.keys : TrustedKeys(policy, k.keyId) # {}

MayAuthor(policy, keyId, source) ==
    \E k \in TrustedKeys(policy, keyId) : "AUTHOR" \in k.roles /\ k.subject \in source.authors

MayReview(policy, keyId, source) ==
    \E k \in TrustedKeys(policy, keyId) : "REVIEWER" \in k.roles /\ k.subject \in source.reviewers


\* Mutant: two keys are two principals.
KeysDistinct(policy, author, reviewer) ==
    \E a \in TrustedKeys(policy, author), r \in TrustedKeys(policy, reviewer) : a.keyId # r.keyId

PrincipalsDistinct(policy, author, reviewer) ==
    \E a \in TrustedKeys(policy, author), r \in TrustedKeys(policy, reviewer) :
        a.keyId # r.keyId /\ a.subject # r.subject

SignatureValid(policy, keyId, bytes, signature) ==
    \E k \in TrustedKeys(policy, keyId) : signature = Signed(k.key, bytes)

-----------------------------------------------------------------------------
(* The provenance of a case. *)

ProvenanceProjection(p) ==
    [policyDigest |-> p.policyDigest, caseId |-> p.caseId, caseDigest |-> p.caseDigest,
     source |-> p.source, execution |-> p.execution, author |-> p.author.keyId,
     reviewer |-> p.reviewer.keyId]

ProvenanceDigest(p) ==
    Sha256([projection |-> ProvenanceProjection(p), author |-> p.author.signature,
            reviewer |-> p.reviewer.signature])

ReceiptOf(execution) ==
    Sha256([protocolId |-> execution.protocolId, evidence |-> execution.evidence])

Fraction(detected, total) == total > 0 /\ detected <= total

\* parseAgenticCorpusCase: every hypothesis is optional.
CaseParses(c) ==
    /\ c.h2 # Absent => /\ Fraction(c.h2.baseline[1], c.h2.baseline[2])
                        /\ Fraction(c.h2.profile[1], c.h2.profile[2])
    /\ c.h3 # Absent => /\ Fraction(c.h3.baseline[1], c.h3.baseline[2])
                        /\ Fraction(c.h3.profile[1], c.h3.profile[2])
    /\ c.h4 # Absent => /\ Fraction(c.h4.baseline[1], c.h4.baseline[2])
                        /\ Fraction(c.h4.profile[1], c.h4.profile[2])

\* replayAgenticCorpusProvenance.
ProvenanceRails(c, p, policy, pin) ==
    LET registered == {s \in policy.sources : s.sourceId = p.source.sourceId}
        bytes == ProvenanceProjection(p)
    IN  [schemaValid |-> CaseParses(c) /\ p.execution.evidence # {} /\ PolicyParses(policy),
         canonicalCaseDigestValid |-> p.caseDigest = Sha256(c),
         policyDigestValid |-> PolicyTrusted(policy, pin),
         sourceRegistered |-> registered # {},
         sourceBindingValid |->
            \E s \in registered : /\ p.policyDigest = pin
                                  /\ p.caseId = c.caseId
                                  /\ p.source.sourceId = c.sourceId
                                  /\ p.source.revision = c.revision
                                  /\ p.source.identity = s.identity,
         executionReceiptDigestValid |-> p.execution.receipt = ReceiptOf(p.execution),
         authorTrusted |-> \E s \in registered : MayAuthor(policy, p.author.keyId, s),
         reviewerTrusted |-> \E s \in registered : MayReview(policy, p.reviewer.keyId, s),
         principalsDistinct |-> PrincipalsDistinct(policy, p.author.keyId, p.reviewer.keyId),
         authorSignatureValid |->
            SignatureValid(policy, p.author.keyId, bytes, p.author.signature),
         reviewerSignatureValid |->
            SignatureValid(policy, p.reviewer.keyId, bytes, p.reviewer.signature),
         provenanceDigestValid |-> p.digest = ProvenanceDigest(p)]

-----------------------------------------------------------------------------
(* Loading the two splits.  A split is a set of files: cases, each with    *)
(* its provenance sidecar.                                                 *)

PortableKey(name) == name[1]

Cases(split) == {f \in split : f.kind = "case"}
Sidecars(split, name) == {f \in split : f.kind = "provenance" /\ f.name = name}

NoCollision(files) ==
    \A f, g \in files : f.kind = g.kind /\ PortableKey(f.name) = PortableKey(g.name) => f = g

CaseLoads(split, f, policy, pin) ==
    /\ f.regular
    /\ CaseParses(f.document)
    /\ PortableKey(f.name) = PortableKey(f.document.caseId)
    /\ \E sidecar \in Sidecars(split, f.name) :
          /\ sidecar.regular
          /\ AllTrue(ProvenanceRails(f.document, sidecar.document, policy, pin))

SplitLoads(split, policy, pin) ==
    /\ NoCollision(split)
    /\ \A f \in split : f.kind = "provenance" => \E c \in Cases(split) : c.name = f.name
    /\ \A f \in Cases(split) : CaseLoads(split, f, policy, pin)

Documents(split) == {f.document : f \in Cases(split)}

\* loadCorpus: separate is whether the two directories are different and inside the root.
CorpusLoads(corpus, policy, pin) ==
    /\ PolicyParses(policy)
    /\ PolicyTrusted(policy, pin)
    /\ corpus.separate
    /\ SplitLoads(corpus.public, policy, pin)
    /\ SplitLoads(corpus.private, policy, pin)
    /\ \A f \in Cases(corpus.public), g \in Cases(corpus.private) :
          PortableKey(f.document.caseId) # PortableKey(g.document.caseId)

-----------------------------------------------------------------------------
(* The legacy metrics of a case. *)

Hypotheses == {"H1", "H2", "H3", "H4"}

\* compareFractions(profile, baseline), both exact.
Higher(x, y) == x[1] * y[2] > y[1] * x[2]

EvaluateH1(c) ==
    IF c.h1 = Absent \/ ~c.h1.equalTargetStrength THEN "INSUFFICIENT"
    ELSE IF c.h1.profile < c.h1.baseline THEN "SUPPORT" ELSE "OPPOSITION"

EvaluateH2(c) ==
    IF c.h2 = Absent THEN "INSUFFICIENT"
    ELSE IF Higher(c.h2.profile, c.h2.baseline) THEN "SUPPORT" ELSE "OPPOSITION"

EvaluateH3(c) ==
    IF c.h3 = Absent \/ ~c.h3.equalBudget THEN "INSUFFICIENT"
    ELSE IF Higher(c.h3.baseline, c.h3.profile) THEN "OPPOSITION" ELSE "SUPPORT"

EvaluateH4(c) ==
    IF c.h4 = Absent \/ ~c.h4.reviewedReduction THEN "INSUFFICIENT"
    ELSE IF \/ Higher(c.h4.baseline, c.h4.profile)
            \/ c.h4.profileCost >= c.h4.baselineCost
            \/ c.h4.profileMutants >= c.h4.baselineMutants
         THEN "OPPOSITION" ELSE "SUPPORT"

EvaluateCase(c) ==
    [H1 |-> EvaluateH1(c), H2 |-> EvaluateH2(c), H3 |-> EvaluateH3(c), H4 |-> EvaluateH4(c)]

IsEvaluable(c, hypothesis) ==
    CASE hypothesis = "H1" -> c.h1 # Absent /\ c.h1.equalTargetStrength
      [] hypothesis = "H2" -> c.h2 # Absent
      [] hypothesis = "H3" -> c.h3 # Absent /\ c.h3.equalBudget
      [] hypothesis = "H4" -> c.h4 # Absent /\ c.h4.reviewedReduction

Gate(failed, gate) == IF failed THEN {gate} ELSE {}

\* The identity of the source a loaded case was vouched for.
IdentitiesIn(split) == {f.document.source.identity : f \in {g \in split : g.kind = "provenance"}}

\* statusFor: the gates a loaded corpus fails; it is ready when there is none.
FailedGates(corpus) ==
    LET all == Documents(corpus.public) \cup Documents(corpus.private)
    IN  Gate(Cardinality(all) < MinimumCases, "MINIMUM_CASES_NOT_MET")
        \cup Gate(Cardinality(IdentitiesIn(corpus.public) \cup IdentitiesIn(corpus.private))
                     < MinimumSources, "MINIMUM_SOURCES_NOT_MET")
        \cup Gate(Documents(corpus.public) = {}, "PUBLIC_SPLIT_EMPTY")
        \cup Gate(Documents(corpus.private) = {}, "HOLDOUT_SPLIT_EMPTY")
        \cup UNION {Gate(~\E c \in all : IsEvaluable(c, h), h) : h \in Hypotheses}

Aggregate(cases) ==
    [h \in Hypotheses |->
        [o \in {"SUPPORT", "OPPOSITION", "INSUFFICIENT"} |->
            Cardinality({c \in cases : EvaluateCase(c)[h] = o})]]

\* What the two evaluations answer: the public one with its cases, the holdout with counts.
EvaluatePublic(corpus, policy, pin) ==
    IF ~CorpusLoads(corpus, policy, pin) THEN [status |-> "THROWN"]
    ELSE IF FailedGates(corpus) # {} THEN [status |-> "NOT_READY", gates |-> FailedGates(corpus)]
    ELSE [status |-> "EVALUATED", hypotheses |-> Aggregate(Documents(corpus.public)),
          cases |-> {[caseId |-> c.caseId, outcomes |-> EvaluateCase(c)] :
                        c \in Documents(corpus.public)}]

EvaluateHoldout(corpus, policy, pin) ==
    IF ~CorpusLoads(corpus, policy, pin) THEN [status |-> "INVALID_CORPUS"]
    ELSE IF FailedGates(corpus) # {} THEN [status |-> "NOT_READY", gates |-> {"CORPUS_NOT_READY"}]
    ELSE [status |-> "EVALUATED", hypotheses |-> Aggregate(Documents(corpus.private))]
=============================================================================
