------------------------------ MODULE Conclusions ------------------------------
(***************************************************************************)
(* What is concluded from evidence, one kind per behaviour: the receipt of *)
(* a qualification, the study and the evaluation of a corpus, the          *)
(* selection of the decision core, and the admission of an executable by   *)
(* its probes.                                                             *)
(***************************************************************************)
EXTENDS Qualification

CONSTANTS
  Absent, MinimumCases, MinimumSources, Score(_, _), Policy, Held, Calibrated,
  Author, Reviewer, SecondKey, Secrets, Deficits, Suites, Corpora,    \* of the corpus
  Worlds, Candidates, Control, Kind, Weight, Required, RequiredAttempts, MinimumPermille,
  MaximumSelected, Size, Rank,                                        \* of the selection
  Builds, OtherBuilds, MaximumReplacements                            \* of the probes

(* What parseInput accepts of the candidates and the worlds that a         *)
(* selection is made of; and documents are finite.                         *)
ASSUME ConclusionsAssumption ==
  /\ IsFiniteSet(Worlds) /\ IsFiniteSet(Candidates)
  /\ Size \in [Candidates -> Nat] /\ Rank \in [Candidates -> Nat]
  /\ \A c, d \in Candidates : Rank[c] = Rank[d] => c = d
  /\ MaximumSelected \in Nat /\ MaximumSelected >= 1
  /\ IsFiniteSet(Policy.keys) /\ IsFiniteSet(Policy.sources)
  /\ \A corpus \in Corpora : IsFiniteSet(corpus.public) /\ IsFiniteSet(corpus.private)

(* What is held of a corpus: cases of their own for every source, with     *)
(* scores under any seed; two principals with secrets to choose from; a    *)
(* profile that leaves a candidate out; and the author's second key.       *)
ASSUME CorpusAssumption ==
  /\ DOMAIN Held # {} /\ IsFiniteSet(DOMAIN Held)
  /\ \A s \in DOMAIN Held : IsFiniteSet(Held[s]) /\ Held[s] \subseteq Nat \X Nat
  /\ \A s, t \in DOMAIN Held : s # t => Held[s] \cap Held[t] = {}
  /\ \A seed \in [{Author, Reviewer} -> Secrets], s \in DOMAIN Held :
        \A c \in Held[s] : Score(seed, c) \in Nat
  /\ Author # Reviewer /\ \A x \in Secrets : \E y \in Secrets : y # x
  /\ \E arm \in {"BASELINE", "PROFILE"} : ~(Suites[arm] \subseteq Suites["PROFILE"])
  /\ \A k, l \in Policy.keys :
        k.keyId = Author /\ l.keyId = SecondKey => k.subject = l.subject

VARIABLES
  subject,
  stage, mishap, deficit, secrets, commitment, reveal, allocation, pinned, declared, behaviour,
  receipts, conclusion, answer,
  assessments, selected, covered, remaining, selecting,
  asked, contents, check, passed, first, identity, qualified, failing, leftovers, admission, trouble,
  replaced, stale

Corpus == INSTANCE CorpusStudy
            WITH plan <- declared, verdict <- conclusion, Candidates <- Suites

(* Nothing else stands in the way of a study: the policy is the trusted    *)
(* one, its two principals may sign for every source, every source has     *)
(* cases for both sides and every arm a test, and a member that is not     *)
(* there is no number.                                                     *)
ASSUME StudyAssumption ==
  /\ Absent \notin Nat
  /\ Corpus!PolicyParses(Policy) /\ Corpus!PolicyTrusted(Policy, Policy.digest)
  /\ Corpus!PrincipalsDistinct(Policy, Author, Reviewer)
  /\ \A s \in DOMAIN Held : \E x \in Policy.sources :
        /\ x.sourceId = s
        /\ Corpus!MayAuthor(Policy, Author, x) /\ Corpus!MayReview(Policy, Reviewer, x)
  /\ \A s \in DOMAIN Held : Calibrated[s] \in 1 .. Cardinality(Held[s]) - 1
  /\ \A arm \in {"BASELINE", "PROFILE"} : IsFiniteSet(Suites[arm]) /\ Suites[arm] # {}

Rounds == INSTANCE Selection WITH running <- selecting
Runtime == INSTANCE RuntimeProbes WITH Others <- OtherBuilds

probeVars == <<asked, contents, check, passed, first, identity, qualified, failing, leftovers,
               admission, trouble, replaced, stale>>
corpusVars == <<stage, mishap, deficit, secrets, commitment, reveal, allocation, pinned, declared,
                behaviour, receipts, conclusion, answer>>
roundVars == <<assessments, selected, covered, remaining, selecting>>

(* The others have nothing to do. *)
NoCorpus ==
  /\ stage = "NONE" /\ mishap = "NONE" /\ deficit = "NONE" /\ secrets = "NONE" /\ commitment = "NONE"
  /\ reveal = "NONE" /\ allocation = "NONE" /\ pinned = "NONE" /\ declared = "NONE"
  /\ behaviour = "NONE" /\ receipts = "NONE" /\ conclusion = "NONE" /\ answer = "NONE"
NoRounds ==
  assessments = <<>> /\ selected = <<>> /\ covered = {} /\ remaining = {} /\ selecting = TRUE
NoProbes ==
  /\ asked = "none" /\ contents = "none" /\ check = "none" /\ passed = 0 /\ first = "none"
  /\ identity = "none" /\ qualified = 0 /\ failing = FALSE /\ leftovers = {} /\ admission = "none"
  /\ trouble = 0 /\ replaced = 0 /\ stale = FALSE
NoQualification ==
  /\ plan = "none" /\ pc = "none" /\ edited = {} /\ known = {} /\ observations = <<>> /\ happened = <<>>
  /\ during = {} /\ pending = NoReceipt /\ temporary = FALSE
  /\ receipt = NoReceipt /\ held = NoReceipt /\ verdict = "none"

EvidenceInit ==
  \/ subject = "qualification" /\ Init /\ NoCorpus /\ NoRounds /\ NoProbes
  \/ subject = "corpus" /\ Corpus!Init /\ NoQualification /\ NoRounds /\ NoProbes
  \/ subject = "selection" /\ Rounds!Init /\ NoQualification /\ NoCorpus /\ NoProbes
  \/ subject = "runtime" /\ Runtime!Init /\ NoQualification /\ NoCorpus /\ NoRounds

EvidenceNext ==
  \/ subject = "qualification" /\ Next /\ UNCHANGED <<subject, corpusVars, roundVars, probeVars>>
  \/ subject = "corpus" /\ Corpus!Next /\ UNCHANGED <<subject, vars, roundVars, probeVars>>
  \/ subject = "selection" /\ Rounds!Next /\ UNCHANGED <<subject, vars, corpusVars, probeVars>>
  \/ subject = "runtime" /\ Runtime!Next /\ UNCHANGED <<subject, vars, corpusVars, roundVars>>

EvidenceSpec == EvidenceInit /\ [][EvidenceNext]_<<subject, vars, corpusVars, roundVars, probeVars>>

-----------------------------------------------------------------------------
(* See CorpusStudy: an artifact is valid exactly when nothing went wrong,  *)
(* its verdict is then what the suites did, and it is about the split that *)
(* was committed to.                                                       *)
VerdictIsGenuine == subject = "corpus" => Corpus!VerdictIsGenuine /\ Corpus!SplitIsCommitted
(* See CorpusStudy: what is evaluated is vouched for. *)
EvaluatedIsVouched == subject = "corpus" => Corpus!EvaluatedIsVouched
(* See RuntimeProbes: the admission of an executable, its identity and the *)
(* blame of the doctor are what its probes answered.                       *)
AdmissionIsEarned == subject = "runtime" => Runtime!VerdictIsEarned
(* See Selection: the loop ends with the one right selection. *)
SelectsRightly == subject = "selection" => Rounds!SelectsRightly
=============================================================================
