------------------------------ MODULE Adapter ------------------------------
(***************************************************************************)
(* How the raw result of one test execution becomes an observation: the    *)
(* process ends, the engine reads the report the runner left behind, and   *)
(* the pair is classified fail-closed.  This module holds the pure         *)
(* classification; AdapterExecution takes the steps of one execution, and  *)
(* Campaign draws the observations of its executions from it.              *)
(*                                                                         *)
(* Two families of adapters exist.  "node-test" reads the counts of the    *)
(* AssertLedger reporter and derives the outcome itself; "structured"      *)
(* (testforge-command and both Bun adapters, whose driver writes the same  *)
(* report) claims an outcome that the engine may only accept or refuse.    *)
(***************************************************************************)
EXTENDS Integers

CONSTANT Counts     \* the counts a report may carry; the code admits every safe integer
ASSUME CountsAssumption == Counts \subseteq Nat /\ 0 \in Counts

-----------------------------------------------------------------------------
(* The vocabulary of the code.                                             *)

AdapterKinds == {"node-test", "structured"}

Outcomes ==
  {"PASS", "ASSERTION_FAILURE", "COLLECTION_FAILURE", "COMPILE_FAILURE",
   "PROCESS_CRASH", "TIMEOUT", "INFRA_ERROR", "NO_TEST_DISCOVERED"}

ExitCodes == {"zero", "nonzero", "null"}   \* null: ended by a signal, or never started

(* A process that timed out may have exited by itself before its pipes      *)
(* closed, and one whose input failed may still exit zero.                 *)
ProcessResults ==
  {p \in [outcome : {"PASS", "PROCESS_CRASH", "TIMEOUT", "INFRA_ERROR"}, exit : ExitCodes] :
     /\ p.outcome = "PASS" => p.exit = "zero"
     /\ p.outcome = "PROCESS_CRASH" => p.exit # "zero"}

(* A JSON file with the seven keys of the node:test reporter. *)
NodeReports ==
  [tests : Counts, candidateTests : Counts, candidateFailures : Counts,
   nonCandidateFailures : Counts, candidateSyntaxFailures : Counts,
   allAssertions : BOOLEAN]

(* A JSON file with the five keys of the structured protocol. *)
StructuredReports ==
  [outcome : Outcomes, tests : Counts, candidateTests : Counts, attributed : BOOLEAN]

NoReport == [tests |-> 0, candidateTests |-> 0, missing |-> TRUE]

ReportFiles(kind) == IF kind = "node-test" THEN NodeReports ELSE StructuredReports

Observations == [outcome : Outcomes, candidateTests : Counts, attributed : BOOLEAN]

-----------------------------------------------------------------------------
(* The report readers.                                                     *)

(* A process that timed out or failed in infrastructure has no report: its *)
(* file is never opened.                                                   *)
ReportIsRead(p) == p.outcome \notin {"TIMEOUT", "INFRA_ERROR"}

ParseNodeTestReport(file) ==
  IF /\ file.candidateTests <= file.tests
     /\ file.candidateSyntaxFailures <= file.candidateFailures
  THEN file
  ELSE NoReport

ParseStructuredCommandReport(file, p) ==
  IF /\ file.candidateTests <= file.tests
     /\ file.attributed =>
          /\ file.outcome \in {"PASS", "ASSERTION_FAILURE"}
          /\ file.candidateTests # 0
     /\ file.outcome # "TIMEOUT"
     /\ IF file.outcome = "PASS" THEN p.exit = "zero" ELSE p.exit = "nonzero"
  THEN file
  ELSE NoReport

ReadReport(kind, file, p) ==
  IF ~ReportIsRead(p) THEN NoReport
  ELSE IF kind = "node-test" THEN ParseNodeTestReport(file)
  ELSE ParseStructuredCommandReport(file, p)

-----------------------------------------------------------------------------
(* Classification.                                                         *)

Verdict(outcome, attributed) == [outcome |-> outcome, attributed |-> attributed]

(* The facts that contradict one another make the run an infrastructure    *)
(* error: a control that saw candidate activity, a clean exit with         *)
(* failures.  The node:test profile never reports collection failures.     *)
Contradictory(candidate, zeroExit, r) ==
  \/ ~candidate /\ (r.candidateTests > 0 \/ r.candidateSyntaxFailures > 0
                                         \/ r.candidateFailures > 0)
  \/ zeroExit /\ (r.candidateSyntaxFailures > 0 \/ r.candidateFailures > 0
                                                \/ r.nonCandidateFailures > 0)

(* Mutant: a candidate's assertion is credited before foreign failures.    *)
NormalizeCandidateFirst(candidate, zeroExit, r) ==
  IF candidate /\ r.candidateTests > 0 /\ r.candidateFailures > 0 /\ r.allAssertions
  THEN Verdict("ASSERTION_FAILURE", TRUE)
  ELSE Verdict(IF zeroExit THEN "PASS" ELSE "PROCESS_CRASH", candidate /\ zeroExit)

(* normalizeRuntimeFacts for a valid report whose facts agree. *)
NormalizeAgreeing(candidate, zeroExit, r) ==
  CASE ~candidate ->
         Verdict(IF zeroExit /\ r.nonCandidateFailures = 0 THEN "PASS" ELSE "PROCESS_CRASH", FALSE)
    [] candidate /\ r.candidateSyntaxFailures > 0 ->
         Verdict("COMPILE_FAILURE", FALSE)
    [] candidate /\ r.candidateSyntaxFailures = 0 /\ r.candidateTests = 0 ->
         Verdict(IF r.candidateFailures > 0 \/ r.nonCandidateFailures > 0 \/ ~zeroExit
                 THEN "PROCESS_CRASH" ELSE "NO_TEST_DISCOVERED", FALSE)
    [] candidate /\ r.candidateSyntaxFailures = 0 /\ r.candidateTests > 0
                 /\ r.nonCandidateFailures > 0 ->
         Verdict("PROCESS_CRASH", FALSE)
    [] candidate /\ r.candidateSyntaxFailures = 0 /\ r.candidateTests > 0
                 /\ r.nonCandidateFailures = 0 /\ r.candidateFailures > 0 ->
         Verdict(IF r.allAssertions THEN "ASSERTION_FAILURE" ELSE "PROCESS_CRASH", r.allAssertions)
    [] OTHER ->
         Verdict(IF zeroExit THEN "PASS" ELSE "PROCESS_CRASH", zeroExit)

NormalizeRuntimeFacts(candidate, zeroExit, r) ==
  IF r = NoReport \/ Contradictory(candidate, zeroExit, r)
  THEN Verdict("INFRA_ERROR", FALSE)
  ELSE NormalizeAgreeing(candidate, zeroExit, r)

ClassifyNodeTest(p, r, candidate) ==
  IF p.outcome = "TIMEOUT" THEN Verdict("TIMEOUT", FALSE)
  ELSE NormalizeRuntimeFacts(candidate, p.exit = "zero", r)

ClassifyStructured(p, r) ==
  IF p.outcome = "TIMEOUT" THEN Verdict("TIMEOUT", FALSE)
  ELSE IF r = NoReport THEN Verdict("INFRA_ERROR", FALSE)
  ELSE Verdict(r.outcome, r.attributed)

(* The observation executeObservation returns. *)
Observe(kind, p, r, candidate) ==
  LET v == IF kind = "node-test" THEN ClassifyNodeTest(p, r, candidate)
                                 ELSE ClassifyStructured(p, r)
  IN [outcome |-> v.outcome, candidateTests |-> r.candidateTests, attributed |-> v.attributed]

(* Every observation an execution can end in. *)
Observable(kind, candidate) ==
  {Observe(kind, p, ReadReport(kind, file, p), candidate) :
     p \in ProcessResults, file \in ReportFiles(kind)}
=============================================================================
