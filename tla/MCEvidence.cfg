SPECIFICATION EvidenceSpec
CONSTANTS
  f1 = f1 f2 = f2
  Plans <- MCPlans
  RunsOf <- MCRunsOf
  CiStatementsOf <- MCCiStatementsOf
  MaximumEdits = 1
  Absent = Absent
  MinimumCases = 2
  MinimumSources = 2
  Score <- MCScore
  Policy <- MCPolicy
  Held <- MCHeld
  Calibrated <- MCCalibrated
  Author <- MCAuthor
  Reviewer <- MCReviewer
  SecondKey <- MCSecondKey
  Secrets = {0, 1}
  Deficits = {0, 1}
  Suites <- MCSuites
  Corpora <- MCCorpora
  wRef = wRef wNeutral = wNeutral t1 = t1 t2 = t2 t3 = t3
  c1 = c1 c2 = c2 c3 = c3
  Worlds <- MCWorlds
  Candidates <- MCCandidates
  Control = Control
  Kind <- MCKind
  Weight <- MCWeight
  Required <- MCWorlds
  RequiredAttempts = 1
  MinimumPermille = 500
  MaximumSelected = 2
  Size <- MCSize
  Rank <- MCRank
  Builds <- MCBuilds
  OtherBuilds <- MCOtherBuilds
  MaximumReplacements = 1
CHECK_DEADLOCK FALSE
INVARIANT QualifiedIsEarned
INVARIANT ReplayIsExact
INVARIANT VerdictIsGenuine
INVARIANT EvaluatedIsVouched
INVARIANT AdmissionIsEarned
INVARIANT SelectsRightly
