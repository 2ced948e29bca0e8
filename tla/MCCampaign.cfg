SPECIFICATION Spec
CONSTANTS
  wRef = wRef wNeutral = wNeutral wTarget = wTarget wOption = wOption
  c1 = c1 c2 = c2 c3 = c3
  Control = Control
  Kind <- MCKind
  Weight <- MCWeight
  Required <- MCRequired
  Size <- MCSize
  Rank <- MCRank
  WorldAt <- MCWorldAt
  CandidateAt <- MCCandidateAt
  Counts <- MCCounts
  Worlds = {wRef, wNeutral, wTarget, wOption}
  NW = 4
  Candidates = {c1, c2}
  NC = 2
  RequiredAttempts = 2
  MinimumPermille = 300
  MaximumSelected = 2
  AdapterKind = "structured"
  ResultsOf <- ResultsOfTwo
  ControlNamed = {}
  Modes <- Local
CHECK_DEADLOCK FALSE
INVARIANT VerifiedIsEarned
INVARIANT EligibleIsSelected
INVARIANT RejectedIsConclusive
