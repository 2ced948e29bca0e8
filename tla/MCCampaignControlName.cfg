SPECIFICATION Spec
CONSTANTS
  wRef = wRef wNeutral = wNeutral wTarget = wTarget wOption = wOption
  c1 = c1 c2 = c2 c3 = c3
  Control = Control
  Kind <- MCKind
  Weight <- MCWeight
  Required <- MCRequired
  Size <- MCSize
  Rank <- MCRank
  WorldAt <- MCWorldAt
  CandidateAt <- MCCandidateAt
  Counts <- MCCounts
  Worlds = {wRef, wNeutral, wTarget}
  NW = 3
  Candidates = {c1}
  NC = 1
  RequiredAttempts = 1
  MinimumPermille = 1000
  MaximumSelected = 1
  AdapterKind = "node-test"
  ResultsOf <- ResultsOfNamed
  ControlNamed = {c1}
  Modes <- Local
CHECK_DEADLOCK FALSE
INVARIANT InvalidControlIsInconclusive
