SPECIFICATION Spec
CONSTANTS
  wRef = wRef wNeutral = wNeutral wT1 = wT1 wT2 = wT2 wT3 = wT3
  c1 = c1 c2 = c2
  Worlds = {wRef, wNeutral, wT1, wT2, wT3}
  Candidates = {c1, c2}
  Control = Control
  Untimed = Untimed
  NoRequest = NoRequest
  Kind <- MCKind
  Weight <- MCWeight
  Required <- MCRequired
  Size <- MCSize
  Rank <- MCRank
  Digest <- MCDigest
  Provenance <- MCProvenance
  PortableSegment <- MCPortableSegment
  RequiredAttempts = 2
  MinimumPermille = 700
  MaximumSelected = 2
  ReferenceWorld = wRef
  Command = "adapter.mjs"
  Requests <- MCRequests
  Evidence1 <- MCEvidence1
  Ends <- MCEnds
  Usual <- MCUsual
  MaxIrregular = 1
  Evidences <- MCEvidences
  Policies <- MCPolicies
  PoliciesV2 <- MCPoliciesV2
  ConsumerRequests <- MCConsumerRequests
  Touched <- MCTouched
CHECK_DEADLOCK FALSE
INVARIANT MeasuredInIsolation
INVARIANT DetectionIsObserved
INVARIANT ProfileIsEarned
INVARIANT ReplaySeparates
