SPECIFICATION ExecutionsSpec
CONSTANTS
  Codes = {0, 1, 137}
  Killed = 137
  ResponseLimit = 1
  k1 = k1
  k2 = k2
  Keys <- MCKeys
  SizeOf <- MCSizes
  StoreLimit = 2
  Chunks = {1, 2}
  Counts <- MCCounts
  MaximumOutput = 3
  MaximumTotal = 5
  QueueLimit = 2
  MaximumRecords = 4
CHECK_DEADLOCK FALSE
INVARIANT CompletionIsReal
INVARIANT ConclusionIsEarned
INVARIANT TraceIsHonest
INVARIANT GenuineOnWhole
INVARIANT RemovedOrReported
INVARIANT DoubtIsFinal
PROPERTY NotRepeated
PROPERTY ExecutionsEnd
