SPECIFICATION ClosureSpec
CONSTANTS
  Repositories <- PluginRepositories
  HopLimit <- MCHopLimit
  Entries = {p1, p2, p3}
  Order <- MCOrder
  ParentOf <- MCParentOf
  p1 = p1 p2 = p2 p3 = p3 dir = dir
  Workers = {w1, w2}
  MaximumFiles = 3
  MaximumBytes = 4
  MaximumEdits = 2
  MaximumRuns = 1
  Publishers = {g1, g2}
  NoOne = NoOne
  Importers = {i1, i2}
  i1 = i1 None = None
  GivenImports <- MCGivenImports
  AtFirst <- MCAtFirst
  Host = "linux"
  MaximumImportEdits = 1
CHECK_DEADLOCK FALSE
INVARIANT KeptIsScanned
