SPECIFICATION Spec
CONSTANTS
  NBlks = 9
  NodeSize = 30
  EntrySize = 10
  IdealPct = 90
  MinPct = 40
  SplitPct = 50
  MaxMergeNodes = 3
  MaxMergeLevel = 1
  Keys = {3, 8, 12}
  Trees <- MCTrees
  MaxOps = 3
  MaxCrashes = 1
  FirstBatch = 2
  CrashAnywhere = TRUE
  EvictCopies = FALSE
INVARIANT NothingPersistedLost
CHECK_DEADLOCK FALSE
