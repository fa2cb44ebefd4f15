SPECIFICATION LiveSpec
CONSTANTS
    Threads = {1, 2}
    MaxNodes = 14
    NodeSize = 30
    EntrySize = 10
    IdealPct = 90
    MinPct = 40
    SplitPct = 50
    MaxMergeNodes = 3
    MaxMergeLevel = 1
    Rebalance = FALSE
    Loads <- MCLoads
    Requests <- MCRequests
    MaxOps = 1
INVARIANTS TreeSane Answers
PROPERTY RequestsEnd
