SPECIFICATION Spec
CONSTANTS
    Blks = {1, 2}
    RecordOf <- MCRecordOf
    MaxReq = 3
    Sizes <- MCSizes
    ReadIds = {1}
    MaxRestarts = 1
    MaxOpen = 2
    ForceReplay = FALSE
INVARIANTS  ReadsStable CleanMeansPersisted AssertionsHold
CONSTRAINT Unspoiled
 
