CONSTANTS
    LogDevs = {l1, l2}
    NumChunks = 3
    ChunkSize = 3
    PoolCap = 2
    MaxWrites = 3
    MaxTime = 1
    NoLogDev = none
    None = None
    Destroying = Destroying
SPECIFICATION Spec
INVARIANTS
    OneUserPerChunk
    AckedRecovered
    LiveGroupsReadable
    AssertionsHold
CONSTRAINT Untorn
CHECK_DEADLOCK FALSE
SYMMETRY Symmetry
