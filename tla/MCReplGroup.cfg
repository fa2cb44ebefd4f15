CONSTANTS
    s1 = s1
    s2 = s2
    s3 = s3
    Servers = {s1, s2, s3}
    Out = s2
    In = s3
    Requests <- MCRequests
    Laggy = 1
    MaxRequests = 2
    MaxFaults = 1
SPECIFICATION Spec
INVARIANTS
    NoOrphans
    InBeforeOut
PROPERTIES
    TaskEnds
CHECK_DEADLOCK FALSE
