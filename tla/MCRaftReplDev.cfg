CONSTANTS
    Me = me
    Peers = {p1, p2}
    NumKeys = 2
    NumBlks = 2
    Rids = {1, 2, 3}
    MaxTerm = 2
    MaxFaults = 2
    Dedup = TRUE
    None = None
SPECIFICATION Spec
SYMMETRY Symm
VIEW View
INVARIANTS NeverFails CommittedData FlushedData 
CONSTRAINT NoSlip
CHECK_DEADLOCK FALSE
