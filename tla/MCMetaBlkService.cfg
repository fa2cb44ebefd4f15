CONSTANTS
    Bids <- MCBids
    OvfMax = 2
    Frags = {0, 1, 4}
    Values = {v1}
    Early = {"cp", "logdev"}
    Late = {"alloc"}
    Deps <- MCDeps
    None = None
SPECIFICATION Spec
CONSTRAINTS FewSuperblks OneLarge
INVARIANTS
    BlocksAccounted
    SanityCheck
 
CHECK_DEADLOCK FALSE
