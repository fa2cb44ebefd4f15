CONSTANTS
    a = a
    b = b
    None = None
    Servers = {a, b}
    MaxLsn = 3
    Reserve = 1
    Distance = 1
    MaxFaults = 1
SPECIFICATION Spec
INVARIANTS
    AppComplete
PROPERTIES
    CatchesUp
CHECK_DEADLOCK FALSE
