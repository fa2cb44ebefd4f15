CONSTANTS
    Threads = {t1, t2, t3}
    Fiber = fiber
    Consumers = {sealer, index, data}
    Sealer = sealer
    MaxCp = 1
    MaxDepth = 1
    NoCp = NoCp
    NoThread = NoThread
SPECIFICATION Spec
SYMMETRY ThreadSymmetry
INVARIANT NoFlushDuringIo
