CONSTANTS
    Threads = {t1, t2}
    Fiber = fiber
    Consumers = {sealer, index}
    Sealer = sealer
    MaxCp = 3
    MaxDepth = 2
    NoCp = NoCp
    NoThread = NoThread
SPECIFICATION FairSpec
INVARIANTS
    FlushAlone
    OneFlushAtATime
    FutureMeansFlushed
    NoPromiseLost
    SealerFlushesLast
    ShutdownIsClean
PROPERTIES
    FutureCompletes
    ShutdownEnds
