SPECIFICATION LateLookupSpec
CONSTANTS
    c1 = c1
    c2 = c2
    t1 = t1
    t2 = t2
    t3 = t3
    NoCtx = NoCtx
    Ctx = {c1, c2}
    Thread <- TwoThreads
    FdOf <- OneEach
    May <- OneWriter
    NrHandles = 2
    MaxTx = 1
    MaxGen = 1
    MaxDone = 1
INVARIANT NothingLost
CHECK_DEADLOCK FALSE
