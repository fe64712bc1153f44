SPECIFICATION OrderlySpec
CONSTANTS
    c1 = c1
    c2 = c2
    t1 = t1
    t2 = t2
    t3 = t3
    NoCtx = NoCtx
    Ctx = {c1, c2}
    Thread <- ThreeThreads
    FdOf <- SharedFile
    May <- TwoServers
    NrHandles = 3
    MaxTx = 1
    MaxGen = 2
    MaxDone = 1
INVARIANTS EntriesAreOpen EntryKnownToServer AnswersReachTheCaller NothingLost
CHECK_DEADLOCK FALSE
