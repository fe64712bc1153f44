SPECIFICATION FairSpec
CONSTANTS
    c1 = c1
    c2 = c2
    t1 = t1
    t2 = t2
    t3 = t3
    NoCtx = NoCtx
    Ctx = {c1, c2}
    Thread <- ThreeThreads
    FdOf <- SharedClient
    May <- OneWriter
    NrHandles = 2
    MaxTx = 2
    MaxGen = 1
    MaxDone = 1
INVARIANTS ServedInOrder NoMissedWakeUp
PROPERTIES CloseAnswers ReadersReturn
CHECK_DEADLOCK FALSE
