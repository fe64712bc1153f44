SPECIFICATION FairSpec
CONSTANTS
    c1 = c1
    c2 = c2
    t1 = t1
    t2 = t2
    t3 = t3
    s1 = s1
    s2 = s2
    NoThread = NoThread
    NoSub = NoSub
    Ctx = {c1, c2}
    Thread = {t1, t2, t3}
    FdOf <- SharedFile
    Handle = {1, 2}
    Sub = {s1, s2}
    MaxEvents = 2
INVARIANTS TypeOK SubscribersAreAlive ListsAgree EventsInOrder
PROPERTIES BroadcastReachesAll ReleaseEnds
CHECK_DEADLOCK FALSE
