SPECIFICATION FairSpec
CONSTANTS
    a = a
    b = b
    Module = Module
    Ctx = {a, b}
    Stoppers = {a, b}
    MaxTx = 2
INVARIANTS TypeOK WaitingIsQueued SleepersAreWoken UnloadedIsQuiet AnswersInOrder
PROPERTIES RpcSpec RequestsAreAnswered
CHECK_DEADLOCK FALSE
