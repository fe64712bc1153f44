SPECIFICATION SpecAll
CONSTANTS
    server = server
    sync = sync
    async = async
    tServer = tServer
    tSync = tSync
    tMain = tMain
    tCallback = tCallback
    NoCtx = NoCtx
    Ctx = {server, sync, async}
    Thread = {tServer, tSync, tMain, tCallback}
    FdOf <- Files
    Role <- Program
    May <- AllMay
    Killable = {}
    NrHandles = 3
    MaxTx = 1
    MaxGen = 1
    MaxDone = 2
INVARIANT CallbackIsRead
CHECK_DEADLOCK FALSE
