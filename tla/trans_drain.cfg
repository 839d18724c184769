SPECIFICATION FairSpec
CONSTANTS
    r1 = r1
    r2 = r2
    r3 = r3
    r4 = r4
    NoRequest = NoRequest
    Requests <- AllRequests
    RouterID <- KeyRouterID
    Uid <- KeyUid
    Registered = {r1, r2, r3, r4}
    HasDeadline = {}
    ShardCount = 1
    MaxTrans = 3
    MaxPendingPerKey = 2
    MaxCalls <- NoCall
    IdSpace = 16
PROPERTIES
    QueuedIsAnswered
    CloseDrains
    ImplementsExecutor
CHECK_DEADLOCK FALSE
