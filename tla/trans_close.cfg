SPECIFICATION FairSpec
CONSTANTS
    r1 = r1
    r2 = r2
    r3 = r3
    r4 = r4
    NoRequest = NoRequest
    Requests <- ThreeRequests
    RouterID <- ThreeRouterID
    Uid <- ThreeUid
    Registered = {r1, r2, r3}
    HasDeadline = {r2}
    ShardCount = 2
    MaxTrans = 3
    MaxPendingPerKey = 2
    MaxCalls <- ThreeNoCall
    IdSpace = 16
PROPERTY CloseDrains
CHECK_DEADLOCK FALSE
