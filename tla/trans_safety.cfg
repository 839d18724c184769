SPECIFICATION Spec
CONSTANTS
    r1 = r1
    r2 = r2
    r3 = r3
    r4 = r4
    NoRequest = NoRequest
    Requests <- AllRequests
    RouterID <- MixedRouterID
    Uid <- MixedUid
    Registered = {r1, r2, r3, r4}
    HasDeadline = {r4}
    ShardCount = 2
    MaxTrans = 2
    MaxPendingPerKey = 1
    MaxCalls <- MixedCalls
    IdSpace = 32
INVARIANTS
    TypeOK
    OneTransactionPerKey
    SlotsMatchTransactions
    ResponseFindsTransaction
    ClosedMeansDrained
PROPERTY ExecutedAtMostOnce
CHECK_DEADLOCK FALSE
