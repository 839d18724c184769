SPECIFICATION Spec
CONSTANTS
    c1 = c1
    c2 = c2
    c3 = c3
    u1 = u1
    u2 = u2
    NoConn = NoConn
    NoUid = NoUid
    Conns = {c1, c2, c3}
    Uids = {u1}
    Transport <- AllWs
    Logins <- OneUid
    SendTargets = {u1}
    KickTargets = {c1, c2, c3}
    Broadcasts = TRUE
    OverloadMode = "enforce"
    MaxConnections = 2
    RateLimited = FALSE
    Slow = {}
SYMMETRY Interchangeable
INVARIANTS
    TypeOK
    BindingsAreLive
    LostUidIsLeaving
    SessionsNotUndercounted
    LeasesCounted
CHECK_DEADLOCK FALSE
