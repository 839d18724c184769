SPECIFICATION Spec
CONSTANTS
    c1 = c1
    c2 = c2
    c3 = c3
    u1 = u1
    u2 = u2
    NoConn = NoConn
    NoUid = NoUid
    Conns = {c1, c2, c3}
    Uids = {u1, u2}
    Transport <- MixedTransport
    Logins <- MixedLogins
    SendTargets = {}
    KickTargets = {}
    Broadcasts = FALSE
    OverloadMode = "off"
    MaxConnections = 2
    RateLimited = FALSE
    Slow = {}
INVARIANT SessionsExact
CHECK_DEADLOCK FALSE
