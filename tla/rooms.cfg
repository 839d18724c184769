SPECIFICATION Spec
CONSTANTS
    p1 = p1
    Absent = Absent
    NoBase = NoBase
    Players = {p1}
    RoomIds = {1, 2}
    Stages = {1}
    Wanted <- AllLow
    Coin = 1
    Configured <- SameStageAndCoin
    MaxPlayer = 1
    Reported = {0, 1, 2}
    MaxTries = 2
    MaxReports = 1
    MaxRestarts = 1
    Mortal = {1}
INVARIANTS
    NoOverfill
    SeatsAreHeld
    CleanIsSaved
    DrainedIsSaved
CHECK_DEADLOCK FALSE
