SPECIFICATION ServicesSpec
CONSTANTS
    Cells = {"name", "item"}
    Sections = {"basic", "inventory"}
    SectionOf <- SectionOfCell
    Patchable = {"inventory"}
    Untracked = {}
    Register = "basic"
    Rank <- HsetOrder
    Vals = {0, 1}
    Gone = 0
    Blank <- NoEntries
    Starter <- NewPlayer
    GmRoles <- GmPlayers
    Tasks = {"t1", "t2"}
    Capacity = 1
    Timers = {"a"}
    SlotNum = 2
    LayerNum = 3
    Delays = {0, 1, 2, 3, 4, 5, 6, 7, 8, 9, 10}
    AddBuffer = 2
    RemoveBuffer = 1
    MaxElapsed = 24
    Servers = {"me", "s1"}
    Self = "me"
    MaxChanges = 3
    Conns = {"c1", "c2"}
    NoConn = "none"
    MaxBreaks = 3
    Calls = {"a1", "a2", "b1", "b2"}
    MethodOf <- MethodOfCall
    MaxInflight = 2
    MaxPerMethod <- OneOfLimited
    Instances = {1, 2, 3}
    VirtualNodes = 2
    PointHash <- RingOfThree
    Ids = {0, 1, 2, 3, 4, 5, 6, 7, 8}
    IdHash <- HashOfId
INVARIANTS
    ServicesTypeOK
    SavedUnlessDirty
    SyncedUnlessPending
    FlushedIsSaved
    FiresOnTime
    BusSound
    InflightCounted
PROPERTIES
    ExpiredIsDropped
    AcceptedIsRun
    DiscoveryLive
    BusLive
    KeysStay
CHECK_DEADLOCK FALSE
