SPECIFICATION Spec
CONSTANTS
    MaxCoord = 2
    f1 = f1
    f2 = f2
    Clients = {c1}
    NoClient = NoClient
    Fbs = {f1, f2}
    NoFb = NoFb
    Size <- TwoSizes
    MAX_DIRTS = 2
    ClipLists <- OneClip
    Env = {"no memory"}
    MaxConnects = 2
    MaxEvents = 0
    merge_dirty_rects <- merge_rects
    collapse_dirty_rects <- collapse_rects
INVARIANTS
    TypeOK
    DamageKept
    WaiterWillBeWoken
    RefsBalanced
    ScanoutFollowsPlane
    FirstModeAnnounced
PROPERTIES
    ImplementsDevice
