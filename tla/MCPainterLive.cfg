SPECIFICATION FairSpec
CONSTANTS
    MaxCoord = 1
    f1 = f1
    f2 = f2
    Clients = {c1}
    NoClient = NoClient
    Fbs = {f1, f2}
    NoFb = NoFb
    Size <- SinglePixels
    MAX_DIRTS = 2
    ClipLists <- ThePixel
    Env = {"atomic", "no monitor", "no memory"}
    MaxConnects = 1
    MaxEvents = 1
    merge_dirty_rects <- merge_rects
    collapse_dirty_rects <- collapse_rects
PROPERTIES
    DirtIsGrabbed
