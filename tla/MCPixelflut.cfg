SPECIFICATION FairSpec
CONSTANTS
    Width = 8
    Height = 1
    red = red
    blue = blue
    Black = Black
    Pictures <- ThreePictures
    Updates <- FullUpdates
    BgColor = blue
    PF_NO_BGCOLOR = NONE
    NoColor = NoColor
    Conns = 2
    SNDBUF = 5
    REBLIT_FREQUENCY = 3
INVARIANTS
    TypeOK
    EachPixelOnce
    ChangedPixelsSent
    WallSettles
    RepaintedInTime
PROPERTIES
    UpdateIsSent
