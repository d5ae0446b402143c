SPECIFICATION Spec
CONSTANTS
    Width = 2
    Height = 1
    red = red
    blue = blue
    Black = Black
    Pictures <- ThreePictures
    Updates <- FullOrSide
    BgColor = NONE
    PF_NO_BGCOLOR = NONE
    NoColor = NoColor
    Conns = 1
    SNDBUF = 2
    REBLIT_FREQUENCY = 1
INVARIANTS
    ChangedPixelsSent
