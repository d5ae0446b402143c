SPECIFICATION FairSpec
CONSTANTS
    Pool = 2
    MaxRects = 2
    PT_TRIALS = 5
    Env = {"connect fails", "server goes"}
INVARIANTS
    TypeOK
    GetInStep
    ReleasedAtExit
PROPERTIES
    UsesDevice
    InterruptEnds
    ReadyIsGrabbed
