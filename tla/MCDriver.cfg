SPECIFICATION Spec
SYMMETRY Symmetry
CONSTANTS
    EVDI_DEVICE_COUNT_MAX = 2
    d1 = d1
    d2 = d2
    d3 = d3
    Devs <- MCDevs
    NULL = NULL
    ERR = ERR
    Writers = {w1}
    Files = {f1}
    NoDev = NoDev
    Counts = {0, 1, 2}
    MaxRemoves = 1
    Failures <- MCFailures
INVARIANTS
    TypeOK
    CardsListed
    UnloadedClean
    WritersMeetModule
    StaleOnlyOrphans
CHECK_DEADLOCK FALSE
