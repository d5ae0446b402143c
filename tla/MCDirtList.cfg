\* Three slots: a full array is merged, and collapsed when that does not help.
SPECIFICATION FairSpec
CONSTANTS
    MaxCoord = 3
    MAX_DIRTS = 3
    FbRects <- Corners
INVARIANTS
    TypeOK
    CoverageKept
    FitsAtFinish
    LoopComputesMerge
PROPERTIES
    SectionEnds
    ImplementsRegion
