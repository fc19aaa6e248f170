SPECIFICATION Spec
CONSTANTS
    Networks <- MCNetworks
    MaxRounds = 10
    MaxPasses = 10
    SplitSize = 4
    SmallSpace = 20
    LargeSpace = 200
    LargeComponent = 30
INVARIANTS
    LinesAreKept
    NoNeedlessCrossing
    TurnsAreDrawn
CHECK_DEADLOCK FALSE
