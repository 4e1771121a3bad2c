SPECIFICATION FairSpec
CONSTANTS
    MaxSteps = 2
    MaxBytes = 2
    MaxResets = 1
    MaxTroubles = 1
    Homes = TRUE
INVARIANTS
    PositionKept
    BaseSound
    ReadbackExact
PROPERTIES
    RunIsOwn
    ClearLands
