SPECIFICATION FairSpec
CONSTANTS
    MaxStuck = 2
    MaxFailedWrites = 3
    EmissionSensed = TRUE
INVARIANTS
    RecordSound
    DisarmSeals
    SealedAtRest
PROPERTIES
    ForeignLockKept
    FaultClosesWindow
