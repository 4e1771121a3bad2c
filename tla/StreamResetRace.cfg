SPECIFICATION Spec
CONSTANTS
    MaxSteps = 1
    MaxBytes = 2
    MaxResets = 1
    MaxTroubles = 0
    Homes = FALSE
PROPERTIES
    StopHolds
