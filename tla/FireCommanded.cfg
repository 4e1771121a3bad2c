SPECIFICATION Spec
CONSTANTS
    MaxIdx = 4
    Depth = 1
    LevN = 4
    Events = {"jog", "fault"}
INVARIANTS
    TypeOK
    EndsDark
PROPERTIES
    LitCommanded
    RunLed
    FirstCycleLit
