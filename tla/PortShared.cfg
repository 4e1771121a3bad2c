SPECIFICATION FairSpec
CONSTANTS
    RingCap = 2
    Ops = {"jog", "command", "tray", "open", "apply", "cancel", "out", "in"}
INVARIANTS
    TypeOK
    GateExact
    InjectedWhole
    DeadMan
PROPERTIES
    SpoiledNeverRun
    SenderServed
