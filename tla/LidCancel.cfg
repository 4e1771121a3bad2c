SPECIFICATION FairSpec
CONSTANTS
    Places = {p1, p2}
    MaxBlocks = 2
    MaxLines = 3
INVARIANTS
    TypeOK
    ParkToOwnStart
PROPERTIES
    LidTold
    CancelEnds
