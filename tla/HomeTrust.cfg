SPECIFICATION Spec
CONSTANTS
    Reach = 1
    Edge = 0
    Park = 1
    Shift = 1
INVARIANTS TypeOK
PROPERTIES CoordinatesImplement AnchorImplements ReleaseHolds
