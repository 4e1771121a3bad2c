SPECIFICATION FairSpec
INVARIANTS
    TypeOK
    LossCovered
PROPERTIES
    HeldWhileBlocked
    EngineLearns
