SPECIFICATION DoseSpec
CONSTANTS
    Full = 5
    Rate = 4
    RefRate = 3
    PeriodMax = 4
    Periods = {0, 1, 3, 4, 5}
    Mins = {0, 1, 2, 3, 5}
INVARIANTS
    DoseConserved
    DebtBounded
PROPERTIES
    BurstStrikes
