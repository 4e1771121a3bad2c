SPECIFICATION Spec
CONSTANTS
    MaxSwaps = 2
INVARIANTS
    AirflowCovers
    LinesMeet
PROPERTIES
    PressOnce
    PressConsents
