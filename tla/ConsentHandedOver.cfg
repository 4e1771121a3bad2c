SPECIFICATION Spec
CONSTANTS
    MaxSwaps = 1
PROPERTY AskerConsents
