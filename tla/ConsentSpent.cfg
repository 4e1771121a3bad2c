SPECIFICATION Spec
CONSTANTS
    MaxSwaps = 0
INVARIANT OneJobPerPress
