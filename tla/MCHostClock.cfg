SPECIFICATION Spec
CONSTANTS
    MaxUpdates = 1
INVARIANT
    FallsBack
CHECK_DEADLOCK FALSE
