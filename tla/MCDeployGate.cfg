SPECIFICATION Spec
CONSTANTS
    Contents = {1, 2}
    Bad = {2}
    Fleets <- LeavingFleets
    Retained = TRUE
    MaxRetries = 2
    Bounds <- GateBounds
INVARIANTS AcceptedIsGood
PROPERTIES RetainedYields SkipIsSound
CHECK_DEADLOCK FALSE
