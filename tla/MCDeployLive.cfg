SPECIFICATION FairSpec
CONSTANTS
    Contents = {1, 2}
    Bad = {}
    Fleets <- TwoFleets
    Retained = FALSE
    MaxRetries = 2
    Bounds <- LiveBounds
INVARIANTS OneDeploymentAtATime
PROPERTIES DispatchesTheDeployable Converges DrainReturns
CHECK_DEADLOCK FALSE
