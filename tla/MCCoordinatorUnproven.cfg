SPECIFICATION FairSpec
CONSTANTS
    Inputs <- TwoInputs
    Pages <- TwoPages
    Bad <- CheckRefuses
    Refused <- CheckRefuses
    First <- Start
    maxRefusedOutputs = 1
    renderInputConflictAttempts = 2
    PendingRevisions = {1, 2, 3, 4, 5, 6}
    Roots = {1, 2, 3, 4, 5, 6}
    Bounds <- UnprovenBounds
PROPERTIES UnprovenIsRevoked
CHECK_DEADLOCK FALSE
