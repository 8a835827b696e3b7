SPECIFICATION FairSpec
CONSTANTS
    Inputs <- TwoInputs
    Pages <- TwoPages
    Bad <- CheckRefuses
    Refused <- GateRefuses
    First <- Start
    maxRefusedOutputs = 1
    renderInputConflictAttempts = 2
    PendingRevisions = {1, 2, 3, 4, 5, 6}
    Roots = {1, 2, 3, 4, 5, 6}
    Bounds <- AcceptBounds
INVARIANTS RefusedBaselineIsLeft RestoresProven
PROPERTIES ProvenStays Recovers
CHECK_DEADLOCK FALSE
