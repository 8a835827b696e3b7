CONSTANTS
    Pods = {p1, p2}
    Fleets <- TwoFleets
    Plans = {good, bad}
    Bad = {bad}
    Boot = good
    MaxApplyAttempts = 2
    Bounds <- Scenarios
SPECIFICATION Spec
INVARIANTS CancelHitsItsTarget RollbackTargetIsGood
PROPERTIES CancelIsHonoured TermIsFinal RefusedIsReverted DeploymentsAreAnswered
CHECK_DEADLOCK FALSE
