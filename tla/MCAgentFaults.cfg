SPECIFICATION Spec
CONSTANTS
    NumPlans = 2
    Bad = {2}
    Epochs = {1, 2}
    MaxDeploy = 3
    MaxCrash = 1
    MaxTorn = 1
    MaxRestart = 0
    MaxFile = 1
    MaxSock = 1
    MaxInfo = 1
    MaxRepair = 1
    MaxLost = 1
    SavesFail = FALSE
    Faults <- MCFaults
PROPERTIES EpochNeverFallsBack
CHECK_DEADLOCK FALSE
