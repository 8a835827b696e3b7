SPECIFICATION FairSpec
CONSTANTS
    NumPlans = 2
    Bad = {2}
    Epochs = {1, 2}
    MaxDeploy = 3
    MaxCrash = 1
    MaxTorn = 0
    MaxRestart = 0
    MaxFile = 0
    MaxSock = 0
    MaxInfo = 0
    MaxRepair = 0
    MaxLost = 0
    SavesFail = FALSE
    Faults <- MCFaults
PROPERTIES ScheduledReloadKept PendingReloadHappens
CHECK_DEADLOCK FALSE
