SPECIFICATION Spec
CONSTANTS
    NumPlans = 2
    Bad = {2}
    Epochs = {1, 2}
    MaxDeploy = 3
    MaxCrash = 1
    MaxTorn = 0
    MaxRestart = 1
    MaxFile = 0
    MaxSock = 1
    MaxInfo = 0
    MaxRepair = 0
    MaxLost = 0
    SavesFail = TRUE
    Faults <- MCFaults
INVARIANTS WorkerTruth RollbackTruth OpsMeetTheirBaseline ProofsNameOnePlan
CHECK_DEADLOCK FALSE
