SPECIFICATION MCSpec
CONSTANTS
    MaxFaults = 2
    Paths = {1, 2, 3}
    ConfigFile = 2
    Content = {"a", "b"}
    Absent = "absent"
    PathDigest <- MCPathDigest
    FirstTrees <- MCFirstTrees
    Requests <- MCRequests
INVARIANTS RollbackExact CrashRecoverable JournalInv
PROPERTIES ConfigAfterItsFiles
