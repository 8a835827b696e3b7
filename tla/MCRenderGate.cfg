SPECIFICATION GateFairSpec
CONSTANTS
    Contents = {"a", "b", "c"}
    Bad = {"b"}
    Pods = {"p", "q"}
    maxRetainedRenders = 1
    maxRememberedVerdicts = 2
    MaxRenders = 3
    MaxBroken = 1
    MaxTerms = 1
INVARIANTS LatchFollowsNewest
PROPERTIES StragglersAreKept KeepsPromise NewestIsJudged StragglersAreJudged
CHECK_DEADLOCK FALSE
