SPECIFICATION FairSpec
CONSTANTS
    Jobs = {j1, j2, j3}
    Workers = {w1, w2}
    Runs = {r1, r2}
    Requests = {}
    Operations = {}
    Passes = {p1}
    Parents <- Chain
    j1 = j1
    j2 = j2
    Delayed = {}
    Crashable = {w1}
    Stoppable = {}
    SlowDrain = {}
    NULL = NULL
    Concurrency = 1
    MaxRetries = 1
    MaxLatePings = 0
    MaxDbErrors = 0
INVARIANT OneExecutorPerJob
INVARIANT LeaseIsHeld
INVARIANT FailuresWithinRetryBudget
PROPERTY CompletedIsFinal
PROPERTY EventuallySettled
CHECK_DEADLOCK FALSE
