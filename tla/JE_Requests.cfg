SPECIFICATION FairSpec
CONSTANTS
    Jobs = {j1}
    Workers = {w1}
    Runs = {r1, r2}
    Requests = {q1, q2}
    Operations = {"cancel", "retry", "replay"}
    Passes = {p1}
    Parents <- NoParents
    j1 = j1
    j2 = j2
    Delayed = {}
    Crashable = {}
    Stoppable = {w1}
    SlowDrain = {}
    NULL = NULL
    Concurrency = 2
    MaxRetries = 0
    MaxLatePings = 0
    MaxDbErrors = 0
INVARIANT DlqEntriesBacked
INVARIANT DeadLetteredIsListed
PROPERTY ShutdownCompletes
CHECK_DEADLOCK FALSE
