SPECIFICATION Spec
CONSTANTS
    Jobs = {j1}
    Workers = {w1, w2}
    Runs = {r1, r2}
    Requests = {}
    Operations = {}
    Passes = {p1, p2}
    Parents <- NoParents
    j1 = j1
    j2 = j2
    Delayed = {}
    Crashable = {w1, w2}
    Stoppable = {}
    SlowDrain = {}
    NULL = NULL
    Concurrency = 1
    MaxRetries = 1
    MaxLatePings = 1
    MaxDbErrors = 1
SYMMETRY AllInterchangeable
INVARIANT AttemptHasOneExecutor
INVARIANT OwnerMatchesStatus
PROPERTY KeepsLedger
CHECK_DEADLOCK FALSE
