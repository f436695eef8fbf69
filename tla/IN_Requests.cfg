SPECIFICATION Spec
CONSTANTS
    k1 = k1
    k2 = k2
    Clients = {c1, c2}
    Queues = {qa, qb}
    Initially = {qa}
    Keys = {k1}
    Batches <- OneBatch
    JitterPercents = {75, 125}
    CustomPolicy <- Steep
    MaxJobs = 4
    MaxCalls = 2
    MaxFailures = 2
    NULL = NULL
INVARIANT OneJobPerKey
INVARIANT BatchIsWhole
INVARIANT BudgetOfPolicy
INVARIANT DelayWithinPolicy
CHECK_DEADLOCK FALSE
