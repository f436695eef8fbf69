SPECIFICATION FairSpec
CONSTANTS
    Jobs = {j1}
    Workers = {w1}
    Runs = {r1}
    Requests = {}
    Operations = {}
    Passes = {p1}
    Parents <- NoParents
    j1 = j1
    j2 = j2
    Delayed = {j1}
    Crashable = {}
    Stoppable = {}
    SlowDrain = {}
    NULL = NULL
    Concurrency = 1
    MaxRetries = 1
    MaxLatePings = 0
    MaxDbErrors = 0
PROPERTY DelayedIsQueued
CHECK_DEADLOCK FALSE
