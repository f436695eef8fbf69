SPECIFICATION FairSpec
CONSTANTS
    j1 = j1
    j2 = j2
    j3 = j3
    high = high
    low = low
    Jobs <- MCJobs
    Queues <- MCQueues
    Workers = {w1, w2}
    QueueOf <- MCQueueOf
    Turn <- MCTurn
    Priority <- MCPriority
    Retried = {j2}
    Limits = {1}
    Concurrency = 2
    NULL = NULL
    MaxChanges = 1
    MaxDbErrors = 1
PROPERTY PausedRunsEmpty
PROPERTY EventuallyClaimed
CHECK_DEADLOCK FALSE
