SPECIFICATION FairSpec
CONSTANTS
    j1 = j1
    j2 = j2
    j3 = j3
    Jobs <- MCJobs
    Runs = {r1, r2}
    Passes = {p1}
    Requests = {q1}
    MaxEvents = 1
    NULL = NULL
INVARIANT ParentsFirst
INVARIANT NoLostUnlock
INVARIANT TreesRunOnce
PROPERTY KeepsOrder
PROPERTY ChildUnlocked
CONSTRAINT InsertedInOrder
CONSTRAINT Connected
CONSTRAINT FewEvents
CHECK_DEADLOCK FALSE
