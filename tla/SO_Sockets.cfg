CONSTANTS
    Tokens = {t1, t2}
    Machines = {m1}
    Loops = {l1, l2, l3}
    MaxChanges = 3
    MaxDrops = 1
    NULL = NULL
SPECIFICATION FairSpec
INVARIANT OneLoopPerRun
INVARIANT LiveSyncIsTrue
INVARIANT EntriesAreOpen
PROPERTY LiveAgain
CHECK_DEADLOCK FALSE
