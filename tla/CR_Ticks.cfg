SPECIFICATION FairSpec
CONSTANTS
    s1 = s1
    s2 = s2
    Schedules = {s1, s2}
    Initially = {s1}
    Passes = {p1, p2}
    Requests = {q1, q2}
    Period <- EachUnitAndEachSecond
    MaxTime = 2
    MaxDbErrors = 1
    NULL = NULL
INVARIANT OncePerOccurrence
PROPERTY DueIsHandled
CHECK_DEADLOCK FALSE
