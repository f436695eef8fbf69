SPECIFICATION FairSpec
CONSTANTS
    p1 = p1
    p2 = p2
    Projects = {p1, p2}
    Items = {i1, i2}
    Home <- MCHome
    Opened = p1
    Initial = {i1}
    Texts = {"x"}
    Slots = {s1, s2}
    MaxUser = 3
    MaxOthers = 1
    MaxFailures = 1
    NULL = NULL
INVARIANT TypeOK
INVARIANT QuietIsCurrent
PROPERTY Released
PROPERTY PollSettles
CONSTRAINT OneDisturbance
CHECK_DEADLOCK FALSE
