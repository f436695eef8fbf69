SPECIFICATION FairSpec
CONSTANTS
    u1 = u1
    o1 = o1
    Users = {u1, u2}
    Orgs = {o1, o2}
    Names = {main, other}
    DefaultName = main
    Known <- OneAccount
    MaxFailures = 2
    MaxLoads = 2
    NULL = NULL
INVARIANT OneIdentity
INVARIANT ProjectsOfUser
PROPERTY ChoiceSurvives
PROPERTY SessionSettles
CHECK_DEADLOCK FALSE
