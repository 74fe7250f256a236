CONSTANTS
    a1 = a1
    a2 = a2
    s1 = s1
    n1 = n1
    Requests = {n1}
    Sync = {n1}
    Nested = {n1}
    NAddrs = 1
    MaxConnects = 1
    Extras = {"event"}
    MayExpire = FALSE
    ServerFaulty = FALSE
    MayClose = TRUE

SPECIFICATION FairSpec

PROPERTIES
    EveryCallReturns
    CloseReturns
