CONSTANTS
    a1 = a1
    a2 = a2
    s1 = s1
    n1 = n1
    Requests = {a1, n1}
    Sync = {n1}
    Nested = {n1}
    NAddrs = 1
    MaxConnects = 1
    Extras = {}
    MayExpire = FALSE
    ServerFaulty = FALSE
    MayClose = FALSE

SPECIFICATION FairSpec

PROPERTIES
    EveryCallbackRuns
