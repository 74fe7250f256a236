CONSTANTS
    a1 = a1
    a2 = a2
    s1 = s1
    n1 = n1
    Requests = {a1, a2}
    Sync = {}
    Nested = {}
    NAddrs = 2
    MaxConnects = 2
    Extras = {"auth", "set_watches"}
    MayExpire = TRUE
    ServerFaulty = TRUE
    MayClose = FALSE

SPECIFICATION Spec

INVARIANTS
    AddressInBounds
    SessionEventsTrackState
    CallbackOrder
