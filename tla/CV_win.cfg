\* Four threads use one mutex and its condition variable in every order.
SPECIFICATION FairSpec
CONSTANTS
    Threads = {t1, t2, t3, t4}
    NoThread = NoThread
INVARIANTS
    WaitersAreCounted
    TokensMatchSleepers
    FlagIsPrivate
PROPERTIES
    BroadcastReturns
    IsCondVar
\* Every thread may be asleep with nobody left to wake it.
CHECK_DEADLOCK FALSE
