CONSTANTS
    Plans <- ByOne
    Preempted <- Threads
    MaxEvents = 2

SPECIFICATION FairSpec

INVARIANTS
    CountIsExact
    NoUseAfterFree
PROPERTIES
    LifetimeHolds
    HandleIsFreed
    CloseReturns
