\* Two watchers on two paths, two reads, three changes, two connections.
SPECIFICATION Spec
CONSTANTS
    p1 = p1
    p2 = p2
    Paths <- MCPaths
    Watchers = {w1, w2}
    DefaultWatcher = d
    HashOf <- MCHashOf
    Primes <- MCPrimes
    Changing = {p1}
    MaxCalls = 2
    MaxChanges = 3
    MaxConnects = 2
SYMMETRY MCSymmetry
INVARIANTS
    TablesWellFormed
    NoWatchIsLost
    NoChangeIsMissed
    EventsAreNews
    FiresOncePerRead
