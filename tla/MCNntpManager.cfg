SPECIFICATION FairSpec
CONSTANTS
    p1 = p1
    p2 = p2
    d = d
    i1 = i1
    i2 = i2
    Providers = {p1, p2}
    Rank <- MCRank
    Capacity <- MCCapacity
    Callers = {d, i1, i2}
    Downloaders = {d}
    Fetchers = {d, i1}
    WaitQueue = {i1, i2}
    Allowed <- MCAllowed
    IdleBorrow = TRUE
    IndexerMaxPercent = 40
    NoProvider = NoProvider
    MaxCalls = 3
INVARIANTS
    TypeOK
    SlotsAccounted
    
PROPERTIES
    EveryCallReturns
CHECK_DEADLOCK FALSE
