SPECIFICATION FairSpec
CONSTANTS
    Items = {i1}
    NoItem = NoItem
    CacheAtStart = {TRUE, FALSE}
    MaxSends = 1
    MaxReloads = 1
    MaxRestarts = 2
PROPERTIES
    EveryItemHandled
    
CHECK_DEADLOCK FALSE
