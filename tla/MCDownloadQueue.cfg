SPECIFICATION Spec
CONSTANTS
    Items = {i1, i2}
    NoItem = NoItem
    CacheAtStart = {TRUE, FALSE}
    MaxSends = 1
    MaxReloads = 0
    MaxRestarts = 1
SYMMETRY IdSymmetry
INVARIANTS
    TypeOK
    QueueWellFormed
    LiveRowsOpen
    CompletedMeansProcessed
    
    NoLostWakeup
PROPERTIES
    TerminalRowsStay
CHECK_DEADLOCK FALSE
