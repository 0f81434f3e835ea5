SPECIFICATION FairSpec
CONSTANTS
    Segments = {s1, s2, s3, s4}
    Workers = {w1, w2}
    NoJob = NoJob
    BufferSize = 1
    MaxRetries = 1
    MaxFaults = 2
INVARIANTS
    OneCopyOfEach
    SuccessMeansWritten
    QuietReturn
PROPERTIES
    PoolReturns
CHECK_DEADLOCK FALSE
