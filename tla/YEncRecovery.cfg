CONSTANTS
    s = s
    d = d
    p = p
    None = None
    Articles = {s, d, p}
    Runs = {r1, r2}
    SubjectKey <- MCSubjectKey
    SubjectPart <- MCSubjectPart
    HeaderKey <- MCHeaderKey
    HeaderPart <- MCHeaderPart
    Second <- MCSecond
    Bytes <- MCBytes
    OpaqueKeys = {"d"}
    WeakKeys = {"s", "d"}
    BatchSize = 2
    MaxBinaries = 3
    MaxFaults = 1
SPECIFICATION FairSpec
INVARIANTS
    TypeOK
    SupersededIntoLive
    SettledInPlace
PROPERTIES
    Gathered
CHECK_DEADLOCK FALSE
