CONSTANTS
    f1 = f1
    a1 = a1
    a2 = a2
    Plain = {f1}
    Archives = {a1, a2}
    Sized = {f1, a1}
    MaxFaults = 2
    MaxStops = 3
SPECIFICATION Spec
INVARIANTS
    TypeOK
    FinalNeverPartial
    
PROPERTIES
    FinishedFilesKept
CHECK_DEADLOCK FALSE
