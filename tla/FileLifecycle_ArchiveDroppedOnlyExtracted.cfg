CONSTANTS
    f1 = f1
    a1 = a1
    a2 = a2
    Plain = {f1}
    Archives = {a1, a2}
    Sized = {f1, a1}
    MaxFaults = 2
    MaxStops = 2
SPECIFICATION Spec
PROPERTIES
    ArchiveDroppedOnlyExtracted
CHECK_DEADLOCK FALSE
