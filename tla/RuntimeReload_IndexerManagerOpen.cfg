CONSTANTS
    MaxRev = 3
    MaxJobs = 1
    MaxFaults = 0
SPECIFICATION Spec
INVARIANTS
    IndexerManagerOpen
CHECK_DEADLOCK FALSE
