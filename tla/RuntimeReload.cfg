CONSTANTS
    MaxRev = 4
    MaxJobs = 2
    MaxFaults = 2
SPECIFICATION FairSpec
INVARIANTS
    TypeOK
    CurrentManagersOpen
    NoManagerLeaks
    NoRevisionLost
PROPERTIES
    RuntimeFollowsSettings
CHECK_DEADLOCK FALSE
