SPECIFICATION Spec
CONSTANTS
    A = A
    B = B
    a1 = a1
    a2 = a2
    b1 = b1
    Stages = {assemble, purge}
    ExclusiveStages = {assemble, purge}
    Owners = {A, B}
    Supers <- MCSupers
    OwnerOf <- MCOwnerOf
    Workers = {w1, w2}
    NoOwner = NoOwner
    NoStage = NoStage
    NoSuper = NoSuper
    MaxRuns = 2
SYMMETRY WorkerSymmetry
INVARIANTS
    TypeOK
    LeaseMatchesRun
    FencedExecution
    LaneExclusive
    OutcomeOfLastRun
PROPERTIES
    RefinesFencedLease
CHECK_DEADLOCK FALSE
