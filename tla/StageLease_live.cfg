SPECIFICATION FairSpec
CONSTANTS
    A = A
    B = B
    a1 = a1
    a2 = a2
    b1 = b1
    Stages = {assemble}
    ExclusiveStages = {assemble}
    Owners = {A, B}
    Supers <- MCSupers
    OwnerOf <- MCOwnerOf
    Workers = {w1, w2}
    NoOwner = NoOwner
    NoStage = NoStage
    NoSuper = NoSuper
    MaxRuns = 2
PROPERTIES
    StageNeverWedged
CHECK_DEADLOCK FALSE
