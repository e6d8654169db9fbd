SPECIFICATION FairSpec
CONSTANTS
    f1 = f1
    f2 = f2
    f3 = f3
    Files = {f1, f2, f3}
    Chosen <- TwoFiles
    Disks <- SmallDisks
    Chunk = 1
    MaxRetries = 1
    Requests = {q1, q2}
CHECK_DEADLOCK FALSE
INVARIANTS
    StoredIsOriginal
    DoneIsWhole
PROPERTIES
    SuccessMeansQueued
    SubmitEnds
