SPECIFICATION FairSpec
CONSTANTS
    N = 2
    Admins = {a1}
    Caller = a1
    Apis = {api1, api2}
    Script = script
    ChunkSize = 1
    MaxResets = 1
    MaxFaults = 1
INVARIANT ReadableThroughout
PROPERTY RunEnds
CHECK_DEADLOCK FALSE
