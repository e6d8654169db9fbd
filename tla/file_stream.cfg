SPECIFICATION Spec
CONSTANTS
    MaxLen = 5
    TagLen = 3
    ChunkSize = 3
    FetchSize = 4
INVARIANTS
    TypeOK
    OnlyTheOriginal
    UntouchedPasses
