SPECIFICATION FairSpec
CONSTANTS
    Apis = {p1}
    Requests = {r1, r2}
    Values = {1}
    Traffic = {"upload"}
    Unset = Unset
    Default = 2
    CacheTTL = 1
    HourWindow = 1
    DayWindow = 2
    MaxHits = 3
    MaxPatches = 1
INVARIANTS
    FreshLimits
    WithinWindow
PROPERTIES
    BlockIsTemporary
