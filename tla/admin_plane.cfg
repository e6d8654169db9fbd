SPECIFICATION Spec
CONSTANTS
    Admins = {a1, a2}
    Root = a1
    Guessed = {a1}
    Sids = {s1}
    Logins = {l1, l2}
    Requests = {r1, r2}
    MaxFailed = 2
    MaxCalls = 2
    MaxCount = 3
SYMMETRY CallSymmetry
INVARIANTS
    NoLateAction
    ThresholdLocks
PROPERTIES
    LastAdminRemains
