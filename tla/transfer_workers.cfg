SPECIFICATION Spec
CONSTANTS
    f1 = f1
    f2 = f2
    Files = {f1, f2}
    SizeBytes <- SecondEmpty
    MaxChunk = 1
    Slack = 1
    Workers = {w1, w2}
    Patchers = {p1}
    Requests = {}
    Downloads = {g1}
    NoWorker = NoWorker
    SlowEncrypt = FALSE
    MaxQueue = 1
    MaxFaults = 1
    Malicious = {f1}
SYMMETRY WorkerSymmetry
INVARIANTS
    EncryptExclusive
    AnnouncedOnce
    ReadyIsComplete
    StreamsKeepTheirObjects
    OversizeIsPassing
PROPERTIES
    RefusedOnlyIfTampered
CHECK_DEADLOCK FALSE
