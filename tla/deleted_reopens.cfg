SPECIFICATION Spec
CONSTANTS
    f1 = f1
    f2 = f2
    Files = {f1}
    SizeBytes <- OneByteEach
    MaxChunk = 1
    Slack = 1
    Workers = {w1}
    Patchers = {p1}
    Requests = {r1}
    Downloads = {}
    NoWorker = NoWorker
    SlowEncrypt = FALSE
    MaxQueue = 1
    MaxFaults = 0
    Malicious = {}
PROPERTIES
    DeletedIsFinal
CHECK_DEADLOCK FALSE
