SPECIFICATION Spec
CONSTANTS
    w1 = w1
    w2 = w2
    u1 = u1
    Ids = {1, 2, 3}
    Users = {u1}
    Workers = {w1, w2}
    NoWorker = NoWorker
    TTL = 1
    Grace = 1
    BatchSize = 1
    MaxTime = 3
    MaxRequests = 3
    MaxFaults = 1
CHECK_DEADLOCK FALSE
INVARIANTS
    OneLiveTokenPerFamily
    NobodyIsStuck
PROPERTIES
    ExchangesAreValid
    ReuseIsDetected
    RevocationIsComplete
