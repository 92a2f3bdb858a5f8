SPECIFICATION PipelineSpec
CONSTANTS
    w1 = w1
    w2 = w2
    Events = {1, 2, 3}
    Histories <- BothHistories
    Workers = {w1, w2}
    NoWorker = NoWorker
    Named = {1, 2, 3}
    MaxRuns = 4
    MaxFaults = 1
    MaxCreated = 3
SYMMETRY WorkerSymmetry
CHECK_DEADLOCK FALSE
INVARIANTS
    FailuresCountedOnce
