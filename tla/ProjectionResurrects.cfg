SPECIFICATION Spec
CONSTANTS
    w1 = w1
    w2 = w2
    Events = {1, 2, 3}
    Histories <- DistinctHistory
    Workers = {w1, w2}
    NoWorker = NoWorker
    Named = {1, 2, 3}
    MaxRuns = 3
    MaxFaults = 0
    MaxCreated = 3
SYMMETRY WorkerSymmetry
CHECK_DEADLOCK FALSE
PROPERTIES
    CanceledStaysCanceled
