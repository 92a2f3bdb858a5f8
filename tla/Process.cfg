SPECIFICATION LiveSpec
CONSTANTS
  Requests = {r1, r2}
  r1 = r1
  r2 = r2
  Deadline <- MCDeadline
  MetricsOn = TRUE
  Workers = {w1}
  MaxConns = 1
  ShutdownTimeout = 2
  MaxAge = 4
INVARIANTS
  PoolOutlivesHandlers
  ShutdownKeepsRequests
  ExitLeavesNothingOpen
PROPERTY SignalEndsProcess
CHECK_DEADLOCK FALSE
