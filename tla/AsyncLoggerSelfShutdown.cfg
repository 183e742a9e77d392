\* A sink callback and another thread both call shutdown().
SPECIFICATION FairSpec
CONSTANTS
  Worker = worker
  Producers = {p1}
  Flushers = {f}
  Closers = {k}
  Records = {r1, r2}
  OwnRecords = {}
  Reentrant = {r1}
  CallbackOps = {"shutdown"}
  Capacity = 1
  CallLimit = 1
PROPERTY ShutdownReturns
CHECK_DEADLOCK FALSE
