SPECIFICATION FairSpec
CONSTANTS
  a = a
  b = b
  c = c
  d = d
  NoTask = NoTask
  Workers = {w1}
  Producers = {p1}
  Waiters = {}
  Controllers = {k1, k2}
  Tasks = {a, b}
  Spans <- Two
  BodySpans = {}
  Bulk = {}
  Tracked = {a}
  Cooperative = {a}
  Reentrant = {}
  Outcomes = {"value"}
  ControlOps = {"DRAIN", "CANCEL_PENDING"}
  BodyOps = {}
  Capacity = 2
  CountBits = 3
  BulkClaim = 2
  CallLimit = 1
  NotifyOneWakesAll = TRUE
PROPERTIES CancelShutdownReturns
CHECK_DEADLOCK FALSE
