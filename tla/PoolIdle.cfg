SPECIFICATION FairSpec
CONSTANTS
  a = a
  b = b
  c = c
  d = d
  NoTask = NoTask
  Workers = {w1, w2}
  Producers = {p1}
  Waiters = {p1}
  Controllers = {k}
  Tasks = {a, b}
  Spans <- Two
  BodySpans = {}
  Bulk = {}
  Tracked = {a}
  Cooperative = {a}
  Reentrant = {}
  Outcomes = {"value"}
  ControlOps = {"CANCEL_PENDING"}
  BodyOps = {}
  Capacity = 2
  CountBits = 3
  BulkClaim = 2
  CallLimit = 1
  NotifyOneWakesAll = TRUE
PROPERTIES CallsReturn CancelShutdownReturns
CHECK_DEADLOCK FALSE
