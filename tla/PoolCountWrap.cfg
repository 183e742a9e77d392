SPECIFICATION Spec
CONSTANTS
  a = a
  b = b
  c = c
  d = d
  NoTask = NoTask
  Workers = {w1, w2}
  Producers = {p1}
  Waiters = {q}
  Controllers = {}
  Tasks = {a, b, c, d}
  Spans <- AllBulk
  BodySpans = {}
  Bulk = {a, b, c, d}
  Tracked = {}
  Cooperative = {}
  Reentrant = {}
  Outcomes = {"value"}
  ControlOps = {}
  BodyOps = {}
  Capacity = 3
  CountBits = 2
  BulkClaim = 2
  CallLimit = 1
  NotifyOneWakesAll = TRUE
PROPERTIES WaitReturnsIdle
SYMMETRY WorkerSymmetry
