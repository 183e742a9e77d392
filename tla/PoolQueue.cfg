SPECIFICATION Spec
CONSTANTS
  a = a
  b = b
  c = c
  d = d
  NoTask = NoTask
  Workers = {w1, w2}
  Producers = {p1, p2}
  Waiters = {}
  Controllers = {}
  Tasks = {a, b, c, d}
  Spans <- TwoCallsAndNested
  BodySpans <- NestedBody
  Bulk = {b, c}
  Tracked = {a}
  Cooperative = {}
  Reentrant = {a}
  Outcomes = {"value"}
  ControlOps = {}
  BodyOps = {"CANCEL_PENDING"}
  Capacity = 2
  CountBits = 3
  BulkClaim = 2
  CallLimit = 1
  NotifyOneWakesAll = FALSE
INVARIANTS TypeOK RingOK TasksPlaced
PROPERTIES ImplementsContract
SYMMETRY WorkerSymmetry
CHECK_DEADLOCK FALSE
