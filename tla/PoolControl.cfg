SPECIFICATION Spec
CONSTANTS
  a = a
  b = b
  c = c
  d = d
  NoTask = NoTask
  Workers = {w1, w2}
  Producers = {p1}
  Waiters = {k2}
  Controllers = {k1, k2}
  Tasks = {a, b}
  Spans <- Two
  BodySpans = {}
  Bulk = {}
  Tracked = {a}
  Cooperative = {a}
  Reentrant = {b}
  Outcomes = {"error"}
  ControlOps = {"clear_queue", "DRAIN", "CANCEL_PENDING"}
  BodyOps = {"clear_queue", "CANCEL_PENDING"}
  Capacity = 2
  CountBits = 3
  BulkClaim = 2
  CallLimit = 1
  NotifyOneWakesAll = TRUE
INVARIANTS CancelStopsActive RingOK FailuresAccounted
PROPERTIES WaitReturnsIdle ImplementsContract
SYMMETRY WorkerSymmetry
