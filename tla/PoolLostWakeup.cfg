SPECIFICATION FairSpec
CONSTANTS
  a = a
  b = b
  c = c
  d = d
  NoTask = NoTask
  Workers = {w1}
  Producers = {p1, p2}
  Waiters = {}
  Controllers = {}
  Tasks = {a, b, c}
  Spans <- Singles
  BodySpans = {}
  Bulk = {}
  Tracked = {a}
  Cooperative = {}
  Reentrant = {}
  Outcomes = {"value"}
  ControlOps = {}
  BodyOps = {}
  Capacity = 1
  CountBits = 2
  BulkClaim = 2
  CallLimit = 1
  NotifyOneWakesAll = FALSE
PROPERTIES AcceptedSettles
CHECK_DEADLOCK FALSE
