SPECIFICATION FairSpec
CONSTANTS
  a = a
  b = b
  c = c
  d = d
  NoTask = NoTask
  Workers = {w1, w2}
  Producers = {p1}
  Waiters = {}
  Controllers = {}
  Tasks = {a, b, c, d}
  Spans <- SinglesAndNested
  BodySpans <- NestedBody
  Bulk = {}
  Tracked = {a}
  Cooperative = {}
  Reentrant = {a}
  Outcomes = {"value"}
  ControlOps = {}
  BodyOps = {}
  Capacity = 1
  CountBits = 2
  BulkClaim = 2
  CallLimit = 1
  NotifyOneWakesAll = TRUE
PROPERTIES AcceptedSettles CallsReturn
