\* Two producers, a flusher and a closer; a callback may write, flush or shut
\* down, which may block the worker for ever: deadlock is not an error.
SPECIFICATION FairSpec
CONSTANTS
  Worker = worker
  Producers = {p1, p2}
  Flushers = {f}
  Closers = {k}
  Records = {r1, r2, r3, r4}
  OwnRecords = {r4}
  Reentrant = {r1}
  CallbackOps = {"write", "flush", "shutdown"}
  Capacity = 1
  CallLimit = 1
INVARIANTS TypeOK FlusherIsWoken
PROPERTIES ImplementsContract AcceptedDelivered CallsReturn
CHECK_DEADLOCK FALSE
