\* Two threads, two external sinks and an owned one, both dispatch policies;
\* the callback of one sink may call its logger.  Calls are bounded, so the
\* instance stops: deadlock is not an error.
SPECIFICATION FairSpec
CONSTANTS
  Threads = {t1, t2}
  Sinks = {a, b, o}
  Owned = {o}
  Reentrant = {a}
  NoSink = NoSink
  CallLimit = 4
INVARIANTS TypeOK CallbacksAlive CallbacksSerialized
PROPERTIES ImplementsContract CallsReturn
CHECK_DEADLOCK FALSE
