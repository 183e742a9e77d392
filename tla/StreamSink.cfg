\* Two threads alternate between two sinks, of either policy, over streams
\* that fail and are repaired.  The calls are bounded, so the instance stops:
\* deadlock is not an error.
SPECIFICATION FairSpec
CONSTANTS
  Threads = {t1, t2}
  Sinks = {1, 2}
  Records <- Entries
  FlushThreshold <- Threshold
  FlushLimit = 1
  RepairLimit = 1
INVARIANTS TypeOK RecordFits ShardsOwned LinesWhole ProducerOrder LossReported
PROPERTIES FlushCovers CallsReturn
CHECK_DEADLOCK FALSE
