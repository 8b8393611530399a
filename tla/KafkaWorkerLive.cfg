\* One worker through outages, lost replies, rebalances and crashes; pause() and
\* resume() never raise.
SPECIFICATION FairSpec
CONSTANTS
  Workers = {w1}
  Partitions = {p1}
  NoWorker = NoWorker
  BATCH_SIZE = 2
  MAX_RETRIES_BEFORE_SPLIT = 2
  PauseMayFail = FALSE
  MaxLog = 2
  MaxFaults = 3
PROPERTIES StuckBatchIsFrozen DecodableIsDelivered StuckBatchResolves
