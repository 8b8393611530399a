\* Two workers share one partition: rebalances, evictions and crashes hand its
\* messages over in the middle of a flush, and an evicted worker goes on.
SPECIFICATION Spec
CONSTANTS
  Workers = {w1, w2}
  Partitions = {p1}
  NoWorker = NoWorker
  BATCH_SIZE = 2
  MAX_RETRIES_BEFORE_SPLIT = 2
  PauseMayFail = TRUE
  MaxLog = 2
  MaxFaults = 2
SYMMETRY WorkerSymmetry
INVARIANT CommittedIsAccounted
PROPERTY ImplementsContract
