\* One worker, one partition, one outage that begins while rows are isolated.
SPECIFICATION Spec
CONSTANTS
  Workers = {w1}
  Partitions = {p1}
  NoWorker = NoWorker
  BATCH_SIZE = 2
  MAX_RETRIES_BEFORE_SPLIT = 2
  PauseMayFail = FALSE
  MaxLog = 2
  MaxFaults = 1
INVARIANT OnlyRefusedRowsAreParked
