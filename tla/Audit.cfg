SPECIFICATION MCSpec
CONSTANTS
  k1 = k1
  Entry = {1, 2}
  Worker = {w1, w2}
  Partition = {k1}
  PartitionOf <- Together
  BatchSize = 2
  HandlerFails = FALSE
  MaxFaults = 1
INVARIANTS ProcessedIsPublished StoredOnce
PROPERTIES TrailKept
CHECK_DEADLOCK FALSE
