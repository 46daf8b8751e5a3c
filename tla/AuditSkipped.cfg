SPECIFICATION PlainSpec
CONSTANTS
  k1 = k1
  Entry = {1, 2}
  Worker = {w1}
  Partition = {k1}
  PartitionOf <- Together
  BatchSize = 2
  HandlerFails = TRUE
  MaxFaults = 1
INVARIANTS CommittedStored
CHECK_DEADLOCK FALSE
