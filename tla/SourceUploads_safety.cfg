SPECIFICATION FairSpec
CONSTANTS
  Finisher = {f1, f2}
  Purger = {p1, p2}
  Good = {x}
  Bad = {bad}
  None = None
  Sweep = Sweep
  MaxPuts = 3
  MaxRetries = 2
INVARIANTS
  ApprovedJobKeepsItsBytes
PROPERTIES
  AdoptedBytesAreNotDeleted
  IntentsSettle
  PurgeIsRecorded
CHECK_DEADLOCK FALSE
