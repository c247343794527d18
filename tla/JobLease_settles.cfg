SPECIFICATION FairSpec
CONSTANTS
  None = None
  Process = {p1}
  Lease = 1
  Budget = 3
  Grace = 1
  RerunMin = 0
  Ceiling = 2
  Cap = 1
  Visibility = 4
  Faults = TRUE
  MaxClock = 10
  LastInput = 3
  MaxDeliveries = 3
CHECK_DEADLOCK FALSE
PROPERTIES
  EveryJobSettles
