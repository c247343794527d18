SPECIFICATION FSpec
CONSTANTS
  None = None
  Process = {p1, p2}
  Lease = 1
  Budget = 4
  Grace = 2
  RerunMin = 0
  Ceiling = 2
  Cap = 2
  Visibility = 5
  Faults = TRUE
  MaxClock = 3
  LastInput = 3
  MaxDeliveries = 2
SYMMETRY Symmetry
CHECK_DEADLOCK FALSE
PROPERTIES
  EventLogOrderedByClaim
  OutlivedMirrorOnlyExpires
  CancelledFallsSilent
  LeaseProtocol
