SPECIFICATION Spec
CONSTANTS
  None = None
  Process = {p1, p2}
  Lease = 1
  Budget = 4
  Grace = 1
  RerunMin = 0
  Ceiling = 2
  Cap = 2
  Visibility = 3
  Faults = TRUE
  MaxClock = 5
  LastInput = 3
  MaxDeliveries = 3
SYMMETRY Symmetry
CHECK_DEADLOCK FALSE
INVARIANTS
  GenerationHasOneProcess
  ReaperSeesEveryUnfinishedRow
PROPERTIES
  FinishedJobIsInert
  LiveLeaseIsNotTaken
