SPECIFICATION FairSpec
CONSTANTS
  None = None
  Run = {r1, r2}
  MaxParks = 1
  Faults = TRUE
CHECK_DEADLOCK FALSE
INVARIANTS
  EndingTypeOK
  OutboxTellsTheRecord
  ChargeFollowsSuccess
  OpenParkIsUndecided
PROPERTIES
  FinishedRecordIsFinal
  OnlyItsRunParksARunningJob
  WatcherIsReleased
