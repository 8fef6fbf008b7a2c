SPECIFICATION FairSpec
CONSTANTS
  Rows = 3
  Size <- MCSize
  DailyLimit = 2
  MaxFaults = 1
  DownloadLimits = {1, 2}
  UploadLimit = 1
  StageLimit = 2
  DayLength = 2
  Schedule <- MCSchedule
  ResetAt = 0
INVARIANTS
  CountersExact
  DayWithinLimit
  LedgerCovers
  NoneSleepsBesideFreeSlot
  StageWithinLimit
  WindowTold
PROPERTIES
  EveryRowEnds
  CompletedStays
