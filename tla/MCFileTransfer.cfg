SPECIFICATION FairSpec
CONSTANTS
  Workers = {w1, w2}
  Chunks = 2
  Retry = 3
  None = None
  MaxDeaths = 2
  MaxFaults = 3
  SegmentSize = 2
  Asks = 2
  Resends = 2
  Sizes = {0, 3}
  MaxAttempts = 2
INVARIANTS
  GoodLinkKept
  CauseReported
  CommittedIsWhole
  AttemptsExplained
PROPERTIES
  TransferEnds
  ImplementsDelivery
CHECK_DEADLOCK FALSE
