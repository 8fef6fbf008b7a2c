SPECIFICATION FairSpec
CONSTANTS
  Chunks = 2
  Units = 2
  Workers = {w1, w2}
  Retry = 2
  Revisions = 2
  Faults = {"breaks", "writeFails", "syncFails", "cancel", "replace", "discard", "kill", "powerLoss"}
  MaxFaults = 2
  NoDoc = NoDoc
INVARIANTS
  ClaimsAreDurable
  StagedIsWhole
PROPERTIES
  EventuallyStaged
  ErrorKeepsProgress
