SPECIFICATION FairSpec
CONSTANTS
  Items = {i1, i2}
  Workers = {w1}
  Clients = {c1, c2}
  Jobs = {j1}
  NewItems = {i2}
  DeleteAfter = {}
  MaxAttempts = 1
  HistoryLimit = 0
  Ops = {"cancel", "deleteStaged"}
  Faults = {}
  None = None
INVARIANTS
  DeletingCountsHolders
PROPERTIES
  CallsReturn
CHECK_DEADLOCK FALSE
