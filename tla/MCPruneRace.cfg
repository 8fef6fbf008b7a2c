SPECIFICATION Spec
CONSTANTS
  Items = {i1}
  Workers = {w1}
  Clients = {c1}
  Jobs = {j1}
  NewItems = {i1}
  DeleteAfter = {}
  MaxAttempts = 1
  HistoryLimit = 1
  Ops = {"prune"}
  Faults = {}
  None = None
PROPERTIES
  PruneSparesQueue
CHECK_DEADLOCK FALSE
