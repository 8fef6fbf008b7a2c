SPECIFICATION Spec
CONSTANTS
  Items = {i1}
  Workers = {w1}
  Clients = {c1}
  Jobs = {j1}
  NewItems = {}
  DeleteAfter = {}
  MaxAttempts = 1
  HistoryLimit = 1
  Ops = {"cancel"}
  Faults = {"answerLost"}
  None = None
INVARIANTS
  CommittedNeverAborted
CHECK_DEADLOCK FALSE
