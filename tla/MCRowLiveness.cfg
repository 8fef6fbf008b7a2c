SPECIFICATION FairSpec
CONSTANTS
  Items = {i1}
  Workers = {w1}
  Clients = {c1, c2}
  Jobs = {j1}
  NewItems = {}
  DeleteAfter = {i1}
  MaxAttempts = 1
  HistoryLimit = 1
  Ops = {"cancel", "retry", "deleteStaged", "shutdown"}
  Faults = {"persistFails"}
  None = None
INVARIANTS
  NoOrphanUpload
  CommittedNeverAborted
PROPERTIES
  WorkersDrain
  ShutdownLeavesNoneRunning
