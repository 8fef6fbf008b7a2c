SPECIFICATION Spec
CONSTANTS
  Items = {i1}
  Workers = {w1, w2}
  Clients = {c1, c2}
  Jobs = {j1, j2}
  NewItems = {}
  DeleteAfter = {i1}
  MaxAttempts = 2
  HistoryLimit = 1
  Ops = {"cancel", "retry", "deleteStaged", "clear", "cleanup", "prune", "apply", "shutdown"}
  Faults = {"persistFails", "abortFails", "answerLost"}
  None = None
SYMMETRY Symmetry
INVARIANTS
  TypeOK
  OneWriter
  RunningIsServed
  CleanupExcludesWorker
  OriginalOutlivesDelivery
  AttemptBudget
PROPERTIES
  FailureKeepsBytes
  CancelSticks
  RetryClosesOldUpload
  ImplementsLifecycle
