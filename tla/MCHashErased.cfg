SPECIFICATION Spec
CONSTANTS
  Chunks = 2
  Units = 2
  Workers = {w1}
  Retry = 1
  Revisions = 2
  Faults = {"noHash", "replace", "cancel"}
  MaxFaults = 2
  NoDoc = NoDoc
INVARIANTS
  StagedIsWhole
