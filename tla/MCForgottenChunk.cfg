SPECIFICATION FairSpec
CONSTANTS
  Chunks = 1
  Units = 2
  Workers = {w1}
  Retry = 1
  Revisions = 1
  Faults = {"kill"}
  MaxFaults = 1
  NoDoc = NoDoc
PROPERTIES
  RecordedSurvives
