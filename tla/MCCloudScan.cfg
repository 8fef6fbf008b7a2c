SPECIFICATION FairSpec
CONSTANTS
  here = here
  there = there
  x = x
  y = y
  f = f
  Jobs = {j}
  Definitions = {here, there}
  Target <- MCTarget
  Wanted <- MCWanted
  Overwriting = {there}
  Files = {f}
  Unstorable = {}
  Contents = {c1, c2}
  First = c1
  None = None
  MaxEvents = 2
INVARIANTS
  RowsFollowJobs
PROPERTIES
  NotRefetched
  FilesArrive
