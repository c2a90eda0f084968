SPECIFICATION WindowFairSpec
CONSTANTS
  Values = {1, 2}
  Profiles = {1, 2}
  Start <- MCStart
  Capacity = 2
  MaxRevision = 3
  MaxThreads = 1
  MaxMoves = 2
INVARIANTS
  Agrees
  FileFollows
PROPERTY
  BusyClears
