SPECIFICATION FairSpec
CONSTANTS
  Values = {v1, v2}
  Rejected = rejected
  Default = default
  Torn = torn
  None = none
INVARIANTS
  FilesKept
PROPERTIES
  UserKept
  Migrates
