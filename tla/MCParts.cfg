SPECIFICATION FairSpec
CONSTANTS
  Packages = {0, 1}
  EnergyRange = 2
  MaxTicks = 2
  SmiFields <- MCSmiFields
  Backoff = 2
  Capacity = 2
  Chunk = 1
  Cap = 1
  Output = 2
  MaxHeirs = 2
  Patience = 1
  CpuPolicies = {0, 1}
  Speeds = {1, 2}
  Appliers = {commands, resume}
  PowerPackages = {0, 1}
  Milliwatts = {14999, 15000, 120000, 120001}
  Ranges <- MCRanges
  Offsets <- MCOffsets
  Keys <- MCKeys
  GpuKeys <- MCGpuKeys
  PageKeys <- MCPageKeys
  Charted <- MCGpuKeys
  Hardwares <- MCHardwares
  Depth = 1
  Low = 0
  High = 4
  Full = 3
  FileTemps <- MCFileTemps
  FileSpeeds = {0, 1, 4}
  MaxPoints = 4
INVARIANTS
  MetersTrue
  OutputWhole
  TuningTrue
  CurveSound
PROPERTIES
  SmiPaced
  CommandsEnd
  WindowServed
CHECK_DEADLOCK FALSE
