SPECIFICATION FairSpec
CONSTANTS
  Grid <- MCGrid
  Temps <- MCTemps
  Hysteresis <- MCHysteresis
  Threshold <- MCThreshold
  Release <- MCRelease
  Floor = 50
  Cooldown = 1
  Shapes = {"quiet", "loud"}
  Curve <- MCCurve
  Readings <- MCReadings
  Seeds <- MCSeeds
  MinChange = 2
INVARIANTS
  WithinBand
  ModeAgrees
  InStep
  EntersFresh
PROPERTY FloorKept
