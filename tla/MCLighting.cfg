SPECIFICATION FairSpec
CONSTANTS
  Zones = {1, 2}
  Colours = {red}
  Top = 2
  Steps = {0, 2}
  Effects <- MCEffects
  Unknown = {}
  None = None
  Unsure = Unsure
INVARIANTS
  BeliefHolds
  SleepsDark
PROPERTIES
  Settles
