SPECIFICATION FairSpec
CONSTANTS
  Fields <- MCFields
  Lifetime = 1
INVARIANT ParkedIdle
PROPERTY WorkerServes
