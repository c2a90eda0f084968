SPECIFICATION FairSpec
CONSTANTS
  off = off
  short = short
  long = long
  Clients = {c1, c2}
  Policies <- MCPolicies
  Enabled <- MCEnabled
  Default = off
  Interval <- MCInterval
  Frequencies = {f1, f2}
  None = None
  Other = Other
INVARIANTS
  PlanIsCurrent
  AppliedOrDue
  FrequencyAgrees
PROPERTY Converges
