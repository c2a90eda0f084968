SPECIFICATION FairSpec
CONSTANTS
  Fans = {cpu, gpu}
  Speeds = {0, 1}
  Delay <- MCDelay
  Retry <- MCRetry
  FirmwareTimeout <- MCFirmwareTimeout
INVARIANTS
  AlwaysScheduled
  CommittedTargets
  FallbackOnlyWhenLate
PROPERTY Recovers
