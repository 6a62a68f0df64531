SPECIFICATION FairSpec
CONSTANTS
  FailureThreshold = 3
  Cooldown = 3
  HalfOpenMaxCalls = 1
  NoTime = NoTime
  MaxCancels = 1
PROPERTIES
  Recovers
