SPECIFICATION FairSpec
CONSTANTS
  FailureThreshold = 4
  Cooldown = 3
  HalfOpenMaxCalls = 3
  NoTime = NoTime
  MaxCancels = 2
INVARIANTS
  OpensAtThreshold
  OutageIsContained
PROPERTIES
  CooldownServed
  Recovers
