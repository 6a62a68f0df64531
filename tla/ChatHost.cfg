SPECIFICATION FairSpec
CONSTANTS
  Jobs = {j1}
  Loops = {l1}
  FailureLimit = 2
  Budget = 2
  MaxTurns = 1
  MaxFaults = 2
INVARIANTS
  JobAccounted
  NothingLeftOpen
  SpendBounded
PROPERTIES
  NoTickAfterUnloop
  ChatGoesOn
CHECK_DEADLOCK FALSE
