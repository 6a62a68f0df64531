SPECIFICATION FairSpec
CONSTANTS
  Calls = {c1, c2}
  MaxNoise = 1
INVARIANTS
  LossHasACause
  WokenAtLoss
PROPERTIES
  KeepsRpc
  EveryCallReturns
CHECK_DEADLOCK FALSE
