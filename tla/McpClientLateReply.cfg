SPECIFICATION Spec
CONSTANTS
  Calls = {c1, c2}
  MaxNoise = 0
INVARIANTS
  LossIsReal
CHECK_DEADLOCK FALSE
