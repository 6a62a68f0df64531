SPECIFICATION FairSpec
CONSTANTS
  Requests = {r1, r2}
  Operators = {o1, o2}
  None = None
INVARIANTS
  AnswersAgree
  NothingLeftBehind
PROPERTIES
  DecisionIsFinal
  EveryRequestReturns
CHECK_DEADLOCK FALSE
