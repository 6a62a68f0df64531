SPECIFICATION FairSpec
CONSTANTS
  Calls = {c1, c2}
  N = 2
INVARIANTS
  ExhaustedIsTrue
PROPERTIES
  AnswerIsTaken
  KeepsContract
CHECK_DEADLOCK FALSE
