SPECIFICATION FairSpec
CONSTANTS
  Calls = {c1}
  Actions = {a1}
  NoAction = NoAction
  NoCall = NoCall
  NoDecision = NoDecision
  FinalAnswer = FinalAnswer
  NoCheckpoint = NoCheckpoint
  NoUsage = NoUsage
  Tokens = {1}
  TokenBudget = 1
  MaxSteps = 2
  ErrorLimit = 2
  RepeatLimit = 2
  CheckpointEveryStep = FALSE
  MaxCrashes = 2
PROPERTIES
  EventuallyHalts
  CancellationRecorded
