SPECIFICATION Spec
CONSTANTS
  Calls = {c1, c2, c3}
  Actions = {a1, a2}
  NoAction = NoAction
  NoCall = NoCall
  NoDecision = NoDecision
  FinalAnswer = FinalAnswer
  NoCheckpoint = NoCheckpoint
  NoUsage = NoUsage
  Tokens = {1}
  TokenBudget = 1
  MaxSteps = 3
  ErrorLimit = 2
  RepeatLimit = 2
  CheckpointEveryStep = TRUE
  MaxCrashes = 2
SYMMETRY Symmetry
INVARIANTS
  EffectsApproved
  AtMostOnceUnlessAbandoned
  ResultsRemembered
  LogStaysUsable
  LimitsHold
  OutcomeAgrees
  RuntimeInv
PROPERTIES
  DenialHolds
  TerminalIsFinal
  DeadlineHolds
  KeepsContract
