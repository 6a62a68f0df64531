SPECIFICATION Spec
CONSTANTS
  Pieces = {w}
  Names = {fork}
  MaxAttempts = 2
  MaxStashes = 2
  MaxFaults = 1
INVARIANTS
  SnapshotsIntact
PROPERTIES
  RestoredAsPromised
  FailureLosesNothing
