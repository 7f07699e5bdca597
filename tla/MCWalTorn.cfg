SPECIFICATION Spec
CONSTANTS
  Modes = {"sync"}
  MaxCommands = 2
  MaxBatch = 1
  MaxCheckpoints = 0
  MaxErrors = 0
  MaxCrashes = 1
INVARIANT StrictNoLoss
CHECK_DEADLOCK FALSE
