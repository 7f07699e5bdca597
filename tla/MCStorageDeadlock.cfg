SPECIFICATION FairSpec
CONSTANTS
  e1 = e1  e2 = e2
  Entities = {e1}
  Chunk = 2
  MaxWrites = 2
  MaxCompactions = 1
  MaxFaults = 0
PROPERTY WriteReturns
CHECK_DEADLOCK FALSE
