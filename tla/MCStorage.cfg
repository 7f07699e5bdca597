SPECIFICATION Spec
CONSTANTS
  e1 = e1  e2 = e2
  Entities = {e1, e2}
  Chunk = 2
  MaxWrites = 3
  MaxCompactions = 2
  MaxFaults = 1
INVARIANTS TypeOK IndexMatchesFile RebuildFindsLast DirtyOrPublished ReadsOwnRecord
CHECK_DEADLOCK FALSE
