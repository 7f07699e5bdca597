SPECIFICATION BothSpec
CONSTANTS
  w1 = w1  w2 = w2
  Writers = {w1, w2}
  Capacity = 2
  BatchSize = 1
  MaxSends <- TwoAndOne
  Callers = {c1, c2}
  Keys = {k1, k2}
  QueueSlots = 2
  MaxOps = 3
INVARIANTS TypeOK InOrder ClientsTypeOK DropDrains
PROPERTIES EarlyApplied StopStops DropJoins ReadsForward DropReturns
CHECK_DEADLOCK FALSE
