SPECIFICATION FairSpec
CONSTANTS
  w1 = w1  w2 = w2
  Writers = {w1, w2}
  Capacity = 2
  BatchSize = 1
  MaxSends <- OneEach
PROPERTY SentIsDelivered
CHECK_DEADLOCK FALSE
