SPECIFICATION TsoSpec
CONSTANTS
  m1 = m1  w1 = w1  s1 = s1  c1 = c1  o1 = o1  o2 = o2
  Managers = {m1}
  Workers = {w1}
  Sessions = {s1}
  Cells = {c1}
  Objs = {o1, o2}
  HomeOf <- HomeDef
  WorkerOf <- WorkerDef
  OwnerOf <- OwnerDef
  Pinless = {}
  Discarding = {}
  MaxBuffered = 2
INVARIANT PinnedNotReclaimed
