SPECIFICATION ProtocolsSpec
CONSTANTS
  m1 = m1  m2 = m2  w1 = w1   s1 = s1  s2 = s2  s3 = s3  c1 = c1  c2 = c2  c3 = c3
  o1 = o1  o2 = o2  o3 = o3  o4 = o4  o5 = o5
  Managers = {m1, m2}
  Workers = {w1}
  Sessions = {s1, s3}
  Cells = {c1, c2, c3}
  Discarding = {c3}
  Objs = {o1, o2, o3, o4, o5}
  HomeOf <- OneHome
  WorkerOf <- OneOfEach
  OwnerOf <- OneCellEach
  Pinless = {s3}
  Modes = {"sync", "async"}
  MaxCommands = 3
  MaxBatch = 2
  MaxCheckpoints = 1
  MaxErrors = 2
  MaxCrashes = 2
INVARIANTS QsbrTypeOK HeldNotFreed OwnedOnce QuiescentScanFreesAll TypeOK LogIsHistory StrictDurable
PROPERTIES Reclaims Promise CheckpointCovers EventuallyDurable
CHECK_DEADLOCK FALSE
