SPECIFICATION Spec
CONSTANTS
  e1 = e1  e2 = e2  r1 = r1  a = a  b = b
  Entities = {e1, e2}
  Attrs = {a, b}
  Types = {"int", "str"}
  Shapes <- TypedShapes
  TypeOrder <- IntStr
  RecordCols <- BothCols
  Block <- OneBlock
  Cold = {e2}
  ColdShape <- IntShape
  BloomLimit = 1
  RangeLens = {2}
  Readers = {r1}
  MaxBatch = 2
  MaxCommands = 3
INVARIANTS TypeOK PointersResolve ReadsOneWrite ScansComplete GetSteady PublishedIsLatest BloomCovers
