SPECIFICATION Spec
CONSTANTS
  e1 = e1  e2 = e2  r1 = r1  a = a  b = b
  Entities = {e1, e2}
  Attrs = {a}
  Types = {"int", "str"}
  Shapes <- MixedShapes
  TypeOrder <- IntStr
  RecordCols <- OneCol
  Block <- OneBlock
  Cold = {}
  ColdShape <- IntShape
  BloomLimit = 1
  RangeLens = {2}
  Readers = {r1}
  MaxBatch = 2
  MaxCommands = 3
INVARIANT GetReturnsOwnValue
