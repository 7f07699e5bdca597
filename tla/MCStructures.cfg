SPECIFICATION StructuresSpec
CONSTANTS
  Keys = {1, 2, 3, 4, 5, 6, 7, 8, 9}
  Values = {1, 2}
  None = None
  Hashers <- SomeHashers
  ValuesOf <- SomeValues
  Capacities = {6}
  MaxTable = 16
  Scalars = {1, 2}
  Absent = Absent
  Default = 1
  Width = 2
  Writers = {w1, w2}
  MaxRows = 3
  Base = 5
  LenWidth = 2
  IdWidth = 2
  NotUtf8 = {4}
  Commands <- SomeCommands
  Entities <- SomeEntities
  Gaps = {0, 1, 2}
  Chunk = 15
  MaxRecords = 3
  Ids = {1, 2, 3, 4}
  Texts <- SomeTexts
INVARIANTS TypesOK ProbesEnd CountersTrue RowsAsWritten ReplayIsPrefix RebuildFinds SearchesFind
PROPERTY IsFiniteMap
CHECK_DEADLOCK FALSE
