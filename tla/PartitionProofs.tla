--------------------------- MODULE PartitionProofs ---------------------------
(***************************************************************************)
(* Proofs about Partition, for any number of entities, attributes, types,  *)
(* readers and commands: what the thread publishes; that every pointer a   *)
(* reader can hold resolves; and, when every attribute name is used with   *)
(* one type, that reads are of one write, Gets never miss what is there    *)
(* all along and scans are complete.                                       *)
(***************************************************************************)
EXTENDS Partition, FiniteSetTheorems, TLAPS

AllShapes == Shapes \cup {ColdShape}

\* The parts of TypeOK.
ColumnsOK ==
    /\ columns \subseteq Cols
    /\ data \in [Cols -> Seq(Row)]
    /\ Partial(cache, Cols)
    /\ \A c \in DOMAIN cache : cache[c] \in Seq(Row)

PointersOK == PointerMap(sharedPointers) /\ PointerMap(nextPointers)

DiskOK == RecordMap(diskIndex) /\ RecordMap(nextDiskIndex) /\ diskDirty \in BOOLEAN

ThreadOK ==
    /\ wpc \in {"recv", "apply", "promote", "flush", "disk"}
    /\ after \in {"apply", "disk"}
    /\ block \subseteq Entities
    /\ batched \in Nat
    /\ seqno \in Nat \ {0}
    /\ latest \in [Entities -> Nat]
    /\ promoted \subseteq Entities
    /\ live \subseteq Entities

BloomOK ==
    /\ bloom \subseteq Entities
    /\ bloomCount \in Nat
    /\ bloomLimit \in Nat
    /\ trigger \subseteq Entities

CallsOK ==
    /\ rpc \in [Readers -> {"idle", "load", "read", "done"}]
    /\ mode \in [Readers -> {"get", "record", "link", "range", "scan"}]
    /\ asked \in [Readers -> Entities]
    /\ steady \in [Readers -> BOOLEAN]

HeldOK ==
    /\ ptr = [r \in Readers |-> ptr[r]]
    /\ \A r \in Readers : IsPointer(ptr[r]) /\ (HasPointer(r) => ptr[r].ent = asked[r])

TodoOK == todo \in [Readers -> Seq(Cols)]

ResultsOK == got \in [Readers -> SUBSET (Cols \X Row)] /\ due \in [Readers -> SUBSET Row]

ReadersOK == CallsOK /\ HeldOK /\ TodoOK /\ ResultsOK

\* TypeOK is its parts, before and after a step.
LEMMA TypeParts ==
  /\ TypeOK <=> ColumnsOK /\ PointersOK /\ DiskOK /\ ThreadOK /\ BloomOK /\ ReadersOK
  /\ TypeOK' <=> ColumnsOK' /\ PointersOK' /\ DiskOK' /\ ThreadOK' /\ BloomOK' /\ ReadersOK'
BY Zenon DEF TypeOK, ColumnsOK, PointersOK, DiskOK, ThreadOK, BloomOK, ReadersOK,
   CallsOK, HeldOK, TodoOK, ResultsOK

\* What a promotion still has to do is on disk.
BlockOnDisk == wpc = "promote" => block \subseteq DOMAIN diskIndex
-----------------------------------------------------------------------------
(* The operators of the model *)

\* The columns of a shape are columns.
LEMMA ShapeCols ==
  ASSUME NEW shape \in AllShapes, NEW a \in DOMAIN shape
  PROVE  /\ a \in Attrs
         /\ shape[a] \in Types
         /\ <<shape[a], a>> \in Cols
         /\ <<shape[a], a>> \in ColsOf(shape)
BY PartitionAssumption DEF AllShapes, Cols, ColsOf

\* So is everything an insert of it touches.
LEMMA ColsOfCols ==
  ASSUME NEW shape \in AllShapes
  PROVE  ColsOf(shape) \subseteq Cols
BY ShapeCols DEF ColsOf

\* What a batch works on is rows.
LEMMA WorkingRows ==
  ASSUME ColumnsOK, NEW c \in Cols
  PROVE  Working(c) \in Seq(Row)
BY DEF ColumnsOK, Working

\* As soon as there is an entity, Nobody is one.
LEMMA NobodyIsThere ==
  ASSUME NEW e \in Entities
  PROVE  Nobody \in Entities
BY DEF Nobody

\* The pointer of an entity without attributes.
LEMMA NoPointerIsPointer ==
  ASSUME NEW e \in Entities
  PROVE  IsPointer(NoPointer(e)) /\ NoPointer(e).ent = e
BY DEF IsPointer, NoPointer, Partial

\* A map with one more pointer in it.
LEMMA PutPointer ==
  ASSUME NEW f, PointerMap(f), NEW e \in Entities, NEW p, IsPointer(p), p.ent = e
  PROVE  PointerMap(Put(f, e, p))
BY DEF PointerMap, Partial, Put

\* A disk index with one more record in it.
LEMMA PutRecord ==
  ASSUME NEW f, RecordMap(f), NEW e \in Entities, NEW d \in Record
  PROVE  RecordMap(Put(f, e, d))
BY DEF RecordMap, Partial, Put

\* AppendRows keeps the types of what it writes to.
LEMMA AppendTypes ==
  ASSUME ColumnsOK, PointerMap(nextPointers), UNCHANGED data,
         NEW e \in Entities, NEW version \in Nat, NEW shape \in AllShapes,
         AppendRows(e, version, shape)
  PROVE  ColumnsOK' /\ PointerMap(nextPointers')
<1> DEFINE p == [ent |-> e, ver |-> version,
                 idx |-> [a \in DOMAIN shape |-> NextRow(Working(<<shape[a], a>>))]]
<1>1. [ent |-> e, ver |-> version] \in Row
  BY DEF Row
<1>2. \A c \in ColsOf(shape) : Append(Working(c), [ent |-> e, ver |-> version]) \in Seq(Row)
  <2> SUFFICES ASSUME NEW c \in ColsOf(shape)
               PROVE  Append(Working(c), [ent |-> e, ver |-> version]) \in Seq(Row)
    OBVIOUS
  <2>1. Working(c) \in Seq(Row)
    BY WorkingRows, ColsOfCols
  <2> QED
    BY <2>1, <1>1
<1>3. ColumnsOK'
  BY <1>2, ColsOfCols DEF ColumnsOK, AppendRows, Partial
<1>4. \A a \in DOMAIN shape : NextRow(Working(<<shape[a], a>>)) \in Nat \ {0}
  <2> SUFFICES ASSUME NEW a \in DOMAIN shape
               PROVE  NextRow(Working(<<shape[a], a>>)) \in Nat \ {0}
    OBVIOUS
  <2>1. Working(<<shape[a], a>>) \in Seq(Row)
    BY WorkingRows, ShapeCols
  <2> QED
    BY <2>1 DEF NextRow
<1>5. DOMAIN shape \subseteq Attrs
  BY ShapeCols
<1>6. IsPointer(p) /\ p.ent = e
  BY <1>4, <1>5 DEF IsPointer, Partial
<1>7. nextPointers' = Put(nextPointers, e, p)
  BY DEF AppendRows
<1> HIDE DEF p
<1> QED
  BY <1>3, <1>6, <1>7, PutPointer

\* update_bloom keeps the types of the filter.
LEMMA BloomTypes ==
  ASSUME BloomOK, DiskOK, NEW e \in Entities, UpdateBloom(e)
  PROVE  BloomOK'
<1>1. FilterEntities \subseteq Entities
  BY DEF DiskOK, RecordMap, Partial, FilterEntities
<1>2. Cardinality(FilterEntities) \in Nat
  BY <1>1, PartitionAssumption, FS_Subset, FS_CardinalityType
<1> QED
  BY <1>1, <1>2 DEF BloomOK, UpdateBloom
-----------------------------------------------------------------------------
(* Type correctness *)

\* The steps of the partition thread keep the types.
LEMMA WriterTypes ==
  ASSUME TypeOK, BlockOnDisk, WriterNext
  PROVE  TypeOK'
<1> USE PartitionAssumption DEF sharedVars, bloomVars, histVars, diskVars, readerVars
<1>0. ColumnsOK /\ PointersOK /\ DiskOK /\ ThreadOK /\ BloomOK /\ ReadersOK
  BY TypeParts
<1>1. CASE Receive
  <2>1. ColumnsOK' /\ DiskOK' /\ BloomOK' /\ ReadersOK'
    BY <1>0, <1>1 DEF Receive, ColumnsOK, DiskOK, BloomOK, ReadersOK, CallsOK, HeldOK, TodoOK, ResultsOK, HasPointer
  <2>2. PointersOK' /\ ThreadOK'
    BY <1>0, <1>1 DEF Receive, PointersOK, ThreadOK, StartPointers
  <2> QED
    BY <2>1, <2>2, TypeParts
<1>2. ASSUME NEW e \in Entities, NEW shape \in Shapes, Insert(e, shape)
      PROVE  TypeOK'
  <2>1. seqno' \in Nat \ {0} /\ shape \in AllShapes
    BY <1>0, <1>2 DEF Insert, Command, ThreadOK, AllShapes
  <2>2. ColumnsOK' /\ PointersOK'
    BY <1>0, <1>2, <2>1, AppendTypes DEF Insert, PointersOK
  <2>3. BloomOK'
    BY <1>0, <1>2, BloomTypes DEF Insert
  <2>4. DiskOK'
    <3>1. [ver |-> seqno', shape |-> shape] \in Record
      BY <2>1 DEF Record, AllShapes
    <3> QED
      BY <1>0, <1>2, <3>1, PutRecord DEF Insert, DiskOK
  <2>5. ThreadOK'
    BY <1>0, <1>2, <2>1 DEF Insert, Command, ThreadOK
  <2>6. ReadersOK'
    BY <1>0, <1>2 DEF Insert, ReadersOK, CallsOK, HeldOK, TodoOK, ResultsOK, HasPointer
  <2> QED
    BY <2>2, <2>3, <2>4, <2>5, <2>6, TypeParts
<1>3. ASSUME NEW e \in Entities, Delete(e) PROVE TypeOK'
  <2>1. seqno' \in Nat \ {0}
    BY <1>0, <1>3 DEF Delete, Command, ThreadOK
  <2>2. ColumnsOK' /\ DiskOK' /\ BloomOK' /\ ReadersOK'
    BY <1>0, <1>3 DEF Delete, ColumnsOK, DiskOK, BloomOK, ReadersOK, CallsOK, HeldOK, TodoOK, ResultsOK, HasPointer
  <2>3. ThreadOK'
    BY <1>0, <1>3, <2>1 DEF Delete, Command, ThreadOK
  <2>4. PointersOK'
    <3> DEFINE p == [NoPointer(e) EXCEPT !.ver = seqno']
    <3>1. IsPointer(p) /\ p.ent = e
      BY <2>1, NoPointerIsPointer DEF IsPointer, NoPointer
    <3>2. sharedPointers' = sharedPointers /\ nextPointers' = Put(nextPointers, e, p)
      BY <1>3 DEF Delete
    <3> HIDE DEF p
    <3> QED
      BY <1>0, <3>1, <3>2, PutPointer DEF PointersOK
  <2> QED
    BY <2>2, <2>3, <2>4, TypeParts
<1>4. ASSUME NEW e \in Entities, LoadHot(e) PROVE TypeOK'
  <2>1. ColumnsOK' /\ PointersOK' /\ DiskOK' /\ BloomOK' /\ ReadersOK'
    BY <1>0, <1>4 DEF LoadHot, ColumnsOK, PointersOK, DiskOK, BloomOK, ReadersOK, CallsOK, HeldOK, TodoOK, ResultsOK, HasPointer
  <2>2. ThreadOK'
    BY <1>0, <1>4 DEF LoadHot, Command, ThreadOK
  <2> QED
    BY <2>1, <2>2, TypeParts
<1>5. ASSUME NEW e \in Entities, LoadCold(e) PROVE TypeOK'
  <2>1. ColumnsOK' /\ PointersOK' /\ DiskOK' /\ BloomOK' /\ ReadersOK'
    BY <1>0, <1>5 DEF LoadCold, ColumnsOK, PointersOK, DiskOK, BloomOK, ReadersOK, CallsOK, HeldOK, TodoOK, ResultsOK, HasPointer
  <2>2. ThreadOK'
    BY <1>0, <1>5 DEF LoadCold, Command, ThreadOK
  <2> QED
    BY <2>1, <2>2, TypeParts
<1>6. ASSUME NEW e \in Entities, Promote(e) PROVE TypeOK'
  <2>1. diskIndex[e] \in Record
    BY <1>0, <1>6 DEF Promote, BlockOnDisk, DiskOK, RecordMap
  <2>2. diskIndex[e].ver \in Nat /\ diskIndex[e].shape \in AllShapes
    BY <2>1 DEF Record, AllShapes
  <2>3. ColumnsOK' /\ PointersOK'
    BY <1>0, <1>6, <2>2, AppendTypes DEF Promote, PointersOK
  <2>4. BloomOK'
    BY <1>0, <1>6, BloomTypes DEF Promote
  <2>5. DiskOK' /\ ThreadOK'
    BY <1>0, <1>6 DEF Promote, DiskOK, ThreadOK
  <2>6. ReadersOK'
    BY <1>0, <1>6 DEF Promote, ReadersOK, CallsOK, HeldOK, TodoOK, ResultsOK, HasPointer
  <2> QED
    BY <2>3, <2>4, <2>5, <2>6, TypeParts
<1>7. CASE PromoteEnd
  <2>1. ColumnsOK' /\ PointersOK' /\ DiskOK' /\ BloomOK' /\ ReadersOK'
    BY <1>0, <1>7 DEF PromoteEnd, ColumnsOK, PointersOK, DiskOK, BloomOK, ReadersOK, CallsOK, HeldOK, TodoOK, ResultsOK, HasPointer
  <2>2. ThreadOK'
    BY <1>0, <1>7 DEF PromoteEnd, ThreadOK
  <2> QED
    BY <2>1, <2>2, TypeParts
<1>8. CASE EndBatch
  <2>1. ColumnsOK' /\ PointersOK' /\ DiskOK' /\ BloomOK' /\ ReadersOK'
    BY <1>0, <1>8 DEF EndBatch, ColumnsOK, PointersOK, DiskOK, BloomOK, ReadersOK, CallsOK, HeldOK, TodoOK, ResultsOK, HasPointer
  <2>2. ThreadOK'
    BY <1>0, <1>8 DEF EndBatch, ThreadOK
  <2> QED
    BY <2>1, <2>2, TypeParts
<1>9. ASSUME NEW c \in Cols, FlushColumn(c) PROVE TypeOK'
  <2>1. PointersOK' /\ DiskOK' /\ BloomOK' /\ ReadersOK' /\ ThreadOK'
    BY <1>0, <1>9 DEF FlushColumn, PointersOK, DiskOK, BloomOK, ReadersOK, CallsOK, HeldOK, TodoOK, ResultsOK, HasPointer, ThreadOK
  <2>2. ColumnsOK'
    BY <1>0, <1>9 DEF FlushColumn, ColumnsOK, Partial
  <2> QED
    BY <2>1, <2>2, TypeParts
<1>10. CASE Publish
  <2>1. ColumnsOK' /\ PointersOK' /\ DiskOK' /\ BloomOK'
    BY <1>0, <1>10 DEF Publish, ColumnsOK, PointersOK, DiskOK, BloomOK
  <2>2. ThreadOK'
    BY <1>0, <1>10 DEF Publish, ThreadOK
  <2>3. ReadersOK'
    BY <1>0, <1>10 DEF Publish, ReadersOK, CallsOK, HeldOK, TodoOK, ResultsOK, HasPointer, Names
  <2> QED
    BY <2>1, <2>2, <2>3, TypeParts
<1>11. CASE SwapDiskIndex
  <2>1. ColumnsOK' /\ PointersOK' /\ BloomOK' /\ ReadersOK'
    BY <1>0, <1>11 DEF SwapDiskIndex, ColumnsOK, PointersOK, BloomOK, ReadersOK, CallsOK, HeldOK, TodoOK, ResultsOK, HasPointer
  <2>2. DiskOK' /\ ThreadOK'
    BY <1>0, <1>11 DEF SwapDiskIndex, ThreadOK, DiskOK
  <2> QED
    BY <2>1, <2>2, TypeParts
<1> QED
  BY <1>1, <1>2, <1>3, <1>4, <1>5, <1>6, <1>7, <1>8, <1>9, <1>10, <1>11, Zenon
  DEF WriterNext

\* Readers change nothing but their own state.
LEMMA ReaderKeeps ==
  ASSUME NEW r \in Readers, ReaderNext(r)
  PROVE  UNCHANGED <<sharedVars, diskVars, writerVars>>
<1>1. ASSUME NEW m, NEW e, NEW cols, Begin(r, m, e, cols)
      PROVE  UNCHANGED <<sharedVars, diskVars, writerVars>>
  BY <1>1, Zenon DEF Begin
<1>2. ASSUME NEW e \in Entities, NEW a \in Attrs, BeginGet(r, e, a)
      PROVE  UNCHANGED <<sharedVars, diskVars, writerVars>>
  BY <1>1, <1>2, Zenon DEF BeginGet
<1>3. ASSUME NEW e \in Entities, BeginOther(r, e)
      PROVE  UNCHANGED <<sharedVars, diskVars, writerVars>>
  BY <1>1, <1>3, Zenon DEF BeginOther
<1>4. ASSUME NEW a \in Attrs, BeginScan(r, a)
      PROVE  UNCHANGED <<sharedVars, diskVars, writerVars>>
  BY <1>1, <1>4, Zenon DEF BeginScan
<1>5. ASSUME NEW e \in Entities, NEW a \in Attrs, FollowLink(r, e, a)
      PROVE  UNCHANGED <<sharedVars, diskVars, writerVars>>
  BY <1>5, Zenon DEF FollowLink
<1>6. ASSUME NEW n \in RangeLens, ReadRange(r, n)
      PROVE  UNCHANGED <<sharedVars, diskVars, writerVars>>
  BY <1>6, Zenon DEF ReadRange
<1>7. ASSUME LoadPointer(r) \/ ReadHit(r) \/ ReadMiss(r) \/ ScanColumn(r) \/ Return(r)
      PROVE  UNCHANGED <<sharedVars, diskVars, writerVars>>
  BY <1>7, Zenon DEF LoadPointer, ReadHit, ReadMiss, ScanColumn, Return
<1> QED
  BY <1>2, <1>3, <1>4, <1>5, <1>6, <1>7, Zenon DEF ReaderNext

\* A promotion finds its records on disk.
LEMMA BlockStep ==
  ASSUME ThreadOK, BlockOnDisk, [Next]_vars
  PROVE  BlockOnDisk'
<1> USE DEF BlockOnDisk, sharedVars, diskVars, writerVars, Command
<1>1. CASE WriterNext
  <2>1. CASE Receive \/ PromoteEnd \/ EndBatch \/ SwapDiskIndex
    BY <2>1 DEF Receive, PromoteEnd, EndBatch, SwapDiskIndex
  <2>2. ASSUME NEW e \in Entities, NEW shape \in Shapes, Insert(e, shape)
        PROVE  wpc' = "apply"
    BY <2>2 DEF Insert
  <2>3. ASSUME NEW e \in Entities, Delete(e) PROVE wpc' = "apply"
    BY <2>3 DEF Delete
  <2>4. ASSUME NEW e \in Entities, LoadHot(e) PROVE wpc' = "flush"
    BY <2>4 DEF LoadHot
  <2>5. ASSUME NEW e \in Entities, LoadCold(e) PROVE BlockOnDisk'
    BY <2>5 DEF LoadCold
  <2>6. ASSUME NEW e \in Entities, Promote(e) PROVE BlockOnDisk'
    BY <2>6 DEF Promote
  <2>7. ASSUME NEW c \in Cols, FlushColumn(c) PROVE wpc' = "flush"
    BY <2>7 DEF FlushColumn
  <2>8. CASE Publish
    BY <2>8 DEF Publish, ThreadOK
  <2> QED
    BY <1>1, <2>1, <2>2, <2>3, <2>4, <2>5, <2>6, <2>7, <2>8 DEF WriterNext
<1>2. ASSUME NEW r \in Readers, ReaderNext(r) PROVE BlockOnDisk'
  <2>1. UNCHANGED <<diskVars, writerVars>>
    BY <1>2, ReaderKeeps
  <2> QED
    BY <2>1
<1>3. CASE UNCHANGED vars
  BY <1>3 DEF vars
<1> QED
  BY <1>1, <1>2, <1>3 DEF Next

\* A pointer loaded from the published map is one of the entity asked for.
LEMMA SharedIsPointer ==
  ASSUME PointersOK, NEW e \in Entities
  PROVE  IsPointer(Shared(e)) /\ Shared(e).ent = e
BY NoPointerIsPointer DEF PointersOK, PointerMap, Shared

\* The columns a call tries are columns.
LEMMA TriedCols ==
  ASSUME NEW a \in Attrs
  PROVE  /\ TryAll(a) \in Seq(Cols)
         /\ <<IntColumn(a)>> \in Seq(Cols)
         /\ RecordCols \in Seq(Cols)
<1>1. \A i \in DOMAIN TypeOrder : TypeOrder[i] \in Types
  BY PartitionAssumption
<1>2. 1 \in DOMAIN TypeOrder
  BY PartitionAssumption
<1>3. \A i \in DOMAIN TypeOrder : <<TypeOrder[i], a>> \in Cols
  BY <1>1 DEF Cols
<1>4. TryAll(a) \in Seq(Cols)
  <2>1. DOMAIN TypeOrder = 1 .. Len(TypeOrder) /\ Len(TypeOrder) \in Nat
    BY PartitionAssumption
  <2> QED
    BY <1>3, <2>1 DEF TryAll
<1>5. <<IntColumn(a)>> \in Seq(Cols)
  BY <1>2, <1>3 DEF IntColumn
<1> QED
  BY <1>4, <1>5, PartitionAssumption

\* A designated row is a row.
LEMMA DesignatedRows ==
  ASSUME PointersOK, NEW c
  PROVE  Designated(c) \subseteq Row
<1> SUFFICES ASSUME NEW e \in DOMAIN sharedPointers
             PROVE  [ent |-> e, ver |-> sharedPointers[e].ver] \in Row
  BY DEF Designated
<1>1. e \in Entities /\ IsPointer(sharedPointers[e])
  BY DEF PointersOK, PointerMap, Partial
<1>2. sharedPointers[e].ver \in Nat
  BY <1>1 DEF IsPointer
<1> QED
  BY <1>1, <1>2 DEF Row

\* What is read of a column is rows of it.
LEMMA RowsAreRows ==
  ASSUME ColumnsOK, NEW c \in columns, NEW first, NEW n
  PROVE  RowsFrom(c, first, n) \subseteq Cols \X Row
BY DEF ColumnsOK, RowsFrom

\* What is left of a list of columns to try.
LEMMA HeadTail ==
  ASSUME NEW s \in Seq(Cols), s # <<>>
  PROVE  Head(s) \in Cols /\ Tail(s) \in Seq(Cols)
OBVIOUS

\* A step to done or to the next column, when it keeps or drops columns to try.
LEMMA NextTodo ==
  ASSUME TodoOK, NEW r \in Readers, todo[r] # <<>>, NEW last \in BOOLEAN,
         todo' = [todo EXCEPT ![r] = IF last THEN <<>> ELSE Tail(@)]
  PROVE  TodoOK'
<1>1. Tail(todo[r]) \in Seq(Cols)
  BY HeadTail DEF TodoOK
<1>2. <<>> \in Seq(Cols)
  OBVIOUS
<1>3. (IF last THEN <<>> ELSE Tail(todo[r])) \in Seq(Cols)
  BY <1>1, <1>2
<1> QED
  BY <1>3 DEF TodoOK

\* The pointers held stay right while a reader stays in a call.
LEMMA HeldStays ==
  ASSUME HeldOK, CallsOK, NEW r \in Readers, UNCHANGED <<ptr, mode, asked>>, NEW s,
         rpc' = [rpc EXCEPT ![r] = s], s \in {"read", "done"} => rpc[r] \in {"read", "done"}
  PROVE  HeldOK'
BY DEF HeldOK, CallsOK, HasPointer

\* The beginning of a call.
LEMMA BeginTypes ==
  ASSUME ReadersOK, NEW r \in Readers, NEW e \in Entities, NEW cols \in Seq(Cols),
         NEW m \in {"get", "record", "link", "range", "scan"}, Begin(r, m, e, cols),
         steady' \in [Readers -> BOOLEAN], due' \in [Readers -> SUBSET Row]
  PROVE  ReadersOK'
<1>1. CallsOK'
  BY DEF ReadersOK, CallsOK, Begin
<1>2. HeldOK'
  BY DEF ReadersOK, CallsOK, HeldOK, Begin, HasPointer
<1>3. TodoOK'
  BY DEF ReadersOK, TodoOK, Begin
<1>4. ResultsOK'
  BY DEF ReadersOK, ResultsOK, Begin
<1> QED
  BY <1>1, <1>2, <1>3, <1>4 DEF ReadersOK

\* The steps of the readers keep the types.
LEMMA ReaderTypes ==
  ASSUME TypeOK, NEW r \in Readers, ReaderNext(r)
  PROVE  TypeOK'
<1>0. /\ ColumnsOK /\ PointersOK /\ DiskOK /\ ThreadOK /\ BloomOK /\ ReadersOK
      /\ CallsOK /\ HeldOK /\ TodoOK /\ ResultsOK
  BY TypeParts DEF ReadersOK
<1>1. ColumnsOK' /\ PointersOK' /\ DiskOK' /\ ThreadOK' /\ BloomOK'
  <2>1. UNCHANGED <<sharedVars, diskVars, writerVars>>
    BY ReaderKeeps
  <2> QED
    BY <1>0, <2>1 DEF sharedVars, diskVars, writerVars, histVars, bloomVars,
       ColumnsOK, PointersOK, DiskOK, ThreadOK, BloomOK
<1>3. ASSUME NEW e \in Entities, NEW a \in Attrs, BeginGet(r, e, a)
      PROVE  ReadersOK'
  <2>1. steady' \in [Readers -> BOOLEAN] /\ due' \in [Readers -> SUBSET Row]
    BY <1>0, <1>3 DEF BeginGet, Names, CallsOK, ResultsOK
  <2>2. Begin(r, "get", e, TryAll(a)) /\ TryAll(a) \in Seq(Cols)
    BY <1>3, TriedCols DEF BeginGet
  <2> QED
    BY <1>0, <2>1, <2>2, BeginTypes
<1>4. ASSUME NEW e \in Entities, BeginOther(r, e)
      PROVE  ReadersOK'
  <2>1. steady' \in [Readers -> BOOLEAN] /\ due' \in [Readers -> SUBSET Row]
    BY <1>0, <1>4 DEF BeginOther, CallsOK, ResultsOK
  <2>2. CASE Begin(r, "record", e, RecordCols)
    <3>1. RecordCols \in Seq(Cols)
      BY PartitionAssumption
    <3> QED
      BY <1>0, <2>1, <2>2, <3>1, BeginTypes
  <2>3. ASSUME NEW a \in Attrs, NEW m \in {"link", "range"},
               Begin(r, m, e, <<IntColumn(a)>>)
        PROVE  ReadersOK'
    <3>1. <<IntColumn(a)>> \in Seq(Cols)
      BY TriedCols
    <3> QED
      BY <1>0, <2>1, <2>3, <3>1, BeginTypes
  <2> QED
    BY <1>4, <2>2, <2>3, Zenon DEF BeginOther
<1>5. ASSUME NEW a \in Attrs, BeginScan(r, a)
      PROVE  ReadersOK'
  <2>1. steady' \in [Readers -> BOOLEAN] /\ asked[r] \in Entities
    BY <1>0, <1>5 DEF BeginScan, CallsOK
  <2>2. PICK cols \in {TryAll(a), <<IntColumn(a)>>} :
          /\ Begin(r, "scan", asked[r], cols)
          /\ due' = [due EXCEPT ![r] = UNION {Designated(cols[i]) : i \in DOMAIN cols}]
    BY <1>5, Zenon DEF BeginScan
  <2>3. due' \in [Readers -> SUBSET Row]
    <3>1. UNION {Designated(cols[i]) : i \in DOMAIN cols} \subseteq Row
      BY <1>0, DesignatedRows
    <3> QED
      BY <1>0, <2>2, <3>1 DEF ResultsOK
  <2>4. cols \in Seq(Cols)
    BY TriedCols
  <2> QED
    BY <1>0, <2>1, <2>2, <2>3, <2>4, BeginTypes
<1>6. ASSUME NEW e \in Entities, NEW a \in Attrs, FollowLink(r, e, a)
      PROVE  ReadersOK'
  <2>1. CallsOK' /\ HeldOK'
    BY <1>0, <1>6 DEF FollowLink, Names, CallsOK, HeldOK, HasPointer
  <2>2. TodoOK'
    <3>1. TryAll(a) \in Seq(Cols) /\ todo' = [todo EXCEPT ![r] = TryAll(a)]
      BY <1>6, TriedCols DEF FollowLink
    <3> QED
      BY <1>0, <3>1 DEF TodoOK
  <2>3. ResultsOK'
    BY <1>0, <1>6 DEF FollowLink, ResultsOK
  <2> QED
    BY <2>1, <2>2, <2>3 DEF ReadersOK
<1>7. ASSUME LoadPointer(r) PROVE ReadersOK'
  <2>1. IsPointer(Shared(asked[r])) /\ Shared(asked[r]).ent = asked[r]
    BY <1>0, SharedIsPointer DEF CallsOK
  <2>2. {row \in Designated(Head(todo[r])) : row.ent = asked[r]} \subseteq Row
    BY <1>0, DesignatedRows
  <2>3. CallsOK' /\ TodoOK'
    BY <1>0, <1>7 DEF LoadPointer, CallsOK, TodoOK
  <2>4. ResultsOK'
    BY <1>0, <1>7, <2>2 DEF LoadPointer, ResultsOK
  <2>5. HeldOK'
    <3>1. ptr' = [q \in Readers |-> ptr'[q]]
      BY <1>0, <1>7 DEF LoadPointer, HeldOK
    <3>2. \A q \in Readers : IsPointer(ptr'[q]) /\ (HasPointer(q)' => ptr'[q].ent = asked'[q])
      BY <1>0, <1>7, <2>1 DEF LoadPointer, HeldOK, CallsOK, HasPointer
    <3> QED
      BY <3>1, <3>2, Zenon DEF HeldOK
  <2> QED
    BY <2>3, <2>4, <2>5 DEF ReadersOK
<1>8. ASSUME NEW n \in RangeLens, ReadRange(r, n)
      PROVE  ReadersOK'
  <2>1. CallsOK' /\ TodoOK'
    BY <1>0, <1>8 DEF ReadRange, CallsOK, TodoOK
  <2>2. ResultsOK'
    <3>1. HasColumn(Head(todo[r])) =>
            RowsFrom(Head(todo[r]), ptr[r].idx[Head(todo[r])[2]], n) \subseteq Cols \X Row
      BY <1>0, RowsAreRows DEF HasColumn
    <3> QED
      BY <1>0, <1>8, <3>1 DEF ReadRange, ResultsOK
  <2>3. HeldOK'
    <3>1. UNCHANGED <<ptr, mode, asked>> /\ rpc' = [rpc EXCEPT ![r] = "done"] /\ rpc[r] = "read"
      BY <1>8 DEF ReadRange
    <3> QED
      BY <1>0, <3>1, HeldStays
  <2> QED
    BY <2>1, <2>2, <2>3 DEF ReadersOK
<1>9. ASSUME ReadHit(r) PROVE ReadersOK'
  <2> DEFINE c == Head(todo[r])
             row == data[c][ptr[r].idx[c[2]]]
             last == mode[r] # "record" \/ Len(todo[r]) = 1
  <2>0. /\ rpc[r] = "read" /\ todo[r] # <<>> /\ Found(ptr[r], c)
        /\ UNCHANGED <<ptr, mode, asked, due, steady>>
    BY <1>9 DEF ReadHit, PointRead, Resolver
  <2>0r. rpc' = [rpc EXCEPT ![r] = IF last THEN "done" ELSE "read"]
    BY <1>9 DEF ReadHit
  <2>0t. todo' = [todo EXCEPT ![r] = IF last THEN <<>> ELSE Tail(todo[r])]
    BY <1>9 DEF ReadHit
  <2>0g. got' = [got EXCEPT ![r] = got[r] \cup {<<c, row>>}]
    BY <1>9 DEF ReadHit, Resolver
  <2>1a. last \in BOOLEAN
    OBVIOUS
  <2>2. c \in Cols
    BY <1>0, <2>0, <2>0r, <2>0t, <2>0g, HeadTail DEF TodoOK
  <2>3. row \in Row
    <3>1. c[2] \in DOMAIN ptr[r].idx /\ ptr[r].idx[c[2]] <= Len(data[c])
      BY <2>0, <2>0r, <2>0t, <2>0g, Zenon DEF Found
    <3>2. ptr[r].idx[c[2]] \in Nat \ {0}
      BY <1>0, <3>1 DEF HeldOK, IsPointer
    <3>3. data[c] \in Seq(Row)
      BY <1>0, <2>2 DEF ColumnsOK
    <3> HIDE DEF c
    <3> QED
      BY <3>1, <3>2, <3>3
  <2> HIDE DEF c, row, last
  <2>4. CallsOK'
    BY <1>0, <2>0, <2>0r, <2>0t, <2>0g DEF CallsOK
  <2>5. HeldOK'
    BY <1>0, <2>0, <2>0r, <2>0t, <2>0g, HeldStays
  <2>6. TodoOK'
    BY <1>0, <2>0, <2>0r, <2>0t, <2>0g, <2>1a, NextTodo
  <2>7. ResultsOK'
    BY <1>0, <2>0, <2>0r, <2>0t, <2>0g, <2>2, <2>3 DEF ResultsOK
  <2> QED
    BY <2>4, <2>5, <2>6, <2>7 DEF ReadersOK
<1>10. ASSUME ReadMiss(r) PROVE ReadersOK'
  <2> DEFINE last == mode[r] # "get" \/ Len(todo[r]) = 1
  <2>0. /\ rpc[r] = "read" /\ todo[r] # <<>>
        /\ UNCHANGED <<ptr, mode, asked, due, steady>>
        /\ got' = [got EXCEPT ![r] = {}]
    BY <1>10 DEF ReadMiss, PointRead
  <2>0r. rpc' = [rpc EXCEPT ![r] = IF last THEN "done" ELSE "load"]
    BY <1>10 DEF ReadMiss
  <2>0t. todo' = [todo EXCEPT ![r] = IF last THEN <<>> ELSE Tail(todo[r])]
    BY <1>10 DEF ReadMiss
  <2>1a. last \in BOOLEAN
    OBVIOUS
  <2> HIDE DEF last
  <2>4. CallsOK'
    BY <1>0, <2>0, <2>0r, <2>0t DEF CallsOK
  <2>5. HeldOK'
    BY <1>0, <2>0, <2>0r, <2>0t, HeldStays
  <2>6. TodoOK'
    BY <1>0, <2>0, <2>0r, <2>0t, <2>1a, NextTodo
  <2>7. ResultsOK'
    BY <1>0, <2>0, <2>0r, <2>0t DEF ResultsOK
  <2> QED
    BY <2>4, <2>5, <2>6, <2>7 DEF ReadersOK
<1>11. ASSUME ScanColumn(r) PROVE ReadersOK'
  <2> DEFINE c == Head(todo[r])
             hit == HasColumn(c)
             last == hit \/ Len(todo[r]) = 1
             rows == IF hit THEN ScanAll(c) ELSE {}
  <2>1. /\ rpc[r] = "read" /\ todo[r] # <<>>
        /\ UNCHANGED <<ptr, mode, asked, due, steady>>
        /\ rpc' = [rpc EXCEPT ![r] = IF last THEN "done" ELSE "read"]
        /\ todo' = [todo EXCEPT ![r] = IF last THEN <<>> ELSE Tail(@)]
        /\ got' = [got EXCEPT ![r] = rows]
        /\ last \in BOOLEAN
    BY <1>11, Zenon DEF ScanColumn
  <2>2. rows \subseteq Cols \X Row
    BY <1>0, RowsAreRows DEF HasColumn, ScanAll
  <2> HIDE DEF last, rows
  <2>4. CallsOK'
    BY <1>0, <2>1 DEF CallsOK
  <2>5. HeldOK'
    BY <1>0, <2>1, HeldStays
  <2>6. TodoOK'
    BY <1>0, <2>1, NextTodo
  <2>7. ResultsOK'
    BY <1>0, <2>1, <2>2 DEF ResultsOK
  <2> QED
    BY <2>4, <2>5, <2>6, <2>7 DEF ReadersOK
<1>12. ASSUME Return(r) PROVE ReadersOK'
  <2>0. Nobody \in Entities
    BY <1>0, NobodyIsThere DEF CallsOK
  <2>1. IsPointer(NoPointer(Nobody))
    BY <2>0, NoPointerIsPointer
  <2>2. CallsOK' /\ TodoOK' /\ ResultsOK'
    BY <1>0, <1>12, <2>0 DEF Return, CallsOK, TodoOK, ResultsOK
  <2>3. HeldOK'
    <3>1. ptr' = [q \in Readers |-> ptr'[q]]
      BY <1>0, <1>12 DEF Return, HeldOK
    <3>2. \A q \in Readers : IsPointer(ptr'[q]) /\ (HasPointer(q)' => ptr'[q].ent = asked'[q])
      BY <1>0, <1>12, <2>1 DEF Return, HeldOK, CallsOK, HasPointer
    <3> QED
      BY <3>1, <3>2, Zenon DEF HeldOK
  <2> QED
    BY <2>2, <2>3 DEF ReadersOK
<1> QED
  BY <1>1, <1>3, <1>4, <1>5, <1>6, <1>7, <1>8, <1>9, <1>10, <1>11, <1>12, TypeParts, Zenon
  DEF ReaderNext

\* The initial states have the types.
LEMMA InitTypes ==
  ASSUME Init
  PROVE  TypeOK /\ BlockOnDisk
<1> USE PartitionAssumption
<1>1. ColdShape \in AllShapes
  BY DEF AllShapes
<1>2. ColumnsOK
  BY DEF Init, ColumnsOK, Partial
<1>3. PointersOK
  BY DEF Init, PointersOK, PointerMap, Partial
<1>4. DiskOK
  BY <1>1 DEF Init, DiskOK, RecordMap, Partial, Record, AllShapes
<1>5. ThreadOK /\ BloomOK /\ BlockOnDisk
  BY DEF Init, ThreadOK, BloomOK, BlockOnDisk
<1>6. ReadersOK
  <2>1. asked \in [Readers -> Entities] /\ ptr = [r \in Readers |-> NoPointer(asked[r])]
    BY Zenon DEF Init
  <2>2. \A r \in Readers : ptr[r] = NoPointer(asked[r])
    BY <2>1
  <2>3. \A r \in Readers : IsPointer(ptr[r])
    BY <2>1, <2>2, NoPointerIsPointer
  <2>4. ptr = [r \in Readers |-> ptr[r]]
    BY <2>1
  <2>5. \A r \in Readers : ~HasPointer(r)
    BY DEF Init, HasPointer
  <2>6. HeldOK
    BY <2>3, <2>4, <2>5 DEF HeldOK
  <2>7. CallsOK /\ TodoOK /\ ResultsOK
    BY DEF Init, CallsOK, TodoOK, ResultsOK
  <2> QED
    BY <2>6, <2>7 DEF ReadersOK
<1> QED
  BY <1>2, <1>3, <1>4, <1>5, <1>6, TypeParts

\* Every step keeps them.
LEMMA StepTypes ==
  ASSUME TypeOK, BlockOnDisk, [Next]_vars
  PROVE  TypeOK' /\ BlockOnDisk'
<1>1. BlockOnDisk'
  BY BlockStep, TypeParts
<1>2. CASE UNCHANGED vars
  <2>1. TypeOK'
    BY <1>2, TypeParts DEF vars, sharedVars, diskVars, writerVars, readerVars, histVars, bloomVars,
       ColumnsOK, PointersOK, DiskOK, ThreadOK, BloomOK,
       ReadersOK, CallsOK, HeldOK, TodoOK, ResultsOK, HasPointer
  <2> QED
    BY <1>1, <2>1
<1>3. CASE Next
  BY <1>1, <1>3, WriterTypes, ReaderTypes, Zenon DEF Next
<1> QED
  BY <1>2, <1>3

\* What the other proofs about the partition start from.
LEMMA TypesHold == Spec => [](TypeOK /\ BlockOnDisk)
<1>1. Init => TypeOK /\ BlockOnDisk
  BY InitTypes
<1>2. TypeOK /\ BlockOnDisk /\ [Next]_vars => (TypeOK /\ BlockOnDisk)'
  BY StepTypes
<1> QED
  BY <1>1, <1>2, PTL DEF Spec

\* In every reachable state the variables have their types: a pointer a reader
\* holds for a read is one of the entity it asked for, an attribute's row is
\* never 0, and a column only ever holds rows.
THEOREM TypeCorrect == Spec => []TypeOK
BY TypesHold, PTL
-----------------------------------------------------------------------------
(* What the thread publishes: the pointers between batches are the        *)
(* sequential effect of the commands, and the Bloom filter forgets nothing *)
(* of the disk index but what its rebuilds lose.                           *)


\* A map of pointers is the effect of the commands so far.
Effect(f) ==
    \A e \in Entities :
        IF e \in DOMAIN f
        THEN \/ e \in promoted
             \/ /\ f[e].ver = latest[e]
                /\ DOMAIN f[e].idx # {} <=> e \in live
        ELSE latest[e] <= 1

\* The published map is that between batches, the batch's own map within one;
\* once the whole batch is published they are the same.
EffectOK ==
    /\ wpc = "recv" => Effect(sharedPointers)
    /\ wpc # "recv" => Effect(nextPointers)
    /\ wpc = "disk" => sharedPointers = nextPointers

\* An insert carries some attribute.
SomeAttr == \A shape \in Shapes : DOMAIN shape # {}

\* The commands change the map as they change the record of them.
LEMMA CommandEffect ==
  ASSUME TypeOK, Effect(nextPointers), NEW e \in Entities, NEW n \in Nat, NEW p,
         nextPointers' = Put(nextPointers, e, p),
         p.ver = n, promoted' = promoted \ {e}, latest' = [latest EXCEPT ![e] = n],
         \/ DOMAIN p.idx # {} /\ live' = live \cup {e}
         \/ DOMAIN p.idx = {} /\ live' = live \ {e}
  PROVE  Effect(nextPointers)'
<1>1. latest \in [Entities -> Nat]
  BY TypeParts DEF ThreadOK
<1>2. \A f \in Entities : f # e =>
        /\ f \in DOMAIN nextPointers' <=> f \in DOMAIN nextPointers
        /\ f \in DOMAIN nextPointers => nextPointers'[f] = nextPointers[f]
        /\ latest'[f] = latest[f]
        /\ f \in promoted' <=> f \in promoted
        /\ f \in live' <=> f \in live
  BY <1>1 DEF Put
<1>3. /\ e \in DOMAIN nextPointers' /\ nextPointers'[e] = p /\ latest'[e] = n
      /\ DOMAIN p.idx # {} <=> e \in live'
  BY <1>1 DEF Put
<1> SUFFICES ASSUME NEW f \in Entities
             PROVE  IF f \in DOMAIN nextPointers'
                    THEN \/ f \in promoted'
                         \/ /\ nextPointers'[f].ver = latest'[f]
                            /\ DOMAIN nextPointers'[f].idx # {} <=> f \in live'
                    ELSE latest'[f] <= 1
  BY DEF Effect
<1>4. CASE f = e
  BY <1>3, <1>4
<1>5. CASE f # e
  BY <1>2, <1>5 DEF Effect
<1> QED
  BY <1>4, <1>5

\* Every step keeps the maps the effect of the commands.
LEMMA StepEffect ==
  ASSUME SomeAttr, TypeOK, BlockOnDisk, EffectOK, [Next]_vars
  PROVE  EffectOK'
<1>0. ThreadOK /\ PointersOK
  BY TypeParts
<1>1. CASE Receive
  BY <1>1 DEF Receive, StartPointers, histVars, sharedVars, EffectOK, Effect
<1>2. ASSUME NEW e \in Entities, NEW shape \in Shapes, Insert(e, shape)
      PROVE  EffectOK'
  <2> DEFINE p == [ent |-> e, ver |-> seqno',
                   idx |-> [a \in DOMAIN shape |-> NextRow(Working(<<shape[a], a>>))]]
  <2>1. /\ nextPointers' = Put(nextPointers, e, p)
        /\ promoted' = promoted \ {e} /\ latest' = [latest EXCEPT ![e] = seqno']
        /\ live' = live \cup {e} /\ wpc = "apply" /\ wpc' = wpc
    BY <1>2 DEF Insert, AppendRows, Command
  <2>2. p.ver = seqno' /\ DOMAIN p.idx # {}
    BY DEF SomeAttr
  <2>3. seqno' \in Nat
    BY <1>0, <1>2 DEF Insert, Command, ThreadOK
  <2> HIDE DEF p
  <2>4. Effect(nextPointers)'
    BY <2>1, <2>2, <2>3, CommandEffect DEF EffectOK
  <2> QED
    BY <2>1, <2>4 DEF EffectOK
<1>3. ASSUME NEW e \in Entities, Delete(e)
      PROVE  EffectOK'
  <2> DEFINE p == [NoPointer(e) EXCEPT !.ver = seqno']
  <2>1. /\ nextPointers' = Put(nextPointers, e, p)
        /\ promoted' = promoted \ {e} /\ latest' = [latest EXCEPT ![e] = seqno']
        /\ live' = live \ {e} /\ wpc = "apply" /\ wpc' = wpc
    BY <1>3 DEF Delete, Command
  <2>2. p.ver = seqno' /\ DOMAIN p.idx = {}
    BY DEF NoPointer
  <2>3. seqno' \in Nat
    BY <1>0, <1>3 DEF Delete, Command, ThreadOK
  <2> HIDE DEF p
  <2>4. Effect(nextPointers)'
    BY <2>1, <2>2, <2>3, CommandEffect DEF EffectOK
  <2> QED
    BY <2>1, <2>4 DEF EffectOK
<1>4. ASSUME NEW e \in Entities, LoadHot(e) \/ LoadCold(e)
      PROVE  EffectOK'
  BY <1>4 DEF LoadHot, LoadCold, Command, histVars, EffectOK, Effect
<1>5. ASSUME NEW e \in Entities, Promote(e)
      PROVE  EffectOK'
  <2>1. PICK p : nextPointers' = Put(nextPointers, e, p)
    BY <1>5 DEF Promote, AppendRows
  <2>2. /\ promoted' = promoted \cup {e} /\ wpc = "promote"
        /\ UNCHANGED <<latest, live, wpc>>
    BY <1>5 DEF Promote
  <2>3. Effect(nextPointers)'
    <3> SUFFICES ASSUME NEW f \in Entities
                 PROVE  IF f \in DOMAIN nextPointers'
                        THEN \/ f \in promoted'
                             \/ /\ nextPointers'[f].ver = latest[f]
                                /\ DOMAIN nextPointers'[f].idx # {} <=> f \in live
                        ELSE latest[f] <= 1
      BY <2>2 DEF Effect
    <3>1. CASE f = e
      BY <2>1, <2>2, <3>1 DEF Put
    <3>2. CASE f # e
      BY <2>1, <2>2, <3>2 DEF Put, EffectOK, Effect
    <3> QED
      BY <3>1, <3>2
  <2> QED
    BY <2>2, <2>3 DEF EffectOK
<1>6. CASE PromoteEnd \/ EndBatch
  BY <1>6 DEF PromoteEnd, EndBatch, histVars, EffectOK, Effect
<1>7. ASSUME NEW c \in Cols, FlushColumn(c)
      PROVE  EffectOK'
  BY <1>7 DEF FlushColumn, histVars, EffectOK, Effect
<1>8. CASE Publish
  <2>1. wpc' # "recv" /\ wpc = "flush"
    BY <1>0, <1>8 DEF Publish, ThreadOK
  <2>2. Effect(nextPointers)' /\ sharedPointers' = nextPointers'
    BY <1>8 DEF Publish, histVars, EffectOK, Effect
  <2> QED
    BY <2>1, <2>2 DEF EffectOK
<1>9. CASE SwapDiskIndex
  BY <1>9 DEF SwapDiskIndex, histVars, sharedVars, EffectOK, Effect
<1>10. ASSUME NEW r \in Readers, ReaderNext(r)
       PROVE  EffectOK'
  BY <1>10, ReaderKeeps DEF sharedVars, writerVars, histVars, EffectOK, Effect
<1>11. CASE UNCHANGED vars
  BY <1>11 DEF vars, sharedVars, writerVars, histVars, EffectOK, Effect
<1> QED
  BY <1>1, <1>2, <1>3, <1>4, <1>5, <1>6, <1>7, <1>8, <1>9, <1>10, <1>11, Zenon
  DEF Next, WriterNext

\* Between batches the published pointers are the last insert or delete of each
\* entity, save those brought from disk since, and entities_iter lists the
\* entities inserted last, however the commands were batched and whatever
\* InternalLoads published halfway through a batch (engine/partition.rs).
THEOREM PublishesLatest ==
  ASSUME SomeAttr
  PROVE  Spec => []PublishedIsLatest
<1>1. Init => EffectOK
  <2> SUFFICES ASSUME Init PROVE EffectOK
    OBVIOUS
  <2>1. wpc = "recv" /\ DOMAIN sharedPointers = {}
    BY DEF Init
  <2>2. \A e \in Entities : latest[e] <= 1
    BY DEF Init
  <2> QED
    BY <2>1, <2>2 DEF EffectOK, Effect
<1>2. TypeOK /\ BlockOnDisk /\ EffectOK /\ [Next]_vars => EffectOK'
  BY StepEffect
<1>3. EffectOK => PublishedIsLatest
  BY DEF EffectOK, Effect, PublishedIsLatest, Listed
<1> QED
  BY <1>1, <1>2, <1>3, TypesHold, PTL DEF Spec

\* update_bloom loses at most the entity that made it rebuild the filter.
LEMMA BloomStep ==
  ASSUME BloomCovers, NEW e \in Entities, UpdateBloom(e),
         \/ UNCHANGED nextDiskIndex
         \/ DOMAIN nextDiskIndex' = DOMAIN nextDiskIndex \cup {e}
  PROVE  BloomCovers'
BY DEF BloomCovers, UpdateBloom, FilterEntities

\* The filter knows every entity that was told to it and is in the disk index
\* to come, across any number of rebuilds, save the one whose insertion caused
\* the last rebuild (engine/partition.rs, update_bloom).
THEOREM FilterCovers == Spec => []BloomCovers
<1>1. Init => BloomCovers
  BY DEF Init, BloomCovers
<1>2. ASSUME BloomCovers, [Next]_vars PROVE BloomCovers'
  <2>1. CASE Receive \/ PromoteEnd \/ EndBatch \/ SwapDiskIndex \/ Publish
    BY <1>2, <2>1 DEF Receive, PromoteEnd, EndBatch, SwapDiskIndex, Publish, BloomCovers,
       bloomVars, diskVars
  <2>2. ASSUME NEW e \in Entities, NEW shape \in Shapes, Insert(e, shape) PROVE BloomCovers'
    BY <1>2, <2>2, BloomStep DEF Insert, Put
  <2>3. ASSUME NEW e \in Entities, Promote(e) PROVE BloomCovers'
    BY <1>2, <2>3, BloomStep DEF Promote, diskVars
  <2>4. ASSUME NEW e \in Entities, Delete(e) \/ LoadHot(e) \/ LoadCold(e) PROVE BloomCovers'
    BY <1>2, <2>4 DEF Delete, LoadHot, LoadCold, BloomCovers, bloomVars, diskVars
  <2>5. ASSUME NEW c \in Cols, FlushColumn(c) PROVE BloomCovers'
    BY <1>2, <2>5 DEF FlushColumn, BloomCovers, bloomVars, diskVars
  <2>6. ASSUME NEW r \in Readers, ReaderNext(r) PROVE BloomCovers'
    BY <1>2, <2>6, ReaderKeeps DEF writerVars, diskVars, bloomVars, BloomCovers
  <2>7. CASE UNCHANGED vars
    BY <1>2, <2>7 DEF vars, writerVars, diskVars, bloomVars, BloomCovers
  <2> QED
    BY <1>2, <2>1, <2>2, <2>3, <2>4, <2>5, <2>6, <2>7, Zenon DEF Next, WriterNext
<1> QED
  BY <1>1, <1>2, PTL DEF Spec
-----------------------------------------------------------------------------
(* Pointers *)

\* Row i of attribute a in the columns the batch works on.
WorkingIs(a, i, e, v) ==
    \E t \in Types : /\ <<t, a>> \in columns
                     /\ i \in DOMAIN Working(<<t, a>>)
                     /\ Working(<<t, a>>)[i] = [ent |-> e, ver |-> v]

Extends(new, old) == \A i \in DOMAIN old : i \in DOMAIN new /\ new[i] = old[i]

\* The batch's copies of the columns begin with the published rows.
CopiesExtend == \A c \in DOMAIN cache : Extends(cache[c], data[c])

\* Every pointer of the batch designates a row of the batch's copies.
BatchResolves ==
    \A e \in DOMAIN nextPointers : \A a \in DOMAIN nextPointers[e].idx :
        WorkingIs(a, nextPointers[e].idx[a], nextPointers[e].ent, nextPointers[e].ver)

Resolving == CopiesExtend /\ BatchResolves /\ PointersResolve

\* The published columns only grow in this step.
DataGrows ==
    /\ columns \subseteq columns'
    /\ \A c \in Cols : Extends(data'[c], data[c])

\* So do the batch's copies of them.
WorkingGrows ==
    /\ columns \subseteq columns'
    /\ \A c \in Cols : Extends(Working(c)', Working(c))

\* A row once published stays where it is.
LEMMA RowStays ==
  ASSUME DataGrows, NEW a \in Attrs, NEW i, NEW e, NEW v, RowIs(a, i, e, v)
  PROVE  RowIs(a, i, e, v)'
<1>1. PICK t \in Types : /\ <<t, a>> \in columns
                         /\ i \in DOMAIN data[<<t, a>>]
                         /\ data[<<t, a>>][i] = [ent |-> e, ver |-> v]
  BY DEF RowIs
<1>2. <<t, a>> \in Cols
  BY DEF Cols
<1>3. /\ <<t, a>> \in columns'
      /\ i \in DOMAIN data'[<<t, a>>]
      /\ data'[<<t, a>>][i] = [ent |-> e, ver |-> v]
  BY <1>1, <1>2, Zenon DEF DataGrows, Extends
<1> QED
  BY <1>3, Zenon DEF RowIs

\* So does a row of the batch.
LEMMA WorkingStays ==
  ASSUME WorkingGrows, NEW a \in Attrs, NEW i, NEW e, NEW v, WorkingIs(a, i, e, v)
  PROVE  WorkingIs(a, i, e, v)'
<1>1. PICK t \in Types : /\ <<t, a>> \in columns
                         /\ i \in DOMAIN Working(<<t, a>>)
                         /\ Working(<<t, a>>)[i] = [ent |-> e, ver |-> v]
  BY DEF WorkingIs
<1>2. <<t, a>> \in Cols
  BY DEF Cols
<1>3. /\ <<t, a>> \in columns'
      /\ i \in DOMAIN Working(<<t, a>>)'
      /\ Working(<<t, a>>)'[i] = [ent |-> e, ver |-> v]
  BY <1>1, <1>2, Zenon DEF WorkingGrows, Extends
<1> QED
  BY <1>3, Zenon DEF WorkingIs

\* A pointer that resolves goes on resolving.
LEMMA PointerStays ==
  ASSUME DataGrows, NEW p, IsPointer(p), Resolvable(p)
  PROVE  Resolvable(p)'
BY RowStays DEF Resolvable, IsPointer, Partial

\* A published row is one of the batch's copy too.
LEMMA PublishedIsWorking ==
  ASSUME CopiesExtend, NEW a \in Attrs, NEW i, NEW e, NEW v, RowIs(a, i, e, v)
  PROVE  WorkingIs(a, i, e, v)
<1>1. PICK t \in Types : /\ <<t, a>> \in columns
                         /\ i \in DOMAIN data[<<t, a>>]
                         /\ data[<<t, a>>][i] = [ent |-> e, ver |-> v]
  BY DEF RowIs
<1>2. i \in DOMAIN Working(<<t, a>>) /\ Working(<<t, a>>)[i] = [ent |-> e, ver |-> v]
  BY <1>1, Zenon DEF CopiesExtend, Extends, Working
<1> QED
  BY <1>1, <1>2, Zenon DEF WorkingIs

\* An insert makes the copies longer, and the new pointer designates its rows.
LEMMA AppendResolves ==
  ASSUME TypeOK, CopiesExtend, BatchResolves, UNCHANGED data,
         NEW e \in Entities, NEW version \in Nat, NEW shape \in AllShapes,
         AppendRows(e, version, shape)
  PROVE  CopiesExtend' /\ BatchResolves'
<1> DEFINE row == [ent |-> e, ver |-> version]
           p == [ent |-> e, ver |-> version,
                 idx |-> [a \in DOMAIN shape |-> NextRow(Working(<<shape[a], a>>))]]
<1>0. ColumnsOK /\ PointersOK
  BY TypeParts
<1>1. \A c \in Cols : Working(c)' = IF c \in ColsOf(shape) THEN Append(Working(c), row)
                                    ELSE Working(c)
  BY Zenon DEF AppendRows, Working
<1>2. \A c \in Cols : Extends(Working(c)', Working(c))
  <2> SUFFICES ASSUME NEW c \in Cols PROVE Extends(Working(c)', Working(c))
    OBVIOUS
  <2>1. Working(c) \in Seq(Row)
    BY <1>0, WorkingRows
  <2>2. \A s \in Seq(Row) : Extends(Append(s, row), s) /\ Extends(s, s)
    BY DEF Extends
  <2> QED
    BY <1>1, <2>1, <2>2, Zenon
<1>3. WorkingGrows
  BY <1>2 DEF WorkingGrows, AppendRows
<1>4. CopiesExtend'
  <2> SUFFICES ASSUME NEW c \in DOMAIN cache' PROVE Extends(cache'[c], data[c])
    BY DEF CopiesExtend
  <2>1. c \in Cols
    BY <1>0, ColsOfCols DEF AppendRows, ColumnsOK, Partial
  <2>2. Working(c)' = cache'[c]
    BY DEF Working
  <2>3. Extends(Working(c), data[c])
    BY DEF CopiesExtend, Working, Extends
  <2> QED
    BY <1>2, <2>1, <2>2, <2>3 DEF Extends
<1>5. \A a \in DOMAIN shape : \A i : i = p.idx[a] => WorkingIs(a, i, e, version)'
  <2> SUFFICES ASSUME NEW a \in DOMAIN shape, NEW i, i = p.idx[a]
               PROVE  WorkingIs(a, i, e, version)'
    OBVIOUS
  <2> DEFINE c == <<shape[a], a>>
             w == Working(c)
  <2>1. c \in Cols /\ c \in ColsOf(shape) /\ shape[a] \in Types
    BY ShapeCols
  <2>2. c \in columns'
    BY <2>1, Zenon DEF AppendRows
  <2>3. w \in Seq(Row)
    BY <1>0, <2>1, WorkingRows
  <2>4. i = Len(w) + 1
    BY DEF NextRow
  <2>5. Working(c)' = Append(w, row)
    BY <1>1, <2>1, Zenon
  <2>6. /\ Len(w) + 1 \in DOMAIN Append(w, row)
        /\ Append(w, row)[Len(w) + 1] = row
    <3> HIDE DEF w, row
    <3> QED
      BY <2>3
  <2>7. i \in DOMAIN Working(c)' /\ Working(c)'[i] = row
    <3> HIDE DEF w, row, c
    <3> QED
      BY <2>4, <2>5, <2>6, Zenon
  <2> QED
    BY <2>1, <2>2, <2>7, Zenon DEF WorkingIs
<1>6. nextPointers' = Put(nextPointers, e, p)
  BY DEF AppendRows
<1>7. p.ent = e /\ p.ver = version /\ DOMAIN p.idx = DOMAIN shape
  OBVIOUS
<1> HIDE DEF p
<1>8. BatchResolves'
  <2> SUFFICES ASSUME NEW f \in DOMAIN nextPointers', NEW a \in DOMAIN nextPointers'[f].idx,
                      NEW i, i = nextPointers'[f].idx[a],
                      NEW g, g = nextPointers'[f].ent, NEW v, v = nextPointers'[f].ver
               PROVE  WorkingIs(a, i, g, v)'
    BY Zenon DEF BatchResolves
  <2>1. CASE f = e
    <3>1. nextPointers'[f] = p
      BY <1>6, <2>1, Zenon DEF Put
    <3> QED
      BY <1>5, <1>7, <3>1, Zenon
  <2>2. CASE f # e
    <3>1. f \in DOMAIN nextPointers /\ nextPointers'[f] = nextPointers[f]
      BY <1>6, <2>2, Zenon DEF Put
    <3>2. a \in Attrs
      BY <1>0, <3>1, Zenon DEF PointersOK, PointerMap, IsPointer, Partial
    <3>3. WorkingIs(a, i, g, v)
      BY <3>1, Zenon DEF BatchResolves
    <3> QED
      BY <1>3, <3>2, <3>3, WorkingStays
  <2> QED
    BY <2>1, <2>2
<1> QED
  BY <1>4, <1>8

\* The pointers readers can have go on resolving while the columns grow.
LEMMA HeldResolve ==
  ASSUME TypeOK, PointersResolve, DataGrows, UNCHANGED <<sharedPointers, ptr>>
  PROVE  PointersResolve'
<1>1. \A e \in DOMAIN sharedPointers : IsPointer(sharedPointers[e])
  BY TypeParts DEF PointersOK, PointerMap
<1>2. \A r \in Readers : IsPointer(ptr[r])
  BY TypeParts DEF ReadersOK, HeldOK
<1>3. \A p : IsPointer(p) /\ Resolvable(p) => Resolvable(p)'
  BY PointerStays
<1>4. \A e \in DOMAIN sharedPointers : Resolvable(sharedPointers[e])'
  <2> SUFFICES ASSUME NEW e \in DOMAIN sharedPointers, NEW p, p = sharedPointers[e]
               PROVE  Resolvable(p)'
    BY DEF Resolvable
  <2> QED
    BY <1>1, <1>3 DEF PointersResolve
<1>5. \A r \in Readers : Resolvable(ptr[r])'
  <2> SUFFICES ASSUME NEW r \in Readers, NEW p, p = ptr[r]
               PROVE  Resolvable(p)'
    BY DEF Resolvable
  <2> QED
    BY <1>2, <1>3 DEF PointersResolve
<1> QED
  BY <1>4, <1>5, Zenon DEF PointersResolve

\* Nothing of the columns changes.
LEMMA SameGrows ==
  ASSUME UNCHANGED data, columns \subseteq columns'
  PROVE  DataGrows
BY DEF DataGrows, Extends

\* A batch's pointers resolve once each of them does.
LEMMA BatchKeeps ==
  ASSUME UNCHANGED <<columns, data, cache>>, PointerMap(nextPointers'),
         \A e \in DOMAIN nextPointers' : \A a \in DOMAIN nextPointers'[e].idx :
            WorkingIs(a, nextPointers'[e].idx[a], nextPointers'[e].ent, nextPointers'[e].ver)
  PROVE  BatchResolves'
<1>1. WorkingGrows
  BY DEF WorkingGrows, Extends, Working
<1> SUFFICES ASSUME NEW f \in DOMAIN nextPointers', NEW a \in DOMAIN nextPointers'[f].idx,
                    NEW i, i = nextPointers'[f].idx[a],
                    NEW g, g = nextPointers'[f].ent, NEW v, v = nextPointers'[f].ver
             PROVE  WorkingIs(a, i, g, v)'
  BY Zenon DEF BatchResolves
<1>2. a \in Attrs
  BY Zenon DEF PointerMap, IsPointer, Partial
<1>3. WorkingIs(a, i, g, v)
  BY Zenon
<1> QED
  BY <1>1, <1>2, <1>3, WorkingStays

\* Steps that touch neither the rows nor the batch's pointers.
LEMMA Untouched ==
  ASSUME TypeOK, Resolving, UNCHANGED <<columns, data, cache, nextPointers, sharedPointers, ptr>>
  PROVE  Resolving'
<1>1. PointersResolve'
  BY SameGrows, HeldResolve DEF Resolving
<1>2. CopiesExtend'
  BY DEF Resolving, CopiesExtend
<1>3. BatchResolves'
  BY DEF Resolving, BatchResolves, WorkingIs, Working
<1> QED
  BY <1>1, <1>2, <1>3 DEF Resolving

\* The swap of one column: what the batch works on is the same rows as before.
LEMMA FlushResolves ==
  ASSUME TypeOK, Resolving, NEW c \in Cols, FlushColumn(c)
  PROVE  Resolving'
<1>0. data \in [Cols -> Seq(Row)] /\ cache[c] \in Seq(Row)
  BY TypeParts DEF ColumnsOK, FlushColumn
<1>1. /\ c \in DOMAIN cache
      /\ data' = [data EXCEPT ![c] = cache[c]]
      /\ cache' = [d \in DOMAIN cache \ {c} |-> cache[d]]
      /\ UNCHANGED <<columns, sharedPointers, nextPointers, ptr>>
  BY Zenon DEF FlushColumn, readerVars, sharedVars
<1>2. \A d \in Cols : data'[d] = IF d = c THEN cache[c] ELSE data[d]
  BY <1>0, <1>1
<1>3. \A d \in Cols : Working(d)' = Working(d)
  BY <1>1, <1>2 DEF Working
<1>4. \A d \in Cols : Extends(data'[d], data[d])
  BY <1>1, <1>2 DEF Resolving, CopiesExtend, Extends
<1>5. DataGrows
  BY <1>1, <1>4 DEF DataGrows
<1>6. PointersResolve'
  BY <1>1, <1>5, HeldResolve DEF Resolving
<1>7. CopiesExtend'
  <2>1. DOMAIN cache \subseteq Cols
    BY TypeParts DEF ColumnsOK, Partial
  <2>2. \A d \in DOMAIN cache' : d \in DOMAIN cache /\ d # c /\ cache'[d] = cache[d]
                                 /\ data'[d] = data[d]
    BY <1>1, <1>2, <2>1
  <2> QED
    BY <2>2 DEF Resolving, CopiesExtend
<1>8. WorkingGrows
  BY <1>1, <1>3 DEF WorkingGrows, Extends
<1>9. BatchResolves'
  <2> SUFFICES ASSUME NEW f \in DOMAIN nextPointers, NEW a \in DOMAIN nextPointers[f].idx,
                      NEW i, i = nextPointers[f].idx[a],
                      NEW g, g = nextPointers[f].ent, NEW v, v = nextPointers[f].ver
               PROVE  WorkingIs(a, i, g, v)'
    BY <1>1, Zenon DEF BatchResolves
  <2>1. a \in Attrs
    BY TypeParts, Zenon DEF PointersOK, PointerMap, IsPointer, Partial
  <2>2. WorkingIs(a, i, g, v)
    BY DEF Resolving, BatchResolves
  <2> QED
    BY <1>8, <2>1, <2>2, WorkingStays
<1> QED
  BY <1>6, <1>7, <1>9 DEF Resolving

\* The swap of the pointers, once every column of the batch is published.
LEMMA PublishResolves ==
  ASSUME TypeOK, Resolving, Publish
  PROVE  Resolving'
<1>1. /\ DOMAIN cache = {}
      /\ sharedPointers' = nextPointers
      /\ UNCHANGED <<columns, data, nextPointers, cache, ptr>>
  BY Zenon DEF Publish, Flushed
<1>2. CopiesExtend'
  BY <1>1 DEF CopiesExtend
<1>2a. BatchResolves'
  <2>1. PointerMap(nextPointers')
    BY <1>1, TypeParts DEF PointersOK
  <2> QED
    BY <1>1, <2>1, BatchKeeps DEF Resolving, BatchResolves
<1>3. \A c : Working(c) = data[c]
  BY <1>1 DEF Working
<1>4. \A e \in DOMAIN nextPointers : Resolvable(nextPointers[e])
  BY <1>3 DEF Resolving, BatchResolves, WorkingIs, Resolvable, RowIs
<1>5. DataGrows
  BY <1>1, SameGrows
<1>6. \A p : IsPointer(p) /\ Resolvable(p) => Resolvable(p)'
  BY <1>5, PointerStays
<1>7. PointersResolve'
  <2>1. \A e \in DOMAIN nextPointers : IsPointer(nextPointers[e])
    BY TypeParts DEF PointersOK, PointerMap
  <2>2. \A r \in Readers : IsPointer(ptr[r])
    BY TypeParts DEF ReadersOK, HeldOK
  <2> SUFFICES ASSUME NEW p, \/ \E e \in DOMAIN nextPointers : p = nextPointers[e]
                             \/ \E r \in Readers : p = ptr[r]
               PROVE  Resolvable(p)'
    BY <1>1 DEF PointersResolve, Resolvable
  <2> QED
    BY <1>4, <1>6, <2>1, <2>2 DEF Resolving, PointersResolve
<1> QED
  BY <1>2, <1>2a, <1>7 DEF Resolving

\* Every step of the partition thread keeps all pointers resolving.
LEMMA WriterResolves ==
  ASSUME TypeOK, BlockOnDisk, Resolving, WriterNext
  PROVE  Resolving'
<1> USE DEF sharedVars, readerVars
<1>1. CASE Receive
  <2>1. /\ nextPointers' = sharedPointers
        /\ UNCHANGED <<columns, data, cache, sharedPointers, ptr>>
    BY <1>1, Zenon DEF Receive, StartPointers
  <2>2. PointersResolve'
    BY <2>1, SameGrows, HeldResolve DEF Resolving
  <2>3. CopiesExtend'
    BY <2>1 DEF Resolving, CopiesExtend
  <2>4. BatchResolves'
    <3>0. PointerMap(nextPointers')
      BY <2>1, TypeParts DEF PointersOK
    <3> SUFFICES ASSUME NEW f \in DOMAIN sharedPointers, NEW a \in DOMAIN sharedPointers[f].idx
                 PROVE  WorkingIs(a, sharedPointers[f].idx[a], sharedPointers[f].ent,
                                  sharedPointers[f].ver)
      BY <2>1, <3>0, BatchKeeps
    <3>1. a \in Attrs
      BY TypeParts, Zenon DEF PointersOK, PointerMap, IsPointer, Partial
    <3>2. RowIs(a, sharedPointers[f].idx[a], sharedPointers[f].ent, sharedPointers[f].ver)
      BY DEF Resolving, PointersResolve, Resolvable
    <3> QED
      BY <3>1, <3>2, PublishedIsWorking DEF Resolving
  <2> QED
    BY <2>2, <2>3, <2>4 DEF Resolving
<1>2. ASSUME NEW e \in Entities, NEW version \in Nat, NEW shape \in AllShapes,
             AppendRows(e, version, shape), UNCHANGED <<data, sharedPointers, ptr>>
      PROVE  Resolving'
  <2>1. columns \subseteq columns'
    BY <1>2 DEF AppendRows
  <2>2. PointersResolve'
    BY <1>2, <2>1, SameGrows, HeldResolve DEF Resolving
  <2> QED
    BY <1>2, <2>2, AppendResolves DEF Resolving
<1>3. ASSUME NEW e \in Entities, NEW shape \in Shapes, Insert(e, shape)
      PROVE  Resolving'
  <2>1. seqno' \in Nat /\ shape \in AllShapes
    BY <1>3, TypeParts DEF Insert, Command, ThreadOK, AllShapes
  <2>2. AppendRows(e, seqno', shape) /\ UNCHANGED <<data, sharedPointers, ptr>>
    BY <1>3, Zenon DEF Insert
  <2> QED
    BY <1>2, <2>1, <2>2
<1>4. ASSUME NEW e \in Entities, Delete(e)
      PROVE  Resolving'
  <2> DEFINE p == [NoPointer(e) EXCEPT !.ver = seqno']
  <2>1. /\ nextPointers' = Put(nextPointers, e, p)
        /\ UNCHANGED <<columns, data, cache, sharedPointers, ptr>>
    BY <1>4, Zenon DEF Delete
  <2>2. DOMAIN p.idx = {}
    BY DEF NoPointer
  <2> HIDE DEF p
  <2>3. PointersResolve'
    BY <2>1, SameGrows, HeldResolve DEF Resolving
  <2>4. CopiesExtend'
    BY <2>1 DEF Resolving, CopiesExtend
  <2>5. \A f \in DOMAIN nextPointers' : f # e =>
          f \in DOMAIN nextPointers /\ nextPointers'[f] = nextPointers[f]
    BY <2>1, Zenon DEF Put
  <2>6. nextPointers'[e] = p
    BY <2>1, Zenon DEF Put
  <2>7. BatchResolves'
    BY <2>1, <2>2, <2>5, <2>6 DEF Resolving, BatchResolves, WorkingIs, Working
  <2> QED
    BY <2>3, <2>4, <2>7 DEF Resolving
<1>5. ASSUME NEW e \in Entities, LoadHot(e) \/ LoadCold(e)
      PROVE  Resolving'
  <2>1. UNCHANGED <<columns, data, cache, nextPointers, sharedPointers, ptr>>
    BY <1>5, Zenon DEF LoadHot, LoadCold
  <2> QED
    BY <2>1, Untouched
<1>6. ASSUME NEW e \in Entities, Promote(e)
      PROVE  Resolving'
  <2>1. diskIndex[e] \in Record
    BY <1>6, TypeParts DEF Promote, BlockOnDisk, DiskOK, RecordMap
  <2>2. diskIndex[e].ver \in Nat /\ diskIndex[e].shape \in AllShapes
    BY <2>1 DEF Record, AllShapes
  <2>3. /\ AppendRows(e, diskIndex[e].ver, diskIndex[e].shape)
        /\ UNCHANGED <<data, sharedPointers, ptr>>
    BY <1>6, Zenon DEF Promote
  <2> QED
    BY <1>2, <2>2, <2>3
<1>7. CASE PromoteEnd \/ EndBatch \/ SwapDiskIndex
  <2>1. UNCHANGED <<columns, data, cache, nextPointers, sharedPointers, ptr>>
    BY <1>7, Zenon DEF PromoteEnd, EndBatch, SwapDiskIndex
  <2> QED
    BY <2>1, Untouched
<1>8. ASSUME NEW c \in Cols, FlushColumn(c)
      PROVE  Resolving'
  BY <1>8, FlushResolves
<1>9. CASE Publish
  BY <1>9, PublishResolves
<1> QED
  BY <1>1, <1>3, <1>4, <1>5, <1>6, <1>7, <1>8, <1>9, Zenon DEF WriterNext

\* A reader's pointer is one it had, the published one, or names nothing.
LEMMA ReaderPointers ==
  ASSUME NEW r \in Readers, ReaderNext(r)
  PROVE  \/ UNCHANGED ptr
         \/ \E p \in {Shared(asked[r]), NoPointer(Nobody)} : ptr' = [ptr EXCEPT ![r] = p]
<1>1. ASSUME NEW m, NEW e, NEW cols, Begin(r, m, e, cols) PROVE UNCHANGED ptr
  BY <1>1, Zenon DEF Begin
<1>2. ASSUME NEW e \in Entities, NEW a \in Attrs, BeginGet(r, e, a) \/ FollowLink(r, e, a)
      PROVE  UNCHANGED ptr
  BY <1>1, <1>2, Zenon DEF BeginGet, FollowLink
<1>3. ASSUME NEW e \in Entities, BeginOther(r, e) PROVE UNCHANGED ptr
  BY <1>1, <1>3, Zenon DEF BeginOther
<1>4. ASSUME NEW a \in Attrs, BeginScan(r, a) PROVE UNCHANGED ptr
  BY <1>1, <1>4, Zenon DEF BeginScan
<1>5. ASSUME NEW n \in RangeLens, ReadRange(r, n) PROVE UNCHANGED ptr
  BY <1>5, Zenon DEF ReadRange
<1>6. CASE ReadHit(r) \/ ReadMiss(r) \/ ScanColumn(r)
  BY <1>6, Zenon DEF ReadHit, ReadMiss, ScanColumn
<1>7. CASE LoadPointer(r)
  BY <1>7, Zenon DEF LoadPointer
<1>8. CASE Return(r)
  BY <1>8, Zenon DEF Return
<1> QED
  BY <1>2, <1>3, <1>4, <1>5, <1>6, <1>7, <1>8, Zenon DEF ReaderNext

\* The steps of the readers load pointers that resolve.
LEMMA ReaderResolves ==
  ASSUME TypeOK, Resolving, NEW r \in Readers, ReaderNext(r)
  PROVE  Resolving'
<1>1. UNCHANGED <<columns, data, sharedPointers, cache, nextPointers>>
  BY ReaderKeeps DEF sharedVars, writerVars
<1>2. CASE UNCHANGED ptr
  BY <1>1, <1>2, Untouched
<1>3. ASSUME NEW p \in {Shared(asked[r]), NoPointer(Nobody)}, ptr' = [ptr EXCEPT ![r] = p]
      PROVE  Resolving'
  <2>1. CopiesExtend' /\ BatchResolves'
    <3>1. CopiesExtend'
      BY <1>1 DEF Resolving, CopiesExtend
    <3>2. PointerMap(nextPointers')
      BY <1>1, TypeParts DEF PointersOK
    <3> QED
      BY <1>1, <3>1, <3>2, BatchKeeps DEF Resolving, BatchResolves
  <2>2. \A e : Resolvable(NoPointer(e))
    BY DEF Resolvable, NoPointer
  <2>3. Resolvable(p)
    BY <2>2 DEF Resolving, PointersResolve, Shared
  <2>4. asked[r] \in Entities /\ Nobody \in Entities
    BY TypeParts, NobodyIsThere DEF ReadersOK, CallsOK
  <2>5. IsPointer(p)
    BY <2>4, SharedIsPointer, NoPointerIsPointer, TypeParts
  <2>6. DataGrows
    BY <1>1, SameGrows
  <2>7. \A q : IsPointer(q) /\ Resolvable(q) => Resolvable(q)'
    BY <2>6, PointerStays
  <2>8. PointersResolve'
    <3>1. \A e \in DOMAIN sharedPointers :
            IsPointer(sharedPointers[e]) /\ Resolvable(sharedPointers[e])
      BY TypeParts DEF PointersOK, PointerMap, Resolving, PointersResolve
    <3>2. \A q \in Readers : IsPointer(ptr[q]) /\ Resolvable(ptr[q])
      BY TypeParts DEF ReadersOK, HeldOK, Resolving, PointersResolve
    <3>3. \A q \in Readers : ptr'[q] = p \/ ptr'[q] = ptr[q]
      BY <1>3, TypeParts DEF ReadersOK, HeldOK
    <3> SUFFICES ASSUME NEW q, \/ \E e \in DOMAIN sharedPointers : q = sharedPointers[e]
                               \/ \E s \in Readers : q = ptr'[s]
                 PROVE  Resolvable(q)'
      BY <1>1 DEF PointersResolve, Resolvable
    <3>4. IsPointer(q) /\ Resolvable(q)
      BY <2>3, <2>5, <3>1, <3>2, <3>3
    <3> QED
      BY <2>7, <3>4
  <2> QED
    BY <2>1, <2>8 DEF Resolving
<1> QED
  BY <1>2, <1>3, ReaderPointers, Zenon

\* What holds of the types and the pointers together.
Sound == TypeOK /\ BlockOnDisk /\ Resolving

\* The initial states have no pointers but empty ones.
LEMMA InitSound ==
  ASSUME Init
  PROVE  Sound
<1>1. CopiesExtend /\ BatchResolves
  BY DEF Init, CopiesExtend, BatchResolves
<1>2. PointersResolve
  <2>1. \A r \in Readers : ptr[r] = NoPointer(asked[r])
    BY DEF Init
  <2>2. \A e : Resolvable(NoPointer(e))
    BY DEF Resolvable, NoPointer
  <2>3. DOMAIN sharedPointers = {}
    BY DEF Init
  <2> QED
    BY <2>1, <2>2, <2>3 DEF PointersResolve
<1> QED
  BY <1>1, <1>2, InitTypes DEF Sound, Resolving

\* Every step keeps them sound.
LEMMA StepSound ==
  ASSUME Sound, [Next]_vars
  PROVE  Sound'
<1>1. TypeOK' /\ BlockOnDisk'
  BY StepTypes DEF Sound
<1>2. CASE WriterNext
  BY <1>1, <1>2, WriterResolves DEF Sound
<1>3. ASSUME NEW r \in Readers, ReaderNext(r) PROVE Sound'
  BY <1>1, <1>3, ReaderResolves DEF Sound
<1>4. CASE UNCHANGED vars
  <2>1. UNCHANGED <<columns, data, cache, nextPointers, sharedPointers, ptr>>
    BY <1>4 DEF vars, sharedVars, writerVars, readerVars
  <2> QED
    BY <1>1, <2>1, Untouched DEF Sound
<1> QED
  BY <1>2, <1>3, <1>4 DEF Next

\* The invariant the reads' proofs start from.
LEMMA SoundHolds == Spec => []Sound
<1>1. Init => Sound
  BY InitSound
<1>2. Sound /\ [Next]_vars => Sound'
  BY StepSound
<1> QED
  BY <1>1, <1>2, PTL DEF Spec

\* Every pointer a reader can load or still holds designates published rows
\* that hold what the pointer's own write put there, whatever has been flushed,
\* promoted or deleted since (engine/partition.rs: the columns are flushed
\* before the pointers are swapped).
THEOREM PointersAlwaysResolve == Spec => []PointersResolve
<1>1. Sound => PointersResolve
  BY DEF Sound, Resolving
<1> QED
  BY <1>1, SoundHolds, PTL
-----------------------------------------------------------------------------
(* Answers *)

\* Every column was created for an attribute of some insert or record.
ColumnsTyped ==
    \A c \in columns : \E s \in AllShapes : c[2] \in DOMAIN s /\ s[c[2]] = c[1]

\* What a call has read is the write its pointer designates.
OneWrite(r) ==
    /\ rpc[r] \in {"idle", "load"} => got[r] = {}
    /\ mode[r] \in {"get", "record", "link"} =>
          \A x \in got[r] : x[2] = [ent |-> asked[r], ver |-> ptr[r].ver]

\* The columns a call has still to try are all of one attribute.
SameAttr(r) == \A i, j \in DOMAIN todo[r] : todo[r][i][2] = todo[r][j][2]

\* A Get of an attribute that stays published has its column still to try, and
\* the attribute in the pointer it tries it with.
Finding(r) ==
    (mode[r] = "get" /\ steady[r]) =>
        /\ rpc[r] \in {"load", "read"} =>
              /\ SameAttr(r)
              /\ \E i \in DOMAIN todo[r] : todo[r][i] \in columns
              /\ Names(sharedPointers, asked[r], Head(todo[r])[2])
        /\ rpc[r] = "read" => Head(todo[r])[2] \in DOMAIN ptr[r].idx
        /\ rpc[r] = "done" => got[r] # {}

\* The rows a scan or range must return are in the column it comes to.
Covering(r) ==
    /\ rpc[r] = "load" => mode[r] # "scan"
    /\ (mode[r] = "scan" /\ rpc[r] = "read") =>
          /\ SameAttr(r)
          /\ \A row \in due[r] : \E i \in DOMAIN todo[r] :
                /\ todo[r][i] \in columns
                /\ \E j \in DOMAIN data[todo[r][i]] : data[todo[r][i]][j] = row
    /\ (mode[r] = "range" /\ rpc[r] = "read") =>
          \A row \in due[r] :
             /\ Head(todo[r]) \in columns
             /\ Head(todo[r])[2] \in DOMAIN ptr[r].idx
             /\ row = [ent |-> ptr[r].ent, ver |-> ptr[r].ver]
    /\ (mode[r] \in {"scan", "range"} /\ rpc[r] = "done") =>
          due[r] \subseteq {x[2] : x \in got[r]}

Answering(r) == OneWrite(r) /\ Finding(r) /\ Covering(r)

Answers == ColumnsTyped /\ \A r \in Readers : Answering(r)

\* There is one column of an attribute.
LEMMA OneColumn ==
  ASSUME OneTypePerAttr, ColumnsTyped, TypeOK,
         NEW c \in columns, NEW d \in columns, c[2] = d[2]
  PROVE  c = d
<1>1. PICK s \in AllShapes : c[2] \in DOMAIN s /\ s[c[2]] = c[1]
  BY DEF ColumnsTyped
<1>2. PICK t \in AllShapes : d[2] \in DOMAIN t /\ t[d[2]] = d[1]
  BY DEF ColumnsTyped
<1>3. s[c[2]] = t[c[2]]
  BY <1>1, <1>2 DEF OneTypePerAttr, AllShapes
<1>4. c \in Types \X Attrs /\ d \in Types \X Attrs
  BY TypeParts DEF ColumnsOK, Cols
<1>5. c[1] = d[1]
  BY <1>1, <1>2, <1>3
<1> QED
  BY <1>4, <1>5

\* A resolving pointer's row is in the one column of the attribute.
LEMMA RowInColumn ==
  ASSUME OneTypePerAttr, ColumnsTyped, TypeOK, NEW p, IsPointer(p), Resolvable(p),
         NEW c \in columns, c[2] \in DOMAIN p.idx
  PROVE  /\ p.idx[c[2]] \in DOMAIN data[c]
         /\ data[c][p.idx[c[2]]] = [ent |-> p.ent, ver |-> p.ver]
<1> DEFINE a == c[2]
<1>1. PICK t \in Types : /\ <<t, a>> \in columns
                         /\ p.idx[a] \in DOMAIN data[<<t, a>>]
                         /\ data[<<t, a>>][p.idx[a]] = [ent |-> p.ent, ver |-> p.ver]
  BY DEF Resolvable, RowIs
<1>2. <<t, a>>[2] = a
  OBVIOUS
<1>3. <<t, a>> = c
  BY <1>1, <1>2, OneColumn
<1> QED
  BY <1>1, <1>3

\* The attributes a resolving pointer names have a column.
LEMMA NamedHasColumn ==
  ASSUME NEW p, Resolvable(p), NEW a \in DOMAIN p.idx
  PROVE  \E t \in Types : <<t, a>> \in columns
BY DEF Resolvable, RowIs

\* A step of the partition thread only makes the published columns longer.
LEMMA WriterGrows ==
  ASSUME Sound, WriterNext
  PROVE  DataGrows
<1> USE DEF sharedVars
<1>1. CASE Receive \/ PromoteEnd \/ EndBatch \/ SwapDiskIndex \/ Publish
  <2>1. UNCHANGED <<columns, data>>
    BY <1>1, Zenon DEF Receive, PromoteEnd, EndBatch, SwapDiskIndex, Publish
  <2> QED
    BY <2>1, SameGrows
<1>2. ASSUME NEW e \in Entities, Delete(e) \/ LoadHot(e) \/ LoadCold(e)
      PROVE  DataGrows
  <2>1. UNCHANGED <<columns, data>>
    BY <1>2, Zenon DEF Delete, LoadHot, LoadCold
  <2> QED
    BY <2>1, SameGrows
<1>3. ASSUME NEW e \in Entities, NEW shape \in Shapes, Insert(e, shape)
      PROVE  DataGrows
  <2>1. UNCHANGED data /\ columns \subseteq columns'
    BY <1>3 DEF Insert, AppendRows
  <2> QED
    BY <2>1, SameGrows
<1>4. ASSUME NEW e \in Entities, Promote(e)
      PROVE  DataGrows
  <2>1. UNCHANGED data /\ columns \subseteq columns'
    BY <1>4 DEF Promote, AppendRows
  <2> QED
    BY <2>1, SameGrows
<1>5. ASSUME NEW c \in Cols, FlushColumn(c)
      PROVE  DataGrows
  <2>1. /\ c \in DOMAIN cache /\ UNCHANGED columns
        /\ data' = [data EXCEPT ![c] = cache[c]]
    BY <1>5, Zenon DEF FlushColumn
  <2>2. data \in [Cols -> Seq(Row)]
    BY TypeParts DEF Sound, ColumnsOK
  <2>3. \A d \in Cols : data'[d] = IF d = c THEN cache[c] ELSE data[d]
    BY <2>1, <2>2
  <2> QED
    BY <2>1, <2>3 DEF DataGrows, Extends, Sound, Resolving, CopiesExtend
<1> QED
  BY <1>1, <1>2, <1>3, <1>4, <1>5, Zenon DEF WriterNext

\* Columns are created for the attributes of a shape only.
LEMMA WriterTyped ==
  ASSUME Sound, ColumnsTyped, WriterNext
  PROVE  ColumnsTyped'
<1> USE DEF sharedVars
<1>1. ASSUME UNCHANGED columns PROVE ColumnsTyped'
  BY <1>1 DEF ColumnsTyped
<1>2. ASSUME NEW shape \in AllShapes, columns' = columns \cup ColsOf(shape)
      PROVE  ColumnsTyped'
  BY <1>2 DEF ColumnsTyped, ColsOf
<1>3. CASE Receive \/ PromoteEnd \/ EndBatch \/ SwapDiskIndex \/ Publish
  BY <1>1, <1>3, Zenon DEF Receive, PromoteEnd, EndBatch, SwapDiskIndex, Publish
<1>4. ASSUME NEW e \in Entities, Delete(e) \/ LoadHot(e) \/ LoadCold(e)
      PROVE  ColumnsTyped'
  BY <1>1, <1>4, Zenon DEF Delete, LoadHot, LoadCold
<1>5. ASSUME NEW e \in Entities, NEW shape \in Shapes, Insert(e, shape)
      PROVE  ColumnsTyped'
  BY <1>2, <1>5 DEF Insert, AppendRows, AllShapes
<1>6. ASSUME NEW e \in Entities, Promote(e)
      PROVE  ColumnsTyped'
  <2>1. diskIndex[e] \in Record
    BY <1>6, TypeParts DEF Promote, Sound, BlockOnDisk, DiskOK, RecordMap
  <2> QED
    BY <1>2, <1>6, <2>1 DEF Promote, AppendRows, Record, AllShapes
<1>7. ASSUME NEW c \in Cols, FlushColumn(c)
      PROVE  ColumnsTyped'
  BY <1>1, <1>7, Zenon DEF FlushColumn
<1> QED
  BY <1>3, <1>4, <1>5, <1>6, <1>7, Zenon DEF WriterNext

\* A step of the partition thread other than a swap of the pointers touches no
\* reader.
LEMMA WriterOrPublish ==
  ASSUME WriterNext
  PROVE  \/ Publish
         \/ UNCHANGED <<sharedPointers, readerVars>>
<1> USE DEF sharedVars
<1>1. CASE Receive \/ PromoteEnd \/ EndBatch \/ SwapDiskIndex
  BY <1>1, Zenon DEF Receive, PromoteEnd, EndBatch, SwapDiskIndex
<1>2. ASSUME NEW e \in Entities, Delete(e) \/ LoadHot(e) \/ LoadCold(e) \/ Promote(e)
      PROVE  UNCHANGED <<sharedPointers, readerVars>>
  BY <1>2, Zenon DEF Delete, LoadHot, LoadCold, Promote
<1>3. ASSUME NEW e \in Entities, NEW shape \in Shapes, Insert(e, shape)
      PROVE  UNCHANGED <<sharedPointers, readerVars>>
  BY <1>3, Zenon DEF Insert
<1>4. ASSUME NEW c \in Cols, FlushColumn(c)
      PROVE  UNCHANGED <<sharedPointers, readerVars>>
  BY <1>4, Zenon DEF FlushColumn
<1> QED
  BY <1>1, <1>2, <1>3, <1>4, Zenon DEF WriterNext

\* The partition thread leaves what readers have and still need in place.
LEMMA WriterAnswers ==
  ASSUME Sound, NEW r \in Readers, Answering(r), WriterNext
  PROVE  Answering(r)'
<1>0. DataGrows /\ columns \subseteq Cols
  BY WriterGrows, TypeParts DEF Sound, ColumnsOK
<1>1. CASE UNCHANGED <<sharedPointers, readerVars>>
  <2>0. UNCHANGED <<sharedPointers, rpc, mode, asked, ptr, todo, got, steady, due>>
    BY <1>1 DEF readerVars
  <2>1. OneWrite(r)'
    BY <2>0 DEF Answering, OneWrite
  <2>2. Finding(r)'
    BY <1>0, <2>0 DEF Answering, Finding, SameAttr, Names, DataGrows
  <2>3. Covering(r)'
    BY <1>0, <2>0 DEF Answering, Covering, SameAttr, DataGrows, Extends
  <2> QED
    BY <2>1, <2>2, <2>3 DEF Answering
<1>2. CASE Publish
  <2>0. /\ UNCHANGED <<columns, data, rpc, mode, asked, ptr, todo, got, due>>
        /\ sharedPointers' = nextPointers
        /\ steady' = [q \in Readers |->
                         /\ steady[q]
                         /\ todo[q] # <<>> => Names(nextPointers, asked[q], Head(todo[q])[2])]
    BY <1>2, Zenon DEF Publish
  <2>1. OneWrite(r)'
    BY <2>0 DEF Answering, OneWrite
  <2>2. Finding(r)'
    <3> SUFFICES ASSUME mode[r] = "get", steady'[r]
                 PROVE  /\ rpc[r] \in {"load", "read"} =>
                              /\ SameAttr(r)
                              /\ \E i \in DOMAIN todo[r] : todo[r][i] \in columns
                              /\ Names(nextPointers, asked[r], Head(todo[r])[2])
                        /\ rpc[r] = "read" => Head(todo[r])[2] \in DOMAIN ptr[r].idx
                        /\ rpc[r] = "done" => got[r] # {}
      BY <2>0 DEF Finding, SameAttr, Names
    <3>1. steady[r] /\ (todo[r] # <<>> => Names(nextPointers, asked[r], Head(todo[r])[2]))
      BY <2>0
    <3>2. \A i \in DOMAIN todo[r] : todo[r] # <<>>
      OBVIOUS
    <3> QED
      BY <3>1, <3>2 DEF Answering, Finding
  <2>3. Covering(r)'
    BY <2>0 DEF Answering, Covering, SameAttr
  <2> QED
    BY <2>1, <2>2, <2>3 DEF Answering
<1> QED
  BY <1>1, <1>2, WriterOrPublish

\* A reader's step is not another's.
LEMMA Others ==
  ASSUME TypeOK, NEW r \in Readers, ReaderNext(r), NEW q \in Readers, q # r
  PROVE  /\ rpc'[q] = rpc[q] /\ mode'[q] = mode[q] /\ asked'[q] = asked[q] /\ ptr'[q] = ptr[q]
         /\ todo'[q] = todo[q] /\ got'[q] = got[q] /\ steady'[q] = steady[q] /\ due'[q] = due[q]
<1> DEFINE Same == /\ rpc'[q] = rpc[q] /\ mode'[q] = mode[q] /\ asked'[q] = asked[q]
                   /\ ptr'[q] = ptr[q] /\ todo'[q] = todo[q] /\ got'[q] = got[q]
                   /\ steady'[q] = steady[q] /\ due'[q] = due[q]
<1>0. /\ CallsOK /\ TodoOK /\ ResultsOK
      /\ ptr = [p \in Readers |-> ptr[p]]
  BY TypeParts DEF ReadersOK, HeldOK
<1> USE <1>0 DEF CallsOK, TodoOK, ResultsOK
<1>1. ASSUME NEW m, NEW e, NEW cols, Begin(r, m, e, cols),
             steady'[q] = steady[q], due'[q] = due[q]
      PROVE  Same
  BY <1>1 DEF Begin
<1>2. ASSUME NEW e \in Entities, NEW a \in Attrs, BeginGet(r, e, a) PROVE Same
  <2>1. steady'[q] = steady[q] /\ due'[q] = due[q]
    BY <1>2 DEF BeginGet
  <2> QED
    BY <1>1, <1>2, <2>1, Zenon DEF BeginGet
<1>3. ASSUME NEW e \in Entities, BeginOther(r, e) PROVE Same
  <2>1. steady'[q] = steady[q] /\ due'[q] = due[q]
    BY <1>3 DEF BeginOther
  <2> QED
    BY <1>1, <1>3, <2>1, Zenon DEF BeginOther
<1>4. ASSUME NEW a \in Attrs, BeginScan(r, a) PROVE Same
  <2>1. steady'[q] = steady[q] /\ due'[q] = due[q]
    BY <1>4 DEF BeginScan
  <2> QED
    BY <1>1, <1>4, <2>1, Zenon DEF BeginScan
<1>5. ASSUME NEW e \in Entities, NEW a \in Attrs, FollowLink(r, e, a) PROVE Same
  BY <1>5 DEF FollowLink
<1>6. ASSUME NEW n \in RangeLens, ReadRange(r, n) PROVE Same
  BY <1>6 DEF ReadRange
<1>7. ASSUME LoadPointer(r) PROVE Same
  BY <1>7 DEF LoadPointer
<1>8. ASSUME ReadHit(r) PROVE Same
  BY <1>8 DEF ReadHit
<1>9. ASSUME ReadMiss(r) PROVE Same
  BY <1>9 DEF ReadMiss
<1>10. ASSUME ScanColumn(r) PROVE Same
  BY <1>10 DEF ScanColumn
<1>11. ASSUME Return(r) PROVE Same
  BY <1>11 DEF Return
<1> HIDE DEF Same
<1>12. Same
  BY <1>2, <1>3, <1>4, <1>5, <1>6, <1>7, <1>8, <1>9, <1>10, <1>11, Zenon DEF ReaderNext
<1> QED
  BY <1>12 DEF Same

\* What remains of a list of columns after its first.
LEMMA Rest ==
  ASSUME NEW s \in Seq(Cols), NEW i \in DOMAIN s
  PROVE  /\ s # <<>> /\ Head(s) \in Cols /\ 1 \in DOMAIN s /\ Head(s) = s[1]
         /\ s[i] # Head(s) => Len(s) # 1 /\ \E j \in DOMAIN Tail(s) : Tail(s)[j] = s[i]
         /\ \A j \in DOMAIN Tail(s) : j + 1 \in DOMAIN s /\ Tail(s)[j] = s[j + 1]
<1>1. /\ s # <<>> /\ Head(s) \in Cols /\ 1 \in DOMAIN s /\ Head(s) = s[1]
      /\ \A j \in DOMAIN Tail(s) : j + 1 \in DOMAIN s /\ Tail(s)[j] = s[j + 1]
  OBVIOUS
<1>2. ASSUME s[i] # Head(s)
      PROVE  Len(s) # 1 /\ i - 1 \in DOMAIN Tail(s) /\ Tail(s)[i - 1] = s[i]
  BY <1>2
<1> QED
  BY <1>1, <1>2

\* A Get and a Scan try the attribute in every family.
LEMMA TryAllTries ==
  ASSUME NEW a \in Attrs
  PROVE  /\ TryAll(a) \in Seq(Cols)
         /\ \A i \in DOMAIN TryAll(a) : TryAll(a)[i][2] = a
         /\ \A t \in Types : \E i \in DOMAIN TryAll(a) : TryAll(a)[i] = <<t, a>>
         /\ Head(TryAll(a))[2] = a
<1>1. TryAll(a) \in Seq(Cols)
  BY TriedCols
<1>2. \A i \in DOMAIN TryAll(a) : TryAll(a)[i][2] = a
  BY DEF TryAll
<1>3. \A t \in Types : \E i \in DOMAIN TryAll(a) : TryAll(a)[i] = <<t, a>>
  BY PartitionAssumption DEF TryAll
<1>4. 1 \in DOMAIN TryAll(a)
  BY PartitionAssumption DEF TryAll
<1>5. Head(TryAll(a)) = TryAll(a)[1]
  BY <1>1, <1>4, Rest
<1> QED
  BY <1>1, <1>2, <1>3, <1>4, <1>5

\* An attribute that is published is found in some family a Get tries.
LEMMA NamedIsTried ==
  ASSUME Sound, NEW e \in Entities, NEW a \in Attrs, Names(sharedPointers, e, a)
  PROVE  \E i \in DOMAIN TryAll(a) : TryAll(a)[i] \in columns
<1>1. Resolvable(sharedPointers[e]) /\ a \in DOMAIN sharedPointers[e].idx
  BY DEF Names, Sound, Resolving, PointersResolve
<1>2. PICK t \in Types : <<t, a>> \in columns
  BY <1>1, NamedHasColumn
<1> QED
  BY <1>2, TryAllTries

\* What a call that begins has: nothing yet.
LEMMA BeginFacts ==
  ASSUME TypeOK, NEW r \in Readers, NEW m, NEW e, NEW cols, Begin(r, m, e, cols)
  PROVE  /\ rpc'[r] = IF m = "scan" THEN "read" ELSE "load"
         /\ mode'[r] = m /\ asked'[r] = e /\ todo'[r] = cols /\ got'[r] = {}
         /\ UNCHANGED <<columns, data, sharedPointers>>
<1>1. CallsOK /\ TodoOK /\ ResultsOK
  BY TypeParts DEF ReadersOK
<1> QED
  BY <1>1 DEF Begin, sharedVars, CallsOK, TodoOK, ResultsOK

\* A Get begins, of its own or at the end of a link.
LEMMA GetBegins ==
  ASSUME Sound, NEW r \in Readers, NEW e \in Entities, NEW a \in Attrs,
         rpc'[r] = "load", mode'[r] = "get", asked'[r] = e, todo'[r] = TryAll(a), got'[r] = {},
         steady'[r] = Names(sharedPointers, e, a), UNCHANGED <<columns, sharedPointers>>
  PROVE  Answering(r)'
<1>1. OneWrite(r)' /\ Covering(r)'
  BY DEF OneWrite, Covering
<1>2. Finding(r)'
  <2> SUFFICES ASSUME Names(sharedPointers, e, a)
               PROVE  /\ SameAttr(r)'
                      /\ \E i \in DOMAIN TryAll(a) : TryAll(a)[i] \in columns
                      /\ Names(sharedPointers, e, Head(TryAll(a))[2])
    BY DEF Finding, Names
  <2>1. SameAttr(r)'
    BY TryAllTries DEF SameAttr
  <2> QED
    BY <2>1, NamedIsTried, TryAllTries
<1> QED
  BY <1>1, <1>2 DEF Answering

\* A scan begins: every row it must return is in the column it comes to.
LEMMA ScanBegins ==
  ASSUME OneTypePerAttr, Sound, ColumnsTyped, NEW r \in Readers, NEW a \in Attrs, BeginScan(r, a)
  PROVE  Answering(r)'
<1>1. PICK cols \in {TryAll(a), <<IntColumn(a)>>} :
        /\ Begin(r, "scan", asked[r], cols)
        /\ due' = [due EXCEPT ![r] = UNION {Designated(cols[i]) : i \in DOMAIN cols}]
  BY Zenon DEF BeginScan
<1>2. /\ rpc'[r] = "read" /\ mode'[r] = "scan" /\ asked'[r] = asked[r]
      /\ todo'[r] = cols /\ got'[r] = {} /\ UNCHANGED <<columns, data, sharedPointers>>
  BY <1>1, BeginFacts DEF Sound
<1>3. due'[r] = UNION {Designated(cols[i]) : i \in DOMAIN cols}
  BY <1>1, TypeParts DEF Sound, ReadersOK, ResultsOK
<1>4. \A i \in DOMAIN cols : cols[i][2] = a
  BY TryAllTries DEF IntColumn
<1>5. \A row \in due'[r] : \E i \in DOMAIN cols :
         cols[i] \in columns /\ \E j \in DOMAIN data[cols[i]] : data[cols[i]][j] = row
  <2> SUFFICES ASSUME NEW row \in due'[r]
               PROVE  \E i \in DOMAIN cols :
                        cols[i] \in columns /\ \E j \in DOMAIN data[cols[i]] : data[cols[i]][j] = row
    OBVIOUS
  <2>1. PICK i \in DOMAIN cols : row \in Designated(cols[i])
    BY <1>3
  <2>2. PICK f \in DOMAIN sharedPointers :
          /\ cols[i] \in columns
          /\ cols[i][2] \in DOMAIN sharedPointers[f].idx
          /\ row = [ent |-> f, ver |-> sharedPointers[f].ver]
    BY <2>1 DEF Designated, Names
  <2>3. /\ IsPointer(sharedPointers[f]) /\ sharedPointers[f].ent = f
        /\ Resolvable(sharedPointers[f])
    BY TypeParts DEF Sound, PointersOK, PointerMap, Resolving, PointersResolve
  <2>4. LET k == sharedPointers[f].idx[cols[i][2]]
        IN  k \in DOMAIN data[cols[i]] /\ data[cols[i]][k] = row
    BY <2>2, <2>3, RowInColumn DEF Sound
  <2> QED
    BY <2>2, <2>4
<1>6. OneWrite(r)' /\ Finding(r)'
  BY <1>2 DEF OneWrite, Finding
<1>7. Covering(r)'
  <2>1. SameAttr(r)'
    BY <1>2, <1>4 DEF SameAttr
  <2> QED
    BY <1>2, <1>5, <2>1 DEF Covering
<1> QED
  BY <1>6, <1>7 DEF Answering

\* A pointer is loaded.
LEMMA LoadAnswers ==
  ASSUME Sound, NEW r \in Readers, Answering(r), LoadPointer(r)
  PROVE  Answering(r)'
<1>0. CallsOK /\ HeldOK /\ TodoOK /\ ResultsOK
  BY TypeParts DEF Sound, ReadersOK
<1>1. /\ rpc[r] = "load" /\ rpc'[r] = "read"
      /\ ptr'[r] = Shared(asked[r])
      /\ due'[r] = IF mode[r] = "range"
                   THEN {row \in Designated(Head(todo[r])) : row.ent = asked[r]} ELSE {}
      /\ UNCHANGED <<columns, data, sharedPointers, mode, asked, todo, got, steady>>
  BY <1>0 DEF LoadPointer, sharedVars, CallsOK, HeldOK, ResultsOK
<1>2. OneWrite(r)'
  BY <1>1 DEF Answering, OneWrite
<1>3. Finding(r)'
  <2> SUFFICES ASSUME mode[r] = "get", steady[r]
               PROVE  /\ SameAttr(r)
                      /\ \E i \in DOMAIN todo[r] : todo[r][i] \in columns
                      /\ Names(sharedPointers, asked[r], Head(todo[r])[2])
                      /\ Head(todo[r])[2] \in DOMAIN ptr'[r].idx
    BY <1>1 DEF Finding, SameAttr, Names
  <2>1. /\ SameAttr(r)
        /\ \E i \in DOMAIN todo[r] : todo[r][i] \in columns
        /\ Names(sharedPointers, asked[r], Head(todo[r])[2])
    BY <1>1 DEF Answering, Finding
  <2> QED
    BY <1>1, <2>1 DEF Names, Shared
<1>4. Covering(r)'
  <2> SUFFICES ASSUME mode[r] = "range", NEW row \in due'[r]
               PROVE  /\ Head(todo[r]) \in columns
                      /\ Head(todo[r])[2] \in DOMAIN ptr'[r].idx
                      /\ row = [ent |-> ptr'[r].ent, ver |-> ptr'[r].ver]
    BY <1>1 DEF Answering, Covering
  <2>1. row \in Designated(Head(todo[r])) /\ row.ent = asked[r]
    BY <1>1
  <2>2. PICK f \in DOMAIN sharedPointers :
          /\ Head(todo[r]) \in columns
          /\ Head(todo[r])[2] \in DOMAIN sharedPointers[f].idx
          /\ row = [ent |-> f, ver |-> sharedPointers[f].ver]
    BY <2>1 DEF Designated, Names
  <2>3. f = asked[r]
    BY <2>1, <2>2
  <2>4. sharedPointers[f].ent = f
    BY TypeParts DEF Sound, PointersOK, PointerMap
  <2> QED
    BY <1>1, <2>2, <2>3, <2>4 DEF Shared
<1> QED
  BY <1>2, <1>3, <1>4 DEF Answering

\* A read through the pointer finds the row of the pointer's own write.
LEMMA HitAnswers ==
  ASSUME OneTypePerAttr, Sound, ColumnsTyped, NEW r \in Readers, Answering(r), ReadHit(r)
  PROVE  Answering(r)'
<1>0. CallsOK /\ HeldOK /\ TodoOK /\ ResultsOK
  BY TypeParts DEF Sound, ReadersOK
<1> DEFINE c == Head(todo[r])
           p == ptr[r]
           row == data[c][p.idx[c[2]]]
<1>1. /\ rpc[r] = "read" /\ mode[r] \in {"get", "record", "link"}
      /\ Found(p, c)
      /\ UNCHANGED <<mode, asked, ptr>>
  BY Zenon DEF ReadHit, PointRead, Resolver
<1>2. got'[r] = got[r] \cup {<<c, row>>}
  BY <1>0 DEF ReadHit, Resolver, ResultsOK
<1>3. rpc'[r] \in {"read", "done"} /\ (mode[r] = "get" => rpc'[r] = "done")
  BY <1>0 DEF ReadHit, CallsOK
<1>4. row = [ent |-> asked[r], ver |-> p.ver]
  <2>1. c \in columns /\ c[2] \in DOMAIN p.idx
    BY <1>1, Zenon DEF Found, HasColumn
  <2>2. IsPointer(p) /\ p.ent = asked[r]
    BY <1>0, <1>1 DEF HeldOK, HasPointer
  <2>3. Resolvable(p)
    BY DEF Sound, Resolving, PointersResolve
  <2>4. TypeOK
    BY DEF Sound
  <2> HIDE DEF c, p
  <2>5. data[c][p.idx[c[2]]] = [ent |-> p.ent, ver |-> p.ver]
    BY <2>1, <2>2, <2>3, <2>4, RowInColumn
  <2> QED
    BY <2>2, <2>5 DEF row
<1> HIDE DEF c, p, row
<1>5. OneWrite(r)'
  <2>1. \A x \in got'[r] : x[2] = [ent |-> asked[r], ver |-> ptr[r].ver]
    BY <1>1, <1>2, <1>4 DEF Answering, OneWrite, p
  <2> QED
    BY <1>1, <1>3, <2>1 DEF OneWrite
<1>6. Finding(r)'
  BY <1>1, <1>2, <1>3 DEF Finding
<1>7. Covering(r)'
  BY <1>1, <1>3 DEF Covering
<1> QED
  BY <1>5, <1>6, <1>7 DEF Answering

\* A Get that misses in one family still has the right one to try.
LEMMA MissAnswers ==
  ASSUME OneTypePerAttr, Sound, ColumnsTyped, NEW r \in Readers, Answering(r), ReadMiss(r)
  PROVE  Answering(r)'
<1>0. CallsOK /\ HeldOK /\ TodoOK /\ ResultsOK /\ TypeOK
  BY TypeParts DEF Sound, ReadersOK
<1> DEFINE c == Head(todo[r])
           p == ptr[r]
<1>1. /\ rpc[r] = "read" /\ mode[r] \in {"get", "record", "link"}
      /\ ~Found(p, c)
      /\ UNCHANGED <<columns, sharedPointers, mode, asked, ptr, steady>>
  BY Zenon DEF ReadMiss, PointRead, Resolver, sharedVars
<1>2. /\ got'[r] = {}
      /\ rpc'[r] = IF mode[r] # "get" \/ Len(todo[r]) = 1 THEN "done" ELSE "load"
      /\ todo'[r] = IF mode[r] # "get" \/ Len(todo[r]) = 1 THEN <<>> ELSE Tail(todo[r])
  BY <1>0 DEF ReadMiss, CallsOK, TodoOK, ResultsOK
<1>3. OneWrite(r)' /\ Covering(r)'
  BY <1>1, <1>2 DEF OneWrite, Covering
<1>4. Finding(r)'
  <2> SUFFICES ASSUME mode[r] = "get", steady[r]
               PROVE  /\ rpc'[r] = "load"
                      /\ SameAttr(r)'
                      /\ \E i \in DOMAIN todo'[r] : todo'[r][i] \in columns
                      /\ Names(sharedPointers, asked[r], Head(todo'[r])[2])
    BY <1>1 DEF Finding, Names
  <2>1. /\ SameAttr(r) /\ Names(sharedPointers, asked[r], c[2])
        /\ c[2] \in DOMAIN p.idx
    BY <1>1 DEF Answering, Finding
  <2>2. PICK i \in DOMAIN todo[r] : todo[r][i] \in columns
    BY <1>1 DEF Answering, Finding
  <2>3. IsPointer(p) /\ Resolvable(p)
    BY <1>0 DEF HeldOK, Sound, Resolving, PointersResolve
  <2>4. c \notin columns
    <3> SUFFICES ASSUME c \in columns PROVE FALSE
      OBVIOUS
    <3> HIDE DEF c, p
    <3>1. p.idx[c[2]] \in DOMAIN data[c]
      BY <1>0, <2>1, <2>3, RowInColumn
    <3>2. data[c] \in Seq(Row)
      BY <1>0, TypeParts DEF ColumnsOK
    <3>3. p.idx[c[2]] <= Len(data[c])
      BY <3>1, <3>2
    <3> QED
      BY <1>1, <2>1, <3>3, Zenon DEF Found, HasColumn
  <2>5. todo[r] \in Seq(Cols)
    BY <1>0 DEF TodoOK
  <2>6. todo[r][i] # Head(todo[r])
    BY <2>2, <2>4
  <2>7. /\ Len(todo[r]) # 1 /\ \E j \in DOMAIN Tail(todo[r]) : Tail(todo[r])[j] = todo[r][i]
        /\ \A j \in DOMAIN Tail(todo[r]) : j + 1 \in DOMAIN todo[r]
                                           /\ Tail(todo[r])[j] = todo[r][j + 1]
        /\ 1 \in DOMAIN todo[r] /\ c = todo[r][1] /\ todo[r] # <<>>
    BY <2>5, <2>6, Rest
  <2>8. rpc'[r] = "load" /\ todo'[r] = Tail(todo[r])
    BY <1>2, <2>7
  <2>9. SameAttr(r)'
    BY <2>1, <2>7, <2>8 DEF SameAttr
  <2>10. Head(Tail(todo[r]))[2] = c[2]
    <3>1. Tail(todo[r]) \in Seq(Cols)
      BY <2>5, <2>7, HeadTail
    <3>2. PICK j \in DOMAIN Tail(todo[r]) : TRUE
      BY <2>7
    <3>3. 1 \in DOMAIN Tail(todo[r]) /\ Head(Tail(todo[r])) = Tail(todo[r])[1]
      BY <3>1, <3>2, Rest
    <3>4. 2 \in DOMAIN todo[r] /\ Tail(todo[r])[1] = todo[r][2]
      <4>1. 1 + 1 \in DOMAIN todo[r] /\ Tail(todo[r])[1] = todo[r][1 + 1]
        BY <2>7, <3>3, Zenon
      <4> QED
        BY <4>1
    <3> QED
      BY <2>1, <2>7, <3>3, <3>4 DEF SameAttr
  <2> QED
    BY <2>1, <2>2, <2>7, <2>8, <2>9, <2>10
<1> QED
  BY <1>3, <1>4 DEF Answering

\* A scan comes to the column that has the rows it must return.
LEMMA ScanAnswers ==
  ASSUME OneTypePerAttr, Sound, ColumnsTyped, NEW r \in Readers, Answering(r), ScanColumn(r)
  PROVE  Answering(r)'
<1>0. CallsOK /\ TodoOK /\ ResultsOK /\ ColumnsOK /\ TypeOK
  BY TypeParts DEF Sound, ReadersOK
<1> DEFINE c == Head(todo[r])
           last == c \in columns \/ Len(todo[r]) = 1
<1>1. /\ rpc[r] = "read" /\ mode[r] = "scan"
      /\ UNCHANGED <<columns, data, sharedPointers, mode, asked, ptr, due>>
  BY Zenon DEF ScanColumn, sharedVars
<1>2. /\ got'[r] = IF c \in columns THEN ScanAll(c) ELSE {}
      /\ rpc'[r] = IF last THEN "done" ELSE "read"
      /\ todo'[r] = IF last THEN <<>> ELSE Tail(todo[r])
  BY <1>0 DEF ScanColumn, CallsOK, TodoOK, ResultsOK, HasColumn
<1>3. OneWrite(r)' /\ Finding(r)'
  BY <1>1, <1>2 DEF OneWrite, Finding
<1>4. SameAttr(r) /\ \A row \in due[r] : \E i \in DOMAIN todo[r] :
         todo[r][i] \in columns /\ \E j \in DOMAIN data[todo[r][i]] : data[todo[r][i]][j] = row
  BY <1>1 DEF Answering, Covering
<1>5. todo[r] \in Seq(Cols)
  BY <1>0 DEF TodoOK
<1>6. CASE c \in columns
  <2>1. \A row \in due[r] : \E j \in DOMAIN data[c] : data[c][j] = row
    <3> SUFFICES ASSUME NEW row \in due[r]
                 PROVE  \E j \in DOMAIN data[c] : data[c][j] = row
      OBVIOUS
    <3>1. PICK i \in DOMAIN todo[r] :
            /\ todo[r][i] \in columns
            /\ \E j \in DOMAIN data[todo[r][i]] : data[todo[r][i]][j] = row
      BY <1>4
    <3>2. 1 \in DOMAIN todo[r] /\ c = todo[r][1]
      BY <1>5, <3>1, Rest
    <3>3. todo[r][i][2] = c[2]
      BY <1>4, <3>1, <3>2 DEF SameAttr
    <3> HIDE DEF c
    <3>4. todo[r][i] = c
      BY <1>0, <1>6, <3>1, <3>3, OneColumn
    <3> QED
      BY <3>1, <3>4
  <2>2. c \in Cols /\ data[c] \in Seq(Row)
    BY <1>0, <1>6 DEF ColumnsOK
  <2> HIDE DEF c
  <2>3. \A j \in DOMAIN data[c] : <<c, data[c][j]>> \in ScanAll(c)
    BY <2>2 DEF ScanAll, RowsFrom
  <2>4. due[r] \subseteq {x[2] : x \in ScanAll(c)}
    <3> SUFFICES ASSUME NEW row \in due[r] PROVE row \in {x[2] : x \in ScanAll(c)}
      OBVIOUS
    <3>1. PICK j \in DOMAIN data[c] : data[c][j] = row
      BY <2>1
    <3>2. <<c, row>> \in ScanAll(c) /\ <<c, row>>[2] = row
      BY <2>3, <3>1
    <3> QED
      BY <3>2
  <2>5. Covering(r)'
    BY <1>1, <1>2, <1>6, <2>4 DEF Covering
  <2> QED
    BY <1>3, <2>5 DEF Answering
<1>7. CASE c \notin columns
  <2>1. \A row \in due[r] : \E i \in DOMAIN todo[r] :
          /\ todo[r][i] \in columns /\ todo[r][i] # Head(todo[r])
          /\ \E j \in DOMAIN data[todo[r][i]] : data[todo[r][i]][j] = row
    BY <1>4, <1>7
  <2>2. Len(todo[r]) = 1 => due[r] = {}
    BY <1>5, <2>1, Rest
  <2>3. Len(todo[r]) # 1 => SameAttr(r)'
    <3> SUFFICES ASSUME Len(todo[r]) # 1,
                        NEW i \in DOMAIN Tail(todo[r]), NEW j \in DOMAIN Tail(todo[r])
                 PROVE  Tail(todo[r])[i][2] = Tail(todo[r])[j][2]
      BY <1>2, <1>7 DEF SameAttr
    <3>1. todo[r] # <<>>
      BY DEF ScanColumn
    <3>2. /\ i + 1 \in DOMAIN todo[r] /\ Tail(todo[r])[i] = todo[r][i + 1]
          /\ j + 1 \in DOMAIN todo[r] /\ Tail(todo[r])[j] = todo[r][j + 1]
      BY <1>5, <3>1
    <3> QED
      BY <1>4, <3>2 DEF SameAttr
  <2>4. \A row \in due[r] : \E i \in DOMAIN Tail(todo[r]) :
          /\ Tail(todo[r])[i] \in columns
          /\ \E j \in DOMAIN data[Tail(todo[r])[i]] : data[Tail(todo[r])[i]][j] = row
    <3> SUFFICES ASSUME NEW row \in due[r]
                 PROVE  \E i \in DOMAIN Tail(todo[r]) :
                          /\ Tail(todo[r])[i] \in columns
                          /\ \E j \in DOMAIN data[Tail(todo[r])[i]] : data[Tail(todo[r])[i]][j] = row
      OBVIOUS
    <3>1. PICK i \in DOMAIN todo[r] :
            /\ todo[r][i] \in columns /\ todo[r][i] # Head(todo[r])
            /\ \E j \in DOMAIN data[todo[r][i]] : data[todo[r][i]][j] = row
      BY <2>1
    <3>2. PICK k \in DOMAIN Tail(todo[r]) : Tail(todo[r])[k] = todo[r][i]
      BY <1>5, <3>1, Rest
    <3> QED
      BY <3>1, <3>2
  <2>5. CASE Len(todo[r]) = 1
    BY <1>1, <1>2, <1>3, <2>2, <2>5 DEF Covering, Answering
  <2>6. CASE Len(todo[r]) # 1
    <3>1. rpc'[r] = "read" /\ todo'[r] = Tail(todo[r])
      BY <1>2, <1>7, <2>6
    <3>2. SameAttr(r)'
      BY <2>3, <2>6
    <3>3. \A row \in due'[r] : \E i \in DOMAIN todo'[r] :
            /\ todo'[r][i] \in columns'
            /\ \E j \in DOMAIN data'[todo'[r][i]] : data'[todo'[r][i]][j] = row
      <4>1. due'[r] = due[r] /\ data' = data /\ columns' = columns
        BY <1>1
      <4> SUFFICES ASSUME NEW row \in due'[r]
                   PROVE  \E i \in DOMAIN todo'[r] :
                            /\ todo'[r][i] \in columns'
                            /\ \E j \in DOMAIN data'[todo'[r][i]] : data'[todo'[r][i]][j] = row
        OBVIOUS
      <4>2. PICK i \in DOMAIN Tail(todo[r]) :
              /\ Tail(todo[r])[i] \in columns
              /\ \E j \in DOMAIN data[Tail(todo[r])[i]] : data[Tail(todo[r])[i]][j] = row
        BY <2>4, <4>1
      <4>3. i \in DOMAIN todo'[r] /\ todo'[r][i] = Tail(todo[r])[i]
        BY <3>1, <4>2
      <4> QED
        BY <4>1, <4>2, <4>3
    <3>4. mode'[r] = "scan"
      BY <1>1
    <3>5. Covering(r)'
      BY <3>1, <3>2, <3>3, <3>4, Zenon DEF Covering
    <3> QED
      BY <1>3, <3>5 DEF Answering
  <2> QED
    BY <2>5, <2>6
<1> QED
  BY <1>6, <1>7

\* A range contains the row it is anchored at.
LEMMA RangeAnswers ==
  ASSUME OneTypePerAttr, Sound, ColumnsTyped, NEW r \in Readers, Answering(r),
         NEW n \in RangeLens, ReadRange(r, n)
  PROVE  Answering(r)'
<1>0. CallsOK /\ HeldOK /\ TodoOK /\ ResultsOK /\ ColumnsOK /\ TypeOK
  BY TypeParts DEF Sound, ReadersOK
<1> DEFINE c == Head(todo[r])
           p == ptr[r]
<1>1. /\ rpc[r] = "read" /\ mode[r] = "range"
      /\ UNCHANGED <<columns, data, sharedPointers, mode, asked, ptr, due>>
  BY Zenon DEF ReadRange, sharedVars
<1>2. /\ got'[r] = IF c[2] \in DOMAIN p.idx /\ c \in columns
                   THEN RowsFrom(c, p.idx[c[2]], n) ELSE {}
      /\ rpc'[r] = "done"
  BY <1>0 DEF ReadRange, CallsOK, ResultsOK, HasColumn
<1>3. OneWrite(r)' /\ Finding(r)'
  BY <1>1, <1>2 DEF OneWrite, Finding
<1>4. due[r] \subseteq {x[2] : x \in got'[r]}
  <2> SUFFICES ASSUME NEW row \in due[r] PROVE row \in {x[2] : x \in got'[r]}
    OBVIOUS
  <2>1. /\ c \in columns /\ c[2] \in DOMAIN p.idx
        /\ row = [ent |-> p.ent, ver |-> p.ver]
    BY <1>1 DEF Answering, Covering
  <2>2. IsPointer(p) /\ Resolvable(p)
    BY <1>0 DEF HeldOK, Sound, Resolving, PointersResolve
  <2> HIDE DEF c, p
  <2>3. p.idx[c[2]] \in DOMAIN data[c] /\ data[c][p.idx[c[2]]] = row
    BY <1>0, <2>1, <2>2, RowInColumn
  <2>4. p.idx[c[2]] \in Nat /\ n \in Nat \ {0}
    BY <2>1, <2>2, PartitionAssumption DEF IsPointer
  <2>5. <<c, row>> \in RowsFrom(c, p.idx[c[2]], n)
    BY <2>3, <2>4 DEF RowsFrom
  <2>6. <<c, row>> \in got'[r] /\ <<c, row>>[2] = row
    BY <1>2, <2>1, <2>5
  <2> QED
    BY <2>6
<1>5. Covering(r)'
  BY <1>1, <1>2, <1>4 DEF Covering
<1> QED
  BY <1>3, <1>5 DEF Answering

\* Each step of a reader gives it the right answer, or leads to it.
LEMMA ReaderAnswers ==
  ASSUME OneTypePerAttr, Sound, ColumnsTyped, NEW r \in Readers, Answering(r), ReaderNext(r)
  PROVE  Answering(r)'
<1>0. CallsOK /\ TodoOK /\ ResultsOK /\ TypeOK
  BY TypeParts DEF Sound, ReadersOK
<1>1. ASSUME NEW e \in Entities, NEW a \in Attrs, BeginGet(r, e, a)
      PROVE  Answering(r)'
  <2>1. Begin(r, "get", e, TryAll(a)) /\ steady'[r] = Names(sharedPointers, e, a)
    BY <1>0, <1>1 DEF BeginGet, CallsOK
  <2>2. /\ rpc'[r] = "load" /\ mode'[r] = "get" /\ asked'[r] = e
        /\ todo'[r] = TryAll(a) /\ got'[r] = {} /\ UNCHANGED <<columns, sharedPointers>>
    BY <1>0, <2>1, BeginFacts
  <2> QED
    BY <2>1, <2>2, GetBegins
<1>2. ASSUME NEW e \in Entities, NEW a \in Attrs, FollowLink(r, e, a)
      PROVE  Answering(r)'
  <2>1. /\ rpc'[r] = "load" /\ mode'[r] = "get" /\ asked'[r] = e
        /\ todo'[r] = TryAll(a) /\ got'[r] = {} /\ UNCHANGED <<columns, sharedPointers>>
        /\ steady'[r] = Names(sharedPointers, e, a)
    BY <1>0, <1>2 DEF FollowLink, sharedVars, CallsOK, TodoOK, ResultsOK
  <2> QED
    BY <2>1, GetBegins
<1>3. ASSUME NEW e \in Entities, BeginOther(r, e)
      PROVE  Answering(r)'
  <2>1. PICK m \in {"record", "link", "range"} : \E cols : Begin(r, m, e, cols)
    BY <1>3 DEF BeginOther
  <2>2. rpc'[r] = "load" /\ mode'[r] = m /\ got'[r] = {}
    BY <1>0, <2>1, BeginFacts
  <2> QED
    BY <2>2 DEF Answering, OneWrite, Finding, Covering
<1>4. ASSUME NEW a \in Attrs, BeginScan(r, a)
      PROVE  Answering(r)'
  BY <1>4, ScanBegins
<1>5. ASSUME NEW n \in RangeLens, ReadRange(r, n)
      PROVE  Answering(r)'
  BY <1>5, RangeAnswers
<1>6. CASE LoadPointer(r) \/ ReadHit(r) \/ ReadMiss(r) \/ ScanColumn(r)
  BY <1>6, LoadAnswers, HitAnswers, MissAnswers, ScanAnswers
<1>7. CASE Return(r)
  <2>1. rpc'[r] = "idle" /\ mode'[r] = "get" /\ got'[r] = {} /\ steady'[r] = FALSE
    BY <1>0, <1>7 DEF Return, CallsOK, ResultsOK
  <2> QED
    BY <2>1 DEF Answering, OneWrite, Finding, Covering
<1> QED
  BY <1>1, <1>2, <1>3, <1>4, <1>5, <1>6, <1>7, Zenon DEF ReaderNext

\* Every step keeps the answers right.
LEMMA StepAnswers ==
  ASSUME OneTypePerAttr, Sound, Answers, [Next]_vars
  PROVE  Answers'
<1>1. CASE WriterNext
  BY <1>1, WriterTyped, WriterAnswers DEF Answers
<1>2. ASSUME NEW r \in Readers, ReaderNext(r) PROVE Answers'
  <2>1. UNCHANGED <<columns, data, sharedPointers>>
    BY <1>2, ReaderKeeps DEF sharedVars
  <2>2. ColumnsTyped'
    BY <2>1 DEF Answers, ColumnsTyped
  <2>3. ASSUME NEW q \in Readers, q # r PROVE Answering(q)'
    <3>1. /\ rpc'[q] = rpc[q] /\ mode'[q] = mode[q] /\ asked'[q] = asked[q] /\ ptr'[q] = ptr[q]
          /\ todo'[q] = todo[q] /\ got'[q] = got[q] /\ steady'[q] = steady[q] /\ due'[q] = due[q]
      BY <1>2, <2>3, Others DEF Sound
    <3>2. OneWrite(q)'
      BY <3>1 DEF Answers, Answering, OneWrite
    <3>3. Finding(q)'
      <4>1. Finding(q) /\ (SameAttr(q) => SameAttr(q)')
        BY <3>1 DEF Answers, Answering, SameAttr
      <4>2. Names(sharedPointers, asked[q], Head(todo[q])[2])
              => Names(sharedPointers, asked[q], Head(todo[q])[2])'
        BY <2>1, <3>1 DEF Names
      <4> QED
        BY <2>1, <3>1, <4>1, <4>2 DEF Finding
    <3>4. Covering(q)'
      BY <2>1, <3>1 DEF Answers, Answering, Covering, SameAttr
    <3> QED
      BY <3>2, <3>3, <3>4 DEF Answering
  <2>4. Answering(r)'
    BY <1>2, ReaderAnswers DEF Answers
  <2> QED
    BY <2>2, <2>3, <2>4 DEF Answers
<1>3. CASE UNCHANGED vars
  BY <1>3 DEF vars, sharedVars, readerVars, Answers, Answering, ColumnsTyped,
     OneWrite, Finding, Covering, SameAttr, Names
<1> QED
  BY <1>1, <1>2, <1>3 DEF Next

\* The answers stay right, as long as every attribute has one type.
LEMMA AnswersHold ==
  ASSUME OneTypePerAttr
  PROVE  Spec => []Answers
<1>1. Init => Answers
  BY DEF Init, Answers, Answering, ColumnsTyped, OneWrite, Finding, Covering
<1>2. Sound /\ Answers /\ [Next]_vars => Answers'
  BY StepAnswers
<1> QED
  BY <1>1, <1>2, SoundHolds, PTL DEF Spec

\* All the values one read returns were written by one command, the one whose
\* pointer it loaded, and belong to the entity asked for, although it loads
\* each column by itself while the thread swaps them (core/query.rs,
\* get_signed_record: "in a single atomic RCU lookup").
THEOREM ReadsAreOfOneWrite ==
  ASSUME OneTypePerAttr
  PROVE  Spec => []ReadsOneWrite
<1>1. Answers => ReadsOneWrite
  <2> SUFFICES ASSUME Answers, NEW r \in Readers, mode[r] \in {"get", "record", "link"},
                      NEW x \in got[r], NEW y \in got[r]
               PROVE  x[2].ent = asked[r] /\ x[2] = y[2]
    BY DEF ReadsOneWrite
  <2>1. /\ x[2] = [ent |-> asked[r], ver |-> ptr[r].ver]
        /\ y[2] = [ent |-> asked[r], ver |-> ptr[r].ver]
    BY DEF Answers, Answering, OneWrite
  <2> QED
    BY <2>1
<1> QED
  BY <1>1, AnswersHold, PTL

\* A Get never answers None about an attribute that was published during the
\* whole call, although it loads the pointer again for every family it tries.
THEOREM GetsAreSteady ==
  ASSUME OneTypePerAttr
  PROVE  Spec => []GetSteady
<1>1. Answers => GetSteady
  BY DEF Answers, Answering, Finding, GetSteady
<1> QED
  BY <1>1, AnswersHold, PTL

\* A scan returns the row of every entity published when it began, however
\* many columns and maps of pointers are swapped before it comes to the column;
\* a range returns the row it is anchored at.
THEOREM ScansAreComplete ==
  ASSUME OneTypePerAttr
  PROVE  Spec => []ScansComplete
<1>1. Answers => ScansComplete
  BY DEF Answers, Answering, Covering, ScansComplete
<1> QED
  BY <1>1, AnswersHold, PTL
=============================================================================
