----------------------------- MODULE MCStructures -----------------------------
(* Instances of the sequential structures for TLC: the hash map, a column, *)
(* the two files of records and the inverted index, each by itself.        *)
EXTENDS HashMap, Column, MCIndex, Codec, TLC

VARIABLE subject

ASSUME StructuresAssumption ==
    ColumnConstants /\ CodecConstants /\ IndexConstants

\* Every bucket of a table of eight is the home of a key.
Spread == [k \in 1 .. 8 |-> k - 1]

\* Five keys whose homes are the last bucket of a table of eight or the one
\* before; in a table of sixteen, the last but one or the middle.
Crowded == [k \in 5 .. 9 |-> IF k >= 7 THEN 7 ELSE 14]

SomeHashers == {Spread, Crowded}
SomeValues == [k \in Keys |-> IF k = 9 THEN {1, 2} ELSE {1}]

\* Attributes of no, one and two buckets under one name.
NoAttr == [a \in {} |-> 0]
One(type, v) == [a \in {<<type, <<1>>>>} |-> v]
Two == One("Str", <<2>>) @@ One("Int", 7)

Entity(i, attrs) == [id |-> i, attrs |-> attrs]

SomeEntities ==
    {Entity(3, One("Int", 7)), Entity(3, NoAttr), Entity(0, One("Str", <<0>>))}

SomeCommands ==
    {[kind |-> "Insert", item |-> Entity(3, a)] : a \in {NoAttr, One("Blob", <<0, 4>>), Two}}
    \cup {[kind |-> "BatchInsert", items |-> <<Entity(3, NoAttr), Entity(0, NoAttr)>>],
          [kind |-> "Delete", id |-> 6],
          [kind |-> "InsertFast", id |-> 3, epoch |-> 1, record_type |-> 5,
           payload |-> <<0>>]}
-----------------------------------------------------------------------------
TypesOK == TypeOK /\ ColumnTypeOK /\ FilesTypeOK /\ IndexTypeOK

StructuresInit ==
    /\ subject \in {"map", "column", "log", "file", "index"}
    /\ Init /\ ColumnInit /\ FilesInit /\ IndexInit
    /\ subject # "map" => hash = Spread /\ table = <<>>

IsMap == subject = "map" /\ UNCHANGED <<subject, columnVars, filesVars, indexVars>>
IsColumn == subject = "column" /\ UNCHANGED <<subject, vars, filesVars, indexVars>>
IsLog == subject = "log" /\ UNCHANGED <<subject, vars, columnVars, indexVars>>
IsIndex == subject = "index" /\ UNCHANGED <<subject, vars, columnVars, filesVars>>
IsFile == subject = "file" /\ UNCHANGED <<subject, vars, columnVars, indexVars>>

MapGet(k) == IsMap /\ Get(k)
MapRemove(k) == IsMap /\ Remove(k)
MapInsert(k, v) == IsMap /\ Insert(k, v)
MapGetMut(k, v) == IsMap /\ GetMut(k, v)
MapIterMut(v) == IsMap /\ IterMut(v)
MapClear == IsMap /\ Clear

ColAcquire(w) == IsColumn /\ AcquireLock(w)
ColPanics(w) == IsColumn /\ AcquirePanics(w)
ColClone(w) == IsColumn /\ Clone(w)
ColPush(w, v) == IsColumn /\ EditPush(w, v)
ColSet(w, i, v) == IsColumn /\ EditSet(w, i, v)
ColSetValid(w, i, b) == IsColumn /\ EditSetValid(w, i, b)
ColSwapIn(w) == IsColumn /\ SwapIn(w)
ColRelease(w) == IsColumn /\ ReleaseLock(w)

LogAppend(c) == IsLog /\ AppendRecord(c)
LogTear(n) == IsLog /\ Tear(n)
FileWrite(e, gap) == IsFile /\ WriteRecord(e, gap)
FileReopen == IsFile /\ Reopen

IndexInsert(id, text) == IsIndex /\ InsertDocument(id, text)
IndexRemove(id, text) == IsIndex /\ RemoveDocument(id, text)

MapNext == \/ \E k \in DOMAIN hash : MapGet(k) \/ MapRemove(k)
           \/ \E k \in DOMAIN hash : \E v \in ValuesOf[k] : MapInsert(k, v) \/ MapGetMut(k, v)
           \/ \E v \in Values : MapIterMut(v)
           \/ MapClear

WriterNext(w) ==
    \/ ColAcquire(w) \/ ColPanics(w) \/ ColClone(w) \/ ColSwapIn(w) \/ ColRelease(w)
    \/ \E v \in Scalars : ColPush(w, v)
    \/ \E i \in Indices, v \in Scalars : ColSet(w, i, v)
    \/ \E i \in Indices, b \in BOOLEAN : ColSetValid(w, i, b)

RecordsNext == \/ \E c \in Commands : LogAppend(c)
             \/ \E n \in 0 .. Len(log) : LogTear(n)
             \/ \E e \in Entities, gap \in Gaps : FileWrite(e, gap)
             \/ FileReopen

SearchNext == \E id \in Ids, text \in Texts : IndexInsert(id, text) \/ IndexRemove(id, text)

StructuresNext == MapNext \/ (\E w \in Writers : WriterNext(w)) \/ RecordsNext \/ SearchNext

StructuresSpec ==
    StructuresInit /\ [][StructuresNext]_<<subject, vars, columnVars, filesVars, indexVars>>

=============================================================================
