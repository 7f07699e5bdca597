------------------------------ MODULE Partition ------------------------------
(***************************************************************************)
(* How a partition publishes batches of writes (engine/partition.rs) and   *)
(* what sessions read meanwhile (core/query.rs).  An entity's values live  *)
(* in columns, one per type and attribute name; a MultiVectorPointer gives *)
(* the row of each of its attributes, by attribute name alone.  The thread *)
(* appends rows to private copies of the columns, swaps the copies in one  *)
(* by one, then swaps the map of pointers, then the disk index.  A reader  *)
(* loads a pointer and each column separately; a scan loads columns alone. *)
(*                                                                         *)
(* What a swap replaces stays readable until the reader leaves (Qsbr), so  *)
(* only the contents are modelled here.  Nothing ever pushes onto a        *)
(* column's waitlist: a new row is always appended.                        *)
(***************************************************************************)
EXTENDS Naturals, Sequences, FiniteSets

CONSTANTS Entities,
          Attrs,          \* attribute names
          Types,          \* column families: integer, string, blob
          Shapes,         \* what an insert may carry: [subset of Attrs -> Types]
          TypeOrder,      \* the families in the order QueryNode::Get tries them
          RecordCols,     \* the columns get_signed_record reads, in order
          Block,          \* [Entities -> SUBSET Entities]: read_block's range
          Cold,           \* entities found on disk at start, not in memory
          ColdShape,      \* the attributes of their records
          BloomLimit,     \* insertions after which the first filter is rebuilt
          RangeLens,      \* the lengths a Range may ask for
          Readers,
          MaxBatch,       \* bound: commands in a batch
          MaxCommands     \* bound: commands in a behaviour

Cols == Types \X Attrs

ASSUME PartitionAssumption ==
    /\ IsFiniteSet(Entities)
    /\ \A shape \in Shapes \cup {ColdShape} :
          /\ DOMAIN shape \subseteq Attrs
          /\ \A a \in DOMAIN shape : shape[a] \in Types
    /\ TypeOrder \in Seq(Types) /\ Len(TypeOrder) > 0
    /\ Types = {TypeOrder[i] : i \in DOMAIN TypeOrder}
    /\ RecordCols \in Seq(Cols)
    /\ Block \in [Entities -> SUBSET Entities]
    /\ Cold \subseteq Entities
    /\ BloomLimit \in Nat
    /\ RangeLens \subseteq Nat \ {0}
    /\ MaxBatch \in Nat
    /\ MaxCommands \in Nat

VARIABLES
    columns,         \* the columns in the Columns map
    data,            \* [Cols -> Seq(Row)]: the published rows of each column
    sharedPointers,  \* the published map of pointers, entities it lacks excepted
    diskIndex,       \* storage.disk_index, with the records it designates
    nextDiskIndex,   \* storage.next_disk_index
    diskDirty,       \* storage.disk_index_dirty, as the writes have set it
    wpc,             \* where the partition thread is
    after,           \* what the thread does once the pointers are published
    nextPointers,    \* next_pointers of the batch
    cache,           \* BatchMutCache: working copies of the columns it touched
    block,           \* records read_block returned, still to be promoted
    batched,         \* commands applied in this batch
    seqno,           \* commands applied so far; the newest one's number
    latest,          \* [Entities -> Nat]: the last command on an entity
    promoted,        \* entities whose pointer came from disk since then
    live,            \* entities the last command on which was an insert
    bloom,           \* the entities the bloom filter was told of
    bloomCount, bloomLimit,
    trigger,         \* history: the entity whose insertion rebuilt the filter
    rpc, mode, asked, ptr, todo, got,  \* the readers' calls
    steady,          \* the attribute a Get wants was published all along
    due              \* history: the rows a scan or range must return

sharedVars == <<columns, data, sharedPointers>>
bloomVars == <<bloom, bloomCount, bloomLimit, trigger>>
histVars == <<latest, promoted, live>>
writerVars == <<wpc, after, nextPointers, cache, block, batched, seqno, histVars, bloomVars>>
diskVars == <<diskIndex, nextDiskIndex, diskDirty>>
readerVars == <<rpc, mode, asked, ptr, todo, got, steady, due>>
vars == <<sharedVars, diskVars, writerVars, readerVars>>

\* A row remembers the write it holds the value of.
Row == [ent : Entities, ver : Nat]
Record == [ver : Nat, shape : Shapes \cup {ColdShape}]

Partial(f, D) == DOMAIN f \subseteq D /\ f = [x \in DOMAIN f |-> f[x]]

IsPointer(p) ==
    /\ p = [ent |-> p.ent, ver |-> p.ver, idx |-> p.idx]
    /\ p.ent \in Entities
    /\ p.ver \in Nat
    /\ Partial(p.idx, Attrs)
    /\ \A a \in DOMAIN p.idx : p.idx[a] \in Nat \ {0}

PointerMap(f) ==
    Partial(f, Entities) /\ \A e \in DOMAIN f : IsPointer(f[e]) /\ f[e].ent = e

RecordMap(f) == Partial(f, Entities) /\ \A e \in DOMAIN f : f[e] \in Record

HasPointer(r) == rpc[r] \in {"read", "done"} /\ mode[r] # "scan"

TypeOK ==
    /\ columns \subseteq Cols
    /\ data \in [Cols -> Seq(Row)]
    /\ PointerMap(sharedPointers)
    /\ RecordMap(diskIndex)
    /\ RecordMap(nextDiskIndex)
    /\ diskDirty \in BOOLEAN
    /\ wpc \in {"recv", "apply", "promote", "flush", "disk"}
    /\ after \in {"apply", "disk"}
    /\ PointerMap(nextPointers)
    /\ Partial(cache, Cols)
    /\ \A c \in DOMAIN cache : cache[c] \in Seq(Row)
    /\ block \subseteq Entities
    /\ batched \in Nat
    /\ seqno \in Nat \ {0}
    /\ latest \in [Entities -> Nat]
    /\ promoted \subseteq Entities
    /\ live \subseteq Entities
    /\ bloom \subseteq Entities
    /\ bloomCount \in Nat
    /\ bloomLimit \in Nat
    /\ trigger \subseteq Entities
    /\ rpc \in [Readers -> {"idle", "load", "read", "done"}]
    /\ mode \in [Readers -> {"get", "record", "link", "range", "scan"}]
    /\ asked \in [Readers -> Entities]
    /\ ptr = [r \in Readers |-> ptr[r]]
    /\ \A r \in Readers : IsPointer(ptr[r]) /\ (HasPointer(r) => ptr[r].ent = asked[r])
    /\ todo \in [Readers -> Seq(Cols)]
    /\ got \in [Readers -> SUBSET (Cols \X Row)]
    /\ steady \in [Readers -> BOOLEAN]
    /\ due \in [Readers -> SUBSET Row]

\* What a reader asks for between calls does not matter.
Nobody == CHOOSE e \in Entities : TRUE

NoPointer(e) == [ent |-> e, ver |-> 0, idx |-> [a \in {} |-> 0]]

Put(f, x, y) == [z \in DOMAIN f \cup {x} |-> IF z = x THEN y ELSE f[z]]

\* At start the columns and the pointers are empty.  Storage::new has scanned
\* entities.bin into next_disk_index, and published none of it.
Init ==
    /\ columns = {}
    /\ data = [c \in Cols |-> <<>>]
    /\ sharedPointers = [e \in {} |-> NoPointer(e)]
    /\ diskIndex = [e \in {} |-> [ver |-> 1, shape |-> ColdShape]]
    /\ nextDiskIndex = [e \in Cold |-> [ver |-> 1, shape |-> ColdShape]]
    /\ diskDirty = FALSE
    /\ wpc = "recv"
    /\ after = "disk"
    /\ nextPointers = sharedPointers
    /\ cache = [c \in {} |-> <<>>]
    /\ block = {}
    /\ batched = 0
    /\ seqno = 1
    /\ latest = [e \in Entities |-> IF e \in Cold THEN 1 ELSE 0]
    /\ promoted = {}
    /\ live = {}
    /\ bloom = {}
    /\ bloomCount = 0
    /\ bloomLimit = BloomLimit
    /\ trigger = {}
    /\ rpc = [r \in Readers |-> "idle"]
    /\ mode = [r \in Readers |-> "get"]
    /\ asked \in [Readers -> Entities]
    /\ ptr = [r \in Readers |-> NoPointer(asked[r])]
    /\ todo = [r \in Readers |-> <<>>]
    /\ got = [r \in Readers |-> {}]
    /\ steady = [r \in Readers |-> FALSE]
    /\ due = [r \in Readers |-> {}]
-----------------------------------------------------------------------------
(* The partition thread *)

\* The batch's pointers start as a clone of the published ones.  Mutant: they
\* start from an empty map.
NoPointers == [e \in {} |-> NoPointer(e)]
StartPointers == sharedPointers

\* run(): a command has arrived; the batch gathers what else is queued.
Receive ==
    /\ wpc = "recv"
    /\ seqno <= MaxCommands
    /\ wpc' = "apply"
    /\ batched' = 0
    /\ nextPointers' = StartPointers
    /\ UNCHANGED <<sharedVars, diskVars, after, cache, block,
                   seqno, histVars, bloomVars, readerVars>>

\* The next command of the batch.
Command ==
    /\ wpc = "apply"
    /\ batched < MaxBatch
    /\ seqno <= MaxCommands
    /\ batched' = batched + 1
    /\ seqno' = seqno + 1

\* The copy of a column the batch works on.
Working(c) == IF c \in DOMAIN cache THEN cache[c] ELSE data[c]

\* Where insert_into_cached_* puts a row.  Mutant: one row short.
LastRow(rows) == Len(rows)
NextRow(rows) == Len(rows) + 1

ColsOf(shape) == {<<shape[a], a>> : a \in DOMAIN shape}

\* Append one row to each column of the shape, creating and publishing the
\* columns that do not exist yet.  The columns are created one after the
\* other, but no pointer designates any of them before the batch publishes.
AppendRows(e, version, shape) ==
    /\ columns' = columns \cup ColsOf(shape)
    /\ cache' = [c \in DOMAIN cache \cup ColsOf(shape) |->
                    IF c \in ColsOf(shape)
                    THEN Append(Working(c), [ent |-> e, ver |-> version])
                    ELSE cache[c]]
    /\ nextPointers' = Put(nextPointers, e,
          [ent |-> e, ver |-> version,
           idx |-> [a \in DOMAIN shape |-> NextRow(Working(<<shape[a], a>>))]])

\* What a rebuilt filter is filled with.  Mutant: the published index.
PublishedEntities == DOMAIN diskIndex
FilterEntities == DOMAIN nextDiskIndex

\* update_bloom: one more entity, or a new filter of twice the size.  Both
\* callers write the entity to disk later, if at all.
UpdateBloom(e) ==
    IF bloomCount + 1 > bloomLimit
    THEN /\ bloom' = FilterEntities
         /\ bloomCount' = Cardinality(FilterEntities)
         /\ bloomLimit' = 2 * bloomLimit
         /\ trigger' = {e}
    ELSE /\ bloom' = bloom \cup {e}
         /\ bloomCount' = bloomCount + 1
         /\ UNCHANGED <<bloomLimit, trigger>>

\* process_insert.  A failed write_entity is ignored.
Insert(e, shape) ==
    /\ Command
    /\ AppendRows(e, seqno', shape)
    /\ UpdateBloom(e)
    /\ \/ /\ nextDiskIndex' = Put(nextDiskIndex, e, [ver |-> seqno', shape |-> shape])
          /\ diskDirty' = TRUE
       \/ UNCHANGED <<nextDiskIndex, diskDirty>>
    /\ latest' = [latest EXCEPT ![e] = seqno']
    /\ promoted' = promoted \ {e}
    /\ live' = live \cup {e}
    /\ UNCHANGED <<data, sharedPointers, diskIndex, wpc, after, block, readerVars>>

\* WriteCommand::Delete: a pointer without attributes; the disk keeps the record.
Delete(e) ==
    /\ Command
    /\ nextPointers' = Put(nextPointers, e, [NoPointer(e) EXCEPT !.ver = seqno'])
    /\ latest' = [latest EXCEPT ![e] = seqno']
    /\ promoted' = promoted \ {e}
    /\ live' = live \ {e}
    /\ UNCHANGED <<sharedVars, diskVars, wpc, after, cache,
                   block, bloomVars, readerVars>>

\* InternalLoad of an entity the batch already knows: publish as it stands.
LoadHot(e) ==
    /\ Command
    /\ e \in DOMAIN nextPointers
    /\ wpc' = "flush"
    /\ after' = "apply"
    /\ UNCHANGED <<sharedVars, diskVars, nextPointers, cache,
                   block, histVars, bloomVars, readerVars>>

\* InternalLoad of an unknown entity: read_block returns every record of the
\* entity's block that the published disk index has.
LoadCold(e) ==
    /\ Command
    /\ e \notin DOMAIN nextPointers
    /\ block' = Block[e] \cap DOMAIN diskIndex
    /\ wpc' = "promote"
    /\ UNCHANGED <<sharedVars, diskVars, after, nextPointers,
                   cache, histVars, bloomVars, readerVars>>

\* process_promote, for each of them, known to the batch or not.
Promote(e) ==
    /\ wpc = "promote"
    /\ e \in block
    /\ AppendRows(e, diskIndex[e].ver, diskIndex[e].shape)
    /\ UpdateBloom(e)
    /\ block' = block \ {e}
    /\ promoted' = promoted \cup {e}
    /\ UNCHANGED <<data, sharedPointers, diskVars, wpc, after, batched, seqno,
                   latest, live, readerVars>>

PromoteEnd ==
    /\ wpc = "promote"
    /\ block = {}
    /\ wpc' = "flush"
    /\ after' = "apply"
    /\ UNCHANGED <<sharedVars, diskVars, nextPointers, cache,
                   block, batched, seqno, histVars, bloomVars, readerVars>>

\* The commands of the batch are all applied.
EndBatch ==
    /\ wpc = "apply"
    /\ batched > 0
    /\ wpc' = "flush"
    /\ after' = "disk"
    /\ UNCHANGED <<sharedVars, diskVars, nextPointers, cache,
                   block, batched, seqno, histVars, bloomVars, readerVars>>

\* BatchMutCache::flush, one column.
FlushColumn(c) ==
    /\ wpc = "flush"
    /\ c \in DOMAIN cache
    /\ data' = [data EXCEPT ![c] = cache[c]]
    /\ cache' = [d \in DOMAIN cache \ {c} |-> cache[d]]
    /\ UNCHANGED <<columns, sharedPointers, diskVars, wpc, after, nextPointers,
                   block, batched, seqno, histVars, bloomVars, readerVars>>

\* The columns are flushed before the pointers into them are published.
\* Mutant: no matter.
FlushedOrNot == TRUE
Flushed == DOMAIN cache = {}

Names(pointers, e, a) == e \in DOMAIN pointers /\ a \in DOMAIN pointers[e].idx

\* The swap of shared_pointers.
Publish ==
    /\ wpc = "flush"
    /\ Flushed
    /\ sharedPointers' = nextPointers
    /\ wpc' = after
    /\ steady' = [r \in Readers |->
                     /\ steady[r]
                     /\ todo[r] # <<>> => Names(nextPointers, asked[r], Head(todo[r])[2])]
    /\ UNCHANGED <<columns, data, diskVars, after, nextPointers, cache, block,
                   batched, seqno, histVars, bloomVars, rpc, mode, asked, ptr, todo,
                   got, due>>

\* swap_disk_index publishes what a write has marked dirty; or a compaction,
\* any time since the last one.
SwapDiskIndex ==
    /\ wpc = "disk"
    /\ \/ diskIndex' = nextDiskIndex
       \/ ~diskDirty /\ UNCHANGED diskIndex
    /\ diskDirty' = FALSE
    /\ wpc' = "recv"
    /\ UNCHANGED <<sharedVars, nextDiskIndex, after, nextPointers,
                   cache, block, batched, seqno, histVars, bloomVars, readerVars>>
-----------------------------------------------------------------------------
(* Readers, inside a session *)

\* The columns a Get or a Scan tries.  Mutant: the last family is forgotten.
TryAllButLast(a) == [i \in 1 .. Len(TypeOrder) - 1 |-> <<TypeOrder[i], a>>]
TryAll(a) == [i \in DOMAIN TypeOrder |-> <<TypeOrder[i], a>>]
IntColumn(a) == <<TypeOrder[1], a>>

\* A call begins: the columns it will try, in order.
Begin(r, m, e, cols) ==
    /\ rpc[r] = "idle"
    /\ rpc' = [rpc EXCEPT ![r] = IF m = "scan" THEN "read" ELSE "load"]
    /\ mode' = [mode EXCEPT ![r] = m]
    /\ asked' = [asked EXCEPT ![r] = e]
    /\ todo' = [todo EXCEPT ![r] = cols]
    /\ got' = [got EXCEPT ![r] = {}]
    /\ UNCHANGED <<sharedVars, diskVars, writerVars, ptr>>

\* QueryNode::Get tries get_int, get_str and get_blob until one has a value.
BeginGet(r, e, a) ==
    /\ Begin(r, "get", e, TryAll(a))
    /\ steady' = [steady EXCEPT ![r] = Names(sharedPointers, e, a)]
    /\ UNCHANGED due

\* get_signed_record reads several columns through one pointer; QueryNode::Link
\* reads an integer first; QueryNode::Range starts at the row of one.
BeginOther(r, e) ==
    /\ \/ Begin(r, "record", e, RecordCols)
       \/ \E a \in Attrs, m \in {"link", "range"} : Begin(r, m, e, <<IntColumn(a)>>)
    /\ steady' = [steady EXCEPT ![r] = FALSE]
    /\ UNCHANGED due

\* The integer read is the entity a Link goes on with, any one of them.
FollowLink(r, e, a) ==
    /\ rpc[r] = "done"
    /\ mode[r] = "link"
    /\ got[r] # {}
    /\ rpc' = [rpc EXCEPT ![r] = "load"]
    /\ mode' = [mode EXCEPT ![r] = "get"]
    /\ asked' = [asked EXCEPT ![r] = e]
    /\ todo' = [todo EXCEPT ![r] = TryAll(a)]
    /\ got' = [got EXCEPT ![r] = {}]
    /\ steady' = [steady EXCEPT ![r] = Names(sharedPointers, e, a)]
    /\ UNCHANGED <<sharedVars, diskVars, writerVars, ptr, due>>

\* The rows of a column that published pointers designate.
Designated(c) ==
    {[ent |-> e, ver |-> sharedPointers[e].ver] :
        e \in {f \in DOMAIN sharedPointers :
                  c \in columns /\ Names(sharedPointers, f, c[2])}}

\* QueryNode::Scan walks the first column there is; Aggregate the integer one.
BeginScan(r, a) ==
    /\ \E cols \in {TryAll(a), <<IntColumn(a)>>} :
          /\ Begin(r, "scan", asked[r], cols)
          /\ due' = [due EXCEPT ![r] =
                UNION {Designated(cols[i]) : i \in DOMAIN cols}]
    /\ steady' = [steady EXCEPT ![r] = FALSE]

Shared(e) == IF e \in DOMAIN sharedPointers THEN sharedPointers[e] ELSE NoPointer(e)

\* get_pointer.
LoadPointer(r) ==
    /\ rpc[r] = "load"
    /\ ptr' = [ptr EXCEPT ![r] = Shared(asked[r])]
    /\ rpc' = [rpc EXCEPT ![r] = "read"]
    /\ due' = [due EXCEPT ![r] =
          IF mode[r] = "range"
          THEN {row \in Designated(Head(todo[r])) : row.ent = asked[r]}
          ELSE {}]
    /\ UNCHANGED <<sharedVars, diskVars, writerVars, mode,
                   asked, todo, got, steady>>

\* The pointer a read resolves an attribute with.  Mutant: the one published now.
Reloaded(r) == Shared(asked[r])
Resolver(r) == ptr[r]

\* get_column_str, get_column_int, get_column_blob.
HasColumn(c) == c \in columns

\* get_element_pinned: the row is there, and valid.
Found(p, c) ==
    /\ c[2] \in DOMAIN p.idx
    /\ HasColumn(c)
    /\ p.idx[c[2]] <= Len(data[c])

PointRead(r) ==
    rpc[r] = "read" /\ mode[r] \in {"get", "record", "link"} /\ todo[r] # <<>>

\* One column read.  Columns are never removed, so the lookup of the column
\* and the load of its data are one step.
ReadHit(r) ==
    LET c == Head(todo[r])
        p == Resolver(r)
        last == mode[r] # "record" \/ Len(todo[r]) = 1
    IN  /\ PointRead(r)
        /\ Found(p, c)
        /\ got' = [got EXCEPT ![r] = @ \cup {<<c, data[c][p.idx[c[2]]]>>}]
        /\ todo' = [todo EXCEPT ![r] = IF last THEN <<>> ELSE Tail(@)]
        /\ rpc' = [rpc EXCEPT ![r] = IF last THEN "done" ELSE "read"]
        /\ UNCHANGED <<sharedVars, diskVars, writerVars, mode,
                       asked, ptr, steady, due>>

\* Get goes on with the next type and loads the pointer again; the others
\* give up and return nothing.
ReadMiss(r) ==
    LET c == Head(todo[r])
        last == mode[r] # "get" \/ Len(todo[r]) = 1
    IN  /\ PointRead(r)
        /\ ~Found(Resolver(r), c)
        /\ got' = [got EXCEPT ![r] = {}]
        /\ todo' = [todo EXCEPT ![r] = IF last THEN <<>> ELSE Tail(@)]
        /\ rpc' = [rpc EXCEPT ![r] = IF last THEN "done" ELSE "load"]
        /\ UNCHANGED <<sharedVars, diskVars, writerVars, mode,
                       asked, ptr, steady, due>>

\* The rows of a column from one on, a number of them at most.
RowsFrom(c, first, n) ==
    {<<c, data[c][i]>> : i \in {j \in DOMAIN data[c] : first <= j /\ j < first + n}}

\* QueryNode::Range: n successive rows from that of the entity on.
ReadRange(r, n) ==
    LET c == Head(todo[r])
        p == ptr[r]
    IN  /\ rpc[r] = "read"
        /\ mode[r] = "range"
        /\ got' = [got EXCEPT ![r] =
              IF c[2] \in DOMAIN p.idx /\ HasColumn(c)
              THEN RowsFrom(c, p.idx[c[2]], n)
              ELSE {}]
        /\ rpc' = [rpc EXCEPT ![r] = "done"]
        /\ todo' = [todo EXCEPT ![r] = <<>>]
        /\ UNCHANGED <<sharedVars, diskVars, writerVars, mode,
                       asked, ptr, steady, due>>

\* Where a scan begins.  Mutant: the newest row is left out.
ScanAllButOne(c) == RowsFrom(c, 1, IF data[c] = <<>> THEN 0 ELSE Len(data[c]) - 1)
ScanAll(c) == RowsFrom(c, 1, Len(data[c]))

\* Scan and Aggregate: every row of the first column there is, whether a
\* pointer still designates it or not.
ScanColumn(r) ==
    LET c == Head(todo[r])
        hit == HasColumn(c)
        last == hit \/ Len(todo[r]) = 1
    IN  /\ rpc[r] = "read"
        /\ mode[r] = "scan"
        /\ todo[r] # <<>>
        /\ got' = [got EXCEPT ![r] = IF hit THEN ScanAll(c) ELSE {}]
        /\ todo' = [todo EXCEPT ![r] = IF last THEN <<>> ELSE Tail(@)]
        /\ rpc' = [rpc EXCEPT ![r] = IF last THEN "done" ELSE "read"]
        /\ UNCHANGED <<sharedVars, diskVars, writerVars, mode,
                       asked, ptr, steady, due>>

\* The result is handed to the callback.
Return(r) ==
    /\ rpc[r] = "done"
    /\ mode[r] = "link" => got[r] = {}
    /\ rpc' = [rpc EXCEPT ![r] = "idle"]
    /\ mode' = [mode EXCEPT ![r] = "get"]
    /\ asked' = [asked EXCEPT ![r] = Nobody]
    /\ ptr' = [ptr EXCEPT ![r] = NoPointer(Nobody)]
    /\ got' = [got EXCEPT ![r] = {}]
    /\ steady' = [steady EXCEPT ![r] = FALSE]
    /\ due' = [due EXCEPT ![r] = {}]
    /\ UNCHANGED <<sharedVars, diskVars, writerVars, todo>>
-----------------------------------------------------------------------------
WriterNext ==
    \/ Receive
    \/ \E e \in Entities, shape \in Shapes : Insert(e, shape)
    \/ \E e \in Entities : Delete(e) \/ LoadHot(e) \/ LoadCold(e) \/ Promote(e)
    \/ PromoteEnd \/ EndBatch
    \/ \E c \in Cols : FlushColumn(c)
    \/ Publish \/ SwapDiskIndex

ReaderNext(r) ==
    \/ \E e \in Entities, a \in Attrs : BeginGet(r, e, a) \/ FollowLink(r, e, a)
    \/ \E e \in Entities : BeginOther(r, e)
    \/ \E a \in Attrs : BeginScan(r, a)
    \/ LoadPointer(r) \/ ReadHit(r) \/ ReadMiss(r) \/ ScanColumn(r) \/ Return(r)
    \/ \E n \in RangeLens : ReadRange(r, n)

Next == WriterNext \/ \E r \in Readers : ReaderNext(r)

Spec == Init /\ [][Next]_vars
-----------------------------------------------------------------------------
\* The value at row i of some column of attribute a is the one version v of
\* entity e wrote.
RowIs(a, i, e, v) ==
    \E t \in Types : /\ <<t, a>> \in columns
                     /\ i \in DOMAIN data[<<t, a>>]
                     /\ data[<<t, a>>][i] = [ent |-> e, ver |-> v]

Resolvable(p) == \A a \in DOMAIN p.idx : RowIs(a, p.idx[a], p.ent, p.ver)

\* Every pointer a reader can load, and every pointer it still holds from an
\* earlier map, designates published rows that hold what its own write put
\* there, however far the columns have moved on (partition.rs: columns are
\* flushed before the pointers are swapped, rows are never reused).
PointersResolve ==
    /\ \A e \in DOMAIN sharedPointers : Resolvable(sharedPointers[e])
    /\ \A r \in Readers : Resolvable(ptr[r])

\* All the columns of one read come from one write of the entity asked for,
\* although each column is loaded separately (query.rs, get_signed_record:
\* "in a single atomic RCU lookup").
ReadsOneWrite ==
    \A r \in Readers : mode[r] \in {"get", "record", "link"} =>
        \A x, y \in got[r] : x[2].ent = asked[r] /\ x[2] = y[2]

\* A scan or an aggregate loads no pointer, yet it returns the current row of
\* every entity published when it began, however many batches are flushed
\* meanwhile (query.rs, QueryNode::Scan: "all non-null values").  A range
\* contains the row of the entity it is anchored at, as of its pointer.
ScansComplete ==
    \A r \in Readers : (rpc[r] = "done" /\ mode[r] \in {"scan", "range"}) =>
        due[r] \subseteq {x[2] : x \in got[r]}

\* A Get that finds nothing is right about some moment: it never misses an
\* attribute that was published during the whole call, although it loads the
\* pointer anew for each type (query.rs, QueryNode::Get: None "when the
\* entity or attribute does not exist").
GetSteady ==
    \A r \in Readers :
        (rpc[r] = "done" /\ mode[r] = "get" /\ steady[r]) => got[r] # {}

\* entities_iter lists the entities whose pointer has attributes.
Listed(e) == e \in DOMAIN sharedPointers /\ DOMAIN sharedPointers[e].idx # {}

\* Between batches the published map is the sequential effect of every command
\* so far: the last insert or delete of each entity, save for the entities an
\* InternalLoad has brought from disk; entities_iter lists those that were
\* inserted last.
PublishedIsLatest ==
    wpc = "recv" =>
        \A e \in Entities :
            IF e \in DOMAIN sharedPointers
            THEN \/ e \in promoted
                 \/ /\ sharedPointers[e].ver = latest[e]
                    /\ Listed(e) <=> e \in live
            ELSE latest[e] <= 1

\* The filter knows every entity that is on disk and was told to it, across
\* rebuilds, save the one whose insertion caused the last: it is put into the
\* filter that the rebuild then replaces (partition.rs, update_bloom: "Inserts
\* entity_id into the Bloom filter").  Records found at start are told to the
\* filter by a rebuild only.
BloomCovers ==
    \A e \in DOMAIN nextDiskIndex :
        e \in bloom \cup trigger \/ (e \in Cold /\ bloomLimit = BloomLimit)

\* The get_int a Get begins with returns a value of the entity asked for if
\* the attribute is an integer column and nothing otherwise (query.rs,
\* Query::get_int), whatever the types under which other entities use the
\* attribute's name.
GetReturnsOwnValue ==
    \A r \in Readers : (rpc[r] = "done" /\ mode[r] = "get") =>
        \A x \in got[r] : x[1] = IntColumn(x[1][2]) => x[2].ent = asked[r]

\* Every attribute name is used with one type.
OneTypePerAttr ==
    \A s, t \in Shapes \cup {ColdShape} :
        \A a \in DOMAIN s \cap DOMAIN t : s[a] = t[a]
=============================================================================
