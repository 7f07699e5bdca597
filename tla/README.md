# A TLA+ verification project for cdDB

cdDB is an embedded columnar store.  Each *partition* has one writer thread
that drains a bounded command queue in batches, keeps the data in immutable
snapshots behind atomic pointers, and lets any number of readers use those
snapshots without locks; old snapshots are reclaimed by epochs (QSBR).  Behind
the memory image are an append-only file of entities and a write-ahead log.
This directory holds TLA+ models of that machinery, TLC instances that check
them, and TLAPS proofs of the results that matter most.

Paths below are relative to `src/src/`.

## 1. The system

| Component | State | Operations | Shared with |
|---|---|---|---|
| Reclamation (`core/qsbr.rs`, `core/rcu.rs`) | `GLOBAL_EPOCH` (one static for the process), `local_epoch` and `is_offline` of every `WorkerState`, the list of workers and the `garbage` vector of each partition | `enter`, `leave`, `force_offline`, `resume_online`, `swap_ptr`, `defer_free`, `maintenance` | every query session, every partition thread |
| Query sessions (`core/query.rs`) | a `WorkerState` per `Query`, a pin per `QuerySession` | `session`, `get_*`, `get_signed_record`, `Get`/`Scan`/`Range`/`Aggregate`/`Link` nodes, `sum_int_range` | published pointers and columns |
| Partition thread (`engine/partition.rs`) | `shared_pointers`, `columns`, `BatchMutCache`, bloom filter | `run`, `apply_batch_commands`, `process_insert`, `process_promote`, `replay_wal` | readers, storage, WAL |
| Columns (`core/column.rs`) | rows of each attribute, by type | append, flush, element access | partition thread, readers |
| Queue and lifecycle (`engine/dispatcher.rs`, `io/platform.rs`) | bounded queue, `UserWriter` handles, route table, thread handles, shutdown flag | register, `send`, `try_send`, `drop`, `get_partition` | callers, partition thread, compaction thread |
| Storage (`io/storage.rs`) | `entities.bin`, `disk_index`, `next_disk_index`, six mutexes | `write_entity`, `read_entity`, `swap_disk_index`, `compact` | partition thread, compaction thread |
| WAL (`io/wal.rs`) | log file, `async_buffer` | `append_batch`, flusher thread, `checkpoint`, `read_all` | partition thread, `flush_wal` |
| `AHashMap` (`core/map.rs`) | open-addressing table | insert, get, remove, resize | everything above |
| Codecs (`core/commands.rs`) | none | encode, decode | WAL, storage |
| Facades (`facade.rs`, `simple_kv.rs`, `typed_cache.rs`, `reader.rs`) | handles | wrappers | dispatcher |
| Inverted index (`engine/index.rs`) | sorted postings of each token | insert, remove, search | its caller |
| Hints (`hot_index.rs`, `cache.rs`, `audit.rs`, `archive.rs`) | external cache, sequential helpers | | none that matters here |

A call to `send` pushes a command; the partition thread takes it in a batch,
logs the batch, applies it to private copies of the columns and of the pointer
map, swaps the copies in, hands the old ones to QSBR and runs `maintenance`.
A reader stamps its worker with the epoch, loads the pointer map and the
columns, and clears the stamp when its session is dropped.  Every 594 s another
thread compacts the partition's file.

What is hard here, and what each component must get right:

* *Reclamation.*  Enter and maintenance interleave step by step, several
  partitions move one clock, memory is weakly ordered.  Nothing a pinned
  session holds may be freed; nothing may be freed twice or leak, but for the
  bloom filters a rebuild replaces.
* *Publication.*  Columns, pointers and disk index are swapped one after the
  other while readers load them one after the other.  A pointer always leads to
  the row its own write made; a read never mixes two writes; an update is never
  lost.
* *Lifecycle.*  Shutdown is a message in the queue, pushed by any handle and by
  the dispatcher.  What was accepted before it is applied, once and in order;
  threads stop and joins return.
* *Storage.*  Two threads take six locks in different orders; compaction moves
  records others have indexed.
* *Recovery.*  The log, the file and memory run ahead of one another, and a
  crash cuts each at a different place.  A failed write to the log may drop a
  batch that is applied all the same.
* *Stores.*  An application's store owns a dispatcher, several threads or
  several registrations of one name: its drop must stop and join them all, and
  lose nothing that was accepted.
* *Sequential structures.*  Tombstones, growth and termination of probes of the
  hash map; packed validity bits of a column; torn and zero-filled files; sorted
  postings.

`PROJECT.json` lists these hazards at their lines.

## 2. Modules

| Module | Models | Status |
|---|---|---|
| `Reclaim` | abstract promise of safe memory reclamation | done |
| `Qsbr`, `MCQsbr` | the epoch scheme, several partitions | done, proved (`QsbrProofs`) |
| `QsbrTso`, `MCQsbrTso` | the same under a reader's store buffer | done |
| `Partition`, `MCPartition` | batches, publication, bloom filter, promotion, every kind of read | done, proved (`PartitionProofs`) |
| `Lifecycle`, `MCLifecycle` | queue, handles, thread, dispatcher | done, proved (`StoresProofs`) |
| `Clients` | `SimpleKvStore` and `TypedCdDbCache` over whole partitions | done, proved (`StoresProofs`) |
| `MCStores` | `Lifecycle` and `Clients`, each by itself; it extends both, hence the prefixes in the names of `Clients` (and of `Column`) | done |
| `Storage`, `MCStorage` | locks of `write_entity`, `read_entity` and `compact`, the file, its maps and indexes, failing I/O, restart | done, proved (`StorageProofs`) |
| `CommandLog` | abstract promise of a log: a restart finds a first part of what the log has taken | done |
| `Wal`, `MCWal` | the log in both modes, its flusher, checkpoint, failing writes, crash and replay | done, proved (`WalProofs`) |
| `MCProtocols` | `Qsbr` and `Wal`, each by itself; the names of `Qsbr` have prefixes for that | done |
| `FiniteMap` | abstract map with the results of calls | done |
| `HashMap` | the open-addressing table and its iterators | done, proved (`StructuresProofs`) |
| `Column` | a column's rows, validity bits and writers | done, proved (`StructuresProofs`) |
| `Codec` | records of the log and of `entities.bin`, byte by byte, and the scans over them | done, proved (`CodecProofs`) |
| `InvertedIndex`, `MCIndex` | postings and searches | done, proved (`StructuresProofs`) |
| `MCStructures` | `HashMap`, `Column`, `Codec`, `InvertedIndex`, each by itself | done, types proved (`StructuresProofs`) |
| `PartitionProofs` | types, what the thread publishes, the Bloom filter, the pointers readers hold, the answers they get | done |
| `StoresProofs` | of a partition, types and order of commands; of the two stores, queues, data and gets | done |
| `StorageProofs` | locks, file, indexes, copies and reads of the store | done |
| `WalProofs` | the order of the log, its durability, its promise, its checkpoints | done |
| `Recursion` | induction and loops, in the form the next two use | done |
| `CodecProofs` | encoders and decoders, the replay of the log, the scan of `entities.bin` | done |
| `StructuresProofs` | rows and validity bits of a column; the table as a finite map, the ends of its probes, its counters; the searches of the index; types of all structures together | done |

### Qsbr

| Code | Model |
|---|---|
| `WorkerState.local_epoch`, `.is_offline` | `localEpoch`, `offline` |
| `enter()`: load `GLOBAL_EPOCH`, store `local_epoch` | `EnterLoad`, `EnterStore` |
| `load_ref` in a session | `LoadRef` |
| `leave()`, called by `Drop` of a session | `Leave` |
| `swap_ptr`, `defer_free` | `Swap`, `DeferFree` |
| `swap_ptr_with_box` in `rebuild_bloom_filter`, whose result is thrown away | `Discard` |
| `maintenance()`, atomic by atomic | `BumpEpoch`, `LoadGlobal`, `LoadHead`, `Visit`, `EndScan`, `Retain` |

`trusted[s]` is a history variable: the pin of session s was honoured, that is,
the session entered, on a worker that was and stayed online.  Calls that read
without entering (`sum_int_range`) are the sessions in `Pinless`.  `leaked` is
history as well: the bloom filters that a rebuild replaced (partition.rs:172),
which are neither queued nor freed; `Discarding` are the cells that hold one.
Memory is
sequentially consistent in `Qsbr`; the property it proves is therefore about
the algorithm, and `QsbrTso` shows where the orderings the code asks for fall
short of it.  `Disciplined` says that a worker carries one pinned session at a
time; the code does not enforce it, and `qsbr_nested` shows what happens when the
first of two sessions leaves: `ResultsValidUntilDrop` speaks of sessions whose worker
stayed online since they entered, and whose companions stamp the same epoch.

### Partition

One partition thread and readers inside sessions.  A *row* remembers the write
(entity and command number) it holds the value of, so that a property can tell
a stale or foreign value from the right one.  `Insert` is `process_insert` and
stands for Insert, BatchInsert (several of them) and InsertFast; `LoadHot`,
`LoadCold`, `Promote` and `PromoteEnd` are the arms of InternalLoad, with the
flush and publication in the middle of the batch; `FlushColumn`, `Publish` and
`SwapDiskIndex` are the swaps at its end; the index is published if `diskDirty`
says that it changed, as the code's flag does.  `UpdateBloom` is the filter with its
rebuild at twice the size.

A call of a reader is a `mode`.  `BeginGet`/`LoadPointer`/`ReadHit`/`ReadMiss`
are a `Get` node with its three attempts; `BeginOther` starts
`get_signed_record`, a `Link` or a `Range`; `FollowLink` goes on with the entity
a Link led to, `ReadRange` reads rows from that of the entity on; `BeginScan`
and `ScanColumn` are `Scan` and `Aggregate`, which load no pointer.  `due` is
history: the rows a scan or range owes its caller.  A reader from
`engine/reader.rs` or `engine/facade.rs` is a session of one call.  The memory a
reader looks at is never reclaimed here: that is Qsbr's business.

`BloomCovers` excepts the entity whose insertion causes a rebuild: the code puts
it into the filter that the rebuild replaces, or looks for it in an index it is
not yet in, although `update_bloom` is documented to insert it (partition.rs:141).
Only the cold path of a read consults the filter.

`GetReturnsOwnValue`, which `partition_mixed` shows violated, is about the value a
`get_int` has returned, and about nothing else a reader may do.

`InternalLoad` is sent by nobody as the code stands (the reader's cold path
tests an index that is never published), but the command and the queue are
public, so it may arrive.

### Lifecycle

`queue` is a linearizable FIFO of `Capacity` slots.  `Send`/`SendOk` separate
the call from the push that succeeds; `Drop`/`Dropped` likewise.  The thread's
`pc` follows `run()`: the blocking receive, the drain loop with its counter
(`tries`, at most `BatchSize`), the batch, and the exit with the flag, the
notification and the join of the compaction thread, which waits on the condvar
with a timeout.  `Replace` is a second registration of the same name.
`accepted` is history.

### Clients

The two ready-made stores at the level of whole partitions: a partition's
`Drain` applies a batch of its queue, up to a Shutdown, and publishes it, as
`Lifecycle` shows in detail.  `PutBegin` and `SendReturns` are `put` and `delete` of
`SimpleKvStore`, called by several threads at once; `InsertBegin`, `SendReturns` and
`InsertReturns` are `insert` of `TypedCdDbCache`, which registers the partition
anew, replaces the route, and drops its writer on return.  `DropStore`,
`PushShutdown`, `JoinAll` and `DropWriter` follow the order in which Rust
drops the fields.  `accepted` and `returned` are history.  `ReadsForward` says
what a reader of either store can rely on: in the key value store a get never
goes back in the order of the queue; in the typed cache an insert that a later
one replaced is never seen again, although all but the last are in partitions
nothing routes to.

### Storage

A file is a sequence of slots of one record each; the 16 MiB growth is `Chunk`
slots, and the zeros it adds are what `rebuild_disk_index` skips.  `disk` keeps
the files that `entities.bin` has been, because a map of a renamed file stays
readable.  Every `lock()` is an action of its own (`Acquire`), or `Brief` where
the lock is given back before the next one is taken: `WriteBegin`,
`WriteCapacity`, `WriteMap`, `Grow`, `Invalidate`, `CopyToMap` and `WriteIndex`
are `write_entity`; `ReadBegin` to `ReadReturn` are `read_entity`, with the open
and the map made while no lock is held; `CompactBegin` to `CompactEnd` are
`compact`, one record at a time in its unlocked phase.  `Crash` kills the
process and runs `Storage::new`; a copy into the map is one step, so records are
whole.  `written` is history: the last record indexed of each entity.

The I/O of `compact` may fail, within `MaxFaults` with the crashes.
`CompactFails` is an error before the copy is complete: it returns `Err` and
changes nothing.  `CopyRecord` and `CopyDelta` may fail to read a record, which
the code passes over: the entity is forgotten (`unread`), or falls back to the
superseded copy of the first phase.  `RenameFails` is the rename whose error is
ignored: the old file is mapped again and the new index installed over it, which
`harm` records.  `IndexMatchesFile` and `RebuildFindsLast` say how far the harm
goes: after a failed rename the file itself is intact until the next write.
That write spoils it: `Spoilt` is the record put where the new index says, or a
growth, whose `set_len` takes the length from the capacity of the file that was
not renamed into place and may cut the old one.  A read beyond a file that was
cut is a panic or a fault in the code and finds `Zeros` in the model; no property
speaks of it.

`ReadsOwnRecord` speaks of reads until a compaction has replaced the file.
After one, and until the partition's next batch, the published `disk_index`
holds offsets of the old file and a read may return another entity's record;
`DirtyOrPublished` says that this ends with the next batch.

### Wal

`mode` is `sync` for `Sync` and `Strict`, `async` for the others.  The writer is
its lock (`holder`), the `BufWriter` (`buf`) and the file, of which a first part
(`synced`) is on the device.  `AppendAsync`, `AppendSync` and `Apply` are the
partition thread around `append_batch`; `Take`, `TakeMore`, `NoSleep` and
`FlusherWrite` the flusher, whose buffers end with the commands in `ends`.

A batch is one buffer for `write_all` (`InHand`), of any size.  `Write` is its
success: the buffer is copied, or copied once the `BufWriter` has written out what
it held, or written out itself, being as large as the `BufWriter`.  `WriteFails` is
its failure.  `MakeRoomFails`: what was held cannot be written out, stays in part,
and the buffer is not copied.  `DirectFails`: the file takes a first part of the
buffer, which may end within a record, and the rest is dropped.  `append_batch`
returns the error without a flush and `run()` applies the batch all the same; the
flusher goes on to its next buffer (`WriteReturns`).  `lost` is history: the
commands dropped so since the last restart.  `Flush` and `Sync` follow, and
`FlushFails` leaves in the `BufWriter` what was not written.

`ProcessCrash` keeps what the system was given, `PowerLoss` only what was synced,
and both may leave part of a record; each is followed by the replay, whose only
effect here is `memory`.  What replay makes of a part of a record, left by a crash
or by a failed write, and of the bytes behind it (a command decoded from garbage,
or a chance resynchronisation) is taken for nothing.

`LogIsHistory` relates what is in the file or on its way to it to what was applied
or is about to be: nothing is overtaken or repeated, and what is missing is
exactly what was `lost`.  `CommandLog` has the same exception: `Fail` adds to
what the log has failed to take, and a restart finds a first part of the rest.
`CheckpointCovers` excepts it too, and what `async_buffer` holds, which
`checkpoint` documents.

### HashMap, Column, Codec, InvertedIndex

Four sequential parts, checked in one run.  `HashMap`: the table as a sequence of buckets; a probe is described by the set of places
where it may end, so that a probe that never ends is a call that cannot be made,
and `ProbesEnd` says that there is none.  `Resized` re-inserts bucket by bucket;
`IterMut` writes through the iterator.  `FiniteMap` is a set of entries: a key
stored in two buckets would be two entries, and none the map could have.

`Column` keeps the validity bits in words of `Width` bits, padded when a bit
beyond them is set, as `ColumnData` does with 64.  Writers take the guard, clone,
edit and swap in; a second one panics (`AcquirePanics`).  `written` and `marked`
are history.

`Codec` is the only module that spells out bytes, because its properties are
about framing: a byte is a number below `Base`, a length has `Width` of them and
an id `IdWidth`.  `Then` is the `?` of the decoders; their counted loops are
recursive functions over one pass each (`NextAttr`, `NextItem`, `ScanStep`, `Note`).  `Tear` cuts the log where a crash would; `WriteRecord` puts a record
behind a reservation's gap in a file grown by `Chunk` zeros, `Reopen` scans it
again.  What is appended behind a cut is read as part of the torn record, and
the decoder of a value then may panic where its doc promises `None`;
`ReplayIsPrefix` excludes it (`torn = "within"`), `wal_torn` shows what it costs.
A gap that is no multiple of the length's width misaligns the scan.  Nothing in
`reserve_zero_copy_buffer` prevents one, although `commit_zero_copy` says that
gaps are fine (storage.rs:300); `RebuildFinds` excludes it (`aligned`), and no run
shows it.

`InvertedIndex` does `binary_search` step by step (`Halved`), so that unsorted
postings go wrong as they would in the code.  `SearchesFind` speaks of `search_and` for queries of
tokens the index has met.  One it never met is passed over, although the doc says
that the results match all tokens; the run `index` shows it (`SearchAndMatchesAll`).

## 3. What the runs check

| Run | Instance | Result |
|---|---|---|
| `protocols` | *Qsbr*: two partitions, one worker, a pinned session and an unpinned call, a cell each and a bloom filter, five objects; *Wal*: both modes, three commands in batches of at most two, a checkpoint, two failing writes, flushes or syncs, two crashes | `HeldNotFreed`, `OwnedOnce`, `QuiescentScanFreesAll` hold and the epochs refine `Reclaim`; `LogIsHistory`, `StrictDurable`, `CheckpointCovers`, `EventuallyDurable` hold and the log refines `CommandLog` |
| `qsbr_nested` | two sessions of one `Query` | **violated** `ResultsValidUntilDrop` |
| `qsbr_tso` | one reader with a store buffer of two | **violated** `PinnedNotReclaimed` |
| `partition` | two entities, two attributes of different types, one reader, three commands in batches of at most two, one cold entity, a filter rebuilt at the second insertion | `PointersResolve`, `ReadsOneWrite`, `ScansComplete`, `GetSteady`, `PublishedIsLatest`, `BloomCovers` hold |
| `partition_mixed` | one attribute name, integer in one entity and string in another | **violated** `GetReturnsOwnValue` |
| `lifecycle` | two handles, three writes, two slots, drain of one more command; and each store with two callers, two keys, three writes, two slots | `InOrder`, `EarlyApplied`, `StopStops`, `DropJoins` hold; `ReadsForward`, `DropDrains`, `DropReturns` hold of the stores |
| `lifecycle_clone` | two handles, a write each | **violated** `SentIsDelivered` |
| `storage` | two entities, three writes, growth by two slots, two compactions, a crash or a failing call of `compact` | `IndexMatchesFile`, `RebuildFindsLast`, `DirtyOrPublished`, `ReadsOwnRecord` hold |
| `storage_deadlock` | one entity, two writes, a compaction | **violated** `WriteReturns` |
| `wal_torn` | `sync`, two commands, a crash | **violated** `StrictNoLoss` |
| `hash_map` | eight keys with homes of their own; five keys in two groups; tables of 8 and 16; a column of three rows in words of two bits with two writers; logs and files of three records, gaps of 0 to 2 and chunks of 15 bytes in base 5; four ids under four texts | `ProbesEnd`, `CountersTrue`, `RowsAsWritten`, `ReplayIsPrefix`, `RebuildFinds`, `SearchesFind` hold; the table refines `FiniteMap` |
| `index` | two ids under four texts | **violated** `SearchAndMatchesAll` |

The violated properties state what the code's own documentation says; the
findings in `PROJECT.json` quote it.

*Bounds.*  Objects (5) and commands (3) bound the histories.  Five objects are
three initial ones and two swaps: a reader that loaded an object, its
replacement, another partition's swap, and a second maintenance, which is what
an early or a double free needs.  Three commands give a batch of two followed
by one, or the reverse, so that a pointer survives a later publication.  The
queue of two slots is full in some states and its drain leaves commands behind.
Three writes and growth by two make the file grow twice, with a compaction
before, between or after, whose delta is empty or not.  Three commands and two
crashes let a batch be written behind what a first crash left and then be
replayed; with two errors a batch stays in the `BufWriter` in front of the next,
and the next is dropped as no room can be made for it.  Eight keys are needed to fill a table of eight with tombstones, five
for a table to grow.  Three rows in words of two bits make the validity vector
grow a second word.  The shortest record takes 10 bytes: a chunk of 15 has
zeros left behind it and no room for a second, so the file grows again; gaps of 0 to 2 are both multiples of the length's
width and not.  Four ids make a binary search take both ways at two levels.
Three inserts into the typed cache leave two partitions without a route, and a
queue of two slots is full of a write and a Shutdown.  Which object is
where does not matter in Qsbr: `protocols`, which checks liveness of the log, takes
one first placement and allocates the next object, `qsbr_nested` uses TLC's
symmetry.

*Fairness.*  `Lifecycle`, `Clients`, `Wal` and the deadlock of `Storage` need it.  The partition thread, the compaction
thread and the dispatcher's drop are scheduled (weak fairness), a condvar wait
with a timeout ends, and a push retried for ever succeeds when the queue keeps
room.  No caller is obliged to send, to drop or to stop.  In
`Wal` the partition thread and the flusher are scheduled and the holder of the
writer's lock gives it back; a lock is obtained in the end because callers of
`checkpoint` come a bounded number of times.

*Deadlock* is checked except where behaviours end by construction: in the
Lifecycle, Clients, Storage and Wal runs everything may have stopped, and a
structure whose bound is reached refuses to grow.

## 4. What is proved

`QsbrProofs`, for any number of partitions, workers, sessions, cells and
objects, from `QsbrAssumption` (the three functions have the types they should):

* `TypeCorrect`, `Ownership` (`OwnedOnce`) and `QuiescentCollection`, without
  further hypotheses;
* `SafeReclamation` (`HeldNotFreed`) and `Refinement` (`Reclaims`), when
  `Disciplined`.

`HeldNotFreed` is not inductive.  The invariant `IInv` adds: a stamp is never
above the clock (`PinInv`); whatever a trusted session holds is still published
or was retired no earlier than its stamp, by the partition it reads from
(`HomeInv`, `EpochInv`); and a maintenance under way has either seen that
stamp, will still see it, or started so early that nothing the session can hold
is old enough to be dropped (`ScanInv`).  The last clause is where the two
increments of `GLOBAL_EPOCH` and those of other partitions are absorbed: the
clock only grows, and every comparison is against a value loaded before.

`WalProofs`, for any number of commands, batches, checkpoints, errors and
crashes and either mode, from `WalAssumption` (the bounds are natural numbers):

* `TypeCorrect`, and `LogKeepsHistory` (`LogIsHistory`).  `Way` is the file and
  behind it what is in the `BufWriter`, with the flusher, in `async_buffer` and
  with the partition thread.  It is inductive that it rises, and that of it
  what this process replayed or logged, and is whole, is what was applied or
  is about to be, less what was lost (`LogInv`), once it is known who holds what
  and who may write (`Held`, `LockOrder`), that numbers are given in order
  (`Numbered`), and that what a restart found and could not replay begins with part
  of a record (`OpenedTorn`).  Most steps move a part of `Way` to its neighbour; a
  failed `write_all` takes out what it adds to `lost`, or leaves the part of a record
  that `Way` no longer counts; a crash cuts `Way` and replaces the history by what
  is replayed.
* `StrictIsDurable` (`StrictDurable`), by `SyncOrder`: while nothing fails, only
  the partition thread writes, it holds the lock until its batch is synced, nothing
  is lost, and so a checkpoint in between finds nothing to write.
* `LogKeepsPromise` (`Promise`, the refinement of `CommandLog`), in either mode
  and with parts of records in the file.  What `CommandLog` is told was accepted is
  what was applied and what is about to be, and what it has failed to take is
  `lost`.  The records in front of the first that is not whole were replayed or
  logged by this process, and rise, so they are a first part of the rest
  (`SafeFirst`, of what is synced; the same for what a crash leaves).
* `CheckpointsCover` (`CheckpointCovers`): a checkpoint about to sync has flushed
  all there was (`Flushed`), and what has been applied is in the file, in the
  `BufWriter`, with the flusher, or lost (`LogInv` again).

`PartitionProofs`, for any number of entities, attributes, families,
readers and commands, from `PartitionAssumption` (there are finitely many
entities, shapes carry attributes of known families, `Get` tries every family):

* `TypeCorrect`.  Types alone are not inductive: a promotion
  reads records of the published disk index, so `BlockOnDisk` (what is still to
  be promoted is in it) goes with them.  `PublishesLatest` (`PublishedIsLatest`),
  when every insert carries an attribute, since `entities_iter` cannot tell an
  insert without one from a deletion; and `FilterCovers` (`BloomCovers`), which
  is inductive as it stands.
* `PointersAlwaysResolve` (`PointersResolve`).  The
  invariant is `Resolving`: the copies a batch works on begin with the published
  rows (`CopiesExtend`), every pointer of the batch designates rows of the
  copies (`BatchResolves`), and every pointer a reader can have designates
  published rows.  The swap of a column changes nothing the batch sees and makes
  the published column longer; the swap of the pointers needs every copy to have
  been swapped in, which is the order of the code.
* When `OneTypePerAttr`, `ReadsAreOfOneWrite`,
  `GetsAreSteady` and `ScansAreComplete`.  Under this hypothesis there is one
  column per attribute (`OneColumn`, from `ColumnsTyped`), so a pointer's row
  number means one row.  What a call has read is the write of its pointer
  (`OneWrite`); a Get of an attribute that stays published has its column among
  those still to try (`Finding`); the rows a scan owes are in the column it will
  come to (`Covering`).  Without the hypothesis the first does not hold: the run
  `partition_mixed` shows it.

`StoresProofs`, first part (`Lifecycle`), for any number of handles, writes,
slots and registrations, from `LifecycleAssumption`: `LifecycleTyped` (`TypeOK`)
and `CommandsInOrder` (`InOrder`).
What was applied, what is in the batch and what is queued is what was accepted;
this is inductive with `LoopOK`: between batches the thread holds no command (so
that a batch is never overtaken by the next receive), it meets at most one
Shutdown before it leaves its loop (so that the equation knows where the Shutdown
it took belongs), and a writer that waits for room has a number for its command.

`StoresProofs`, second part (`Clients`), for any number of callers, keys, slots,
writes and registrations, from `ClientsConstants` (there is at least one slot):

* `ClientsTyped` (`ClientsTypeOK`); `DropAppliesAll` (`DropDrains`); `GetsGoForward`
  (`ReadsForward`).

The invariant has a part per partition and a part per store.  `PartitionOK`: what
waits is the rest of what was accepted, the data is that of the part taken, and
the thread runs until it has taken a Shutdown.  `KvStops`: the dispatcher's
Shutdown is the last command of a key value store, so that the thread that took
it has taken all; what the drop of the writer leaves is behind it.  `KvNumbers`
and `KvGot`: a write is accepted once, and what a get found is one of the writes
taken, hence not behind the last of its key, which is what the next get finds.
`TypedOK`: inserts come one at a time, and the last registration has accepted no
write but that of the last insert.  That batches compose (`AppliedFrom`: the
data of m commands, and then what comes up to the n-th, is the data of n) is
proved from what the data of a sequence is, the last write of each key.

`StorageProofs`, for any entities, growth and bounds, from `StorageAssumption`
(the bounds are natural numbers, the file grows by at least a slot) and with no
further hypotheses:

* `TypeCorrect`, `IndexLeadsToLast` (`IndexMatchesFile`), `RestartFindsLast`
  (`RebuildFindsLast`), `ChangesArePublished` (`DirtyOrPublished`) and
  `ReadsAreOwn` (`ReadsOwnRecord`).

The five hold by one invariant.  Of the six locks two matter, `current_offset`
and `next_disk_index` (`LocksOK`): the others are taken within them or protect
the cached view alone.  `FileOK` keeps offset, capacity and the length of the
file in order, which three pieces of code set.  `MirrorOK` says that the index
leads to the last record of each entity, but for the record written and not yet
indexed; `CopyOK`, that each entity of the index is either still to be copied
from where the index has it, or copied to where the new index has it, or could
not be read.  The records still to be copied lie at different places of the file
(`IndexOK`), so the copy gets no longer than the file (`CountOK`): that is why
the offset taken over from it fits the map made before.  `HarmOK` and `ReadOK`
carry what is left after a failed rename, and to the readers.  The proof attempt
corrected the model: a growth after a failed rename can cut the file, which the
bounds of the run did not reach.

`StructuresProofs`, first part (`Column`), for words of any width and any number
of rows, writers and values, from `ColumnConstants`: `WritesStay`
(`RowsAsWritten`).  The invariant
says what each of the two vectors, the published one and the writer's copy, is
for: `Mirrors` (its rows and its validity bits are the effect of the writes
`written` and `marked` record) and `LockOK` (one writer at most is between its
clone and its swap, so that none overwrites another's rows).  That a row is one
bit of one word, and that the words cover the rows, is arithmetic on quotients
and remainders proved for every width.

`StructuresProofs`, second part (`HashMap`), for any hash functions, keys, values,
capacities and sequences of calls, from `HashAssumption` (hash values are natural numbers, `None` is no
value):

* `MapTyped` (`TypeOK`), `ProbesAlwaysEnd` (`ProbesEnd`), `CountersAlwaysTrue`
  (`CountersTrue`) and `ImplementsMap` (`IsFiniteMap`, the refinement of
  `FiniteMap`).

They hold by one invariant, `MapInv`: the counters are true, the load with the
tombstones counted is below seven tenths, and every key is where a probe for it
passes no empty bucket and no other bucket with that key (`Sound`).  From the
load follows that an empty bucket is left (`CountIs`), from that, as a probe visits every bucket in
a round (`ProbedIs`), that it ends (`ProbeEnds`), and from `Sound` that it ends
where the key is (`FoundIs`).  `insert` keeps `Sound` because it puts the key
on the way of its own probe and never makes a bucket empty (`PlaceSound`),
`remove` because it leaves a tombstone (`EraseSound`).  The resize is a
recursive function over the buckets; `RehashIs` goes by induction on how many
have been moved (`Rehashed`): the new table is at most half full of them, so
each finds a place, and as no key is stored twice none replaces another.

`Recursion` is what these proofs do induction with.  The induction theorems of
the library take an operator as parameter and are out of the prover's reach;
`Induction` states what is needed of them for sets, by the well-foundedness of
the natural numbers, `RecursionExists` and `LoopExists` that what a recursive
definition describes exists, and `LoopKeeps` that what a pass keeps holds after
any number of them.  Every counted loop of the code is a recursive function in
the model, and has a lemma that gives its passes one by one (`ScanLoop`,
`NotedLoop`, `SearchOrLoop`, ...).

`StructuresProofs`, third part (`InvertedIndex`), for any ids, texts and sequence
of calls, from `IndexConstants` (ids are natural numbers, texts and queries
sequences): `SearchesAreRight` (`SearchesFind`).  The invariant `IndexInv` says
that the postings of each token are in strict order and hold the ids indexed
under it.  The order is what the binary search needs: at each pass what lies
before its part is not greater than the id looked for and what lies behind it is
greater (`Brackets`), so that it finds the id or its place (`SearchIs`).  That
place keeps the order (`InsertedIs`, `RemovedIs`), the `retain` of `search_and`
is an intersection (`RetainedIs`), the insertions of `search_or` are a union.

`CodecProofs`, for any base of at least four, any widths, commands, entities,
gaps and growth, from `CodecConstants` (lengths, ids and numbers fit their widths,
strings hold no byte of `NotUtf8`, an attribute has a value of its type):

* `ReplayIsWhole` (`ReplayIsPrefix`), `RebuildFindsAll` (`RebuildFinds`) and
  `FilesTyped`: both files are bytes, and `offset` stays within `entities.bin`
  wherever a scan ends.

Both rest on decoders that invert their encoders, wherever the bytes lie in a
buffer (`Lies`): numbers (`NumberOfDigits`), prefixed bytes, values, the
attributes of one type, which come in any order and are put together again
(`BucketIs`), entities (`EntityIs`), and every kind of command (`CommandIs`).
The log is a pile of the records of `logged`, with a part of one more behind it
if it was cut (`LogIs`).  A scan of it steps over each record (`StepOver`) and
cannot take the part for a whole record, because the bytes of the length are all
there and say how much is missing, or are not all there (`LogScanned`).  For
`entities.bin` the invariant says that there are places at which the records
written lie one behind the other, a multiple of the width of a length apart,
with zeros in between and behind (`LaidOut`), and which of them are the last of
their id (`Latest`).  The scan takes a length of zeros for a record of no bytes and so
goes from record to record in whole lengths (`ScanGoes`); a record of no bytes
has no id and is not noted (`NoteEmpty`); of two records of an id the later one
is (`NotedMore`).  Both invariants say that there is a pile, or that there are places,
which the model does not keep as histories; TLC cannot enumerate them and checks
the properties alone.  An uneven gap breaks `LaidOut`,
and the property with it; `aligned` excludes it.

The last part of `StructuresProofs` is about the specification TLC runs:
`EachByItself` shows that it implements the specification of each structure, so
that the theorems above hold of it, and `AllTyped` (`TypesOK`) is their types
together.  `RECURSIVE` is used nowhere, so every module can be proved about.

Model-checked only:

* `QsbrTso` and the other violated properties: a counterexample is what TLC finds.
* Liveness (`EventuallyDurable`, `EarlyApplied`, `StopStops`, `DropJoins`,
  `DropReturns`, the deadlock of `Storage`), which is out of the prover's reach.

## 5. Plan

1. Reads after a compaction and after a restart, once `disk_index` has a reader:
   the `Storage` a query asks is a second instance that is never published to, so
   its cold path sends no `InternalLoad` and what an earlier process wrote stays
   unread.

## 6. Not modelled

File-system adapters, the hot index and `HitCache` (hints over an external crate
that no answer depends on), the audit log (a mock), the archive (it formats
records, hashes and appends them), `ITOpsRecord` (fixed fields read through
`get_signed_record`, which is modelled), `seed_bloom_filter` (adds to a filter
only the dead cold path asks), `NoopWal` and the fallback to `FileSystem::append`
of a log that could not be opened, `metrics`, `sleep`, `wake`,
`prewarm_partition` (flags and hints nobody waits on), `no_std` variants.
`no_std_tool` and `memmap2` are external; the queue is modelled from its use.
