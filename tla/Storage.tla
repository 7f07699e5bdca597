------------------------------- MODULE Storage -------------------------------
(***************************************************************************)
(* The on-disk store of a partition (io/storage.rs) between the two        *)
(* threads that use it: the partition thread writes, publishes and reads   *)
(* entities, the compaction thread rewrites entities.bin.  Every mutex     *)
(* acquisition is a step.                                                  *)
(*                                                                         *)
(* A file is a sequence of slots, a slot being room for one record; what   *)
(* set_len adds reads as zeros, which the scan at start skips.  A crash is *)
(* that of the process: what was stored through the memory map survives.   *)
(***************************************************************************)
EXTENDS Naturals, Sequences, FiniteSetsExt

CONSTANTS Entities,
          Chunk,           \* slots by which the file grows, 16 MiB in the code
          MaxWrites,       \* bound: records written in a behaviour
          MaxCompactions,  \* bound: calls of compact()
          MaxFaults        \* bound: crashes and failed calls of compact()

ASSUME StorageAssumption ==
    /\ Chunk \in Nat \ {0}
    /\ MaxWrites \in Nat /\ MaxCompactions \in Nat /\ MaxFaults \in Nat

Threads == {"partition", "compaction"}
Free == "free"
Locks == {"current_offset", "disk_capacity", "mmap_writer", "mmap",
          "next_disk_index", "writer"}

VARIABLES
    owner,       \* [Locks -> Threads \cup {Free}]
    disk,        \* the files that have been entities.bin, in order
    path,        \* which of them entities.bin designates
    offset,      \* current_offset, in slots
    capacity,    \* disk_capacity
    mmapWriter,  \* the file mapped for writing, 0 if none
    mmap,        \* the cached read view: its file, 0 if none, and its length
    nextIndex,   \* next_disk_index: [some of Entities -> slot]
    diskIndex,   \* the published disk_index
    dirty,       \* disk_index_dirty
    ppc, ent, slot, view, got,     \* the partition thread's call
    cpc, active, original, tmp, newIndex,  \* the compaction thread's call
    unread,      \* entities whose record it passed over
    writes, compactions, faults,  \* bounds; writes numbers the records
    written,     \* history: [Entities -> the last record indexed]
    harm         \* history: what a failed rename has spoilt

diskVars == <<disk, path>>
mapVars == <<offset, capacity, mmapWriter, mmap>>
indexVars == <<nextIndex, diskIndex, dirty>>
partitionVars == <<ppc, ent, slot, view, got>>
compactVars == <<cpc, active, original, tmp, newIndex, unread>>
boundVars == <<writes, compactions, faults>>
historyVars == <<boundVars, written, harm>>
vars == <<owner, diskVars, mapVars, indexVars, partitionVars, compactVars, historyVars>>

Zeros == <<>>
Record == Entities \X Nat
Content == Seq(Record \cup {Zeros})
NoView == [file |-> 0, len |-> 0]

IsIndex(f) == DOMAIN f \subseteq Entities /\ \A e \in DOMAIN f : f[e] \in Nat \ {0}

Types ==
    /\ owner \in [Locks -> Threads \cup {Free}]
    /\ disk \in Seq(Content)
    /\ path \in DOMAIN disk
    /\ offset \in Nat
    /\ capacity \in Nat
    /\ mmapWriter \in 0 .. Len(disk)
    /\ mmap \in [file : 0 .. Len(disk), len : Nat]
    /\ IsIndex(nextIndex) /\ IsIndex(diskIndex) /\ IsIndex(active) /\ IsIndex(newIndex)
    /\ dirty \in BOOLEAN
    /\ ppc \in {"idle", "capacity", "map", "grow", "invalidate", "copy", "index",
                "swap", "view", "flush", "open", "store", "read", "done"}
    /\ ent \in Entities
    /\ slot \in Nat
    /\ view \in [file : 0 .. Len(disk), len : Nat]
    /\ got \in Record \cup {Zeros}
    /\ cpc \in {"idle", "snapshot", "copy", "offset", "writer", "delta", "rename", "finish"}
    /\ original \in Nat
    /\ tmp \in Content
    /\ unread \subseteq Entities
    /\ writes \in Nat /\ compactions \in Nat /\ faults \in Nat
    /\ written \in [Entities -> Nat]
    /\ harm \in {"none", "index", "file"}

\* The variables have their types, and records are written within the file.
TypeOK == Types /\ (cpc # "finish" => offset <= Len(disk[path]))

NoIndex == [e \in {} |-> 1]

Put(f, x, y) == [z \in DOMAIN f \cup {x} |-> IF z = x THEN y ELSE f[z]]

Slots(content, e) == {i \in DOMAIN content : content[i] # Zeros /\ content[i][1] = e}

\* The number of the last record of e, 0 if there is none.
LastRecord(content, e) ==
    IF Slots(content, e) = {} THEN 0 ELSE content[Max(Slots(content, e))][2]

\* rebuild_disk_index: the last record of each entity wins.  Mutant: the first.
FirstWins(content) ==
    [e \in {d \in Entities : Slots(content, d) # {}} |-> Min(Slots(content, e))]
Rebuilt(content) ==
    [e \in {d \in Entities : Slots(content, d) # {}} |-> Max(Slots(content, e))]

\* A first start, in an empty directory.
Init ==
    /\ owner = [l \in Locks |-> Free]
    /\ disk = <<<<>>>>
    /\ path = 1
    /\ offset = 0
    /\ capacity = 0
    /\ mmapWriter = 0
    /\ mmap = NoView
    /\ nextIndex = NoIndex
    /\ diskIndex = NoIndex
    /\ dirty = FALSE
    /\ ppc = "idle"
    /\ ent \in Entities
    /\ slot = 0
    /\ view = NoView
    /\ got = Zeros
    /\ cpc = "idle"
    /\ active = NoIndex
    /\ original = 0
    /\ tmp = <<>>
    /\ newIndex = NoIndex
    /\ unread = {}
    /\ writes = 0
    /\ compactions = 0
    /\ faults = 0
    /\ written = [e \in Entities |-> 0]
    /\ harm = "none"
-----------------------------------------------------------------------------
(* Mutexes *)

Acquire(t, l) ==
    /\ owner[l] = Free
    /\ owner' = [owner EXCEPT ![l] = t]

ReleaseAll(t) == owner' = [l \in Locks |-> IF owner[l] = t THEN Free ELSE owner[l]]

\* A lock taken and given back within one step.
Brief(l) == owner[l] = Free
-----------------------------------------------------------------------------
(* write_entity, on the partition thread *)

WriteBegin(e) ==
    /\ ppc = "idle"
    /\ writes < MaxWrites
    /\ Acquire("partition", "current_offset")
    /\ ppc' = "capacity"
    /\ ent' = e
    /\ writes' = writes + 1
    /\ UNCHANGED <<diskVars, mapVars, indexVars, slot, view, got, compactVars,
                   compactions, faults, written, harm>>

WriteCapacity ==
    /\ ppc = "capacity"
    /\ Acquire("partition", "disk_capacity")
    /\ ppc' = "map"
    /\ UNCHANGED <<diskVars, mapVars, indexVars, ent, slot, view, got, compactVars,
                   historyVars>>

WriteMap ==
    /\ ppc = "map"
    /\ Acquire("partition", "mmap_writer")
    /\ ppc' = IF offset + 1 > capacity \/ mmapWriter = 0 THEN "grow" ELSE "copy"
    /\ UNCHANGED <<diskVars, mapVars, indexVars, ent, slot, view, got, compactVars,
                   historyVars>>

\* set_len: the file is as long as asked, longer or shorter than it was.
Resized(content, len) ==
    [i \in 1 .. len |-> IF i <= Len(content) THEN content[i] ELSE Zeros]

\* After a failed rename, what changes the file spoils it.
Spoilt == IF harm = "none" THEN "none" ELSE "file"

\* The file is grown and mapped again ...
Grow ==
    /\ ppc = "grow"
    /\ disk' = [disk EXCEPT ![path] = Resized(@, capacity + Chunk)]
    /\ capacity' = capacity + Chunk
    /\ mmapWriter' = path
    /\ ppc' = "invalidate"
    /\ harm' = Spoilt
    /\ UNCHANGED <<owner, path, offset, mmap, indexVars, ent, slot, view, got,
                   compactVars, boundVars, written>>

\* ... or one of the calls fails: the error is returned, the old map is gone.
GrowFails ==
    /\ ppc = "grow"
    /\ \/ UNCHANGED <<disk, harm>>
       \/ /\ disk' = [disk EXCEPT ![path] = Resized(@, capacity + Chunk)]
          /\ harm' = Spoilt
    /\ mmapWriter' = 0
    /\ ReleaseAll("partition")
    /\ ppc' = "idle"
    /\ UNCHANGED <<path, offset, capacity, mmap, indexVars, ent, slot, view, got,
                   compactVars, boundVars, written>>

\* The cached read view is dropped.
Invalidate ==
    /\ ppc = "invalidate"
    /\ Brief("mmap")
    /\ mmap' = NoView
    /\ ppc' = "copy"
    /\ UNCHANGED <<owner, diskVars, offset, capacity, mmapWriter, indexVars, ent,
                   slot, view, got, compactVars, historyVars>>

\* Where the index will say the record is.  Mutant: taken after the advance.
SlotAfter == offset + 2
RecordSlot == offset + 1

CopyToMap ==
    /\ ppc = "copy"
    /\ disk' = [disk EXCEPT ![mmapWriter][offset + 1] = <<ent, writes>>]
    /\ slot' = RecordSlot
    /\ offset' = offset + 1
    /\ ppc' = "index"
    /\ harm' = Spoilt
    /\ UNCHANGED <<owner, path, capacity, mmapWriter, mmap, indexVars, ent, view,
                   got, compactVars, boundVars, written>>

WriteIndex ==
    /\ ppc = "index"
    /\ Brief("next_disk_index")
    /\ nextIndex' = Put(nextIndex, ent, slot)
    /\ dirty' = TRUE
    /\ written' = [written EXCEPT ![ent] = writes]
    /\ ReleaseAll("partition")
    /\ ppc' = "idle"
    /\ UNCHANGED <<diskVars, mapVars, diskIndex, ent, slot, view, got, compactVars,
                   boundVars, harm>>
-----------------------------------------------------------------------------
(* swap_disk_index, on the partition thread *)

SwapFlag ==
    /\ ppc = "idle"
    /\ dirty
    /\ dirty' = FALSE
    /\ ppc' = "swap"
    /\ UNCHANGED <<owner, diskVars, mapVars, nextIndex, diskIndex, ent, slot, view,
                   got, compactVars, historyVars>>

SwapIndex ==
    /\ ppc = "swap"
    /\ Brief("next_disk_index")
    /\ diskIndex' = nextIndex
    /\ ppc' = "idle"
    /\ UNCHANGED <<owner, diskVars, mapVars, nextIndex, dirty, ent, slot, view, got,
                   compactVars, historyVars>>
-----------------------------------------------------------------------------
(* read_entity, on the partition thread (read_block) *)

ReadBegin(e) ==
    /\ ppc = "idle"
    /\ e \in DOMAIN diskIndex
    /\ ent' = e
    /\ slot' = diskIndex[e]
    /\ ppc' = "view"
    /\ UNCHANGED <<owner, diskVars, mapVars, indexVars, view, got, compactVars,
                   historyVars>>

\* The record lies within the cached view.
InView == mmap.file # 0 /\ slot <= mmap.len

ReadView ==
    /\ ppc = "view"
    /\ Brief("mmap")
    /\ \/ InView /\ view' = mmap /\ ppc' = "read"
       \/ ~InView /\ ppc' = "flush" /\ UNCHANGED view
    /\ UNCHANGED <<owner, diskVars, mapVars, indexVars, ent, slot, got, compactVars,
                   historyVars>>

\* Nothing is ever put into `writer`: the flush only takes its lock.
ReadFlush ==
    /\ ppc = "flush"
    /\ Brief("writer")
    /\ ppc' = "open"
    /\ UNCHANGED <<owner, diskVars, mapVars, indexVars, ent, slot, view, got,
                   compactVars, historyVars>>

\* Open and map the file, with no lock held ...
ReadOpen ==
    /\ ppc = "open"
    /\ view' = [file |-> path, len |-> Len(disk[path])]
    /\ ppc' = "store"
    /\ UNCHANGED <<owner, diskVars, mapVars, indexVars, ent, slot, got, compactVars,
                   historyVars>>

\* ... then cache the view.
ReadStore ==
    /\ ppc = "store"
    /\ Brief("mmap")
    /\ mmap' = view
    /\ ppc' = "read"
    /\ UNCHANGED <<owner, diskVars, offset, capacity, mmapWriter, indexVars, ent,
                   slot, view, got, compactVars, historyVars>>

\* Beyond the view the slice panics, and beyond the end of a file that has been
\* cut since the access faults; Zeros stands for both.
Read ==
    /\ ppc = "read"
    /\ got' = IF slot <= view.len /\ slot \in DOMAIN disk[view.file]
              THEN disk[view.file][slot] ELSE Zeros
    /\ ppc' = "done"
    /\ UNCHANGED <<owner, diskVars, mapVars, indexVars, ent, slot, view, compactVars,
                   historyVars>>

ReadReturn ==
    /\ ppc = "done"
    /\ got' = Zeros
    /\ ppc' = "idle"
    /\ UNCHANGED <<owner, diskVars, mapVars, indexVars, ent, slot, view, compactVars,
                   historyVars>>
-----------------------------------------------------------------------------
(* compact, on the compaction thread *)

CompactBegin ==
    /\ cpc = "idle"
    /\ compactions < MaxCompactions
    /\ Acquire("compaction", "next_disk_index")
    /\ cpc' = "snapshot"
    /\ compactions' = compactions + 1
    /\ UNCHANGED <<diskVars, mapVars, indexVars, partitionVars, active, original,
                   tmp, newIndex, unread, writes, faults, written, harm>>

\* Index and offset are copied; the temporary file is created empty.
Snapshot ==
    /\ cpc = "snapshot"
    /\ Brief("current_offset")
    /\ active' = nextIndex
    /\ original' = offset
    /\ tmp' = <<>>
    /\ newIndex' = NoIndex
    /\ unread' = {}
    /\ ReleaseAll("compaction")
    /\ cpc' = "copy"
    /\ UNCHANGED <<diskVars, mapVars, indexVars, partitionVars, historyVars>>

\* Append the record at slot i to the temporary file; one that cannot be read
\* is passed over.
CopyRecord(e, i) ==
    \/ /\ i \in DOMAIN disk[path]
       /\ tmp' = Append(tmp, disk[path][i])
       /\ newIndex' = Put(newIndex, e, Len(tmp) + 1)
       /\ unread' = unread \ {e}
       /\ UNCHANGED faults
    \/ /\ i \notin DOMAIN disk[path] \/ faults < MaxFaults
       /\ faults' = IF i \in DOMAIN disk[path] THEN faults + 1 ELSE faults
       /\ unread' = unread \cup {e}
       /\ UNCHANGED <<tmp, newIndex>>

\* First phase, without locks: one record of the snapshot, in any order.
CopyActive(e) ==
    /\ cpc = "copy"
    /\ e \in DOMAIN active
    /\ CopyRecord(e, active[e])
    /\ active' = [d \in DOMAIN active \ {e} |-> active[d]]
    /\ UNCHANGED <<owner, diskVars, mapVars, indexVars, partitionVars, cpc, original,
                   writes, compactions, written, harm>>

LockIndex ==
    /\ cpc = "copy"
    /\ DOMAIN active = {}
    /\ Acquire("compaction", "next_disk_index")
    /\ cpc' = "offset"
    /\ UNCHANGED <<diskVars, mapVars, indexVars, partitionVars, active, original,
                   tmp, newIndex, unread, historyVars>>

LockOffset ==
    /\ cpc = "offset"
    /\ Acquire("compaction", "current_offset")
    /\ cpc' = "writer"
    /\ UNCHANGED <<diskVars, mapVars, indexVars, partitionVars, active, original,
                   tmp, newIndex, unread, historyVars>>

\* The records written since the snapshot.  Mutant: the first one is missed.
LaterDelta == {e \in DOMAIN nextIndex : nextIndex[e] > original + 1}
Delta == {e \in DOMAIN nextIndex : nextIndex[e] > original}

LockWriter ==
    /\ cpc = "writer"
    /\ Acquire("compaction", "writer")
    /\ active' = [e \in Delta |-> nextIndex[e]]
    /\ cpc' = "delta"
    /\ UNCHANGED <<diskVars, mapVars, indexVars, partitionVars, original, tmp,
                   newIndex, unread, historyVars>>

\* Second phase, under locks: they are appended in the order they were written.
CopyDelta(e) ==
    /\ cpc = "delta"
    /\ e \in DOMAIN active
    /\ \A d \in DOMAIN active : active[e] <= active[d]
    /\ CopyRecord(e, active[e])
    /\ active' = [d \in DOMAIN active \ {e} |-> active[d]]
    /\ UNCHANGED <<owner, diskVars, mapVars, indexVars, partitionVars, cpc, original,
                   writes, compactions, written, harm>>

\* The temporary file is complete and synced; the read view is dropped.
LockView ==
    /\ cpc = "delta"
    /\ DOMAIN active = {}
    /\ Acquire("compaction", "mmap")
    /\ mmap' = NoView
    /\ cpc' = "rename"
    /\ UNCHANGED <<diskVars, offset, capacity, mmapWriter, indexVars, partitionVars,
                   active, original, tmp, newIndex, unread, historyVars>>

\* A write or sync of the temporary file fails, or it cannot be created:
\* compact returns the error, and what it held is as it was.
CompactFails ==
    /\ cpc \in {"copy", "delta"}
    /\ faults < MaxFaults
    /\ faults' = faults + 1
    /\ ReleaseAll("compaction")
    /\ cpc' = "idle"
    /\ UNCHANGED <<diskVars, mapVars, indexVars, partitionVars, active, original,
                   tmp, newIndex, unread, writes, compactions, written, harm>>

\* The new file takes the place of the old one and is mapped, unless it cannot
\* be, as when it is empty.
Rename ==
    /\ cpc = "rename"
    /\ Acquire("compaction", "mmap_writer")
    /\ disk' = Append(disk, tmp)
    /\ path' = Len(disk) + 1
    /\ \/ mmapWriter' = path' /\ tmp # <<>>
       \/ mmapWriter' = 0
    /\ cpc' = "finish"
    /\ written' = [e \in Entities |-> IF e \in unread THEN LastRecord(tmp, e)
                                      ELSE written[e]]
    /\ harm' = Spoilt
    /\ UNCHANGED <<offset, capacity, mmap, indexVars, partitionVars, active,
                   original, tmp, newIndex, unread, boundVars>>

\* A rename that fails is ignored: the old file is mapped again, and compact
\* goes on to install the index and the sizes of the new one.
RenameFails ==
    /\ cpc = "rename"
    /\ faults < MaxFaults
    /\ faults' = faults + 1
    /\ Acquire("compaction", "mmap_writer")
    /\ mmapWriter' \in {0} \cup (IF disk[path] = <<>> THEN {} ELSE {path})
    /\ cpc' = "finish"
    /\ harm' = IF harm = "file" THEN "file" ELSE "index"
    /\ UNCHANGED <<diskVars, offset, capacity, mmap, indexVars, partitionVars, active,
                   original, tmp, newIndex, unread, writes, compactions, written>>

\* disk_index_dirty once the index has been replaced.  Mutant: left as it is.
DirtyAsBefore == dirty
DirtyAfterCompact == TRUE

\* current_offset likewise.  Mutant: records written meanwhile added again.
OffsetAfterDelta == Len(tmp) + offset - original
OffsetAfterCompact == Len(tmp)

CompactEnd ==
    /\ cpc = "finish"
    /\ Brief("disk_capacity")
    /\ capacity' = Len(tmp)
    /\ nextIndex' = newIndex
    /\ offset' = OffsetAfterCompact
    /\ dirty' = DirtyAfterCompact
    /\ ReleaseAll("compaction")
    /\ cpc' = "idle"
    /\ UNCHANGED <<diskVars, mmapWriter, mmap, diskIndex, partitionVars, active,
                   original, tmp, newIndex, unread, historyVars>>
-----------------------------------------------------------------------------
\* The process dies and starts again: Storage::new scans entities.bin into
\* next_disk_index, and publishes nothing because nothing is dirty.  (Once
\* records lie across old ones it would not find slots any more.)
Crash ==
    /\ harm # "file"
    /\ faults < MaxFaults
    /\ faults' = faults + 1
    /\ owner' = [l \in Locks |-> Free]
    /\ disk' = <<disk[path]>>
    /\ path' = 1
    /\ offset' = Len(disk[path])
    /\ capacity' = Len(disk[path])
    /\ mmapWriter' = 0
    /\ mmap' = NoView
    /\ nextIndex' = Rebuilt(disk[path])
    /\ diskIndex' = NoIndex
    /\ dirty' = FALSE
    /\ ppc' = "idle" /\ slot' = 0 /\ view' = NoView /\ got' = Zeros
    /\ cpc' = "idle" /\ active' = NoIndex /\ original' = 0 /\ tmp' = <<>>
    /\ newIndex' = NoIndex /\ unread' = {}
    /\ harm' = "none"
    /\ written' = [e \in Entities |-> LastRecord(disk[path], e)]
    /\ UNCHANGED <<ent, writes, compactions>>

PartitionNext ==
    \/ \E e \in Entities : WriteBegin(e) \/ ReadBegin(e)
    \/ WriteCapacity \/ WriteMap \/ Grow \/ GrowFails \/ Invalidate \/ CopyToMap
    \/ WriteIndex \/ SwapFlag \/ SwapIndex
    \/ ReadView \/ ReadFlush \/ ReadOpen \/ ReadStore \/ Read \/ ReadReturn

CompactionNext ==
    \/ CompactBegin \/ Snapshot \/ LockIndex \/ LockOffset \/ LockWriter
    \/ \E e \in Entities : CopyActive(e) \/ CopyDelta(e)
    \/ LockView \/ CompactFails \/ Rename \/ RenameFails \/ CompactEnd

Next == PartitionNext \/ CompactionNext \/ Crash

Spec == Init /\ [][Next]_vars

\* The two threads are scheduled.
FairSpec == Spec /\ WF_vars(PartitionNext) /\ WF_vars(CompactionNext)
-----------------------------------------------------------------------------
\* Whatever the two threads are doing, the index leads to the last record
\* indexed of each entity, through growth, compaction, failed compaction and
\* restart; only an entity whose record compact could not read is forgotten, or
\* goes back to the record copied before.  Inside compact's last step the file
\* runs ahead of it, and a failed rename, which compact ignores, makes it false.
IndexMatchesFile ==
    cpc # "finish" /\ harm = "none" =>
        /\ DOMAIN nextIndex = {e \in Entities : written[e] # 0}
        /\ \A e \in DOMAIN nextIndex :
              /\ nextIndex[e] \in DOMAIN disk[path]
              /\ disk[path][nextIndex[e]] = <<e, written[e]>>

\* A crash at any moment loses no record that write_entity has indexed and
\* brings back none that was superseded, except where compact could not read
\* one: the scan of entities.bin finds the last one, or the one being written.
\* After a failed rename that is so up to the next write, which may even cut the
\* file: it sets the length from the capacity of the file that was not renamed.
RebuildFindsLast ==
    harm # "file" =>
    \A e \in Entities :
        LastRecord(disk[path], e) \in
            {written[e]} \cup (IF ppc = "index" /\ ent = e THEN {writes} ELSE {})

\* A change of the index is either published or still marked dirty, although
\* swap_disk_index clears the mark before it takes the lock (nothing is
\* published before the first write after a start).
DirtyOrPublished ==
    dirty \/ ppc = "swap" \/ diskIndex = nextIndex \/ diskIndex = NoIndex

\* Until a compaction has replaced the file, read_entity returns a record of
\* the entity it was asked for, although the file grows under its cached view.
ReadsOwnRecord ==
    (ppc = "done" /\ path = 1 /\ harm = "none") => got # Zeros /\ got[1] = ent

\* write_entity returns: compact is documented not to stall it (storage.rs,
\* "two lock-free phases to minimise write stalls").
WriteReturns == ppc = "capacity" ~> ppc = "idle"
=============================================================================
