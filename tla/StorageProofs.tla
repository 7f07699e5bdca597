---------------------------- MODULE StorageProofs ----------------------------
(***************************************************************************)
(* Proofs about Storage, for any entities, growth and bounds.              *)
(***************************************************************************)
EXTENDS Storage, FiniteSetTheorems, SequenceTheorems, WellFoundedInduction, TLAPS

File == disk[path]

Writing == {"capacity", "map", "grow", "invalidate", "copy", "index"}
Reading == {"view", "flush", "open", "store", "read"}
Copying == {"copy", "offset", "writer", "delta", "rename"}

\* What two of the six locks stand for: the others are taken and given back
\* within the time current_offset is held, or protect the cached view alone.
LocksOK ==
    /\ owner["current_offset"] = "partition" <=> ppc \in Writing
    /\ owner["current_offset"] = "compaction" <=>
           cpc \in {"writer", "delta", "rename", "finish"}
    /\ owner["next_disk_index"] = "compaction" <=>
           cpc \in {"snapshot", "offset", "writer", "delta", "rename", "finish"}
    /\ owner["next_disk_index"] # "partition"

\* Every record carries a number.
Numbered(content) == \A i \in DOMAIN content : content[i] # Zeros => content[i][2] > 0

\* The file, its length and the map of it.
FileOK ==
    /\ path = Len(disk)
    /\ mmapWriter \in {0, path}
    /\ cpc # "finish" => offset <= capacity /\ capacity <= Len(File)
    /\ cpc = "finish" => Len(tmp) <= Len(File)
    /\ ppc \in {"invalidate", "copy"} => mmapWriter = path /\ offset < capacity
    /\ ppc \in Writing => writes > 0
    /\ ppc = "index" => slot = offset /\ slot \in DOMAIN File /\ File[slot] = <<ent, writes>>
    /\ Numbered(File) /\ Numbered(tmp)

\* The indexes, whatever a failed rename has done to the file.
IndexOK ==
    /\ IsInjective(nextIndex) /\ IsInjective(newIndex)
    /\ \A e \in DOMAIN nextIndex :
          nextIndex[e] <= offset /\ (ppc = "index" => nextIndex[e] < offset)
    /\ \A e \in DOMAIN newIndex : newIndex[e] <= Len(tmp)

\* The temporary file gets no longer than the file: the records still to be
\* copied lie at different places of it.
CountOK ==
    /\ IsFiniteSet(DOMAIN active)
    /\ cpc \in {"offset", "writer", "rename", "finish"} => DOMAIN active = {}
    /\ cpc \in Copying => original <= offset
    /\ cpc \in {"copy", "offset", "writer"} =>
          Len(tmp) + Cardinality(DOMAIN active) <= original
    /\ cpc \in {"delta", "rename", "finish"} =>
          Len(tmp) + Cardinality(DOMAIN active) <= offset

\* The index leads to the last record of each entity, numbered num, except that
\* the record at slot new is not yet in it.
Mirrors(content, index, num, new) ==
    /\ DOMAIN index = {e \in Entities : num[e] # 0}
    /\ \A e \in DOMAIN index :
          index[e] \in DOMAIN content /\ content[index[e]] = <<e, num[e]>>
    /\ \A e \in Entities : \A i \in Slots(content, e) :
          i = new \/ (e \in DOMAIN index /\ i <= index[e])

MirrorOK ==
    harm = "none" =>
        /\ cpc # "finish" =>
              Mirrors(File, nextIndex, written, IF ppc = "index" THEN slot ELSE 0)
        /\ cpc = "finish" => File = tmp /\ Mirrors(File, newIndex, written, 0)

\* The record that e is indexed with has been dealt with, or is still to be.
Copied(e) ==
    IF e \in DOMAIN active
    THEN active[e] = nextIndex[e]
    ELSE \/ e \in unread
         \/ e \in DOMAIN newIndex /\ tmp[newIndex[e]] = File[nextIndex[e]]

\* The temporary file: the records of the snapshot, then those of the delta.
CopyOK ==
    harm = "none" /\ cpc \in Copying =>
        /\ \A e \in DOMAIN newIndex : newIndex[e] \in Slots(tmp, e)
        /\ \A e \in Entities : \A i \in Slots(tmp, e) :
              e \in DOMAIN newIndex /\ i <= newIndex[e]
        /\ DOMAIN newIndex \cup DOMAIN active \subseteq DOMAIN nextIndex
        /\ \A e \in DOMAIN active : active[e] \in Slots(File, e)
        /\ \A e \in DOMAIN nextIndex :
              nextIndex[e] <= original \/ cpc \in {"delta", "rename"} => Copied(e)
        /\ ppc = "index" => original < slot

\* After a failed rename the file is as it was.
HarmOK ==
    harm = "index" =>
        /\ ppc # "index"
        /\ \A e \in Entities : LastRecord(File, e) = written[e]

\* Reads: the view is of a file, and as long as no compaction has replaced the
\* file, of this one, with a record of the entity where the index said.
ReadOK ==
    /\ ppc \in {"store", "read"} => view.file # 0
    /\ path = 1 /\ harm = "none" =>
        /\ cpc # "finish"
        /\ \A e \in DOMAIN diskIndex : diskIndex[e] \in Slots(File, e)
        /\ ppc \in Reading => slot \in Slots(File, ent)
        /\ ppc \in {"store", "read"} => slot <= view.len
        /\ ppc = "done" => got # Zeros /\ got[1] = ent

IInv ==
    /\ TypeOK /\ LocksOK /\ FileOK /\ IndexOK /\ CountOK /\ MirrorOK /\ CopyOK
    /\ HarmOK /\ ReadOK /\ DirtyOrPublished
-----------------------------------------------------------------------------
(* Slots, indexes and contents *)

\* A slot of an entity is a place of the content with a record of it.
LEMMA SlotsOf ==
  ASSUME NEW content \in Content, NEW e
  PROVE  /\ Slots(content, e) \subseteq 1 .. Len(content)
         /\ \A i \in Slots(content, e) :
               /\ content[i] # Zeros
               /\ content[i] \in Record
               /\ content[i][1] = e
               /\ content[i][2] \in Nat
               /\ e \in Entities
<1>1. Slots(content, e) \subseteq 1 .. Len(content)
  BY DEF Slots, Content
<1>2. ASSUME NEW i \in Slots(content, e)
      PROVE  /\ content[i] # Zeros
             /\ content[i] \in Record
             /\ content[i][1] = e
             /\ content[i][2] \in Nat
             /\ e \in Entities
  <2>1. content[i] # Zeros /\ content[i][1] = e
    BY DEF Slots
  <2>2. content[i] \in Record \cup {Zeros}
    BY <1>1, ElementOfSeq DEF Content
  <2>3. content[i] \in Record
    BY <2>1, <2>2
  <2> QED
    BY <2>1, <2>3 DEF Record
<1> QED
  BY <1>1, <1>2

\* The last slot of an entity is one of them.
LEMMA LastSlot ==
  ASSUME NEW content \in Content, NEW e, Slots(content, e) # {}
  PROVE  /\ Max(Slots(content, e)) \in Slots(content, e)
         /\ \A i \in Slots(content, e) : i <= Max(Slots(content, e))
<1> DEFINE S == Slots(content, e)
           T == {Len(content) - i : i \in S}
<1>1. S \subseteq 1 .. Len(content) /\ Len(content) \in Nat
  BY SlotsOf, LenProperties DEF Content
<1>2. PICK n \in T : \A m \in T : ~ (<<m, n>> \in OpToRel(<, Nat))
  <2>1. T \subseteq Nat /\ T # {}
    BY <1>1
  <2> HIDE DEF T
  <2> QED
    BY <2>1, NatLessThanWellFounded, WFMin
<1>3. PICK x \in S : n = Len(content) - x
  OBVIOUS
<1>4. \A y \in S : x >= y
  <2> SUFFICES ASSUME NEW y \in S, ~ (x >= y)
               PROVE  FALSE
    OBVIOUS
  <2>1. /\ Len(content) - y \in T /\ Len(content) - y < n
        /\ Len(content) - y \in Nat /\ n \in Nat
    BY <1>1, <1>3
  <2>2. <<Len(content) - y, n>> \in OpToRel(<, Nat)
    BY <2>1 DEF OpToRel
  <2> QED
    BY <2>1, <2>2, <1>2
<1>5. Max(S) \in S /\ \A y \in S : Max(S) >= y
  <2> HIDE DEF S
  <2> QED
    BY <1>4, Zenon DEF Max
<1>6. Max(S) \in Nat /\ \A y \in S : y \in Nat
  BY <1>1, <1>5
<1> QED
  BY <1>5, <1>6

\* The number of the last record, from any slot behind which there is none.
LEMMA LastRecordIs ==
  ASSUME NEW content \in Content, NEW e, NEW i \in Slots(content, e),
         \A j \in Slots(content, e) : j <= i
  PROVE  LastRecord(content, e) = content[i][2]
<1>1. Max(Slots(content, e)) \in Slots(content, e) /\ i <= Max(Slots(content, e))
  BY LastSlot
<1>2. Max(Slots(content, e)) <= i
  BY <1>1
<1>3. Max(Slots(content, e)) = i
  BY <1>1, <1>2, SlotsOf
<1> QED
  BY <1>3 DEF LastRecord

\* The number of the last record is a number, and 0 if there is none.
LEMMA LastRecordType ==
  ASSUME NEW content \in Content, NEW e, Numbered(content)
  PROVE  /\ LastRecord(content, e) \in Nat
         /\ LastRecord(content, e) = 0 <=> Slots(content, e) = {}
<1>1. CASE Slots(content, e) = {}
  BY <1>1 DEF LastRecord
<1>2. CASE Slots(content, e) # {}
  <2>1. Max(Slots(content, e)) \in Slots(content, e)
    BY <1>2, LastSlot
  <2>2. /\ content[Max(Slots(content, e))][2] \in Nat
        /\ content[Max(Slots(content, e))][2] > 0
    <3> DEFINE m == Max(Slots(content, e))
    <3> HIDE DEF m
    <3>1. m \in Slots(content, e)
      BY <2>1 DEF m
    <3>2. m \in DOMAIN content /\ content[m] # Zeros /\ content[m][2] \in Nat
      BY <3>1, SlotsOf DEF Slots
    <3> QED
      BY <3>2 DEF Numbered, m
  <2> QED
    BY <1>2, <2>2 DEF LastRecord
<1> QED
  BY <1>1, <1>2

\* An index with one entry more, or another.
LEMMA PutIs ==
  ASSUME NEW f, NEW x, NEW y
  PROVE  /\ DOMAIN Put(f, x, y) = DOMAIN f \cup {x}
         /\ \A z \in DOMAIN Put(f, x, y) :
               Put(f, x, y)[z] = IF z = x THEN y ELSE f[z]
BY DEF Put

\* The type of such an index.
LEMMA PutType ==
  ASSUME NEW f, IsIndex(f), NEW x \in Entities, NEW y \in Nat \ {0}
  PROVE  IsIndex(Put(f, x, y))
BY DEF IsIndex, Put

\* set_len keeps the records that lie below the length asked for.
LEMMA ResizedIs ==
  ASSUME NEW content \in Content, NEW len \in Nat
  PROVE  /\ Resized(content, len) \in Content
         /\ Len(Resized(content, len)) = len
         /\ DOMAIN Resized(content, len) = 1 .. len
         /\ \A i \in 1 .. len :
               Resized(content, len)[i] = IF i <= Len(content) THEN content[i] ELSE Zeros
<1>1. \A i \in 1 .. len :
         (IF i <= Len(content) THEN content[i] ELSE Zeros) \in Record \cup {Zeros}
  BY ElementOfSeq, LenProperties DEF Content
<1>2. Resized(content, len) = [i \in 1 .. len |-> IF i <= Len(content) THEN content[i] ELSE Zeros]
  BY DEF Resized
<1> QED
  BY <1>1, <1>2 DEF Content
\* Entities indexed at different places between two others are no more than there
\* is room for.
LEMMA Places ==
  ASSUME NEW f, IsInjective(f), NEW a \in Nat, NEW b \in Nat, a <= b,
         \A e \in DOMAIN f : f[e] \in a + 1 .. b
  PROVE  IsFiniteSet(DOMAIN f) /\ Cardinality(DOMAIN f) <= b - a
<1> DEFINE g == [e \in DOMAIN f |-> f[e]]
<1>1. g \in Injection(DOMAIN f, a + 1 .. b)
  BY DEF Injection, IsInjective
<1>2. IsFiniteSet(a + 1 .. b) /\ Cardinality(a + 1 .. b) = b - a
  <2>1. /\ IsFiniteSet(a + 1 .. b)
        /\ Cardinality(a + 1 .. b) = IF a + 1 > b THEN 0 ELSE b - (a + 1) + 1
    BY FS_Interval
  <2> QED
    BY <2>1
<1> QED
  BY <1>1, <1>2, FS_Injection

\* A file replaced by another content.
LEMMA ReplaceFile ==
  ASSUME TypeOK, NEW c \in Content
  PROVE  /\ [disk EXCEPT ![path] = c] \in Seq(Content)
         /\ Len([disk EXCEPT ![path] = c]) = Len(disk)
         /\ [disk EXCEPT ![path] = c][path] = c
         /\ DOMAIN [disk EXCEPT ![path] = c] = DOMAIN disk
<1>1. disk \in Seq(Content) /\ path \in 1 .. Len(disk)
  BY LenProperties DEF TypeOK, Types
<1> HIDE DEF Content
<1> QED
  BY <1>1, ExceptSeq

\* What the file and the temporary file are.
LEMMA Contents ==
  ASSUME TypeOK
  PROVE  /\ File \in Content /\ tmp \in Content
         /\ Len(File) \in Nat /\ Len(tmp) \in Nat
         /\ path \in 1 .. Len(disk) /\ Len(disk) \in Nat
         /\ DOMAIN File = 1 .. Len(File) /\ DOMAIN tmp = 1 .. Len(tmp)
<1>1. disk \in Seq(Content) /\ path \in DOMAIN disk
  BY DEF TypeOK, Types
<1>2. path \in 1 .. Len(disk) /\ Len(disk) \in Nat
  BY <1>1, LenProperties
<1>3. File \in Content
  BY <1>1, <1>2, ElementOfSeq DEF File
<1>4. tmp \in Content
  BY DEF TypeOK, Types
<1> QED
  BY <1>2, <1>3, <1>4, LenProperties DEF Content
-----------------------------------------------------------------------------
(* The locks and the file *)

\* The steps of the partition thread keep what is said of the locks.
LEMMA LocksPartition ==
  ASSUME TypeOK, LocksOK, PartitionNext
  PROVE  LocksOK'
<1> USE DEF LocksOK, Writing, Locks, Threads, Free
<1>0. owner \in [Locks -> Threads \cup {Free}]
  BY DEF TypeOK, Types
<1>1. ASSUME NEW e \in Entities, WriteBegin(e) \/ ReadBegin(e)
      PROVE  LocksOK'
  BY <1>0, <1>1 DEF WriteBegin, ReadBegin, Acquire, compactVars
<1>2. CASE WriteCapacity \/ WriteMap
  BY <1>0, <1>2 DEF WriteCapacity, WriteMap, Acquire, compactVars
<1>3. CASE Grow \/ Invalidate \/ CopyToMap
  BY <1>0, <1>3 DEF Grow, Invalidate, CopyToMap, compactVars
<1>4. CASE GrowFails \/ WriteIndex
  BY <1>0, <1>4 DEF GrowFails, WriteIndex, ReleaseAll, compactVars
<1>5. CASE SwapFlag \/ SwapIndex
  BY <1>0, <1>5 DEF SwapFlag, SwapIndex, compactVars
<1>6. CASE ReadView \/ ReadFlush \/ ReadOpen \/ ReadStore \/ Read \/ ReadReturn
  BY <1>0, <1>6 DEF ReadView, ReadFlush, ReadOpen, ReadStore, Read, ReadReturn, compactVars
<1> QED
  BY <1>1, <1>2, <1>3, <1>4, <1>5, <1>6 DEF PartitionNext

\* So do those of the compaction thread.
LEMMA LocksCompaction ==
  ASSUME TypeOK, LocksOK, CompactionNext
  PROVE  LocksOK'
<1> USE DEF LocksOK, Writing, Locks, Threads, Free, partitionVars
<1>0. owner \in [Locks -> Threads \cup {Free}]
  BY DEF TypeOK, Types
<1>1. ASSUME NEW e \in Entities, CopyActive(e) \/ CopyDelta(e)
      PROVE  LocksOK'
  BY <1>0, <1>1 DEF CopyActive, CopyDelta
<1>2. CASE CompactBegin \/ LockIndex \/ LockOffset \/ LockWriter
  BY <1>0, <1>2 DEF CompactBegin, LockIndex, LockOffset, LockWriter, Acquire
<1>3. CASE LockView \/ Rename \/ RenameFails
  BY <1>0, <1>3 DEF LockView, Rename, RenameFails, Acquire
<1>4. CASE Snapshot \/ CompactFails \/ CompactEnd
  BY <1>0, <1>4 DEF Snapshot, CompactFails, CompactEnd, ReleaseAll
<1> QED
  BY <1>1, <1>2, <1>3, <1>4 DEF CompactionNext

\* Whoever is in the middle of a write keeps compact out, and the reverse; a
\* lock that is free keeps both out.
LEMMA Exclusion ==
  ASSUME LocksOK
  PROVE  /\ ppc \in Writing => cpc \notin {"writer", "delta", "rename", "finish"}
         /\ owner["current_offset"] = Free =>
               ppc \notin Writing /\ cpc \notin {"writer", "delta", "rename", "finish"}
         /\ owner["next_disk_index"] = Free =>
               cpc \notin {"snapshot", "offset", "writer", "delta", "rename", "finish"}
BY DEF LocksOK, Free
\* A record that is appended, or that takes the place of another, is numbered as
\* the others are.
LEMMA NumberedAppend ==
  ASSUME NEW content \in Content, Numbered(content), NEW r \in Record \cup {Zeros},
         r # Zeros => r[2] > 0
  PROVE  /\ Append(content, r) \in Content /\ Numbered(Append(content, r))
         /\ Len(Append(content, r)) = Len(content) + 1
         /\ Append(content, r)[Len(content) + 1] = r
         /\ \A i \in 1 .. Len(content) : Append(content, r)[i] = content[i]
<1>1. content \in Seq(Record \cup {Zeros}) /\ Len(content) \in Nat
  BY LenProperties DEF Content
<1>2. /\ Append(content, r) \in Seq(Record \cup {Zeros})
      /\ Len(Append(content, r)) = Len(content) + 1
      /\ Append(content, r)[Len(content) + 1] = r
      /\ \A i \in 1 .. Len(content) : Append(content, r)[i] = content[i]
  BY <1>1, AppendProperties
<1>3. Numbered(Append(content, r))
  BY <1>1, <1>2 DEF Numbered
<1> QED
  BY <1>2, <1>3 DEF Content

\* A write at the end of what is written: the file is the same below.
LEMMA CopyToMapIs ==
  ASSUME TypeOK, LocksOK, FileOK, CopyToMap
  PROVE  /\ disk' \in Seq(Content) /\ Len(disk') = Len(disk)
         /\ path' = path
         /\ File' \in Content
         /\ DOMAIN File' = DOMAIN File /\ Len(File') = Len(File)
         /\ offset + 1 \in DOMAIN File /\ offset \in Nat
         /\ \A i \in DOMAIN File :
               File'[i] = IF i = offset + 1 THEN <<ent, writes>> ELSE File[i]
         /\ <<ent, writes>> \in Record /\ <<ent, writes>>[2] > 0
<1> DEFINE c == [File EXCEPT ![offset + 1] = <<ent, writes>>]
<1>1. /\ ppc = "copy" /\ path' = path /\ mmapWriter = path
      /\ disk' = [disk EXCEPT ![path][offset + 1] = <<ent, writes>>]
  BY DEF CopyToMap, FileOK
<1>2. disk' = [disk EXCEPT ![path] = c]
  BY <1>1, Zenon DEF File
<1>3. offset \in Nat /\ offset < capacity /\ capacity <= Len(File) /\ capacity \in Nat
  BY <1>1, Exclusion DEF TypeOK, Types, FileOK, Writing
<1>4. offset + 1 \in 1 .. Len(File)
  BY <1>3, Contents
<1>5. writes \in Nat /\ writes > 0 /\ ent \in Entities
  BY <1>1 DEF TypeOK, Types, FileOK, Writing
<1>6. <<ent, writes>> \in Record /\ <<ent, writes>>[2] > 0
  BY <1>5 DEF Record
<1>7. /\ c \in Content
      /\ Len(c) = Len(File)
      /\ \A i \in 1 .. Len(File) : c[i] = IF i = offset + 1 THEN <<ent, writes>> ELSE File[i]
  <2>1. File \in Seq(Record \cup {Zeros})
    BY Contents DEF Content
  <2> QED
    BY <2>1, <1>4, <1>6, ExceptSeq DEF Content
<1> HIDE DEF c
<1>8. /\ disk' \in Seq(Content) /\ Len(disk') = Len(disk) /\ disk'[path] = c
  BY <1>2, <1>7, ReplaceFile
<1>9. File' = c
  BY <1>1, <1>8 DEF File
<1>10. DOMAIN c = 1 .. Len(c)
  BY <1>7, LenProperties DEF Content
<1> QED
  BY <1>1, <1>3, <1>4, <1>6, <1>7, <1>8, <1>9, <1>10, Contents

\* Growth: the file is the same as far as both lengths reach.
LEMMA GrowIs ==
  ASSUME TypeOK, LocksOK, FileOK, ppc = "grow", UNCHANGED path,
         disk' = [disk EXCEPT ![path] = Resized(disk[path], capacity + Chunk)]
  PROVE  /\ disk' \in Seq(Content) /\ Len(disk') = Len(disk)
         /\ File' \in Content
         /\ DOMAIN File' = 1 .. capacity + Chunk /\ Len(File') = capacity + Chunk
         /\ offset < capacity + Chunk /\ capacity <= Len(File)
         /\ offset \in Nat /\ capacity \in Nat /\ capacity + Chunk \in Nat
         /\ offset <= capacity /\ Chunk > 0
         /\ \A i \in DOMAIN File' : File'[i] = IF i <= Len(File) THEN File[i] ELSE Zeros
         /\ Numbered(File')
<1> DEFINE c == Resized(File, capacity + Chunk)
<1>1. offset \in Nat /\ offset <= capacity /\ capacity <= Len(File) /\ capacity \in Nat
  BY Exclusion DEF TypeOK, Types, FileOK, Writing
<1>2. Chunk \in Nat /\ Chunk > 0 /\ capacity + Chunk \in Nat
  BY <1>1, StorageAssumption
<1>3. /\ c \in Content /\ Len(c) = capacity + Chunk /\ DOMAIN c = 1 .. capacity + Chunk
      /\ \A i \in 1 .. capacity + Chunk : c[i] = IF i <= Len(File) THEN File[i] ELSE Zeros
  BY <1>2, Contents, ResizedIs
<1>4. Numbered(c)
  BY <1>3, Contents DEF Numbered, FileOK
<1>5. disk' = [disk EXCEPT ![path] = c]
  BY DEF File
<1> HIDE DEF c
<1>6. /\ disk' \in Seq(Content) /\ Len(disk') = Len(disk) /\ disk'[path] = c
  BY <1>3, <1>5, ReplaceFile
<1>7. File' = c
  BY <1>6 DEF File
<1> QED
  BY <1>1, <1>2, <1>3, <1>4, <1>6, <1>7
\* The steps of the partition thread keep what is said of the file.
LEMMA FilePartition ==
  ASSUME TypeOK, LocksOK, FileOK, PartitionNext
  PROVE  FileOK'
<1> USE DEF FileOK, Writing, mapVars, compactVars, diskVars
<1>1. ASSUME NEW e \in Entities, WriteBegin(e) \/ ReadBegin(e)
      PROVE  FileOK'
  <2>1. writes \in Nat
    BY DEF TypeOK, Types
  <2> QED
    BY <1>1, <2>1 DEF WriteBegin, ReadBegin, File, historyVars, boundVars
<1>2. CASE WriteCapacity \/ WriteMap
  <2>1. /\ UNCHANGED <<disk, path, mmapWriter, cpc, offset, capacity, writes, slot, ent, tmp>>
        /\ ppc \in Writing /\ ppc' \in {"map", "grow", "copy"}
        /\ ppc' = "copy" => ~(offset + 1 > capacity \/ mmapWriter = 0)
    BY <1>2 DEF WriteCapacity, WriteMap, historyVars, boundVars
  <2>2. offset \in Nat /\ capacity \in Nat
    BY DEF TypeOK, Types
  <2> QED
    BY <2>1, <2>2 DEF File
<1>3. CASE Grow
  <2>1. /\ UNCHANGED <<path, cpc, offset, writes, slot, ent, tmp>>
        /\ ppc = "grow" /\ ppc' = "invalidate"
        /\ mmapWriter' = path /\ capacity' = capacity + Chunk
        /\ disk' = [disk EXCEPT ![path] = Resized(disk[path], capacity + Chunk)]
    BY <1>3 DEF Grow, boundVars
  <2>2. /\ Len(disk') = Len(disk) /\ Len(File') = capacity + Chunk
        /\ offset < capacity + Chunk /\ Numbered(File')
        /\ offset \in Nat /\ capacity + Chunk \in Nat
    BY <2>1, GrowIs
  <2>3. cpc # "finish"
    BY <2>1, Exclusion
  <2> QED
    BY <2>1, <2>2, <2>3 DEF Numbered
<1>4. CASE GrowFails
  <2>1. /\ UNCHANGED <<path, cpc, offset, capacity, writes, slot, ent, tmp>>
        /\ ppc = "grow" /\ ppc' = "idle" /\ mmapWriter' = 0
        /\ \/ UNCHANGED disk
           \/ disk' = [disk EXCEPT ![path] = Resized(disk[path], capacity + Chunk)]
    BY <1>4 DEF GrowFails, boundVars
  <2>2. CASE UNCHANGED disk
    BY <2>1, <2>2 DEF File
  <2>3. CASE disk' = [disk EXCEPT ![path] = Resized(disk[path], capacity + Chunk)]
    <3>1. /\ Len(disk') = Len(disk) /\ Len(File') = capacity + Chunk
          /\ Numbered(File') /\ Chunk > 0
          /\ offset \in Nat /\ capacity \in Nat /\ offset <= capacity
      BY <2>1, <2>3, GrowIs
    <3>2. cpc # "finish" /\ Chunk \in Nat
      BY <2>1, Exclusion, StorageAssumption
    <3> QED
      BY <2>1, <3>1, <3>2 DEF Numbered
  <2> QED
    BY <2>1, <2>2, <2>3
<1>5. CASE Invalidate
  BY <1>5 DEF Invalidate, File, historyVars, boundVars
<1>6. CASE CopyToMap
  <2>1. /\ UNCHANGED <<path, mmapWriter, cpc, capacity, writes, ent, tmp>>
        /\ ppc = "copy" /\ ppc' = "index"
        /\ slot' = offset + 1 /\ offset' = offset + 1
    BY <1>6 DEF CopyToMap, RecordSlot, boundVars
  <2>2. /\ Len(disk') = Len(disk)
        /\ DOMAIN File' = DOMAIN File /\ Len(File') = Len(File)
        /\ offset + 1 \in DOMAIN File /\ offset \in Nat
        /\ \A i \in DOMAIN File :
              File'[i] = IF i = offset + 1 THEN <<ent, writes>> ELSE File[i]
        /\ <<ent, writes>>[2] > 0
    BY <1>6, CopyToMapIs
  <2>3. cpc # "finish" /\ offset < capacity /\ capacity <= Len(File) /\ capacity \in Nat
    BY <2>1, Exclusion DEF TypeOK, Types
  <2>4. Numbered(File')
    BY <2>2 DEF Numbered
  <2>5. File'[slot'] = <<ent', writes'>> /\ slot' \in DOMAIN File'
    BY <2>1, <2>2
  <2> QED
    BY <2>1, <2>2, <2>3, <2>4, <2>5 DEF Numbered
<1>7. CASE WriteIndex
  BY <1>7 DEF WriteIndex, File, boundVars
<1>8. CASE SwapFlag \/ SwapIndex
  BY <1>8 DEF SwapFlag, SwapIndex, File, historyVars, boundVars
<1>9. CASE ReadView \/ ReadFlush \/ ReadOpen \/ ReadStore \/ Read \/ ReadReturn
  BY <1>9 DEF ReadView, ReadFlush, ReadOpen, ReadStore, Read, ReadReturn, File,
     historyVars, boundVars
<1> QED
  BY <1>1, <1>2, <1>3, <1>4, <1>5, <1>6, <1>7, <1>8, <1>9 DEF PartitionNext

\* A record read and appended to the temporary file, or passed over.
LEMMA CopyRecordIs ==
  ASSUME TypeOK, FileOK, NEW e \in Entities, NEW i, CopyRecord(e, i)
  PROVE  \/ /\ i \in DOMAIN File
            /\ tmp' = Append(tmp, File[i])
            /\ tmp' \in Content /\ Numbered(tmp') /\ Len(tmp') = Len(tmp) + 1
            /\ tmp'[Len(tmp) + 1] = File[i]
            /\ \A j \in 1 .. Len(tmp) : tmp'[j] = tmp[j]
            /\ newIndex' = Put(newIndex, e, Len(tmp) + 1)
            /\ unread' = unread \ {e}
         \/ UNCHANGED <<tmp, newIndex>> /\ unread' = unread \cup {e}
<1>1. CASE i \in DOMAIN File /\ tmp' = Append(tmp, File[i])
           /\ newIndex' = Put(newIndex, e, Len(tmp) + 1) /\ unread' = unread \ {e}
  <2>1. /\ File[i] \in Record \cup {Zeros}
        /\ File[i] # Zeros => File[i][2] > 0
    BY <1>1, Contents, ElementOfSeq DEF Content, FileOK, Numbered
  <2>2. tmp \in Content /\ Numbered(tmp)
    BY Contents DEF FileOK
  <2> QED
    BY <1>1, <2>1, <2>2, NumberedAppend
<1> QED
  BY <1>1 DEF CopyRecord, File

\* The steps of the compaction thread keep what is said of the file.
LEMMA FileCompaction ==
  ASSUME TypeOK, LocksOK, FileOK, CountOK, CompactionNext
  PROVE  FileOK'
<1> USE DEF mapVars, partitionVars, diskVars
<1>1. ASSUME NEW e \in Entities, CopyActive(e) \/ CopyDelta(e)
      PROVE  FileOK'
  <2>1. /\ UNCHANGED <<disk, path, mmapWriter, cpc, offset, capacity, ppc, writes, slot, ent>>
        /\ cpc # "finish"
        /\ CopyRecord(e, active[e])
    BY <1>1 DEF CopyActive, CopyDelta
  <2>2. Numbered(tmp')
    BY <2>1, CopyRecordIs DEF FileOK
  <2> QED
    BY <2>1, <2>2 DEF FileOK, File, Numbered
<1>2. CASE CompactBegin \/ LockIndex \/ LockOffset \/ LockWriter \/ LockView \/ CompactFails
  BY <1>2 DEF CompactBegin, LockIndex, LockOffset, LockWriter, LockView, CompactFails,
     FileOK, File, historyVars, boundVars
<1>3. CASE Snapshot
  BY <1>3 DEF Snapshot, FileOK, File, Numbered, historyVars, boundVars
<1>4. CASE Rename
  <2>1. /\ UNCHANGED <<offset, capacity, ppc, writes, slot, ent, tmp>>
        /\ disk' = Append(disk, tmp) /\ path' = Len(disk) + 1
        /\ mmapWriter' \in {0, path'}
        /\ cpc = "rename" /\ cpc' = "finish"
    BY <1>4 DEF Rename, boundVars
  <2>2. disk \in Seq(Content) /\ tmp \in Content
    BY DEF TypeOK, Types
  <2>3. Len(disk') = Len(disk) + 1 /\ disk'[Len(disk) + 1] = tmp
    <3> HIDE DEF Content
    <3> QED
      BY <2>1, <2>2, AppendProperties
  <2>4. File' = tmp
    BY <2>1, <2>3 DEF File
  <2>5. ppc \notin Writing
    BY <2>1, Exclusion
  <2>6. Len(tmp) \in Nat
    BY Contents
  <2> QED
    BY <2>1, <2>3, <2>4, <2>5, <2>6 DEF FileOK, Numbered, Writing
<1>5. CASE RenameFails
  <2>1. /\ UNCHANGED <<disk, path, offset, capacity, ppc, writes, slot, ent, tmp>>
        /\ mmapWriter' \in {0, path}
        /\ cpc = "rename" /\ cpc' = "finish"
    BY <1>5 DEF RenameFails
  <2>2. ppc \notin Writing
    BY <2>1, Exclusion
  <2>3. Len(tmp) <= Len(File)
    <3>1. Len(tmp) + Cardinality(DOMAIN active) <= offset /\ DOMAIN active = {}
      BY <2>1 DEF CountOK
    <3>2. Cardinality(DOMAIN active) = 0
      BY <3>1, FS_EmptySet
    <3>3. offset <= capacity /\ capacity <= Len(File)
      BY <2>1 DEF FileOK
    <3>4. offset \in Nat /\ capacity \in Nat /\ Len(File) \in Nat /\ Len(tmp) \in Nat
      BY Contents DEF TypeOK, Types
    <3> QED
      BY <3>1, <3>2, <3>3, <3>4
  <2> QED
    BY <2>1, <2>2, <2>3 DEF FileOK, File, Writing
<1>6. CASE CompactEnd
  <2>1. /\ UNCHANGED <<disk, path, mmapWriter, ppc, writes, slot, ent, tmp>>
        /\ offset' = Len(tmp) /\ capacity' = Len(tmp)
        /\ cpc = "finish" /\ cpc' = "idle"
    BY <1>6 DEF CompactEnd, OffsetAfterCompact, historyVars, boundVars
  <2>2. ppc \notin Writing
    BY <2>1, Exclusion
  <2>3. Len(tmp) <= Len(File) /\ Len(tmp) \in Nat
    BY <2>1, Contents DEF FileOK
  <2> QED
    BY <2>1, <2>2, <2>3 DEF FileOK, File, Writing
<1> QED
  BY <1>1, <1>2, <1>3, <1>4, <1>5, <1>6 DEF CompactionNext
-----------------------------------------------------------------------------
(* The indexes *)

\* What is said of the file, the indexes and the copy of them.
Kept == IndexOK /\ CountOK /\ MirrorOK /\ CopyOK /\ HarmOK

\* It does not depend on the locks, the views, the maps or what is published.
LEMMA Quiet ==
  ASSUME Kept,
         UNCHANGED <<disk, path, offset, nextIndex, compactVars, written, harm>>,
         ppc = "index" <=> ppc' = "index",
         ppc = "index" => slot' = slot
  PROVE  Kept'
<1> USE DEF Kept, compactVars
<1>0. File' = File
  BY DEF File
<1>1. IndexOK' /\ CountOK'
  BY DEF IndexOK, CountOK, IsInjective, Copying
<1>2. MirrorOK'
  BY <1>0 DEF MirrorOK, Mirrors
<1>3. CopyOK'
  BY <1>0 DEF CopyOK, Copied, Copying
<1>4. HarmOK'
  BY <1>0 DEF HarmOK
<1> QED
  BY <1>1, <1>2, <1>3, <1>4

\* Most steps of the partition thread are such.
LEMMA QuietSteps ==
  ASSUME Kept, PartitionNext,
         ~ (Grow \/ GrowFails \/ CopyToMap \/ WriteIndex)
  PROVE  Kept'
<1> USE DEF diskVars, mapVars, indexVars, historyVars
<1>1. ASSUME NEW e \in Entities, WriteBegin(e) \/ ReadBegin(e)
      PROVE  Kept'
  BY <1>1, Quiet DEF WriteBegin, ReadBegin
<1>2. CASE WriteCapacity \/ WriteMap \/ Invalidate
  BY <1>2, Quiet DEF WriteCapacity, WriteMap, Invalidate
<1>3. CASE SwapFlag \/ SwapIndex
  BY <1>3, Quiet DEF SwapFlag, SwapIndex
<1>4. CASE ReadView \/ ReadFlush \/ ReadOpen \/ ReadStore \/ Read \/ ReadReturn
  BY <1>4, Quiet DEF ReadView, ReadFlush, ReadOpen, ReadStore, Read, ReadReturn
<1> QED
  BY <1>1, <1>2, <1>3, <1>4 DEF PartitionNext

\* While the file is in order, every record of it lies where something has been
\* written, at most where the index says that the last one of its entity is.
LEMMA Below ==
  ASSUME TypeOK, LocksOK, FileOK, Kept, harm = "none", cpc # "finish",
         NEW e \in Entities, NEW i \in Slots(File, e)
  PROVE  /\ i \in 1 .. offset /\ i \in DOMAIN File
         /\ \/ ppc = "index" /\ i = slot /\ e = ent
            \/ e \in DOMAIN nextIndex /\ i <= nextIndex[e]
<1>1. i \in DOMAIN File /\ i \in Nat /\ i > 0 /\ File[i][1] = e
  BY Contents, SlotsOf
<1>2. /\ Mirrors(File, nextIndex, written, IF ppc = "index" THEN slot ELSE 0)
  BY DEF Kept, MirrorOK
<1>3. CASE i = (IF ppc = "index" THEN slot ELSE 0)
  <2>1. ppc = "index" /\ i = slot /\ slot = offset /\ File[i] = <<ent, writes>>
    BY <1>1, <1>3 DEF FileOK
  <2>2. e = ent
    BY <1>1, <2>1
  <2> QED
    BY <1>1, <2>1, <2>2
<1>4. CASE e \in DOMAIN nextIndex /\ i <= nextIndex[e]
  <2>1. nextIndex[e] <= offset /\ nextIndex[e] \in Nat /\ offset \in Nat
    BY <1>4 DEF Kept, IndexOK, TypeOK, Types, IsIndex
  <2> QED
    BY <1>1, <1>4, <2>1
<1> QED
  BY <1>2, <1>3, <1>4 DEF Mirrors

\* And it leads to a record of every entity it knows.
LEMMA Leads ==
  ASSUME TypeOK, Kept, harm = "none", cpc # "finish", NEW e \in DOMAIN nextIndex
  PROVE  /\ e \in Entities
         /\ nextIndex[e] \in DOMAIN File
         /\ File[nextIndex[e]] = <<e, written[e]>>
         /\ nextIndex[e] \in Slots(File, e)
<1>1. /\ Mirrors(File, nextIndex, written, IF ppc = "index" THEN slot ELSE 0)
  BY DEF Kept, MirrorOK
<1>2. e \in Entities
  BY DEF TypeOK, Types, IsIndex
<1>3. nextIndex[e] \in DOMAIN File /\ File[nextIndex[e]] = <<e, written[e]>>
  BY <1>1 DEF Mirrors
<1>4. File[nextIndex[e]] # Zeros /\ File[nextIndex[e]][1] = e
  BY <1>3 DEF Zeros
<1> QED
  BY <1>2, <1>3, <1>4 DEF Slots
\* A file that still has the records it had, and perhaps one more behind them, is
\* described by the same index and the same copy.
LEMMA SameRecords ==
  ASSUME TypeOK, LocksOK, FileOK, Kept, cpc # "finish", ppc # "index",
         UNCHANGED <<nextIndex, compactVars, written>>,
         NEW new, new = IF ppc' = "index" THEN slot' ELSE 0,
         \A e \in Entities :
            /\ Slots(File, e) \subseteq Slots(File', e)
            /\ Slots(File', e) \subseteq Slots(File, e) \cup {new},
         \A e \in Entities : \A i \in Slots(File, e) : i \in DOMAIN File' /\ File'[i] = File[i],
         harm = "none",
         ppc' = "index" /\ cpc \in Copying => original < slot'
  PROVE  MirrorOK' /\ CopyOK'
<1> USE DEF compactVars
<1>1. ASSUME NEW e \in DOMAIN nextIndex
      PROVE  /\ e \in Entities
             /\ nextIndex[e] \in Slots(File, e)
             /\ nextIndex[e] \in DOMAIN File'
             /\ File'[nextIndex[e]] = File[nextIndex[e]]
             /\ File[nextIndex[e]] = <<e, written[e]>>
  BY Leads
<1>2. Mirrors(File, nextIndex, written, 0)
  BY DEF Kept, MirrorOK
<1>3. MirrorOK'
  <2>1. \A e \in Entities : \A i \in Slots(File', e) :
           i = new \/ (e \in DOMAIN nextIndex /\ i <= nextIndex[e])
    <3> SUFFICES ASSUME NEW e \in Entities, NEW i \in Slots(File', e), i # new
                 PROVE  e \in DOMAIN nextIndex /\ i <= nextIndex[e]
      OBVIOUS
    <3>1. i \in Slots(File, e)
      OBVIOUS
    <3> QED
      BY <3>1, Below
  <2>2. Mirrors(File', nextIndex, written, new)
    BY <1>1, <1>2, <2>1 DEF Mirrors
  <2>3. Mirrors(File', nextIndex', written', new)
    BY <2>2
  <2> QED
    BY <2>3 DEF MirrorOK, Mirrors
<1>4. CopyOK'
  <2> SUFFICES ASSUME cpc \in Copying
               PROVE  CopyOK'
    BY DEF CopyOK, Copying
  <2>1. /\ \A e \in DOMAIN newIndex : newIndex[e] \in Slots(tmp, e)
        /\ \A e \in Entities : \A i \in Slots(tmp, e) :
              e \in DOMAIN newIndex /\ i <= newIndex[e]
        /\ DOMAIN newIndex \cup DOMAIN active \subseteq DOMAIN nextIndex
        /\ \A e \in DOMAIN active : active[e] \in Slots(File, e)
        /\ \A e \in DOMAIN nextIndex :
              nextIndex[e] <= original \/ cpc \in {"delta", "rename"} => Copied(e)
    BY DEF Kept, CopyOK
  <2>2. \A e \in DOMAIN active : active[e] \in Slots(File', e)
    BY <1>1, <2>1
  <2>3. ASSUME NEW e \in DOMAIN nextIndex', Copied(e)
        PROVE  Copied(e)'
    BY <1>1, <2>3 DEF Copied
  <2>4. \A e \in DOMAIN nextIndex' :
           nextIndex'[e] <= original' \/ cpc' \in {"delta", "rename"} => Copied(e)'
    BY <2>1, <2>3
  <2> QED
    BY <2>1, <2>2, <2>4 DEF CopyOK, Copying
<1> QED
  BY <1>3, <1>4

\* Growth.
LEMMA GrowKept ==
  ASSUME TypeOK, LocksOK, FileOK, Kept, ppc = "grow", ppc' # "index",
         UNCHANGED <<path, offset, nextIndex, compactVars, written>>,
         disk' = [disk EXCEPT ![path] = Resized(disk[path], capacity + Chunk)],
         harm' = Spoilt
  PROVE  Kept'
<1>1. cpc # "finish"
  BY Exclusion DEF Writing
<1>2. IndexOK' /\ CountOK'
  BY DEF Kept, IndexOK, CountOK, IsInjective, Copying, compactVars
<1>3. CASE harm = "none"
  <2>1. /\ offset \in Nat /\ capacity \in Nat
        /\ offset <= capacity /\ capacity <= Len(File) /\ Len(File) \in Nat
        /\ DOMAIN File' = 1 .. capacity + Chunk /\ capacity + Chunk \in Nat
        /\ offset < capacity + Chunk
        /\ \A i \in DOMAIN File' : File'[i] = IF i <= Len(File) THEN File[i] ELSE Zeros
        /\ DOMAIN File = 1 .. Len(File)
    BY GrowIs, Contents
  <2>2. ASSUME NEW e \in Entities, NEW i \in Slots(File, e)
        PROVE  i \in DOMAIN File' /\ File'[i] = File[i] /\ i \in Slots(File', e)
    <3>1. i \in 1 .. offset /\ i \in DOMAIN File
      BY <1>1, <1>3, Below
    <3>2. i \in DOMAIN File' /\ File'[i] = File[i]
      BY <2>1, <3>1
    <3> QED
      BY <3>2 DEF Slots
  <2>3. ASSUME NEW e \in Entities, NEW i \in Slots(File', e)
        PROVE  i \in Slots(File, e)
    BY <2>1 DEF Slots
  <2>4. MirrorOK' /\ CopyOK'
    BY <1>1, <1>3, <2>2, <2>3, SameRecords
  <2>5. harm' # "index"
    BY <1>3 DEF Spoilt
  <2> QED
    BY <1>2, <2>4, <2>5 DEF Kept, HarmOK
<1>4. CASE harm # "none"
  BY <1>2, <1>4 DEF Kept, MirrorOK, CopyOK, HarmOK, Spoilt
<1> QED
  BY <1>3, <1>4

\* A growth that fails, before or after the file got its new length.
LEMMA GrowFailsKept ==
  ASSUME TypeOK, LocksOK, FileOK, Kept, GrowFails
  PROVE  Kept'
<1>1. /\ ppc = "grow" /\ ppc' = "idle"
      /\ UNCHANGED <<path, offset, nextIndex, compactVars, written>>
      /\ \/ UNCHANGED <<disk, harm>>
         \/ /\ disk' = [disk EXCEPT ![path] = Resized(disk[path], capacity + Chunk)]
            /\ harm' = Spoilt
  BY DEF GrowFails, indexVars
<1> QED
  BY <1>1, Quiet, GrowKept

\* The copy of a record into the map.
LEMMA CopyToMapKept ==
  ASSUME TypeOK, LocksOK, FileOK, Kept, CopyToMap
  PROVE  Kept'
<1>1. /\ ppc = "copy" /\ ppc' = "index" /\ slot' = offset + 1 /\ offset' = offset + 1
      /\ UNCHANGED <<path, nextIndex, compactVars, written>>
      /\ harm' = Spoilt
  BY DEF CopyToMap, indexVars, RecordSlot
<1>2. cpc # "finish"
  BY <1>1, Exclusion DEF Writing
<1>3. /\ DOMAIN File' = DOMAIN File
      /\ offset + 1 \in DOMAIN File /\ offset \in Nat
      /\ \A i \in DOMAIN File :
            File'[i] = IF i = offset + 1 THEN <<ent, writes>> ELSE File[i]
  BY CopyToMapIs
<1>4. IndexOK'
  <2>1. \A e \in DOMAIN nextIndex : nextIndex[e] \in Nat /\ nextIndex[e] <= offset
    BY DEF Kept, IndexOK, TypeOK, Types, IsIndex
  <2> QED
    BY <1>1, <1>3, <2>1 DEF Kept, IndexOK, IsInjective, compactVars
<1>5. CountOK'
  <2>1. original \in Nat /\ Len(tmp) \in Nat
    BY Contents DEF TypeOK, Types
  <2>2. Cardinality(DOMAIN active) \in Nat
    BY FS_CardinalityType DEF Kept, CountOK
  <2> QED
    BY <1>1, <1>3, <2>1, <2>2 DEF Kept, CountOK, compactVars, Copying
<1>6. CASE harm = "none"
  <2>1. ASSUME NEW e \in Entities, NEW i \in Slots(File, e)
        PROVE  i \in DOMAIN File' /\ File'[i] = File[i] /\ i \in Slots(File', e)
    <3>1. i \in 1 .. offset /\ i \in DOMAIN File
      BY <1>2, <1>6, Below
    <3>2. i \in DOMAIN File' /\ File'[i] = File[i]
      BY <1>3, <3>1
    <3> QED
      BY <3>2 DEF Slots
  <2>2. ASSUME NEW e \in Entities, NEW i \in Slots(File', e)
        PROVE  i \in Slots(File, e) \cup {offset + 1}
    BY <1>3 DEF Slots
  <2>3. cpc \in Copying => original < slot'
    BY <1>1, <1>3 DEF Kept, CountOK, TypeOK, Types
  <2>4. MirrorOK' /\ CopyOK'
    BY <1>1, <1>2, <1>6, <2>1, <2>2, <2>3, SameRecords
  <2>5. harm' # "index"
    BY <1>1, <1>6 DEF Spoilt
  <2> QED
    BY <1>4, <1>5, <2>4, <2>5 DEF Kept, HarmOK
<1>7. CASE harm # "none"
  BY <1>1, <1>4, <1>5, <1>7 DEF Kept, MirrorOK, CopyOK, HarmOK, Spoilt
<1> QED
  BY <1>6, <1>7

\* The record enters the index.
LEMMA WriteIndexKept ==
  ASSUME TypeOK, LocksOK, FileOK, Kept, WriteIndex
  PROVE  Kept'
<1>1. /\ ppc = "index" /\ ppc' = "idle"
      /\ owner["next_disk_index"] = Free
      /\ nextIndex' = Put(nextIndex, ent, slot)
      /\ written' = [written EXCEPT ![ent] = writes]
      /\ UNCHANGED <<disk, path, offset, compactVars, harm>>
  BY DEF WriteIndex, Brief, diskVars, mapVars
<1>2. cpc \in {"idle", "copy"}
  BY <1>1, Exclusion DEF TypeOK, Types
<1>3. /\ slot = offset /\ slot \in DOMAIN File /\ File[slot] = <<ent, writes>>
      /\ writes > 0 /\ writes \in Nat /\ ent \in Entities /\ offset \in Nat
  BY <1>1 DEF FileOK, Writing, TypeOK, Types
<1>4. /\ DOMAIN nextIndex' = DOMAIN nextIndex \cup {ent}
      /\ \A e \in DOMAIN nextIndex' :
            nextIndex'[e] = IF e = ent THEN slot ELSE nextIndex[e]
  BY <1>1 DEF Put
<1>5. \A e \in DOMAIN nextIndex : nextIndex[e] \in Nat /\ nextIndex[e] < offset
  BY <1>1 DEF Kept, IndexOK, TypeOK, Types, IsIndex
<1>6. File' = File
  BY <1>1 DEF File
<1>7. IndexOK'
  <2>1. IsInjective(nextIndex')
    BY <1>3, <1>4, <1>5 DEF Kept, IndexOK, IsInjective
  <2>2. IsInjective(newIndex') /\ \A e \in DOMAIN newIndex' : newIndex'[e] <= Len(tmp')
    BY <1>1 DEF Kept, IndexOK, compactVars
  <2>3. \A e \in DOMAIN nextIndex' : nextIndex'[e] <= offset'
    BY <1>1, <1>3, <1>4, <1>5
  <2> QED
    BY <1>1, <2>1, <2>2, <2>3 DEF IndexOK
<1>8. CountOK'
  BY <1>1 DEF Kept, CountOK, compactVars, Copying
<1>9. HarmOK'
  BY <1>1 DEF Kept, HarmOK
<1>10. ASSUME harm = "none"
       PROVE  MirrorOK'
  <2>1. written \in [Entities -> Nat]
    BY DEF TypeOK, Types
  <2>2. DOMAIN nextIndex = {e \in Entities : written[e] # 0}
    BY <1>2, <1>10 DEF Kept, MirrorOK, Mirrors
  <2>3. DOMAIN nextIndex' = {e \in Entities : written'[e] # 0}
    BY <1>1, <1>3, <1>4, <2>1, <2>2
  <2>4. ASSUME NEW e \in DOMAIN nextIndex'
        PROVE  nextIndex'[e] \in DOMAIN File /\ File[nextIndex'[e]] = <<e, written'[e]>>
    <3>1. CASE e = ent
      BY <1>1, <1>3, <1>4, <2>1, <3>1
    <3>2. CASE e # ent
      <4>1. e \in DOMAIN nextIndex /\ nextIndex'[e] = nextIndex[e]
        BY <1>4, <3>2
      <4>2. e \in Entities /\ nextIndex[e] \in DOMAIN File /\ File[nextIndex[e]] = <<e, written[e]>>
        BY <1>2, <1>10, <4>1, Leads
      <4>3. written'[e] = written[e]
        BY <1>1, <2>1, <3>2, <4>2
      <4> QED
        BY <4>1, <4>2, <4>3
    <3> QED
      BY <3>1, <3>2
  <2>5. ASSUME NEW e \in Entities, NEW i \in Slots(File, e)
        PROVE  e \in DOMAIN nextIndex' /\ i <= nextIndex'[e]
    <3>1. /\ i \in 1 .. offset
          /\ e = ent \/ (e \in DOMAIN nextIndex /\ i <= nextIndex[e])
      BY <1>2, <1>10, Below
    <3> QED
      BY <1>3, <1>4, <3>1
  <2>6. Mirrors(File, nextIndex', written', 0)
    BY <2>3, <2>4, <2>5 DEF Mirrors
  <2> QED
    BY <1>1, <1>2, <1>6, <2>6 DEF MirrorOK, compactVars
<1>11. ASSUME harm = "none"
       PROVE  CopyOK'
  <2> SUFFICES ASSUME cpc = "copy"
               PROVE  CopyOK'
    BY <1>1, <1>2 DEF CopyOK, Copying, compactVars
  <2>1. /\ \A e \in DOMAIN newIndex : newIndex[e] \in Slots(tmp, e)
        /\ \A e \in Entities : \A i \in Slots(tmp, e) :
              e \in DOMAIN newIndex /\ i <= newIndex[e]
        /\ DOMAIN newIndex \cup DOMAIN active \subseteq DOMAIN nextIndex
        /\ \A e \in DOMAIN active : active[e] \in Slots(File, e)
        /\ \A e \in DOMAIN nextIndex : nextIndex[e] <= original => Copied(e)
        /\ original < slot
    BY <1>1, <1>11 DEF Kept, CopyOK, Copying
  <2>2. original \in Nat /\ slot \in Nat
    BY DEF TypeOK, Types
  <2>3. ASSUME NEW e \in DOMAIN nextIndex', nextIndex'[e] <= original'
        PROVE  Copied(e)'
    <3>1. e # ent
      BY <1>1, <1>4, <2>1, <2>2, <2>3 DEF compactVars
    <3>2. e \in DOMAIN nextIndex /\ nextIndex'[e] = nextIndex[e]
      BY <1>4, <3>1
    <3>3. Copied(e)
      BY <1>1, <2>1, <2>3, <3>2 DEF compactVars
    <3> QED
      BY <1>1, <1>6, <3>2, <3>3 DEF Copied, compactVars
  <2> QED
    BY <1>1, <1>4, <1>6, <2>1, <2>3 DEF CopyOK, compactVars
<1>12. CASE harm = "none"
  BY <1>7, <1>8, <1>9, <1>10, <1>11, <1>12 DEF Kept
<1>13. CASE harm # "none"
  BY <1>1, <1>7, <1>8, <1>9, <1>13 DEF Kept, MirrorOK, CopyOK
<1> QED
  BY <1>12, <1>13
-----------------------------------------------------------------------------
(* Compaction *)

\* The steps that only take a lock, and the failure that changes nothing else.
LEMMA LockKept ==
  ASSUME TypeOK, LocksOK, Kept,
         CompactBegin \/ LockIndex \/ LockOffset \/ LockView \/ CompactFails
  PROVE  Kept'
<1> USE DEF diskVars, mapVars, indexVars, partitionVars, historyVars, boundVars
<1>0. /\ UNCHANGED <<disk, path, offset, nextIndex, ppc, slot, written, harm,
                     active, original, tmp, newIndex, unread>>
      /\ \/ cpc \in {"idle", "copy", "delta"} /\ cpc' \in {"idle", "snapshot"}
         \/ cpc = "copy" /\ cpc' = "offset" /\ DOMAIN active = {}
         \/ cpc = "offset" /\ cpc' = "writer"
         \/ cpc = "delta" /\ cpc' = "rename" /\ DOMAIN active = {}
  BY DEF CompactBegin, LockIndex, LockOffset, LockView, CompactFails
<1>1. File' = File
  BY <1>0 DEF File
<1>2. IndexOK'
  BY <1>0 DEF Kept, IndexOK, IsInjective
<1>3. CountOK'
  BY <1>0 DEF Kept, CountOK, Copying
<1>4. MirrorOK'
  BY <1>0, <1>1 DEF Kept, MirrorOK, Mirrors
<1>5. CopyOK'
  BY <1>0, <1>1 DEF Kept, CopyOK, Copied, Copying
<1>6. HarmOK'
  BY <1>0, <1>1 DEF Kept, HarmOK
<1> QED
  BY <1>2, <1>3, <1>4, <1>5, <1>6 DEF Kept

\* The snapshot: everything indexed is still to be copied.
LEMMA SnapshotKept ==
  ASSUME TypeOK, LocksOK, FileOK, Kept, Snapshot
  PROVE  Kept'
<1> USE DEF diskVars, mapVars, indexVars, partitionVars, historyVars, boundVars
<1>1. /\ UNCHANGED <<disk, path, offset, nextIndex, ppc, slot, written, harm>>
      /\ cpc = "snapshot" /\ cpc' = "copy"
      /\ active' = nextIndex /\ original' = offset /\ tmp' = <<>>
      /\ newIndex' = NoIndex /\ unread' = {}
      /\ owner["current_offset"] = Free
  BY DEF Snapshot, Brief
<1>2. ppc # "index"
  BY <1>1, Exclusion DEF Writing
<1>3. File' = File
  BY <1>1 DEF File
<1>4. DOMAIN newIndex' = {}
  BY <1>1 DEF NoIndex
<1>5. IndexOK'
  BY <1>1, <1>2, <1>4 DEF Kept, IndexOK, IsInjective
<1>6. CountOK'
  <2>1. offset \in Nat /\ \A e \in DOMAIN nextIndex : nextIndex[e] \in 0 + 1 .. offset
    BY DEF Kept, IndexOK, TypeOK, Types, IsIndex
  <2>2. IsFiniteSet(DOMAIN nextIndex) /\ Cardinality(DOMAIN nextIndex) <= offset - 0
    BY <2>1, Places DEF Kept, IndexOK
  <2>3. Cardinality(DOMAIN nextIndex) \in Nat
    BY <2>2, FS_CardinalityType
  <2>4. Len(tmp') = 0
    BY <1>1
  <2> QED
    BY <1>1, <2>1, <2>2, <2>3, <2>4 DEF CountOK
<1>7. MirrorOK'
  BY <1>1, <1>2, <1>3 DEF Kept, MirrorOK, Mirrors
<1>8. CopyOK'
  <2> SUFFICES ASSUME harm = "none"
               PROVE  CopyOK'
    BY <1>1 DEF CopyOK
  <2>1. \A e \in DOMAIN nextIndex : nextIndex[e] \in Slots(File, e)
    BY <1>1, Leads
  <2>2. \A e \in Entities : Slots(tmp', e) = {}
    BY <1>1 DEF Slots
  <2>3. ASSUME NEW e \in DOMAIN nextIndex'
        PROVE  Copied(e)'
    BY <1>1 DEF Copied
  <2> QED
    BY <1>1, <1>2, <1>3, <1>4, <2>1, <2>2, <2>3 DEF CopyOK
<1>9. HarmOK'
  BY <1>1, <1>3 DEF Kept, HarmOK
<1> QED
  BY <1>5, <1>6, <1>7, <1>8, <1>9 DEF Kept

\* The delta: what has been indexed since is still to be copied.
LEMMA DeltaKept ==
  ASSUME TypeOK, LocksOK, FileOK, Kept, LockWriter
  PROVE  Kept'
<1> USE DEF diskVars, mapVars, indexVars, partitionVars, historyVars, boundVars
<1>1. /\ UNCHANGED <<disk, path, offset, nextIndex, ppc, slot, written, harm,
                     original, tmp, newIndex, unread>>
      /\ cpc = "writer" /\ cpc' = "delta"
      /\ active' = [e \in Delta |-> nextIndex[e]]
  BY DEF LockWriter
<1>2. ppc # "index" /\ DOMAIN active = {}
  BY <1>1, Exclusion DEF Writing, Kept, CountOK
<1>3. File' = File
  BY <1>1 DEF File
<1>4. /\ DOMAIN active' = Delta /\ Delta \subseteq DOMAIN nextIndex
      /\ \A e \in Delta : active'[e] = nextIndex[e]
      /\ \A e \in DOMAIN nextIndex : nextIndex[e] > original <=> e \in Delta
  BY <1>1 DEF Delta
<1>5. /\ offset \in Nat /\ original \in Nat /\ original <= offset /\ Len(tmp) \in Nat
      /\ \A e \in DOMAIN nextIndex : nextIndex[e] \in Nat /\ nextIndex[e] <= offset
  BY <1>1, Contents DEF Kept, IndexOK, CountOK, Copying, TypeOK, Types, IsIndex
<1>6. IndexOK'
  BY <1>1, <1>2 DEF Kept, IndexOK, IsInjective
<1>7. CountOK'
  <2>1. \A e \in DOMAIN active' : active'[e] \in original + 1 .. offset
    BY <1>4, <1>5
  <2>2. IsInjective(active')
    BY <1>4 DEF Kept, IndexOK, IsInjective
  <2> DEFINE f == [e \in Delta |-> nextIndex[e]]
  <2>3. f = active'
    BY <1>1
  <2>4. IsFiniteSet(DOMAIN f) /\ Cardinality(DOMAIN f) <= offset - original
    <3>1. \A e \in DOMAIN f : f[e] \in original + 1 .. offset
      BY <2>1, <2>3
    <3>2. IsInjective(f)
      BY <2>2, <2>3
    <3> HIDE DEF f
    <3> QED
      BY <1>5, <3>1, <3>2, Places
  <2> HIDE DEF f
  <2>5. Cardinality(DOMAIN f) \in Nat
    BY <2>4, FS_CardinalityType
  <2>6. Len(tmp) <= original
    <3>1. Len(tmp) + Cardinality(DOMAIN active) <= original
      BY <1>1 DEF Kept, CountOK
    <3>2. Cardinality(DOMAIN active) = 0
      BY <1>2, FS_EmptySet
    <3> QED
      BY <1>5, <3>1, <3>2
  <2>7. Len(tmp') + Cardinality(DOMAIN active') <= offset'
    BY <1>1, <1>5, <2>3, <2>4, <2>5, <2>6
  <2> QED
    BY <1>1, <1>5, <2>3, <2>4, <2>7 DEF CountOK
<1>8. MirrorOK'
  BY <1>1, <1>3 DEF Kept, MirrorOK, Mirrors
<1>9. CopyOK'
  <2> SUFFICES ASSUME harm = "none"
               PROVE  CopyOK'
    BY <1>1 DEF CopyOK
  <2>1. /\ \A e \in DOMAIN newIndex : newIndex[e] \in Slots(tmp, e)
        /\ \A e \in Entities : \A i \in Slots(tmp, e) :
              e \in DOMAIN newIndex /\ i <= newIndex[e]
        /\ DOMAIN newIndex \subseteq DOMAIN nextIndex
        /\ \A e \in DOMAIN nextIndex : nextIndex[e] <= original => Copied(e)
    BY <1>1 DEF Kept, CopyOK, Copying
  <2>2. \A e \in DOMAIN active' : active'[e] \in Slots(File, e)
    BY <1>1, <1>4, Leads
  <2>3. ASSUME NEW e \in DOMAIN nextIndex'
        PROVE  Copied(e)'
    <3>1. CASE e \in Delta
      BY <1>1, <1>4, <3>1 DEF Copied
    <3>2. CASE e \notin Delta
      <4>1. e \in DOMAIN nextIndex /\ nextIndex[e] <= original
        BY <1>1, <1>4, <1>5, <3>2
      <4>2. Copied(e) /\ e \notin DOMAIN active
        BY <1>2, <2>1, <4>1
      <4> QED
        BY <1>1, <1>3, <1>4, <3>2, <4>2 DEF Copied
    <3> QED
      BY <3>1, <3>2
  <2> QED
    BY <1>1, <1>2, <1>3, <1>4, <2>1, <2>2, <2>3 DEF CopyOK
<1>10. HarmOK'
  BY <1>1, <1>3 DEF Kept, HarmOK
<1> QED
  BY <1>6, <1>7, <1>8, <1>9, <1>10 DEF Kept
\* One record is copied, or passed over.
LEMMA CopyKept ==
  ASSUME TypeOK, LocksOK, FileOK, Kept, NEW e \in Entities,
         CopyActive(e) \/ CopyDelta(e)
  PROVE  Kept'
<1>1. /\ UNCHANGED <<disk, path, offset, nextIndex, ppc, slot, written, harm, cpc, original>>
      /\ cpc \in {"copy", "delta"} /\ e \in DOMAIN active
      /\ CopyRecord(e, active[e])
      /\ active' = [d \in DOMAIN active \ {e} |-> active[d]]
  BY DEF CopyActive, CopyDelta, diskVars, mapVars, indexVars, partitionVars
<1>2. File' = File
  BY <1>1 DEF File
<1>3. /\ DOMAIN active' = DOMAIN active \ {e}
      /\ \A d \in DOMAIN active' : active'[d] = active[d]
  BY <1>1
<1>4. /\ Len(tmp) \in Nat /\ tmp \in Content /\ DOMAIN tmp = 1 .. Len(tmp)
      /\ \A d \in DOMAIN newIndex : newIndex[d] \in Nat \ {0} /\ newIndex[d] <= Len(tmp)
  BY Contents DEF Kept, IndexOK, TypeOK, Types, IsIndex
<1> DEFINE Read1 ==
      /\ active[e] \in DOMAIN File
      /\ tmp' \in Content /\ Len(tmp') = Len(tmp) + 1
      /\ tmp'[Len(tmp) + 1] = File[active[e]]
      /\ \A j \in 1 .. Len(tmp) : tmp'[j] = tmp[j]
      /\ newIndex' = Put(newIndex, e, Len(tmp) + 1)
      /\ unread' = unread \ {e}
           Missed == UNCHANGED <<tmp, newIndex>> /\ unread' = unread \cup {e}
<1>5. Read1 \/ Missed
  BY <1>1, CopyRecordIs
<1>6. ASSUME Read1
      PROVE  /\ DOMAIN newIndex' = DOMAIN newIndex \cup {e}
             /\ \A d \in DOMAIN newIndex' :
                   newIndex'[d] = IF d = e THEN Len(tmp) + 1 ELSE newIndex[d]
             /\ DOMAIN tmp' = 1 .. Len(tmp) + 1
  <2>1. newIndex' = Put(newIndex, e, Len(tmp) + 1)
    BY <1>6
  <2>2. DOMAIN tmp' = 1 .. Len(tmp')
    BY <1>6, LenProperties DEF Content
  <2> QED
    BY <1>6, <2>1, <2>2 DEF Put
<1> HIDE DEF Read1
<1>7. IndexOK'
  <2>1. /\ IsInjective(nextIndex')
        /\ \A d \in DOMAIN nextIndex' :
              nextIndex'[d] <= offset' /\ (ppc' = "index" => nextIndex'[d] < offset')
    BY <1>1 DEF Kept, IndexOK
  <2>2. CASE Read1
    <3>1. IsInjective(newIndex') /\ \A d \in DOMAIN newIndex' : newIndex'[d] <= Len(tmp')
      BY <1>4, <1>6, <2>2 DEF Read1, Kept, IndexOK, IsInjective
    <3> QED
      BY <2>1, <3>1 DEF IndexOK
  <2>3. CASE Missed
    BY <2>1, <2>3 DEF Kept, IndexOK
  <2> QED
    BY <1>5, <2>2, <2>3
<1>8. CountOK'
  <2>1. IsFiniteSet(DOMAIN active) /\ Cardinality(DOMAIN active) \in Nat
    BY FS_CardinalityType DEF Kept, CountOK
  <2>2. /\ IsFiniteSet(DOMAIN active') /\ Cardinality(DOMAIN active') \in Nat
        /\ Cardinality(DOMAIN active') = Cardinality(DOMAIN active) - 1
    BY <1>1, <1>3, <2>1, FS_RemoveElement, FS_CardinalityType
  <2>3. Len(tmp') \in Nat /\ Len(tmp') <= Len(tmp) + 1
    BY <1>4, <1>5 DEF Read1
  <2>4. Len(tmp') + Cardinality(DOMAIN active') <= Len(tmp) + Cardinality(DOMAIN active)
    BY <1>4, <2>1, <2>2, <2>3
  <2>5. original \in Nat /\ offset \in Nat
    BY DEF TypeOK, Types
  <2>6. /\ original <= offset
        /\ cpc = "copy" => Len(tmp) + Cardinality(DOMAIN active) <= original
        /\ cpc = "delta" => Len(tmp) + Cardinality(DOMAIN active) <= offset
    BY <1>1 DEF Kept, CountOK, Copying
  <2>7. /\ cpc = "copy" => Len(tmp') + Cardinality(DOMAIN active') <= original
        /\ cpc = "delta" => Len(tmp') + Cardinality(DOMAIN active') <= offset
    BY <1>4, <2>1, <2>2, <2>3, <2>4, <2>5, <2>6
  <2> QED
    BY <1>1, <2>2, <2>6, <2>7 DEF CountOK
<1>9. MirrorOK'
  BY <1>1, <1>2 DEF Kept, MirrorOK, Mirrors
<1>10. CopyOK'
  <2> SUFFICES ASSUME harm = "none"
               PROVE  CopyOK'
    BY <1>1 DEF CopyOK
  <2>1. /\ \A d \in DOMAIN newIndex : newIndex[d] \in Slots(tmp, d)
        /\ \A d \in Entities : \A i \in Slots(tmp, d) :
              d \in DOMAIN newIndex /\ i <= newIndex[d]
        /\ DOMAIN newIndex \cup DOMAIN active \subseteq DOMAIN nextIndex
        /\ \A d \in DOMAIN active : active[d] \in Slots(File, d)
        /\ \A d \in DOMAIN nextIndex :
              nextIndex[d] <= original \/ cpc \in {"delta", "rename"} => Copied(d)
        /\ ppc = "index" => original < slot
    BY <1>1 DEF Kept, CopyOK, Copying
  <2>2. CASE Missed
    <3>1. ASSUME NEW d \in DOMAIN nextIndex', Copied(d)
          PROVE  Copied(d)'
      BY <1>1, <1>2, <1>3, <2>2, <3>1 DEF Copied
    <3>2. \A d \in DOMAIN nextIndex' :
             nextIndex'[d] <= original' \/ cpc' \in {"delta", "rename"} => Copied(d)'
      BY <1>1, <2>1, <3>1
    <3> QED
      BY <1>1, <1>2, <1>3, <2>1, <2>2, <3>2 DEF CopyOK
  <2>3. CASE Read1
    <3>1. active[e] \in Slots(File, e)
      BY <1>1, <2>1
    <3>2. /\ tmp'[Len(tmp) + 1] # Zeros /\ tmp'[Len(tmp) + 1][1] = e
          /\ tmp'[Len(tmp) + 1] = File[active[e]]
      BY <2>3, <3>1, SlotsOf, Contents DEF Read1
    <3>3. /\ DOMAIN tmp' = 1 .. Len(tmp) + 1
          /\ \A j \in 1 .. Len(tmp) : tmp'[j] = tmp[j]
      BY <1>6, <2>3 DEF Read1
    <3>4. ASSUME NEW d, NEW i \in Slots(tmp, d)
          PROVE  i \in Slots(tmp', d)
      BY <1>4, <3>3 DEF Slots
    <3>5. ASSUME NEW d, NEW i \in Slots(tmp', d)
          PROVE  (d = e /\ i = Len(tmp) + 1) \/ i \in Slots(tmp, d)
      BY <1>4, <3>2, <3>3 DEF Slots
    <3>6. Len(tmp) + 1 \in Slots(tmp', e)
      BY <1>4, <3>2, <3>3 DEF Slots
    <3>7. \A d \in DOMAIN newIndex' : newIndex'[d] \in Slots(tmp', d)
      BY <1>6, <2>1, <2>3, <3>4, <3>6
    <3>8. ASSUME NEW d \in Entities, NEW i \in Slots(tmp', d)
          PROVE  d \in DOMAIN newIndex' /\ i <= newIndex'[d]
      <4>1. CASE d = e
        <5>1. i \in 1 .. Len(tmp) + 1
          BY <3>3 DEF Slots
        <5> QED
          BY <1>4, <1>6, <2>3, <4>1, <5>1
      <4>2. CASE d # e
        BY <1>6, <2>1, <2>3, <3>5, <4>2
      <4> QED
        BY <4>1, <4>2
    <3>9. ASSUME NEW d \in DOMAIN nextIndex',
                 nextIndex'[d] <= original' \/ cpc' \in {"delta", "rename"}
          PROVE  Copied(d)'
      <4>1. Copied(d) /\ d \in DOMAIN nextIndex
        BY <1>1, <2>1, <3>9
      <4>2. CASE d = e
        <5>1. active[e] = nextIndex[e]
          BY <1>1, <4>1, <4>2 DEF Copied
        <5>2. d \notin DOMAIN active'
          BY <1>3, <4>2
        <5>3. d \in DOMAIN newIndex' /\ newIndex'[d] = Len(tmp) + 1
          BY <1>6, <2>3, <4>2
        <5>4. tmp'[newIndex'[d]] = File'[nextIndex'[d]]
          BY <1>1, <1>2, <3>2, <4>2, <5>1, <5>3
        <5> QED
          BY <5>2, <5>3, <5>4 DEF Copied
      <4>3. CASE d # e /\ d \in DOMAIN active
        BY <1>1, <1>3, <4>1, <4>3 DEF Copied
      <4>4. CASE d # e /\ d \notin DOMAIN active
        <5>1. d \in unread \/ (d \in DOMAIN newIndex /\ tmp[newIndex[d]] = File[nextIndex[d]])
          BY <4>1, <4>4 DEF Copied
        <5>2. d \in unread => d \in unread'
          BY <2>3, <4>4 DEF Read1
        <5>3. ASSUME d \in DOMAIN newIndex
              PROVE  d \in DOMAIN newIndex' /\ tmp'[newIndex'[d]] = tmp[newIndex[d]]
          <6>1. newIndex[d] \in 1 .. Len(tmp)
            BY <1>4, <5>3
          <6> QED
            BY <1>6, <2>3, <3>3, <4>4, <5>3, <6>1
        <5>4. d \notin DOMAIN active'
          BY <1>3, <4>4
        <5> QED
          BY <1>1, <1>2, <5>1, <5>2, <5>3, <5>4 DEF Copied
      <4> QED
        BY <4>2, <4>3, <4>4
    <3>10. DOMAIN newIndex' \cup DOMAIN active' \subseteq DOMAIN nextIndex'
      BY <1>1, <1>3, <1>6, <2>1, <2>3
    <3>11. \A d \in DOMAIN active' : active'[d] \in Slots(File', d)
      BY <1>2, <1>3, <2>1
    <3> QED
      BY <1>1, <2>1, <3>7, <3>8, <3>9, <3>10, <3>11 DEF CopyOK
  <2> QED
    BY <1>5, <2>2, <2>3
<1>11. HarmOK'
  BY <1>1, <1>2 DEF Kept, HarmOK
<1> QED
  BY <1>7, <1>8, <1>9, <1>10, <1>11 DEF Kept
\* The index of a file in order tells the number of each entity's last record.
LEMMA MirrorLast ==
  ASSUME NEW content \in Content, NEW index, NEW num \in [Entities -> Nat],
         Mirrors(content, index, num, 0), NEW e \in Entities
  PROVE  LastRecord(content, e) = num[e]
<1>1. \A i \in Slots(content, e) : e \in DOMAIN index /\ i <= index[e]
  BY SlotsOf DEF Mirrors
<1>2. CASE e \in DOMAIN index
  <2>1. index[e] \in DOMAIN content /\ content[index[e]] = <<e, num[e]>>
    BY <1>2 DEF Mirrors
  <2>2. index[e] \in Slots(content, e)
    <3>1. content[index[e]] # Zeros /\ content[index[e]][1] = e
      BY <2>1 DEF Zeros
    <3> QED
      BY <2>1, <3>1 DEF Slots
  <2>3. LastRecord(content, e) = content[index[e]][2]
    BY <1>1, <2>2, LastRecordIs
  <2> QED
    BY <2>1, <2>3
<1>3. CASE e \notin DOMAIN index
  BY <1>1, <1>3 DEF Mirrors, LastRecord
<1> QED
  BY <1>2, <1>3

\* The temporary file and its index take the place of the file and the old index,
\* but for the entities whose record was passed over.
LEMMA CopyMirrors ==
  ASSUME TypeOK, LocksOK, FileOK, Kept, harm = "none", cpc = "rename",
         NEW num, num = [e \in Entities |-> IF e \in unread THEN LastRecord(tmp, e)
                                           ELSE written[e]]
  PROVE  Mirrors(tmp, newIndex, num, 0)
<1>1. /\ \A e \in DOMAIN newIndex : newIndex[e] \in Slots(tmp, e)
      /\ \A e \in Entities : \A i \in Slots(tmp, e) :
            e \in DOMAIN newIndex /\ i <= newIndex[e]
      /\ DOMAIN newIndex \subseteq DOMAIN nextIndex
      /\ \A e \in DOMAIN nextIndex : Copied(e)
  BY DEF Kept, CopyOK, Copying
<1>2. DOMAIN active = {}
  BY DEF Kept, CountOK
<1>3. DOMAIN nextIndex = {e \in Entities : written[e] # 0}
  BY DEF Kept, MirrorOK, Mirrors
<1>4. tmp \in Content /\ Numbered(tmp)
  BY Contents DEF FileOK
<1>5. DOMAIN newIndex = {e \in Entities : num[e] # 0}
  <2>1. DOMAIN newIndex \subseteq Entities
    BY DEF TypeOK, Types, IsIndex
  <2>2. ASSUME NEW e \in Entities
        PROVE  e \in DOMAIN newIndex <=> num[e] # 0
    <3>1. CASE e \in unread
      <4>1. num[e] = LastRecord(tmp, e)
        BY <3>1
      <4>2. LastRecord(tmp, e) = 0 <=> Slots(tmp, e) = {}
        BY <1>4, LastRecordType
      <4> QED
        BY <1>1, <4>1, <4>2
    <3>2. CASE e \notin unread
      <4>1. num[e] = written[e]
        BY <3>2
      <4>2. e \in DOMAIN nextIndex => e \in DOMAIN newIndex
        BY <1>1, <1>2, <3>2 DEF Copied
      <4> QED
        BY <1>1, <1>3, <4>1, <4>2
    <3> QED
      BY <3>1, <3>2
  <2> QED
    BY <2>1, <2>2
<1>6. ASSUME NEW e \in DOMAIN newIndex
      PROVE  newIndex[e] \in DOMAIN tmp /\ tmp[newIndex[e]] = <<e, num[e]>>
  <2>1. newIndex[e] \in Slots(tmp, e) /\ e \in Entities /\ e \in DOMAIN nextIndex
    BY <1>1 DEF TypeOK, Types, IsIndex
  <2>2. newIndex[e] \in DOMAIN tmp
    BY <2>1 DEF Slots
  <2>3. CASE e \in unread
    <3>1. LastRecord(tmp, e) = tmp[newIndex[e]][2]
      BY <1>1, <1>4, <2>1, LastRecordIs
    <3>2. tmp[newIndex[e]] \in Entities \X Nat /\ tmp[newIndex[e]][1] = e
      BY <1>4, <2>1, SlotsOf DEF Record
    <3>3. tmp[newIndex[e]] = <<e, tmp[newIndex[e]][2]>>
      BY <3>2
    <3> QED
      BY <2>1, <2>2, <2>3, <3>1, <3>3
  <2>4. CASE e \notin unread
    <3>1. tmp[newIndex[e]] = File[nextIndex[e]]
      BY <1>1, <1>2, <2>1, <2>4 DEF Copied
    <3>2. File[nextIndex[e]] = <<e, written[e]>>
      BY <2>1, Leads
    <3> QED
      BY <2>1, <2>2, <2>4, <3>1, <3>2
  <2> QED
    BY <2>3, <2>4
<1>7. \A e \in Entities : \A i \in Slots(tmp, e) : e \in DOMAIN newIndex /\ i <= newIndex[e]
  BY <1>1
<1> QED
  BY <1>5, <1>6, <1>7 DEF Mirrors

\* The new file takes the place of the old one.
LEMMA RenameKept ==
  ASSUME TypeOK, LocksOK, FileOK, Kept, Rename
  PROVE  Kept'
<1> USE DEF partitionVars, indexVars, boundVars
<1>1. /\ UNCHANGED <<offset, nextIndex, ppc, slot, active, original, tmp, newIndex, unread>>
      /\ cpc = "rename" /\ cpc' = "finish"
      /\ disk' = Append(disk, tmp) /\ path' = Len(disk) + 1
      /\ written' = [e \in Entities |-> IF e \in unread THEN LastRecord(tmp, e)
                                        ELSE written[e]]
      /\ harm' = Spoilt
  BY DEF Rename
<1>2. File' = tmp
  <2>1. disk \in Seq(Content) /\ tmp \in Content
    BY DEF TypeOK, Types
  <2>2. disk'[Len(disk) + 1] = tmp
    <3> HIDE DEF Content
    <3> QED
      BY <1>1, <2>1, AppendProperties
  <2> QED
    BY <1>1, <2>2 DEF File
<1>3. IndexOK' /\ CountOK'
  BY <1>1 DEF Kept, IndexOK, CountOK, IsInjective, Copying
<1>4. MirrorOK'
  <2> SUFFICES ASSUME harm = "none"
               PROVE  MirrorOK'
    BY <1>1 DEF MirrorOK, Spoilt
  <2>1. Mirrors(tmp, newIndex, written', 0)
    BY <1>1, CopyMirrors
  <2> QED
    BY <1>1, <1>2, <2>1 DEF MirrorOK, Mirrors
<1>5. CopyOK' /\ HarmOK'
  BY <1>1 DEF CopyOK, HarmOK, Spoilt, Copying
<1> QED
  BY <1>3, <1>4, <1>5 DEF Kept

\* It does not, and nobody notices.
LEMMA RenameFailsKept ==
  ASSUME TypeOK, LocksOK, FileOK, Kept, RenameFails
  PROVE  Kept'
<1> USE DEF partitionVars, indexVars, boundVars, diskVars
<1>1. /\ UNCHANGED <<disk, path, offset, nextIndex, ppc, slot, active, original, tmp,
                     newIndex, unread, written>>
      /\ cpc = "rename" /\ cpc' = "finish"
      /\ harm' = IF harm = "file" THEN "file" ELSE "index"
  BY DEF RenameFails
<1>2. File' = File /\ ppc # "index"
  BY <1>1, Exclusion DEF File, Writing
<1>3. IndexOK' /\ CountOK'
  BY <1>1 DEF Kept, IndexOK, CountOK, IsInjective, Copying
<1>4. MirrorOK' /\ CopyOK'
  BY <1>1 DEF MirrorOK, CopyOK
<1>5. HarmOK'
  <2>1. CASE harm = "none"
    <3>1. Mirrors(File, nextIndex, written, 0)
      BY <1>1, <1>2, <2>1 DEF Kept, MirrorOK
    <3>2. File \in Content /\ written \in [Entities -> Nat]
      BY Contents DEF TypeOK, Types
    <3>3. \A e \in Entities : LastRecord(File, e) = written[e]
      BY <3>1, <3>2, MirrorLast
    <3> QED
      BY <1>1, <1>2, <3>3 DEF HarmOK
  <2>2. CASE harm # "none"
    BY <1>1, <1>2, <2>2 DEF Kept, HarmOK, TypeOK, Types
  <2> QED
    BY <2>1, <2>2
<1> QED
  BY <1>3, <1>4, <1>5 DEF Kept

\* The new index and the new sizes.
LEMMA CompactEndKept ==
  ASSUME TypeOK, LocksOK, FileOK, Kept, CompactEnd
  PROVE  Kept'
<1> USE DEF partitionVars, diskVars, historyVars, boundVars
<1>1. /\ UNCHANGED <<disk, path, ppc, slot, active, original, tmp, newIndex, unread,
                     written, harm>>
      /\ cpc = "finish" /\ cpc' = "idle"
      /\ nextIndex' = newIndex /\ offset' = Len(tmp)
  BY DEF CompactEnd, OffsetAfterCompact
<1>2. File' = File /\ ppc # "index"
  BY <1>1, Exclusion DEF File, Writing
<1>3. IndexOK' /\ CountOK'
  BY <1>1, <1>2 DEF Kept, IndexOK, CountOK, IsInjective, Copying
<1>4. MirrorOK'
  BY <1>1, <1>2 DEF Kept, MirrorOK, Mirrors
<1>5. CopyOK' /\ HarmOK'
  BY <1>1, <1>2 DEF Kept, CopyOK, HarmOK, Copying
<1> QED
  BY <1>3, <1>4, <1>5 DEF Kept

\* The steps of the compaction thread.
LEMMA CompactionKept ==
  ASSUME TypeOK, LocksOK, FileOK, Kept, CompactionNext
  PROVE  Kept'
BY LockKept, SnapshotKept, DeltaKept, CopyKept, RenameKept, RenameFailsKept,
   CompactEndKept DEF CompactionNext

\* The steps of the partition thread.
LEMMA PartitionKept ==
  ASSUME TypeOK, LocksOK, FileOK, Kept, PartitionNext
  PROVE  Kept'
<1>1. CASE Grow
  <2>1. /\ ppc = "grow" /\ ppc' = "invalidate"
        /\ UNCHANGED <<path, offset, nextIndex, compactVars, written>>
        /\ disk' = [disk EXCEPT ![path] = Resized(disk[path], capacity + Chunk)]
        /\ harm' = Spoilt
    BY <1>1 DEF Grow, indexVars
  <2> QED
    BY <2>1, GrowKept
<1> QED
  BY <1>1, GrowFailsKept, CopyToMapKept, WriteIndexKept, QuietSteps
-----------------------------------------------------------------------------
(* A restart *)

\* The scan of a file makes an index of it.
LEMMA ScanMirrors ==
  ASSUME NEW content \in Content, Numbered(content),
         NEW num, num = [e \in Entities |-> LastRecord(content, e)]
  PROVE  /\ Mirrors(content, Rebuilt(content), num, 0)
         /\ IsIndex(Rebuilt(content)) /\ IsInjective(Rebuilt(content))
         /\ \A e \in DOMAIN Rebuilt(content) : Rebuilt(content)[e] <= Len(content)
         /\ num \in [Entities -> Nat]
<1> DEFINE index == Rebuilt(content)
<1>1. /\ DOMAIN index = {e \in Entities : Slots(content, e) # {}}
      /\ \A e \in DOMAIN index : index[e] = Max(Slots(content, e))
  BY DEF Rebuilt
<1> HIDE DEF index
<1>2. ASSUME NEW e \in DOMAIN index
      PROVE  /\ e \in Entities /\ index[e] \in Slots(content, e)
             /\ \A i \in Slots(content, e) : i <= index[e]
  BY <1>1, LastSlot
<1>3. ASSUME NEW e \in DOMAIN index
      PROVE  /\ index[e] \in 1 .. Len(content) /\ index[e] \in DOMAIN content
             /\ content[index[e]] = <<e, num[e]>>
             /\ content[index[e]][1] = e
             /\ index[e] <= Len(content)
  <2>1. index[e] \in Slots(content, e) /\ e \in Entities
    BY <1>2
  <2>2. index[e] \in 1 .. Len(content) /\ index[e] \in DOMAIN content
    BY <2>1, SlotsOf DEF Slots
  <2>3. content[index[e]] \in Entities \X Nat /\ content[index[e]][1] = e
    BY <2>1, SlotsOf DEF Record
  <2>4. num[e] = content[index[e]][2]
    BY <1>2, <2>1, LastRecordIs
  <2>5. content[index[e]] = <<e, content[index[e]][2]>>
    BY <2>3
  <2>6. index[e] <= Len(content)
    BY <2>2, LenProperties DEF Content
  <2> QED
    BY <2>2, <2>3, <2>4, <2>5, <2>6
<1>4. num \in [Entities -> Nat]
  BY LastRecordType
<1>5. DOMAIN index = {e \in Entities : num[e] # 0}
  BY <1>1, LastRecordType
<1>6. \A e \in Entities : \A i \in Slots(content, e) : e \in DOMAIN index /\ i <= index[e]
  BY <1>1, <1>2
<1>7. Mirrors(content, index, num, 0)
  BY <1>3, <1>5, <1>6 DEF Mirrors
<1>8. IsIndex(index)
  BY <1>1, <1>3 DEF IsIndex
<1>9. IsInjective(index)
  BY <1>3 DEF IsInjective
<1> QED
  BY <1>3, <1>4, <1>7, <1>8, <1>9 DEF index

\* What is there after the process has been killed and started again.
LEMMA CrashInv ==
  ASSUME IInv, Crash
  PROVE  IInv'
<1> USE DEF IInv
<1>1. /\ owner' = [l \in Locks |-> Free]
      /\ disk' = <<File>> /\ path' = 1
      /\ offset' = Len(File) /\ capacity' = Len(File) /\ mmapWriter' = 0
      /\ mmap' = NoView /\ view' = NoView
      /\ nextIndex' = Rebuilt(File) /\ diskIndex' = NoIndex /\ dirty' = FALSE
      /\ ppc' = "idle" /\ slot' = 0 /\ got' = Zeros
      /\ cpc' = "idle" /\ active' = NoIndex /\ original' = 0 /\ tmp' = <<>>
      /\ newIndex' = NoIndex /\ unread' = {}
      /\ harm' = "none"
      /\ faults' = faults + 1
      /\ UNCHANGED <<ent, writes, compactions>>
  BY DEF Crash, File
<1>2. written' = [e \in Entities |-> LastRecord(File, e)]
  BY DEF Crash, File
<1>3. File \in Content /\ Numbered(File) /\ Len(File) \in Nat
  BY Contents DEF FileOK
<1>4. File' = File
  BY <1>1 DEF File
<1>5. /\ Mirrors(File, nextIndex', written', 0)
      /\ IsIndex(nextIndex') /\ IsInjective(nextIndex')
      /\ \A e \in DOMAIN nextIndex' : nextIndex'[e] <= Len(File)
      /\ written' \in [Entities -> Nat]
  BY <1>1, <1>2, <1>3, ScanMirrors
<1>6. Types'
  <2>1. disk' \in Seq(Content) /\ Len(disk') = 1 /\ path' \in DOMAIN disk'
    <3> DEFINE c == File
    <3>1. disk' = <<c>> /\ c \in Content
      BY <1>1, <1>3
    <3> HIDE DEF c, Content
    <3> QED
      BY <1>1, <3>1
  <2>2. IsIndex(NoIndex)
    BY DEF IsIndex, NoIndex
  <2>3. owner' \in [Locks -> Threads \cup {Free}]
    BY <1>1 DEF Threads, Free
  <2>4. tmp' \in Content
    BY <1>1, EmptySeq DEF Content
  <2>5. /\ mmap' \in [file : 0 .. Len(disk'), len : Nat]
        /\ view' \in [file : 0 .. Len(disk'), len : Nat]
    BY <1>1, <2>1 DEF NoView
  <2>6. faults' \in Nat /\ ent' \in Entities /\ writes' \in Nat /\ compactions' \in Nat
    BY <1>1 DEF TypeOK, Types
  <2>7. mmapWriter' \in 0 .. Len(disk')
    BY <1>1, <2>1
  <2> QED
    BY <1>1, <1>3, <1>5, <2>1, <2>2, <2>3, <2>4, <2>5, <2>6, <2>7 DEF Types
<1>7. TypeOK'
  BY <1>1, <1>3, <1>4, <1>6 DEF TypeOK, File
<1>8. LocksOK'
  BY <1>1 DEF LocksOK, Locks, Writing, Free
<1>9. Numbered(tmp')
  BY <1>1 DEF Numbered
<1>10. FileOK'
  BY <1>1, <1>3, <1>4, <1>9 DEF FileOK, Numbered, Writing
<1>11. DOMAIN NoIndex = {}
  BY DEF NoIndex
<1>12. IndexOK'
  <2>1. IsInjective(newIndex') /\ \A e \in DOMAIN newIndex' : newIndex'[e] <= Len(tmp')
    BY <1>1, <1>11 DEF IsInjective
  <2> QED
    BY <1>1, <1>5, <2>1 DEF IndexOK
<1>13. CountOK'
  BY <1>1, <1>11, FS_EmptySet DEF CountOK, Copying
<1>14. MirrorOK' /\ CopyOK' /\ HarmOK'
  BY <1>1, <1>4, <1>5 DEF MirrorOK, Mirrors, CopyOK, HarmOK, Copying
<1>15. ReadOK'
  BY <1>1, <1>11 DEF ReadOK, Reading
<1>16. DirtyOrPublished'
  BY <1>1 DEF DirtyOrPublished, NoIndex
<1> QED
  BY <1>7, <1>8, <1>10, <1>12, <1>13, <1>14, <1>15, <1>16
-----------------------------------------------------------------------------
(* Reads *)

\* Growth and writes leave the records of a file in order where they are.
LEMMA SlotsStay ==
  ASSUME TypeOK, LocksOK, FileOK, Kept, harm = "none",
         Grow \/ GrowFails \/ CopyToMap
  PROVE  \A e \in Entities : Slots(File, e) \subseteq Slots(File', e)
<1> SUFFICES ASSUME NEW e \in Entities, NEW i \in Slots(File, e)
             PROVE  i \in Slots(File', e)
  OBVIOUS
<1>1. cpc # "finish"
  BY Exclusion DEF Grow, GrowFails, CopyToMap, Writing
<1>2. i \in 1 .. offset /\ i \in DOMAIN File
  BY <1>1, Below
<1>3. CASE CopyToMap
  <2>1. i \in DOMAIN File' /\ File'[i] = File[i]
    BY <1>2, <1>3, CopyToMapIs
  <2> QED
    BY <2>1 DEF Slots
<1>4. ASSUME ppc = "grow", UNCHANGED path,
             disk' = [disk EXCEPT ![path] = Resized(disk[path], capacity + Chunk)]
      PROVE  i \in Slots(File', e)
  <2>1. i \in DOMAIN File' /\ File'[i] = File[i]
    BY <1>2, <1>4, GrowIs, Contents
  <2> QED
    BY <2>1 DEF Slots
<1>5. CASE Grow
  BY <1>4, <1>5 DEF Grow
<1>6. CASE GrowFails
  <2>1. CASE UNCHANGED disk
    BY <1>6, <2>1 DEF GrowFails, File
  <2>2. CASE disk' = [disk EXCEPT ![path] = Resized(disk[path], capacity + Chunk)]
    BY <1>4, <1>6, <2>2 DEF GrowFails
  <2> QED
    BY <1>6, <2>1, <2>2 DEF GrowFails
<1> QED
  BY <1>3, <1>5, <1>6

\* The steps of the partition thread keep what is said of reads.
LEMMA ReadPartition ==
  ASSUME TypeOK, LocksOK, FileOK, Kept, ReadOK, PartitionNext
  PROVE  ReadOK'
<1> USE DEF diskVars, mapVars, indexVars, historyVars, boundVars, compactVars
<1>0. ent \in Entities /\ DOMAIN diskIndex \subseteq Entities
  BY DEF TypeOK, Types, IsIndex
<1>1. ASSUME NEW e \in Entities, WriteBegin(e)
      PROVE  ReadOK'
  BY <1>1 DEF WriteBegin, ReadOK, Reading, File
<1>2. ASSUME NEW e \in Entities, ReadBegin(e)
      PROVE  ReadOK'
  BY <1>2 DEF ReadBegin, ReadOK, Reading, File
<1>3. CASE WriteCapacity \/ WriteMap \/ Invalidate \/ SwapFlag
  BY <1>3 DEF WriteCapacity, WriteMap, Invalidate, SwapFlag, ReadOK, Reading, File
<1>4. CASE Grow \/ GrowFails \/ CopyToMap
  <2>1. /\ UNCHANGED <<path, cpc, diskIndex, ent>>
        /\ ppc' \in {"invalidate", "idle", "index"}
        /\ harm' = "none" => harm = "none"
    BY <1>4 DEF Grow, GrowFails, CopyToMap, Spoilt
  <2>2. harm = "none" => \A e \in Entities : Slots(File, e) \subseteq Slots(File', e)
    BY <1>4, SlotsStay
  <2> QED
    BY <1>0, <2>1, <2>2 DEF ReadOK, Reading
<1>5. CASE WriteIndex
  BY <1>5 DEF WriteIndex, ReadOK, Reading, File
<1>6. CASE SwapIndex
  <2>1. /\ UNCHANGED <<disk, path, cpc, harm, nextIndex>>
        /\ ppc' = "idle" /\ diskIndex' = nextIndex
    BY <1>6 DEF SwapIndex
  <2>2. path = 1 /\ harm = "none" =>
           cpc # "finish" /\ \A e \in DOMAIN nextIndex : nextIndex[e] \in Slots(File, e)
    BY Leads DEF ReadOK
  <2> QED
    BY <2>1, <2>2 DEF ReadOK, Reading, File
<1>7. CASE ReadView
  BY <1>7 DEF ReadView, InView, ReadOK, Reading, File
<1>8. CASE ReadFlush \/ ReadStore \/ ReadReturn
  BY <1>8 DEF ReadFlush, ReadStore, ReadReturn, ReadOK, Reading, File
<1>9. CASE ReadOpen
  <2>1. /\ UNCHANGED <<disk, path, cpc, harm, diskIndex, ent, slot>>
        /\ ppc = "open" /\ ppc' = "store"
        /\ view' = [file |-> path, len |-> Len(File)]
    BY <1>9 DEF ReadOpen, File
  <2>2. view'.file = path /\ view'.len = Len(File) /\ path # 0
    BY <2>1, Contents
  <2>3. slot \in Slots(File, ent) => slot <= Len(File)
    BY Contents, SlotsOf
  <2> QED
    BY <2>1, <2>2, <2>3 DEF ReadOK, Reading, File
<1>10. CASE Read
  <2>1. /\ UNCHANGED <<disk, path, cpc, harm, diskIndex, ent, slot>>
        /\ ppc = "read" /\ ppc' = "done"
        /\ got' = IF slot <= view.len /\ slot \in DOMAIN disk[view.file]
                  THEN disk[view.file][slot] ELSE Zeros
    BY <1>10 DEF Read
  <2>2. ASSUME path = 1, harm = "none"
        PROVE  got' # Zeros /\ got'[1] = ent
    <3>1. view.file = 1
      <4>1. view \in [file : 0 .. Len(disk), len : Nat]
        BY DEF TypeOK, Types
      <4>2. Len(disk) = 1
        BY <2>2 DEF FileOK
      <4>3. view.file # 0
        BY <2>1 DEF ReadOK
      <4> QED
        BY <4>1, <4>2, <4>3
    <3>2. slot \in Slots(File, ent) /\ slot <= view.len
      BY <2>1, <2>2 DEF ReadOK, Reading
    <3>3. slot \in DOMAIN File /\ File[slot] # Zeros /\ File[slot][1] = ent
      BY <3>2 DEF Slots
    <3> QED
      BY <2>1, <2>2, <3>1, <3>2, <3>3 DEF File
  <2> QED
    BY <2>1, <2>2 DEF ReadOK, Reading, File
<1> QED
  BY <1>1, <1>2, <1>3, <1>4, <1>5, <1>6, <1>7, <1>8, <1>9, <1>10 DEF PartitionNext

\* So do those of the compaction thread.
LEMMA ReadCompaction ==
  ASSUME TypeOK, FileOK, ReadOK, CompactionNext
  PROVE  ReadOK'
<1> USE DEF diskVars, mapVars, indexVars, partitionVars, historyVars, boundVars
<1>1. ASSUME NEW e \in Entities, CopyActive(e) \/ CopyDelta(e)
      PROVE  ReadOK'
  BY <1>1 DEF CopyActive, CopyDelta, ReadOK, File
<1>2. CASE CompactBegin \/ LockIndex \/ LockOffset \/ LockWriter \/ LockView \/ CompactFails
  BY <1>2 DEF CompactBegin, LockIndex, LockOffset, LockWriter, LockView, CompactFails,
     ReadOK, File
<1>3. CASE Snapshot \/ CompactEnd
  BY <1>3 DEF Snapshot, CompactEnd, ReadOK, File
<1>4. CASE Rename
  <2>1. path' = Len(disk) + 1 /\ Len(disk) \in Nat /\ Len(disk) # 0 /\ UNCHANGED <<ppc, view>>
    BY <1>4, Contents DEF Rename
  <2> QED
    BY <2>1 DEF ReadOK
<1>5. CASE RenameFails
  <2>1. harm' # "none" /\ UNCHANGED <<ppc, view>>
    BY <1>5 DEF RenameFails
  <2> QED
    BY <2>1 DEF ReadOK
<1> QED
  BY <1>1, <1>2, <1>3, <1>4, <1>5 DEF CompactionNext
-----------------------------------------------------------------------------
(* The types *)

\* An index keeps its type when an entry is taken out of it.
LEMMA WithoutType ==
  ASSUME NEW f, IsIndex(f), NEW e
  PROVE  IsIndex([d \in DOMAIN f \ {e} |-> f[d]])
BY DEF IsIndex

\* The steps of the partition thread keep the types.
LEMMA TypePartition ==
  ASSUME TypeOK, LocksOK, FileOK, ReadOK, PartitionNext
  PROVE  Types'
<1> USE DEF diskVars, mapVars, indexVars, historyVars, boundVars, compactVars
<1>0. Types
  BY DEF TypeOK
<1>1. ASSUME NEW e \in Entities, WriteBegin(e)
      PROVE  Types'
  BY <1>0, <1>1 DEF WriteBegin, Acquire, Types, Locks, Threads
<1>2. ASSUME NEW e \in Entities, ReadBegin(e)
      PROVE  Types'
  BY <1>0, <1>2 DEF ReadBegin, Types, IsIndex
<1>3. CASE WriteCapacity \/ WriteMap
  BY <1>0, <1>3 DEF WriteCapacity, WriteMap, Acquire, Types, Locks, Threads
<1>4. ASSUME ppc = "grow", UNCHANGED path,
             disk' = [disk EXCEPT ![path] = Resized(disk[path], capacity + Chunk)]
      PROVE  /\ disk' \in Seq(Content) /\ Len(disk') = Len(disk)
             /\ DOMAIN disk' = DOMAIN disk /\ path \in 0 .. Len(disk)
             /\ capacity + Chunk \in Nat
  <2>1. disk' \in Seq(Content) /\ Len(disk') = Len(disk) /\ capacity + Chunk \in Nat
    BY <1>4, GrowIs
  <2>2. DOMAIN disk' = 1 .. Len(disk') /\ DOMAIN disk = 1 .. Len(disk)
    BY <1>0, <2>1, LenProperties DEF Types
  <2> QED
    BY <2>1, <2>2, Contents
<1>5. CASE Grow
  <2>1. /\ disk' \in Seq(Content) /\ Len(disk') = Len(disk)
        /\ DOMAIN disk' = DOMAIN disk /\ path \in 0 .. Len(disk)
        /\ capacity + Chunk \in Nat
    BY <1>4, <1>5 DEF Grow
  <2>2. /\ capacity' = capacity + Chunk /\ mmapWriter' = path
        /\ ppc' = "invalidate" /\ harm' = Spoilt
        /\ UNCHANGED <<owner, path, offset, mmap, indexVars, ent, slot, view, got,
                       compactVars, boundVars, written>>
    BY <1>5 DEF Grow
  <2> QED
    BY <1>0, <2>1, <2>2 DEF Types, Spoilt
<1>6. CASE GrowFails
  <2>1. /\ mmapWriter' = 0 /\ ppc' = "idle"
        /\ owner' = [l \in Locks |-> IF owner[l] = "partition" THEN Free ELSE owner[l]]
        /\ UNCHANGED <<path, offset, capacity, mmap, indexVars, ent, slot, view, got,
                       compactVars, boundVars, written>>
        /\ ppc = "grow"
        /\ harm' \in {harm, Spoilt}
        /\ \/ UNCHANGED disk
           \/ disk' = [disk EXCEPT ![path] = Resized(disk[path], capacity + Chunk)]
    BY <1>6 DEF GrowFails, ReleaseAll
  <2>2. /\ disk' \in Seq(Content) /\ Len(disk') = Len(disk)
        /\ DOMAIN disk' = DOMAIN disk
    BY <1>0, <1>4, <2>1 DEF Types
  <2>3. owner' \in [Locks -> Threads \cup {Free}]
    BY <1>0, <2>1 DEF Types
  <2>4. Len(disk) \in Nat
    BY Contents
  <2> QED
    BY <1>0, <2>1, <2>2, <2>3, <2>4 DEF Types, Spoilt
<1>7. CASE Invalidate
  BY <1>0, <1>7, Contents DEF Invalidate, Types, NoView
<1>8. CASE CopyToMap
  <2>1. disk' \in Seq(Content) /\ Len(disk') = Len(disk) /\ offset \in Nat
    BY <1>8, CopyToMapIs
  <2>2. DOMAIN disk' = 1 .. Len(disk') /\ DOMAIN disk = 1 .. Len(disk)
    BY <1>0, <2>1, LenProperties DEF Types
  <2>3. /\ slot' = offset + 1 /\ offset' = offset + 1
        /\ ppc' = "index" /\ harm' = Spoilt
        /\ UNCHANGED <<owner, path, capacity, mmapWriter, mmap, indexVars, ent, view,
                       got, compactVars, boundVars, written>>
    BY <1>8 DEF CopyToMap, RecordSlot
  <2> QED
    BY <1>0, <2>1, <2>2, <2>3 DEF Types, Spoilt
<1>9. CASE WriteIndex
  <2>1. ppc = "index" /\ slot \in Nat \ {0}
    BY <1>9, Contents DEF WriteIndex, FileOK
  <2>2. IsIndex(nextIndex')
    <3>1. nextIndex' = Put(nextIndex, ent, slot)
      BY <1>9 DEF WriteIndex
    <3>2. IsIndex(Put(nextIndex, ent, slot))
      BY <1>0, <2>1, PutType DEF Types
    <3> QED
      BY <3>1, <3>2 DEF IsIndex
  <2>3. written' \in [Entities -> Nat]
    BY <1>0, <1>9 DEF WriteIndex, Types
  <2>4. owner' \in [Locks -> Threads \cup {Free}]
    BY <1>0, <1>9 DEF WriteIndex, ReleaseAll, Types
  <2>5. /\ dirty' = TRUE /\ ppc' = "idle"
        /\ UNCHANGED <<diskVars, mapVars, diskIndex, ent, slot, view, got, compactVars,
                       boundVars, harm>>
    BY <1>9 DEF WriteIndex
  <2> QED
    BY <1>0, <2>2, <2>3, <2>4, <2>5 DEF Types, IsIndex
<1>10. CASE SwapFlag \/ SwapIndex
  BY <1>0, <1>10 DEF SwapFlag, SwapIndex, Types, IsIndex
<1>11. CASE ReadView \/ ReadFlush \/ ReadStore
  BY <1>0, <1>11 DEF ReadView, ReadFlush, ReadStore, Types
<1>12. CASE ReadOpen
  <2>1. view' \in [file : 0 .. Len(disk), len : Nat]
    BY <1>12, Contents DEF ReadOpen, File
  <2> QED
    BY <1>0, <1>12, <2>1 DEF ReadOpen, Types
<1>13. CASE Read
  <2>1. got' \in Record \cup {Zeros}
    <3>1. got' = IF slot <= view.len /\ slot \in DOMAIN disk[view.file]
                 THEN disk[view.file][slot] ELSE Zeros
      BY <1>13 DEF Read
    <3>2. view.file \in 1 .. Len(disk)
      <4>1. view \in [file : 0 .. Len(disk), len : Nat] /\ view.file # 0
        BY <1>0, <1>13 DEF Read, ReadOK, Types
      <4> QED
        BY <4>1, Contents
    <3>3. disk[view.file] \in Content
      <4> HIDE DEF Content
      <4> QED
        BY <1>0, <3>2, ElementOfSeq DEF Types
    <3>4. ASSUME slot \in DOMAIN disk[view.file]
          PROVE  disk[view.file][slot] \in Record \cup {Zeros}
      BY <3>3, <3>4, ElementOfSeq, LenProperties DEF Content
    <3> QED
      BY <3>1, <3>4
  <2>2. /\ ppc' = "done"
        /\ UNCHANGED <<owner, diskVars, mapVars, indexVars, ent, slot, view, compactVars,
                       historyVars>>
    BY <1>13 DEF Read
  <2> QED
    BY <1>0, <2>1, <2>2 DEF Types
<1>14. CASE ReadReturn
  BY <1>0, <1>14 DEF ReadReturn, Types
<1> QED
  BY <1>1, <1>2, <1>3, <1>5, <1>6, <1>7, <1>8, <1>9, <1>10, <1>11, <1>12, <1>13, <1>14
     DEF PartitionNext

\* The steps of the compaction thread keep the types.
LEMMA TypeCompaction ==
  ASSUME TypeOK, LocksOK, FileOK, CompactionNext
  PROVE  Types'
<1> USE DEF diskVars, mapVars, indexVars, partitionVars, historyVars, boundVars
<1>0. Types
  BY DEF TypeOK
<1>1. ASSUME NEW e \in Entities, CopyActive(e) \/ CopyDelta(e)
      PROVE  Types'
  <2>1. /\ UNCHANGED <<owner, diskVars, mapVars, indexVars, partitionVars, cpc, original,
                       writes, compactions, written, harm>>
        /\ e \in DOMAIN active
        /\ CopyRecord(e, active[e])
        /\ active' = [d \in DOMAIN active \ {e} |-> active[d]]
    BY <1>1 DEF CopyActive, CopyDelta
  <2>2. IsIndex(active')
    BY <1>0, <2>1, WithoutType DEF Types, IsIndex
  <2>3. tmp' \in Content
    BY <1>0, <2>1, CopyRecordIs DEF Types
  <2>4. IsIndex(newIndex')
    <3>1. Len(tmp) + 1 \in Nat \ {0}
      BY Contents
    <3>2. IsIndex(Put(newIndex, e, Len(tmp) + 1))
      BY <1>0, <3>1, PutType DEF Types
    <3>3. newIndex' = newIndex \/ newIndex' = Put(newIndex, e, Len(tmp) + 1)
      BY <2>1 DEF CopyRecord
    <3> QED
      BY <1>0, <3>2, <3>3 DEF Types, IsIndex
  <2>5. unread' \subseteq Entities /\ faults' \in Nat
    BY <1>0, <2>1 DEF CopyRecord, Types
  <2> QED
    BY <1>0, <2>1, <2>2, <2>3, <2>4, <2>5 DEF Types, IsIndex
<1>2. CASE CompactBegin \/ LockIndex \/ LockOffset
  <2>1. owner' \in [Locks -> Threads \cup {Free}]
    BY <1>0, <1>2 DEF CompactBegin, LockIndex, LockOffset, Acquire, Types, Locks, Threads
  <2>2. cpc' \in {"snapshot", "offset", "writer"}
    BY <1>2 DEF CompactBegin, LockIndex, LockOffset
  <2>4. compactions' \in {compactions, compactions + 1} /\ compactions \in Nat
    BY <1>0, <1>2 DEF CompactBegin, LockIndex, LockOffset, Types
  <2>3. UNCHANGED <<diskVars, mapVars, indexVars, partitionVars, active, original, tmp,
                    newIndex, unread, writes, faults, written, harm>>
    BY <1>2 DEF CompactBegin, LockIndex, LockOffset
  <2> QED
    BY <1>0, <2>1, <2>2, <2>3, <2>4 DEF Types, IsIndex
<1>3. CASE Snapshot
  <2>1. owner' \in [Locks -> Threads \cup {Free}]
    BY <1>0, <1>3 DEF Snapshot, ReleaseAll, Types
  <2>2. IsIndex(newIndex') /\ IsIndex(active')
    BY <1>0, <1>3 DEF Snapshot, NoIndex, Types, IsIndex
  <2>3. tmp' \in Content
    BY <1>3, EmptySeq DEF Snapshot, Content
  <2>4. /\ original' = offset /\ unread' = {} /\ cpc' = "copy"
        /\ UNCHANGED <<diskVars, mapVars, indexVars, partitionVars, historyVars>>
    BY <1>3 DEF Snapshot
  <2> QED
    BY <1>0, <2>1, <2>2, <2>3, <2>4 DEF Types, IsIndex
<1>4. CASE LockWriter
  <2>1. owner' \in [Locks -> Threads \cup {Free}]
    BY <1>0, <1>4 DEF LockWriter, Acquire, Types, Locks, Threads
  <2>2. IsIndex(active')
    BY <1>0, <1>4 DEF LockWriter, Delta, Types, IsIndex
  <2>3. /\ cpc' = "delta"
        /\ UNCHANGED <<diskVars, mapVars, indexVars, partitionVars, original, tmp,
                       newIndex, unread, historyVars>>
    BY <1>4 DEF LockWriter
  <2> QED
    BY <1>0, <2>1, <2>2, <2>3 DEF Types, IsIndex
<1>5. CASE LockView
  BY <1>0, <1>5, Contents DEF LockView, Acquire, Types, Locks, Threads, NoView
<1>6. CASE CompactFails
  BY <1>0, <1>6 DEF CompactFails, ReleaseAll, Types, Locks, Threads
<1>7. CASE Rename
  <2>1. owner' \in [Locks -> Threads \cup {Free}]
    BY <1>0, <1>7 DEF Rename, Acquire, Types, Locks, Threads
  <2>2. /\ disk' \in Seq(Content) /\ Len(disk') = Len(disk) + 1 /\ Len(disk) \in Nat
        /\ path' \in DOMAIN disk' /\ path' = Len(disk) + 1
    <3>1. disk' = Append(disk, tmp) /\ path' = Len(disk) + 1 /\ Len(disk) \in Nat
      BY <1>7, Contents DEF Rename
    <3>2. disk \in Seq(Content) /\ tmp \in Content
      BY <1>0 DEF Types
    <3> HIDE DEF Content
    <3>3. disk' \in Seq(Content) /\ Len(disk') = Len(disk) + 1
      BY <3>1, <3>2, AppendProperties
    <3>4. DOMAIN disk' = 1 .. Len(disk')
      BY <3>3, LenProperties
    <3> QED
      BY <3>1, <3>3, <3>4
  <2>3. written' \in [Entities -> Nat]
    <3>1. written' = [e \in Entities |-> IF e \in unread THEN LastRecord(tmp, e) ELSE written[e]]
      BY <1>7 DEF Rename
    <3>2. \A e \in Entities : LastRecord(tmp, e) \in Nat
      BY <1>0, LastRecordType DEF Types, FileOK
    <3>3. written \in [Entities -> Nat]
      BY <1>0 DEF Types
    <3> QED
      BY <3>1, <3>2, <3>3
  <2>4. /\ mmapWriter' \in {0, path'} /\ cpc' = "finish" /\ harm' = Spoilt
        /\ UNCHANGED <<offset, capacity, mmap, indexVars, partitionVars, active,
                       original, tmp, newIndex, unread, boundVars>>
    BY <1>7 DEF Rename
  <2>5. /\ mmap' \in [file : 0 .. Len(disk'), len : Nat]
        /\ view' \in [file : 0 .. Len(disk'), len : Nat]
        /\ mmapWriter' \in 0 .. Len(disk')
    BY <1>0, <2>2, <2>4 DEF Types
  <2> QED
    BY <1>0, <2>1, <2>2, <2>3, <2>4, <2>5 DEF Types, IsIndex, Spoilt
<1>8. CASE RenameFails
  <2>1. mmapWriter' \in 0 .. Len(disk)
    BY <1>8, Contents DEF RenameFails
  <2> QED
    BY <1>0, <1>8, <2>1 DEF RenameFails, Acquire, Types, Locks, Threads
<1>9. CASE CompactEnd
  <2>1. Len(tmp) \in Nat
    BY Contents
  <2> QED
    BY <1>0, <1>9, <2>1 DEF CompactEnd, OffsetAfterCompact, DirtyAfterCompact, ReleaseAll,
       Types, IsIndex
<1> QED
  BY <1>1, <1>2, <1>3, <1>4, <1>5, <1>6, <1>7, <1>8, <1>9 DEF CompactionNext

\* Records are written within the file.
LEMMA TypeFromFile ==
  ASSUME Types', FileOK'
  PROVE  TypeOK'
<1>1. path' \in DOMAIN disk' /\ disk' \in Seq(Content)
  BY DEF Types
<1>2. path' \in 1 .. Len(disk')
  BY <1>1, LenProperties
<1>3. disk'[path'] \in Content
  <2> HIDE DEF Content
  <2> QED
    BY <1>1, <1>2, ElementOfSeq
<1>4. Len(disk'[path']) \in Nat
  BY <1>3, LenProperties DEF Content
<1>5. offset' \in Nat /\ capacity' \in Nat
  BY DEF Types
<1>6. cpc' # "finish" => offset' <= capacity' /\ capacity' <= Len(disk'[path'])
  BY DEF FileOK, File
<1> QED
  BY <1>4, <1>5, <1>6 DEF TypeOK
-----------------------------------------------------------------------------
(* The invariant *)

\* A first start.
LEMMA InitInv == Init => IInv
<1> SUFFICES ASSUME Init PROVE IInv
  OBVIOUS
<1>1. /\ owner = [l \in Locks |-> Free]
      /\ disk = <<<<>>>> /\ path = 1 /\ offset = 0 /\ capacity = 0 /\ mmapWriter = 0
      /\ mmap = NoView /\ view = NoView
      /\ nextIndex = NoIndex /\ diskIndex = NoIndex /\ dirty = FALSE
      /\ ppc = "idle" /\ slot = 0 /\ got = Zeros /\ ent \in Entities
      /\ cpc = "idle" /\ active = NoIndex /\ original = 0 /\ tmp = <<>>
      /\ newIndex = NoIndex /\ unread = {}
      /\ writes = 0 /\ compactions = 0 /\ faults = 0
      /\ written = [e \in Entities |-> 0] /\ harm = "none"
  BY DEF Init
<1>2. /\ <<>> \in Content /\ Len(disk) = 1 /\ File = <<>> /\ DOMAIN disk = {1}
      /\ disk \in Seq(Content)
  <2>1. <<>> \in Content
    BY EmptySeq DEF Content
  <2> HIDE DEF Content
  <2> QED
    BY <1>1, <2>1 DEF File
<1>3. /\ DOMAIN NoIndex = {} /\ IsIndex(NoIndex) /\ IsInjective(NoIndex)
      /\ Numbered(<<>>) /\ Len(<<>>) = 0 /\ DOMAIN <<>> = {}
  BY DEF NoIndex, IsIndex, IsInjective, Numbered
<1>4. Types
  <2>1. owner \in [Locks -> Threads \cup {Free}]
    BY <1>1 DEF Threads, Free
  <2>2. /\ mmap \in [file : 0 .. Len(disk), len : Nat]
        /\ view \in [file : 0 .. Len(disk), len : Nat]
    BY <1>1, <1>2 DEF NoView
  <2>3. path \in DOMAIN disk /\ mmapWriter \in 0 .. Len(disk)
    BY <1>1, <1>2
  <2>4. tmp \in Content /\ IsIndex(nextIndex) /\ IsIndex(diskIndex) /\ IsIndex(active)
        /\ IsIndex(newIndex)
    BY <1>1, <1>2, <1>3
  <2> QED
    BY <1>1, <1>2, <2>1, <2>2, <2>3, <2>4 DEF Types
<1>5. TypeOK
  BY <1>1, <1>2, <1>3, <1>4 DEF TypeOK, File
<1>6. LocksOK
  BY <1>1 DEF LocksOK, Locks, Writing, Free
<1>7. FileOK
  BY <1>1, <1>2, <1>3 DEF FileOK, Writing
<1>8. IndexOK
  BY <1>1, <1>3 DEF IndexOK
<1>9. CountOK
  BY <1>1, <1>3, FS_EmptySet DEF CountOK, Copying
<1>10. \A e : Slots(<<>>, e) = {}
  BY <1>3 DEF Slots
<1>11. MirrorOK
  BY <1>1, <1>2, <1>3, <1>10 DEF MirrorOK, Mirrors
<1>12. CopyOK /\ HarmOK /\ DirtyOrPublished
  BY <1>1 DEF CopyOK, HarmOK, DirtyOrPublished, Copying
<1>13. ReadOK
  BY <1>1, <1>3 DEF ReadOK, Reading
<1> QED
  BY <1>5, <1>6, <1>7, <1>8, <1>9, <1>11, <1>12, <1>13 DEF IInv

\* The mark and the index published, in every step.
LEMMA DirtyStep ==
  ASSUME DirtyOrPublished, LocksOK, PartitionNext \/ CompactionNext
  PROVE  DirtyOrPublished'
<1> USE DEF DirtyOrPublished, mapVars, indexVars, partitionVars
<1>1. ASSUME NEW e \in Entities, WriteBegin(e) \/ ReadBegin(e)
      PROVE  DirtyOrPublished'
  BY <1>1 DEF WriteBegin, ReadBegin
<1>2. CASE \/ WriteCapacity \/ WriteMap \/ Grow \/ GrowFails \/ Invalidate \/ CopyToMap
           \/ WriteIndex
  BY <1>2 DEF WriteCapacity, WriteMap, Grow, GrowFails, Invalidate, CopyToMap, WriteIndex
<1>3. CASE SwapFlag \/ SwapIndex
  BY <1>3 DEF SwapFlag, SwapIndex
<1>4. CASE ReadView \/ ReadFlush \/ ReadOpen \/ ReadStore \/ Read \/ ReadReturn
  BY <1>4 DEF ReadView, ReadFlush, ReadOpen, ReadStore, Read, ReadReturn
<1>5. CASE \/ CompactBegin \/ Snapshot \/ LockIndex \/ LockOffset \/ LockWriter \/ LockView
           \/ CompactFails \/ Rename \/ RenameFails
  BY <1>5 DEF CompactBegin, Snapshot, LockIndex, LockOffset, LockWriter, LockView,
     CompactFails, Rename, RenameFails
<1>6. ASSUME NEW e \in Entities, CopyActive(e) \/ CopyDelta(e)
      PROVE  DirtyOrPublished'
  BY <1>6 DEF CopyActive, CopyDelta
<1>7. CASE CompactEnd
  BY <1>7 DEF CompactEnd, DirtyAfterCompact
<1> QED
  BY <1>1, <1>2, <1>3, <1>4, <1>5, <1>6, <1>7 DEF PartitionNext, CompactionNext

\* Every step keeps the invariant.
LEMMA StepInv == IInv /\ [Next]_vars => IInv'
<1> SUFFICES ASSUME IInv, [Next]_vars PROVE IInv'
  OBVIOUS
<1>0. Kept
  BY DEF IInv, Kept
<1>1. CASE PartitionNext
  <2>1. LocksOK' /\ FileOK' /\ Kept' /\ ReadOK' /\ DirtyOrPublished'
    BY <1>0, <1>1, LocksPartition, FilePartition, PartitionKept, ReadPartition, DirtyStep
       DEF IInv
  <2>2. Types'
    BY <1>1, TypePartition DEF IInv
  <2>3. TypeOK'
    BY <2>1, <2>2, TypeFromFile
  <2> QED
    BY <2>1, <2>3 DEF IInv, Kept
<1>2. CASE CompactionNext
  <2>1. LocksOK' /\ FileOK' /\ Kept' /\ ReadOK' /\ DirtyOrPublished'
    BY <1>0, <1>2, LocksCompaction, FileCompaction, CompactionKept, ReadCompaction, DirtyStep
       DEF IInv
  <2>2. Types'
    BY <1>2, TypeCompaction DEF IInv
  <2>3. TypeOK'
    BY <2>1, <2>2, TypeFromFile
  <2> QED
    BY <2>1, <2>3 DEF IInv, Kept
<1>3. CASE Crash
  BY <1>3, CrashInv
<1>4. CASE UNCHANGED vars
  <2> USE DEF vars, diskVars, mapVars, indexVars, partitionVars, historyVars, boundVars
  <2>1. Kept'
    BY <1>0, <1>4, Quiet
  <2>2. TypeOK' /\ LocksOK' /\ DirtyOrPublished'
    BY <1>4 DEF IInv, TypeOK, Types, IsIndex, LocksOK, Writing, DirtyOrPublished, compactVars
  <2>3. FileOK' /\ ReadOK'
    BY <1>4 DEF IInv, FileOK, ReadOK, File, Numbered, Writing, Reading, compactVars
  <2> QED
    BY <2>1, <2>2, <2>3 DEF IInv, Kept
<1> QED
  BY <1>1, <1>2, <1>3, <1>4 DEF Next

\* What the scan of the file in order would find.
LEMMA LastOfMirror ==
  ASSUME NEW content \in Content, NEW index, NEW num, NEW new,
         Mirrors(content, index, num, new), IsIndex(index), NEW e \in Entities,
         num[e] \in Nat
  PROVE  \/ LastRecord(content, e) = num[e]
         \/ /\ new \in Slots(content, e)
            /\ LastRecord(content, e) = content[new][2]
<1> DEFINE S == Slots(content, e)
<1>1. CASE S = {}
  <2>1. e \notin DOMAIN index
    <3> SUFFICES ASSUME e \in DOMAIN index PROVE FALSE
      OBVIOUS
    <3>1. index[e] \in DOMAIN content /\ content[index[e]] = <<e, num[e]>>
      BY DEF Mirrors
    <3>2. content[index[e]] # Zeros /\ content[index[e]][1] = e
      BY <3>1 DEF Zeros
    <3> QED
      BY <1>1, <3>1, <3>2 DEF Slots
  <2>2. num[e] = 0
    BY <2>1 DEF Mirrors
  <2> QED
    BY <1>1, <2>2 DEF LastRecord
<1>2. CASE S # {}
  <2> DEFINE m == Max(S)
  <2>1. m \in S /\ (\A i \in S : i <= m) /\ LastRecord(content, e) = content[m][2]
    BY <1>2, LastSlot DEF LastRecord
  <2> HIDE DEF m
  <2>2. CASE m = new
    BY <2>1, <2>2
  <2>3. CASE m # new
    <3>1. e \in DOMAIN index /\ m <= index[e]
      BY <2>1, <2>3 DEF Mirrors
    <3>2. index[e] \in DOMAIN content /\ content[index[e]] = <<e, num[e]>>
      BY <3>1 DEF Mirrors
    <3>3. content[index[e]] # Zeros /\ content[index[e]][1] = e
      BY <3>2 DEF Zeros
    <3>4. index[e] \in S
      BY <3>2, <3>3 DEF Slots
    <3>5. index[e] \in Nat /\ m \in Nat
      BY <2>1, <3>4, SlotsOf
    <3>6. m = index[e]
      BY <2>1, <3>1, <3>4, <3>5
    <3> QED
      BY <2>1, <3>2, <3>6
  <2> QED
    BY <2>2, <2>3
<1> QED
  BY <1>1, <1>2

\* The scan finds the last record, or the one being written.
LEMMA ScanFinds == IInv => RebuildFindsLast
<1> SUFFICES ASSUME IInv, harm # "file", NEW e \in Entities
             PROVE  LastRecord(File, e) \in
                      {written[e]} \cup (IF ppc = "index" /\ ent = e THEN {writes} ELSE {})
  BY DEF RebuildFindsLast, File
<1> USE DEF IInv
<1>1. /\ File \in Content /\ IsIndex(nextIndex) /\ IsIndex(newIndex)
      /\ written[e] \in Nat /\ harm \in {"none", "index", "file"}
  BY Contents DEF TypeOK, Types
<1>2. CASE harm = "index"
  BY <1>2 DEF HarmOK
<1>3. CASE harm = "none" /\ cpc = "finish"
  <2>1. Mirrors(File, newIndex, written, 0)
    BY <1>3 DEF MirrorOK
  <2>2. 0 \notin Slots(File, e)
    BY <1>1, SlotsOf
  <2> QED
    BY <1>1, <2>1, <2>2, LastOfMirror
<1>4. CASE harm = "none" /\ cpc # "finish"
  <2> DEFINE new == IF ppc = "index" THEN slot ELSE 0
  <2>1. Mirrors(File, nextIndex, written, new)
    BY <1>4 DEF MirrorOK
  <2>2. \/ LastRecord(File, e) = written[e]
        \/ new \in Slots(File, e) /\ LastRecord(File, e) = File[new][2]
    <3> HIDE DEF new
    <3> QED
      BY <1>1, <2>1, LastOfMirror
  <2>3. ASSUME new \in Slots(File, e)
        PROVE  ppc = "index" /\ ent = e /\ File[new][2] = writes
    <3>1. ppc = "index" /\ new = slot
      BY <1>1, <2>3, SlotsOf
    <3>2. File[slot] = <<ent, writes>>
      BY <3>1 DEF FileOK
    <3>3. File[slot][1] = e
      BY <2>3, <3>1 DEF Slots
    <3> QED
      BY <3>1, <3>2, <3>3
  <2> QED
    BY <2>2, <2>3
<1> QED
  BY <1>1, <1>2, <1>3, <1>4

\* In every reachable state the variables have their types and records are
\* written within the file: offset, capacity and length of the file agree between
\* write_entity, compact and the start.
THEOREM TypeCorrect == Spec => []TypeOK
<1>1. IInv => TypeOK
  BY DEF IInv
<1> QED
  BY <1>1, InitInv, StepInv, PTL DEF Spec

\* While no rename has failed, the index leads to the last record of each entity
\* that write_entity has indexed, whatever compact has done to the file meanwhile.
THEOREM IndexLeadsToLast == Spec => []IndexMatchesFile
<1>1. IInv => IndexMatchesFile
  BY DEF IInv, MirrorOK, Mirrors, File, IndexMatchesFile
<1> QED
  BY <1>1, InitInv, StepInv, PTL DEF Spec

\* A process that dies at any moment finds every record that was indexed when it
\* starts again: Storage::new scans the file for the last of each entity.
THEOREM RestartFindsLast == Spec => []RebuildFindsLast
BY ScanFinds, InitInv, StepInv, PTL DEF Spec

\* No change of the index is forgotten by swap_disk_index.
THEOREM ChangesArePublished == Spec => []DirtyOrPublished
<1>1. IInv => DirtyOrPublished
  BY DEF IInv
<1> QED
  BY <1>1, InitInv, StepInv, PTL DEF Spec

\* Until a compaction has replaced the file, read_entity returns a record of the
\* entity it was asked for.
THEOREM ReadsAreOwn == Spec => []ReadsOwnRecord
<1>1. IInv => ReadsOwnRecord
  BY DEF IInv, ReadOK, ReadsOwnRecord
<1> QED
  BY <1>1, InitInv, StepInv, PTL DEF Spec
=============================================================================
