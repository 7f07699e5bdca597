--------------------------------- MODULE Codec ---------------------------------
(***************************************************************************)
(* The bytes of cdDB: commands and entities (core/commands.rs,             *)
(* io/storage.rs), and the two files made of their records, each behind a  *)
(* length.  The log is cut by a crash and replayed (engine/partition.rs);  *)
(* entities.bin is grown by zeros ahead of its end, and its index rebuilt  *)
(* at start by a scan over records and zeros alike.                        *)
(*                                                                         *)
(* A u32 has LenWidth digits, a u64 has IdWidth digits, all in base Base.  *)
(***************************************************************************)
EXTENDS Integers, Sequences, FiniteSets, Functions

CONSTANTS Base, LenWidth, IdWidth,
          NotUtf8,     \* bytes that occur in no string
          Commands,    \* the commands that are logged
          Entities,    \* the entities that are written: [id, attrs]
          Gaps,        \* bytes reserved beyond those committed
          Chunk,       \* bytes by which entities.bin grows at least
          MaxRecords   \* bound: records of a file

VARIABLES log,     \* the log file
          logged,  \* history: the commands whose records are whole
          torn,    \* history: a part of a record ends the log, or lies within it
          file,    \* entities.bin, with the zeros ahead
          offset,  \* current_offset
          mapped,  \* mmap_writer is not None
          stored,  \* history: the last entity written for each id, in order
          aligned, \* history: no gap was left that the scan steps over unevenly
          writes   \* records written, as many as MaxRecords

logVars == <<log, logged, torn>>
fileVars == <<file, offset, mapped, stored, aligned, writes>>
filesVars == <<logVars, fileVars>>

Bytes == 0 .. Base - 1

FilesTypeOK ==
    /\ log \in Seq(Bytes)
    /\ logged \in Seq(Commands)
    /\ torn \in {"no", "end", "within"}
    /\ file \in Seq(Bytes)
    /\ offset \in 0 .. Len(file)
    /\ mapped \in BOOLEAN
    /\ stored \subseteq Entities
    /\ aligned \in BOOLEAN
    /\ writes \in 0 .. MaxRecords
-----------------------------------------------------------------------------
(* Encoding *)

\* What n is without its i lowest digits.
Shifted(n, i) ==
    LET left[k \in 0 .. i] == IF k = 0 THEN n ELSE left[k - 1] \div Base
    IN  left[i]

\* to_le_bytes: the lowest digit first; and from_le_bytes.
Digits(n, width) == [i \in 1 .. width |-> Shifted(n, i - 1) % Base]
Number(digits) ==
    LET highest[i \in 0 .. Len(digits)] ==
            IF i = 0 THEN 0 ELSE highest[i - 1] * Base + digits[Len(digits) + 1 - i]
    IN  highest[Len(digits)]

\* No digit of n is lost.
Fits(n, width) == n \in Nat /\ Shifted(n, width) = 0

U32(n) == Digits(n, LenWidth)
U64(n) == Digits(n, IdWidth)

Prefixed(bytes) == U32(Len(bytes)) \o bytes

\* The attributes of an entity are a function on pairs of a type and a name.
\* One bucket is the attributes of one type, in the order of the map.
OfType(attrs, type) == {a \in DOMAIN attrs : a[1] = type}
Names(attrs, type) ==
    CHOOSE names \in [1 .. Cardinality(OfType(attrs, type)) -> OfType(attrs, type)] :
        IsInjective(names)

EncodeValue(type, v) == IF type = "Int" THEN U32(v) ELSE Prefixed(v)

EncodeAttr(attrs, a) == Prefixed(a[2]) \o EncodeValue(a[1], attrs[a])

EncodeNames(attrs, names) ==
    LET upTo[i \in 0 .. Len(names)] ==
            IF i = 0 THEN U32(Len(names)) ELSE upTo[i - 1] \o EncodeAttr(attrs, names[i])
    IN  upTo[Len(names)]

EncodeTo(attrs, type) == EncodeNames(attrs, Names(attrs, type))

EncodeEntity(e) ==
    U64(e.id) \o EncodeTo(e.attrs, "Str") \o EncodeTo(e.attrs, "Int")
              \o EncodeTo(e.attrs, "Blob")

EncodeItems(items) ==
    LET upTo[i \in 0 .. Len(items)] ==
            IF i = 0 THEN U32(Len(items)) ELSE upTo[i - 1] \o EncodeEntity(items[i])
    IN  upTo[Len(items)]

Encode(c) ==
    CASE c.kind = "Insert" -> <<0>> \o EncodeEntity(c.item)
      [] c.kind = "BatchInsert" -> <<1>> \o EncodeItems(c.items)
      [] c.kind = "Delete" -> <<2>> \o U64(c.id)
      [] c.kind = "InsertFast" ->
            <<3>> \o U64(c.id) \o U32(c.epoch) \o U32(c.record_type) \o Prefixed(c.payload)
-----------------------------------------------------------------------------
(* Decoding: a value and where it ends, or "none", or a panic *)

Some(v, pos) == [res |-> "some", val |-> v, pos |-> pos]
Fail(how) == [res |-> how, val |-> <<>>, pos |-> 0]

\* What the ? operator does, and sequencing.
Then(d, Rest(_, _)) == IF d.res = "some" THEN Rest(d.val, d.pos) ELSE d

\* buf.get(pos..pos + n): out of range is None, which the decoders of values
\* unwrap.
Take(buf, pos, n, how) ==
    IF pos + n <= Len(buf) THEN Some(SubSeq(buf, pos + 1, pos + n), pos + n) ELSE Fail(how)

TakeNumber(buf, pos, width, how) ==
    Then(Take(buf, pos, width, how), LAMBDA digits, p : Some(Number(digits), p))

TakePrefixed(buf, pos, how) ==
    Then(TakeNumber(buf, pos, LenWidth, how), LAMBDA n, p : Take(buf, p, n, how))

TakeText(buf, pos, how) ==
    Then(TakePrefixed(buf, pos, how),
         LAMBDA s, p : IF \E i \in DOMAIN s : s[i] \in NotUtf8 THEN Fail(how) ELSE Some(s, p))

DecodeValue(type, buf, pos) ==
    IF type = "Int" THEN TakeNumber(buf, pos, LenWidth, "panic")
    ELSE IF type = "Str" THEN TakeText(buf, pos, "panic")
    ELSE TakePrefixed(buf, pos, "panic")

With(attrs, a, v) ==
    [b \in DOMAIN attrs \cup {a} |-> IF b = a THEN v ELSE attrs[b]]

NoAttrs == [a \in {} |-> 0]

\* Attributes::decode_from, onto what the buckets before had.
NextAttr(type, buf, d) ==
    Then(d, LAMBDA attrs, p :
    Then(TakeText(buf, p, "none"), LAMBDA name, q :
    Then(DecodeValue(type, buf, q), LAMBDA v, r :
         Some(With(attrs, <<type, name>>, v), r))))

DecodeNames(type, buf, first, count) ==
    LET after[i \in 0 .. count] ==
            IF i = 0 THEN first ELSE NextAttr(type, buf, after[i - 1])
    IN  after[count]

DecodeFrom(type, buf, pos, attrs) ==
    Then(TakeNumber(buf, pos, LenWidth, "none"), LAMBDA count, p :
         DecodeNames(type, buf, Some(attrs, p), count))

DecodeEntity(buf, pos) ==
    Then(TakeNumber(buf, pos, IdWidth, "none"), LAMBDA id, p :
    Then(DecodeFrom("Str", buf, p, NoAttrs), LAMBDA strs, q :
    Then(DecodeFrom("Int", buf, q, strs), LAMBDA ints, r :
    Then(DecodeFrom("Blob", buf, r, ints), LAMBDA attrs, s :
         Some([id |-> id, attrs |-> attrs], s)))))

DecodeInsert(buf) ==
    Then(DecodeEntity(buf, 1), LAMBDA e, p : Some([kind |-> "Insert", item |-> e], p))

NextItem(buf, d) ==
    Then(d, LAMBDA items, p :
    Then(DecodeEntity(buf, p), LAMBDA e, q : Some(Append(items, e), q)))

DecodeItems(buf, first, count) ==
    LET after[i \in 0 .. count] == IF i = 0 THEN first ELSE NextItem(buf, after[i - 1])
    IN  after[count]

DecodeBatch(buf) ==
    Then(TakeNumber(buf, 1, LenWidth, "none"), LAMBDA count, p :
    Then(DecodeItems(buf, Some(<<>>, p), count), LAMBDA items, q :
         Some([kind |-> "BatchInsert", items |-> items], q)))

DecodeDelete(buf) ==
    Then(TakeNumber(buf, 1, IdWidth, "none"), LAMBDA id, p :
         Some([kind |-> "Delete", id |-> id], p))

DecodeFast(buf) ==
    Then(TakeNumber(buf, 1, IdWidth, "none"), LAMBDA id, p :
    Then(TakeNumber(buf, p, LenWidth, "none"), LAMBDA epoch, q :
    Then(TakeNumber(buf, q, LenWidth, "none"), LAMBDA type, r :
    Then(TakePrefixed(buf, r, "none"), LAMBDA payload, s :
         Some([kind |-> "InsertFast", id |-> id, epoch |-> epoch,
               record_type |-> type, payload |-> payload], s)))))

Decode(buf) ==
    IF buf = <<>> THEN Fail("none")
    ELSE CASE buf[1] = 0 -> DecodeInsert(buf)
           [] buf[1] = 1 -> DecodeBatch(buf)
           [] buf[1] = 2 -> DecodeDelete(buf)
           [] buf[1] = 3 -> DecodeFast(buf)
           [] OTHER -> Fail("none")
-----------------------------------------------------------------------------
(* What can be encoded: no length or number is cut off. *)

Types == {"Str", "Int", "Blob"}

IsBlob(b) == b \in Seq(Bytes) /\ Fits(Len(b), LenWidth)
IsString(s) == s \in Seq(Bytes \ NotUtf8) /\ Fits(Len(s), LenWidth)
IsValue(type, v) ==
    IF type = "Int" THEN Fits(v, LenWidth) ELSE IF type = "Str" THEN IsString(v) ELSE IsBlob(v)

IsEntity(e) ==
    /\ e = [id |-> e.id, attrs |-> e.attrs]
    /\ Fits(e.id, IdWidth)
    /\ e.attrs = [a \in DOMAIN e.attrs |-> e.attrs[a]]
    /\ IsFiniteSet(DOMAIN e.attrs)
    /\ \A a \in DOMAIN e.attrs :
          /\ a = <<a[1], a[2]>> /\ a[1] \in Types
          /\ IsString(a[2]) /\ IsValue(a[1], e.attrs[a])
    /\ \A type \in Types : Fits(Cardinality(OfType(e.attrs, type)), LenWidth)

IsCommand(c) ==
    \/ /\ c.kind = "Insert" /\ c = [kind |-> "Insert", item |-> c.item]
       /\ IsEntity(c.item)
    \/ /\ c.kind = "BatchInsert" /\ c = [kind |-> "BatchInsert", items |-> c.items]
       /\ c.items \in Seq(Range(c.items)) /\ Fits(Len(c.items), LenWidth)
       /\ \A i \in DOMAIN c.items : IsEntity(c.items[i])
    \/ /\ c.kind = "Delete" /\ c = [kind |-> "Delete", id |-> c.id]
       /\ Fits(c.id, IdWidth)
    \/ /\ c.kind = "InsertFast"
       /\ c = [kind |-> "InsertFast", id |-> c.id, epoch |-> c.epoch,
               record_type |-> c.record_type, payload |-> c.payload]
       /\ Fits(c.id, IdWidth) /\ Fits(c.epoch, LenWidth) /\ Fits(c.record_type, LenWidth)
       /\ IsBlob(c.payload)

\* What the constants must be.
CodecConstants ==
    /\ Base \in Nat /\ Base > 3
    /\ LenWidth \in Nat \ {0} /\ IdWidth \in Nat \ {0}
    /\ NotUtf8 \subseteq Bytes
    /\ Gaps \subseteq Nat
    /\ Chunk \in Nat
    /\ MaxRecords \in Nat
    /\ \A c \in Commands : IsCommand(c) /\ Fits(Len(Encode(c)), LenWidth)
    /\ \A e \in Entities : IsEntity(e) /\ Fits(Len(EncodeEntity(e)), LenWidth)
-----------------------------------------------------------------------------
(* Files *)

\* A record is taken if all of it is there.  Mutant: if some of it is.
Begun(bytes, start, n) == start <= Len(bytes)
Whole(bytes, start, n) == start + n <= Len(bytes)

\* What both scans of a file do with the record at a position, if it is whole:
\* they end behind the length of one that is not.
ScanStep(bytes, s) ==
    LET start == s.pos + LenWidth
        n == Number(SubSeq(bytes, s.pos + 1, start))
        stop == IF start + n <= Len(bytes) THEN start + n ELSE Len(bytes)
    IN  IF s.done THEN s
        ELSE IF start > Len(bytes) THEN [s EXCEPT !.done = TRUE]
        ELSE IF Whole(bytes, start, n)
        THEN [pos |-> stop, done |-> FALSE,
              records |-> Append(s.records,
                                 [at |-> s.pos, body |-> SubSeq(bytes, start + 1, stop)])]
        ELSE [s EXCEPT !.pos = start, !.done = TRUE]

\* The records of a file, and where the scan ends: no step but the last leaves
\* the position as it is.
Scan(bytes) ==
    LET after[i \in 0 .. Len(bytes) + 1] ==
            IF i = 0 THEN [pos |-> 0, records |-> <<>>, done |-> FALSE]
            ELSE ScanStep(bytes, after[i - 1])
    IN  after[Len(bytes) + 1]

\* replay_wal applies the records that decode, in order.
Applied(results, d) == IF d.res = "none" THEN results ELSE Append(results, d)

Replayed ==
    LET records == Scan(log).records
        upTo[i \in 0 .. Len(records)] ==
            IF i = 0 THEN <<>> ELSE Applied(upTo[i - 1], Decode(records[i].body))
    IN  upTo[Len(records)]

\* peek_entity_id.
Peek(body) == Take(body, 0, IdWidth, "none")

\* Where rebuild_disk_index says a record is.  Mutant: behind its length.
BodyStart(record) == record.at + LenWidth
RecordStart(record) == record.at

\* rebuild_disk_index: where the last record of each entity is.
Note(places, record) ==
    IF Peek(record.body).res = "some"
    THEN With(places, Number(Peek(record.body).val),
              [at |-> RecordStart(record), len |-> Len(record.body)])
    ELSE places

Noted(records) ==
    LET upTo[i \in 0 .. Len(records)] ==
            IF i = 0 THEN NoAttrs ELSE Note(upTo[i - 1], records[i])
    IN  upTo[Len(records)]

Rebuilt == Noted(Scan(file).records)

\* read_entity, at an entry of the index.
ReadAt(entry) ==
    DecodeEntity(SubSeq(file, entry.at + LenWidth + 1, entry.at + LenWidth + entry.len), 0)
-----------------------------------------------------------------------------
FilesInit ==
    /\ log = <<>>
    /\ logged = <<>>
    /\ torn = "no"
    /\ file = <<>>
    /\ offset = 0
    /\ mapped = FALSE
    /\ stored = {}
    /\ aligned = TRUE
    /\ writes = 0

\* A record is appended to the log, behind whatever is there.
AppendRecord(c) ==
    /\ Len(logged) < MaxRecords
    /\ log' = log \o Prefixed(Encode(c))
    /\ logged' = Append(logged, c)
    /\ torn' = IF torn = "no" THEN "no" ELSE "within"
    /\ UNCHANGED fileVars

\* A crash leaves a part of the last record, or nothing of it.
Tear(n) ==
    LET record == Prefixed(Encode(logged[Len(logged)]))
    IN  /\ torn = "no"
        /\ logged # <<>>
        /\ n < Len(record)
        /\ log' = SubSeq(log, 1, Len(log) - Len(record) + n)
        /\ logged' = SubSeq(logged, 1, Len(logged) - 1)
        /\ torn' = IF n = 0 THEN "no" ELSE "end"
        /\ UNCHANGED fileVars

\* entities.bin with room for n more bytes at the offset.
Grown(n) ==
    LET more == IF n > Chunk THEN n ELSE Chunk
    IN  IF offset + n > Len(file) \/ ~mapped THEN file \o [i \in 1 .. more |-> 0] ELSE file

\* write_entity; or reserve_zero_copy_buffer, the caller's writing of the
\* record, and commit_zero_copy, which leave a gap of zeros behind it.
WriteRecord(e, gap) ==
    LET record == Prefixed(EncodeEntity(e))
        room == Grown(Len(record) + gap)
    IN  /\ writes < MaxRecords
        /\ file' = [i \in DOMAIN room |->
                       IF i \in offset + 1 .. offset + Len(record)
                       THEN record[i - offset] ELSE room[i]]
        /\ offset' = offset + Len(record) + gap
        /\ mapped' = TRUE
        /\ stored' = {d \in stored : d.id # e.id} \cup {e}
        /\ aligned' = (aligned /\ gap % LenWidth = 0)
        /\ writes' = writes + 1
        /\ UNCHANGED logVars

\* A restart: Storage::new scans the file.
Reopen ==
    /\ offset' = Scan(file).pos
    /\ mapped' = FALSE
    /\ UNCHANGED <<logVars, file, stored, aligned, writes>>

FilesNext ==
    \/ \E c \in Commands : AppendRecord(c)
    \/ \E n \in 0 .. Len(log) : Tear(n)
    \/ \E e \in Entities, gap \in Gaps : WriteRecord(e, gap)
    \/ Reopen

FilesSpec == FilesInit /\ [][FilesNext]_filesVars
-----------------------------------------------------------------------------
\* A replay of the log applies the commands whose records are whole, in their
\* order and as they were encoded, wherever a crash has cut the last record,
\* and does not panic (partition.rs, replay_wal: "Truncated or corrupt trailing
\* records are silently skipped").  What is appended behind a cut is Wal's.
ReplayIsPrefix ==
    torn # "within" =>
        Replayed = [i \in DOMAIN logged |-> Some(logged[i], Len(Encode(logged[i])))]

\* The scan at start finds, across the zeros that growth and gaps leave, the
\* last record of every entity, decodes it to what was written, and continues
\* behind all of them, however often the file is reopened and grown again; if
\* a gap is no multiple of the length's width, it may not.
RebuildFinds ==
    aligned =>
        /\ DOMAIN Rebuilt = {e.id : e \in stored}
        /\ \A e \in stored :
              /\ ReadAt(Rebuilt[e.id]).res = "some"
              /\ ReadAt(Rebuilt[e.id]).val = e
              /\ Rebuilt[e.id].at + LenWidth + Rebuilt[e.id].len <= Scan(file).pos
=============================================================================
