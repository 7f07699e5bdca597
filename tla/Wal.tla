--------------------------------- MODULE Wal ---------------------------------
(***************************************************************************)
(* The write-ahead log of a partition (io/wal.rs) with those who use it:   *)
(* the partition thread, which logs a batch and then applies it            *)
(* (engine/partition.rs, run), the flusher thread of the asynchronous      *)
(* modes, callers of checkpoint (flush_wal of core/query.rs), and a crash  *)
(* followed by a restart with replay_wal.                                  *)
(*                                                                         *)
(* A command is its number, in the order of acceptance.  The file is a     *)
(* sequence of records, some of which are not whole: a crash, or a write   *)
(* that failed, cut them short.  What replay would make of such a record   *)
(* and of the bytes behind it is taken for lost.                           *)
(*                                                                         *)
(* A batch is one buffer for the BufWriter, whose write_all copies it when *)
(* it fits, makes room for it by writing out what it holds when it does    *)
(* not, and hands it to the file directly when it is as large as the       *)
(* BufWriter itself.  How large it is, is left open.                       *)
(***************************************************************************)
EXTENDS Naturals, Sequences, Functions, FiniteSetsExt

CONSTANTS Modes,           \* of "sync" and "async", those a log may have
          MaxCommands,     \* bound: commands given to the partition
          MaxBatch,        \* bound: commands in a batch
          MaxCheckpoints,  \* bound: calls of checkpoint
          MaxErrors,       \* bound: writes and syncs that fail
          MaxCrashes       \* bound: crashes

ASSUME WalAssumption ==
    /\ Modes \subseteq {"sync", "async"}
    /\ {MaxCommands, MaxBatch, MaxCheckpoints, MaxErrors, MaxCrashes} \subseteq Nat

VARIABLES
    mode,        \* WalMode: "sync" for Sync and Strict, "async" for the others
    pc, batch,   \* the partition thread and the batch in its hands
    memory,      \* the commands applied, in order
    asyncBuffer, \* async_buffer, one buffer behind the other
    fpc, local,  \* the flusher and its local_buf
    ends,        \* the commands with which a buffer of these two ends
    holder,      \* who has locked the writer
    step,        \* what the holder does next
    buf,         \* commands in the BufWriter
    file,        \* the records of the log file
    synced,      \* how many of them have been synced
    next, checkpoints, errors, crashes, \* bounds; next numbers the commands
    replayed,    \* history: how many commands the last restart recovered,
    opened,      \* how many records the file had then,
    lost         \* and the commands a failed write_all has dropped since

runVars == <<mode, replayed, opened>>
threadVars == <<pc, batch, memory>>
flusherVars == <<asyncBuffer, fpc, local, ends>>
lockVars == <<holder, step>>
writerVars == <<buf, file, synced, lost>>
boundVars == <<next, checkpoints, errors, crashes>>
vars == <<runVars, threadVars, flusherVars, lockVars, writerVars, boundVars>>

Command == Nat \ {0}
LogRecord == [cmd : Command, whole : BOOLEAN]

TypeOK ==
    /\ mode \in Modes
    /\ pc \in {"idle", "log", "logged"}
    /\ batch \in Seq(Command)
    /\ memory \in Seq(Command)
    /\ asyncBuffer \in Seq(Command)
    /\ fpc \in {"wait", "sleep", "write"}
    /\ local \in Seq(Command)
    /\ ends \subseteq Command
    /\ holder \in {"none", "partition", "flusher", "checkpoint"}
    /\ step \in {"none", "write", "flush", "sync"}
    /\ buf \in Seq(Command)
    /\ file \in Seq(LogRecord)
    /\ synced \in 0 .. Len(file)
    /\ next \in Nat /\ checkpoints \in Nat /\ errors \in Nat /\ crashes \in Nat
    /\ replayed \in 0 .. Len(memory)
    /\ opened \in 0 .. Len(file)
    /\ lost \subseteq Command

Init ==
    /\ mode \in Modes
    /\ pc = "idle" /\ batch = <<>> /\ memory = <<>>
    /\ asyncBuffer = <<>> /\ fpc = "wait" /\ local = <<>> /\ ends = {}
    /\ holder = "none" /\ step = "none"
    /\ buf = <<>> /\ file = <<>> /\ synced = 0
    /\ next = 0 /\ checkpoints = 0 /\ errors = 0 /\ crashes = 0
    /\ replayed = 0 /\ opened = 0 /\ lost = {}

Whole(cmds) == [i \in DOMAIN cmds |-> [cmd |-> cmds[i], whole |-> TRUE]]

Torn(records) == {i \in DOMAIN records : ~records[i].whole}

\* What replay_wal applies: the records before the first that is not whole.
Readable(records) ==
    LET n == IF Torn(records) = {} THEN Len(records) ELSE Min(Torn(records)) - 1
    IN  [i \in 1 .. n |-> records[i].cmd]

\* What a restart after a loss of power is sure to find.
Durable == Readable(SubSeq(file, 1, synced))
-----------------------------------------------------------------------------
(* The writer, a BufWriter behind a mutex *)

Lock(t, first) ==
    /\ holder = "none"
    /\ holder' = t
    /\ step' = first

Release == holder' = "none" /\ step' = "none"

\* Where the first buffer of local_buf ends.
BufferEnd ==
    LET E == {i \in DOMAIN local : local[i] \in ends}
    IN  IF E = {} THEN Len(local) ELSE Min(E)

\* The buffer handed to write_all.
InHand == IF holder = "partition" THEN batch ELSE SubSeq(local, 1, BufferEnd)

\* What follows write_all.  Mutant: the buffer is not flushed.
NoFlush == "sync"
AfterWrite == "flush"

\* append_batch returns the error of write_all before it flushes; the flusher
\* goes on to its next buffer.
WriteReturns(ok) ==
    \/ /\ holder = "partition"
       /\ pc' = "logged"
       /\ IF ok THEN UNCHANGED holder /\ step' = AfterWrite ELSE Release
       /\ UNCHANGED <<fpc, local, ends>>
    \/ /\ holder = "flusher"
       /\ local' = SubSeq(local, BufferEnd + 1, Len(local))
       /\ ends' = ends \ {local[BufferEnd]}
       /\ fpc' = IF local' = <<>> THEN "wait" ELSE "write"
       /\ step' = IF local' = <<>> THEN AfterWrite ELSE "write"
       /\ UNCHANGED <<pc, holder>>

\* The buffer is copied, or copied when what was there is written out, or
\* written out behind it.
Write ==
    /\ step = "write"
    /\ \/ buf' = buf \o InHand /\ UNCHANGED file
       \/ buf' = InHand /\ file' = file \o Whole(buf)
       \/ buf' = <<>> /\ file' = file \o Whole(buf \o InHand)
    /\ WriteReturns(TRUE)
    /\ UNCHANGED <<runVars, batch, memory, asyncBuffer, synced, lost, boundVars>>

\* What was there cannot be written out, and the buffer is not copied.
MakeRoomFails ==
    /\ \E n \in 0 .. Len(buf) - 1 :
          /\ file' = file \o Whole(SubSeq(buf, 1, n))
          /\ buf' = SubSeq(buf, n + 1, Len(buf))
    /\ lost' = lost \cup Range(InHand)

\* The file takes m of the commands, n of them whole, and the rest is dropped.
Cut(cmds, m, n) == [i \in 1 .. m |-> [cmd |-> cmds[i], whole |-> i <= n]]

DirectFails ==
    /\ \E n \in 0 .. Len(InHand) - 1 :
          /\ \E m \in {n, n + 1} : file' = file \o Whole(buf) \o Cut(InHand, m, n)
          /\ lost' = lost \cup {InHand[i] : i \in n + 1 .. Len(InHand)}
    /\ buf' = <<>>

WriteFails ==
    /\ step = "write"
    /\ errors < MaxErrors
    /\ errors' = errors + 1
    /\ MakeRoomFails \/ DirectFails
    /\ WriteReturns(FALSE)
    /\ UNCHANGED <<runVars, batch, memory, asyncBuffer, synced, next, checkpoints,
                   crashes>>

\* What follows a flush.  Mutant: nothing, the lock is given back.
NoSync == Release
AfterFlush == UNCHANGED holder /\ step' = "sync"

Flush ==
    /\ step = "flush"
    /\ file' = file \o Whole(buf)
    /\ buf' = <<>>
    /\ AfterFlush
    /\ UNCHANGED <<runVars, threadVars, flusherVars, synced, lost, boundVars>>

\* The file takes only a first part; the rest stays in the BufWriter.  Only the
\* flusher goes on after an error.
FlushFails ==
    /\ step = "flush"
    /\ errors < MaxErrors
    /\ errors' = errors + 1
    /\ \E n \in 0 .. Len(buf) - 1 :
          /\ file' = file \o Whole(SubSeq(buf, 1, n))
          /\ buf' = SubSeq(buf, n + 1, Len(buf))
    /\ IF holder = "flusher" THEN UNCHANGED holder /\ step' = "sync" ELSE Release
    /\ UNCHANGED <<runVars, threadVars, flusherVars, synced, lost, next, checkpoints,
                   crashes>>

\* sync_data reaches what is in the file.  Mutant: and in the BufWriter.
BufferToo == Len(file) + Len(buf)
SyncReaches == Len(file)

Sync ==
    /\ step = "sync"
    /\ synced' = SyncReaches
    /\ Release
    /\ UNCHANGED <<runVars, threadVars, flusherVars, buf, file, lost, boundVars>>

SyncFails ==
    /\ step = "sync"
    /\ errors < MaxErrors
    /\ errors' = errors + 1
    /\ Release
    /\ UNCHANGED <<runVars, threadVars, flusherVars, writerVars, next, checkpoints,
                   crashes>>
-----------------------------------------------------------------------------
(* The partition thread *)

\* A batch is taken from the queue.
Receive ==
    /\ pc = "idle"
    /\ \E n \in 1 .. MaxBatch :
          /\ next + n <= MaxCommands
          /\ batch' = [i \in 1 .. n |-> next + i]
          /\ next' = next + n
    /\ pc' = "log"
    /\ UNCHANGED <<runVars, memory, flusherVars, lockVars, writerVars, checkpoints,
                   errors, crashes>>

\* append_batch in an asynchronous mode.
AppendAsync ==
    /\ pc = "log"
    /\ mode = "async"
    /\ asyncBuffer' = asyncBuffer \o batch
    /\ ends' = ends \cup {batch[Len(batch)]}
    /\ pc' = "logged"
    /\ UNCHANGED <<runVars, batch, memory, fpc, local, lockVars, writerVars, boundVars>>

\* append_batch in a synchronous mode takes the lock.
AppendSync ==
    /\ pc = "log"
    /\ mode = "sync"
    /\ Lock("partition", "write")
    /\ UNCHANGED <<runVars, threadVars, flusherVars, writerVars, boundVars>>

\* append_batch has returned; run() ignores its result and applies the batch.
Apply ==
    /\ pc = "logged"
    /\ holder # "partition"
    /\ memory' = memory \o batch
    /\ batch' = <<>>
    /\ pc' = "idle"
    /\ UNCHANGED <<runVars, flusherVars, lockVars, writerVars, boundVars>>
-----------------------------------------------------------------------------
(* The flusher *)

\* async_buffer after the flusher has taken it.  Mutant: copied, not swapped.
Copied == asyncBuffer
Swapped == <<>>

Take ==
    /\ mode = "async"
    /\ fpc = "wait"
    /\ holder # "flusher"
    /\ asyncBuffer # <<>>
    /\ local' = asyncBuffer
    /\ asyncBuffer' = Swapped
    /\ fpc' = "sleep"
    /\ UNCHANGED <<runVars, threadVars, ends, lockVars, writerVars, boundVars>>

\* local_buf with what came in meanwhile.  Mutant: in front of it.
Before(taken, extra) == extra \o taken
Joined(taken, extra) == taken \o extra

\* It has slept and takes what came in meanwhile ...
TakeMore ==
    /\ fpc = "sleep"
    /\ local' = Joined(local, asyncBuffer)
    /\ asyncBuffer' = <<>>
    /\ fpc' = "write"
    /\ UNCHANGED <<runVars, threadVars, ends, lockVars, writerVars, boundVars>>

\* ... or need not sleep, having enough or having last synced long ago.
NoSleep ==
    /\ fpc = "sleep"
    /\ fpc' = "write"
    /\ UNCHANGED <<runVars, threadVars, asyncBuffer, local, ends, lockVars, writerVars,
                   boundVars>>

\* It takes the lock to write its buffers, one after the other.
FlusherWrite ==
    /\ fpc = "write"
    /\ Lock("flusher", "write")
    /\ UNCHANGED <<runVars, threadVars, flusherVars, writerVars, boundVars>>
-----------------------------------------------------------------------------
\* checkpoint(), by any caller.  Mutant: it only syncs.
OnlySync == "sync"
CheckpointStep == "flush"

Checkpoint ==
    /\ checkpoints < MaxCheckpoints
    /\ Lock("checkpoint", CheckpointStep)
    /\ checkpoints' = checkpoints + 1
    /\ UNCHANGED <<runVars, threadVars, flusherVars, writerVars, next, errors, crashes>>

\* The file a crash may leave: at least `kept` of the records written or being
\* written, and perhaps a part of one more.
Survivors(kept) ==
    LET all == file \o Whole(buf \o (IF step = "write" THEN InHand ELSE <<>>))
    IN  UNION {{SubSeq(all, 1, n)} \cup
               (IF n = Len(all) THEN {}
                ELSE {Append(SubSeq(all, 1, n), [all[n + 1] EXCEPT !.whole = FALSE])})
               : n \in kept .. Len(all)}

\* A crash, after which the log is opened for appending and replayed.
Restart ==
    /\ crashes < MaxCrashes
    /\ crashes' = crashes + 1
    /\ memory' = Readable(file')
    /\ replayed' = Len(memory')
    /\ opened' = Len(file')
    /\ lost' = {}
    /\ pc' = "idle" /\ batch' = <<>>
    /\ asyncBuffer' = <<>> /\ fpc' = "wait" /\ local' = <<>> /\ ends' = {}
    /\ holder' = "none" /\ step' = "none"
    /\ buf' = <<>>
    /\ UNCHANGED <<mode, next, checkpoints, errors>>

\* The process dies: what the system has been given stays.
ProcessCrash ==
    /\ file' \in Survivors(Len(file))
    /\ synced' = synced
    /\ Restart

\* The power fails: only what was synced is sure to stay.
PowerLoss ==
    /\ file' \in Survivors(synced)
    /\ synced' = Len(file')
    /\ Restart

WriterNext == Write \/ WriteFails \/ Flush \/ FlushFails \/ Sync \/ SyncFails
ThreadNext == AppendAsync \/ AppendSync \/ Apply
FlusherNext == Take \/ TakeMore \/ NoSleep \/ FlusherWrite

Next == \/ WriterNext \/ Receive \/ ThreadNext \/ FlusherNext \/ Checkpoint
        \/ ProcessCrash \/ PowerLoss

Spec == Init /\ [][Next]_vars

\* The threads are scheduled; who holds the writer's lock gives it back.
FairSpec ==
    Spec /\ WF_vars(WriterNext) /\ WF_vars(ThreadNext) /\ WF_vars(FlusherNext)
-----------------------------------------------------------------------------
Pending == IF pc = "idle" THEN <<>> ELSE batch
Unlogged == IF pc = "log" THEN batch ELSE <<>>

\* The log, and behind it what is on its way there.
Way == file \o Whole(buf \o local \o asyncBuffer \o Unlogged)

\* Of this, what the last restart has replayed or this process has logged.
Ours == {i \in DOMAIN Way : Way[i].whole /\ (i <= replayed \/ i > opened)}

\* Between the queue and the file no command is overtaken or repeated, whatever
\* fails on the way; and none that is applied or about to be is missing but those
\* a failed write_all has dropped.
LogIsHistory ==
    /\ \A i, j \in DOMAIN Way : i < j => Way[i].cmd < Way[j].cmd
    /\ {Way[i].cmd : i \in Ours} = Range(memory \o Pending) \ lost

\* A restart recovers a first part of the commands accepted, but for those a
\* failed write_all has dropped, and all that was synced.
Log == INSTANCE CommandLog WITH accepted <- Range(memory \o Pending),
                                safe <- Range(Durable)
Promise == Log!Spec

Strict == mode = "sync" /\ errors = 0 /\ pc = "idle" /\ Len(memory) > replayed

\* In Sync and Strict whoever sees a command applied sees one that is durable,
\* and so is all that was replayed before it, as long as no write or sync fails
\* and no crash has left part of a record in the file.
StrictDurable == Strict /\ Torn(file) = {} => Durable = memory

\* "Guarantee no data loss" (wal.rs, of DurabilityMode::Strict), also after a
\* crash that left part of a record.
StrictNoLoss == Strict => Durable = memory

\* When checkpoint returns Ok, all that was applied is durable, what failed
\* flushes left in the BufWriter included, except what async_buffer or the
\* flusher still hold and what a failed write_all has dropped.
CheckpointCovers ==
    [][(holder = "checkpoint" /\ holder' = "none" /\ errors' = errors
            /\ crashes' = crashes /\ Torn(file) = {})
        => Range(memory) \subseteq Range(Durable') \cup Range(local \o asyncBuffer)
                                  \cup lost]_vars

\* The n-th command in memory has been applied since the last restart.
Applied(n) == n > replayed /\ n <= Len(memory)

\* Without errors and crashes, what has been applied, and all that was replayed
\* before it, is durable in the end, in the asynchronous modes too.
EventuallyDurable ==
    \A n \in 1 .. MaxCommands :
        Applied(n) ~> (Len(Durable) >= n \/ ~Applied(n) \/ errors > 0 \/ Torn(file) # {})
=============================================================================
