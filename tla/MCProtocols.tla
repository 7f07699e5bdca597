----------------------------- MODULE MCProtocols -----------------------------
(* Instances of Qsbr and of Wal for TLC, each explored by itself: how long  *)
(* what a reader loads stays allocated, and what a restart finds.           *)
EXTENDS MCQsbr, MCWal

VARIABLE subject

allVars == <<subject, qsbrVars, vars>>

ProtocolsInit ==
    /\ subject \in {"memory", "log"}
    /\ QsbrInit /\ Init
    \* Which object is where does not matter.
    /\ cell = CHOOSE f \in [Cells -> Objs] : \A x, y \in Cells : f[x] = f[y] => x = y
    /\ subject = "memory" => mode = CHOOSE m \in Modes : TRUE

IsMemory == subject = "memory" /\ UNCHANGED <<subject, vars>>
IsLog == subject = "log" /\ UNCHANGED <<subject, qsbrVars>>

\* The next object the allocator returns.
Fresh == IF allocated = Objs THEN {} ELSE {CHOOSE o \in Objs : o \notin allocated}

MemRegister(w) == IsMemory /\ Register(w)
MemForceOffline(w) == IsMemory /\ ForceOffline(w)
MemResumeOnline(w) == IsMemory /\ ResumeOnline(w)
MemEnterLoad(s) == IsMemory /\ EnterLoad(s)
MemEnterStore(s) == IsMemory /\ EnterStore(s)
MemOpenUnpinned(s) == IsMemory /\ OpenUnpinned(s)
MemLoadRef(s, c) == IsMemory /\ LoadRef(s, c)
MemLeave(s) == IsMemory /\ Leave(s)
MemSwap(m, c, o) == IsMemory /\ Swap(m, c, o)
MemDiscard(m, c, o) == IsMemory /\ Discard(m, c, o)
MemDeferFree(m, o) == IsMemory /\ DeferFree(m, o)
MemBumpEpoch(m) == IsMemory /\ BumpEpoch(m)
MemLoadGlobal(m) == IsMemory /\ LoadGlobal(m)
MemLoadHead(m) == IsMemory /\ LoadHead(m)
MemVisit(m, w) == IsMemory /\ Visit(m, w)
MemEndScan(m) == IsMemory /\ EndScan(m)
MemRetain(m) == IsMemory /\ Retain(m)

\* A bloom filter is never freed: that a session loads one is left out.
MemoryNext ==
    \/ \E w \in Workers : MemRegister(w) \/ MemForceOffline(w) \/ MemResumeOnline(w)
    \/ \E s \in Sessions :
          \/ MemEnterLoad(s) \/ MemEnterStore(s) \/ MemOpenUnpinned(s) \/ MemLeave(s)
          \/ \E c \in Cells \ Discarding : MemLoadRef(s, c)
    \/ \E m \in Managers :
          \/ \E c \in Cells, o \in Fresh : MemSwap(m, c, o) \/ MemDiscard(m, c, o)
          \/ \E o \in Objs : MemDeferFree(m, o)
          \/ MemBumpEpoch(m) \/ MemLoadGlobal(m) \/ MemLoadHead(m)
          \/ \E w \in Workers : MemVisit(m, w)
          \/ MemEndScan(m) \/ MemRetain(m)

LogWrite == IsLog /\ Write
LogWriteFails == IsLog /\ WriteFails
LogFlush == IsLog /\ Flush
LogFlushFails == IsLog /\ FlushFails
LogSync == IsLog /\ Sync
LogSyncFails == IsLog /\ SyncFails
LogReceive == IsLog /\ Receive
LogAppendAsync == IsLog /\ AppendAsync
LogAppendSync == IsLog /\ AppendSync
LogApply == IsLog /\ Apply
LogTake == IsLog /\ Take
LogTakeMore == IsLog /\ TakeMore
LogNoSleep == IsLog /\ NoSleep
LogFlusherWrite == IsLog /\ FlusherWrite
LogCheckpoint == IsLog /\ Checkpoint
LogProcessCrash == IsLog /\ ProcessCrash
LogPowerLoss == IsLog /\ PowerLoss

LogWriterNext ==
    \/ LogWrite \/ LogWriteFails \/ LogFlush \/ LogFlushFails \/ LogSync \/ LogSyncFails
LogThreadNext == LogAppendAsync \/ LogAppendSync \/ LogApply
LogFlusherNext == LogTake \/ LogTakeMore \/ LogNoSleep \/ LogFlusherWrite

LogNext ==
    \/ LogWriterNext \/ LogReceive \/ LogThreadNext \/ LogFlusherNext \/ LogCheckpoint
    \/ LogProcessCrash \/ LogPowerLoss

\* The fairness of Wal!FairSpec.
ProtocolsSpec ==
    /\ ProtocolsInit /\ [][MemoryNext \/ LogNext]_allVars
    /\ WF_allVars(LogWriterNext)
    /\ WF_allVars(LogThreadNext)
    /\ WF_allVars(LogFlusherNext)
=============================================================================
