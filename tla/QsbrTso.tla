------------------------------ MODULE QsbrTso -------------------------------
(***************************************************************************)
(* Qsbr on the memory the code asks for.  enter() and leave() store        *)
(* local_epoch with Release and no fence follows (core/qsbr.rs), so the    *)
(* store may wait in the processor's store buffer while the pointer loads  *)
(* that come after it in the program are already performed.  The writer's  *)
(* operations are read-modify-writes (swap, fetch_add) and take effect at  *)
(* once.  Each worker has a FIFO buffer of at most MaxBuffered stores.     *)
(***************************************************************************)
EXTENDS Qsbr, Sequences

CONSTANT MaxBuffered

VARIABLE buffer   \* [Workers -> sequences of pending local_epoch values]

tsoVars == <<qsbrVars, buffer>>

TsoInit ==
    /\ QsbrInit
    /\ buffer = [w \in Workers |-> <<>>]

Issue(w, value) ==
    /\ Len(buffer[w]) < MaxBuffered
    /\ buffer' = [buffer EXCEPT ![w] = Append(@, value)]

\* enter(), second half: the store is issued, not yet visible.
TsoEnterStore(s) ==
    /\ spc[s] = "entering"
    /\ spc' = [spc EXCEPT ![s] = "open"]
    /\ Issue(WorkerOf[s], stamp[s])
    /\ trusted' = [trusted EXCEPT ![s] = ~offline[WorkerOf[s]]]
    /\ UNCHANGED <<globalEpoch, localEpoch, offline, registered, stamp, held,
                   heapVars, scanVars>>

\* leave(): the store of 0 queues behind it.
TsoLeave(s) ==
    /\ spc[s] = "open"
    /\ s \notin Pinless
    /\ spc' = [spc EXCEPT ![s] = "closed"]
    /\ held' = [held EXCEPT ![s] = {}]
    /\ Issue(WorkerOf[s], 0)
    /\ UNCHANGED <<globalEpoch, localEpoch, offline, registered, stamp, trusted,
                   heapVars, scanVars>>

\* The oldest pending store reaches memory.
Drain(w) ==
    /\ buffer[w] # <<>>
    /\ localEpoch' = [localEpoch EXCEPT ![w] = Head(buffer[w])]
    /\ buffer' = [buffer EXCEPT ![w] = Tail(@)]
    /\ UNCHANGED <<globalEpoch, offline, registered, spc, stamp, held, trusted,
                   heapVars, scanVars>>

Unbuffered ==
    \/ \E w \in Workers : Register(w)
    \/ \E s \in Sessions : EnterLoad(s) \/ \E c \in Cells : LoadRef(s, c)
    \/ \E m \in Managers : ManagerNext(m)

TsoNext ==
    \/ \E s \in Sessions : TsoEnterStore(s) \/ TsoLeave(s)
    \/ \E w \in Workers : Drain(w)
    \/ Unbuffered /\ UNCHANGED buffer

TsoSpec == TsoInit /\ [][TsoNext]_tsoVars

\* The promise of enter() and leave() (qsbr.rs): what a pinned reader observes
\* is not reclaimed beneath it, whenever its stamp becomes visible.
PinnedNotReclaimed == HeldNotFreed
=============================================================================
