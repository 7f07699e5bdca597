-------------------------------- MODULE Qsbr --------------------------------
(***************************************************************************)
(* Quiescent-state based reclamation (core/qsbr.rs, core/rcu.rs) as the    *)
(* partitions use it: the single writer of a partition swaps RCU pointers, *)
(* defers the old objects with the epoch of the moment, and after each     *)
(* batch runs maintenance(); query sessions pin themselves by copying      *)
(* GLOBAL_EPOCH into their worker's local_epoch.  GLOBAL_EPOCH is one      *)
(* static: every partition of the process bumps it.                        *)
(*                                                                         *)
(* Each atomic load, store and read-modify-write of enter() and            *)
(* maintenance() that another thread can observe is a step of its own, on  *)
(* a sequentially consistent memory; QsbrTso adds the reader's store       *)
(* buffer.                                                                 *)
(***************************************************************************)
EXTENDS Naturals, FiniteSets

CONSTANTS Managers,   \* the partitions, each with one QsbrManager
          Workers,    \* WorkerStates, one per Query
          Sessions,   \* critical sections: QuerySessions and unpinned calls
          Cells,      \* the AtomicPtrs swapped by writers
          Objs,       \* heap objects; a freed identity is not reused
          HomeOf,     \* [Workers -> Managers]: whose list a worker joins
          WorkerOf,   \* [Sessions -> Workers]: whose local_epoch it stamps
          OwnerOf,    \* [Cells -> Managers]: who swaps a cell
          Discarding, \* cells whose swap throws the old pointer away: the
                      \* bloom filter's
          Pinless     \* sessions that load pointers without enter()

ASSUME QsbrAssumption ==
    /\ HomeOf \in [Workers -> Managers]
    /\ WorkerOf \in [Sessions -> Workers]
    /\ OwnerOf \in [Cells -> Managers]
    /\ Discarding \subseteq Cells
    /\ Pinless \subseteq Sessions

Pinned == Sessions \ Pinless

\* What the read path must respect for its pins to count: a worker carries one
\* critical section at a time.
Disciplined == \A s, t \in Pinned : WorkerOf[s] = WorkerOf[t] => s = t

VARIABLES
    globalEpoch,  \* GLOBAL_EPOCH
    localEpoch,   \* [Workers -> Nat]: local_epoch, 0 outside critical sections
    offline,      \* [Workers -> BOOLEAN]: is_offline
    registered,   \* the workers linked into their partition's list
    spc,          \* where a session is: closed, entering or open
    stamp,        \* the epoch a session loaded and has not stored yet
    held,         \* [Sessions -> SUBSET Objs]: references obtained since enter()
    trusted,      \* a pinned session whose worker stayed online since enter()
    cell,         \* [Cells -> Objs]: the current pointer
    allocated,    \* every object created so far
    limbo,        \* swapped out by the writer, defer_free() still to be called
    garbage,      \* [Managers -> sets of (object, epoch)]: the garbage Vec
    freed,        \* objects dropped by maintenance()
    leaked,       \* history: objects whose last pointer was thrown away
    mpc,          \* where the partition thread is
    curGlobal,    \* current_global of the maintenance() under way
    minEpoch,     \* min_epoch of the maintenance() under way
    unvisited     \* the workers its walk has not visited yet

sessionVars == <<localEpoch, offline, registered, spc, stamp, held, trusted>>
heapVars == <<cell, allocated, limbo, garbage, freed, leaked>>
scanVars == <<mpc, curGlobal, minEpoch, unvisited>>
qsbrVars == <<globalEpoch, sessionVars, heapVars, scanVars>>

Entry == [obj : Objs, epoch : Nat]

QsbrTypeOK ==
    /\ globalEpoch \in Nat \ {0}
    /\ localEpoch \in [Workers -> Nat]
    /\ offline \in [Workers -> BOOLEAN]
    /\ registered \subseteq Workers
    /\ spc \in [Sessions -> {"closed", "entering", "open"}]
    /\ stamp \in [Sessions -> Nat]
    /\ held \in [Sessions -> SUBSET Objs]
    /\ trusted \in [Sessions -> BOOLEAN]
    /\ cell \in [Cells -> Objs]
    /\ allocated \subseteq Objs
    /\ limbo \in [Managers -> SUBSET Objs]
    /\ garbage \in [Managers -> SUBSET Entry]
    /\ freed \subseteq Objs
    /\ leaked \subseteq Objs
    /\ mpc \in [Managers -> {"recv", "batch", "bumped", "loaded", "scan", "retain"}]
    /\ curGlobal \in [Managers -> Nat]
    /\ minEpoch \in [Managers -> Nat]
    /\ unvisited \in [Managers -> SUBSET Workers]

\* Mutant: the clock starts at the value that means quiescent.
ZeroFirstEpoch == 0
FirstEpoch == 1

QsbrInit ==
    /\ globalEpoch = FirstEpoch
    /\ localEpoch = [w \in Workers |-> 0]
    /\ offline = [w \in Workers |-> FALSE]
    /\ registered = {}
    /\ spc = [s \in Sessions |-> "closed"]
    /\ stamp = [s \in Sessions |-> 0]
    /\ held = [s \in Sessions |-> {}]
    /\ trusted = [s \in Sessions |-> s \notin Pinless]
    /\ cell \in [Cells -> Objs]
    /\ \A c, d \in Cells : cell[c] = cell[d] => c = d
    /\ allocated = {cell[c] : c \in Cells}
    /\ limbo = [m \in Managers |-> {}]
    /\ garbage = [m \in Managers |-> {}]
    /\ freed = {}
    /\ leaked = {}
    /\ mpc = [m \in Managers |-> "recv"]
    /\ curGlobal = [m \in Managers |-> 0]
    /\ minEpoch = [m \in Managers |-> 0]
    /\ unvisited = [m \in Managers |-> {}]
-----------------------------------------------------------------------------
(* Readers *)

\* PartitionRoute::register_worker: the CAS that links the node at the head.
Register(w) ==
    /\ w \notin registered
    /\ registered' = registered \cup {w}
    /\ UNCHANGED <<globalEpoch, localEpoch, offline, spc, stamp, held, trusted,
                   heapVars, scanVars>>

\* enter(), first half: load GLOBAL_EPOCH.
EnterLoad(s) ==
    /\ spc[s] = "closed"
    /\ s \notin Pinless
    /\ WorkerOf[s] \in registered
    /\ spc' = [spc EXCEPT ![s] = "entering"]
    /\ stamp' = [stamp EXCEPT ![s] = globalEpoch]
    /\ UNCHANGED <<globalEpoch, localEpoch, offline, registered, held, trusted,
                   heapVars, scanVars>>

\* enter(), second half: store it into local_epoch.
EnterStore(s) ==
    /\ spc[s] = "entering"
    /\ spc' = [spc EXCEPT ![s] = "open"]
    /\ localEpoch' = [localEpoch EXCEPT ![WorkerOf[s]] = stamp[s]]
    /\ trusted' = [trusted EXCEPT ![s] = ~offline[WorkerOf[s]]]
    /\ UNCHANGED <<globalEpoch, offline, registered, stamp, held,
                   heapVars, scanVars>>

\* A call that loads shared pointers without pinning its worker first, as
\* Query::sum_int_range does through get_column_int.
OpenUnpinned(s) ==
    /\ spc[s] = "closed"
    /\ s \in Pinless
    /\ WorkerOf[s] \in registered
    /\ spc' = [spc EXCEPT ![s] = "open"]
    /\ UNCHANGED <<globalEpoch, localEpoch, offline, registered, stamp, held,
                   trusted, heapVars, scanVars>>

\* load_ref inside the session: the reference stays usable until it closes.
LoadRef(s, c) ==
    /\ spc[s] = "open"
    /\ OwnerOf[c] = HomeOf[WorkerOf[s]]
    /\ held' = [held EXCEPT ![s] = @ \cup {cell[c]}]
    /\ UNCHANGED <<globalEpoch, localEpoch, offline, registered, spc, stamp,
                   trusted, heapVars, scanVars>>

\* leave(): the references are gone, local_epoch becomes 0, whichever session
\* of the worker calls it.  An unpinned call has nothing to leave.
Leave(s) ==
    /\ spc[s] = "open"
    /\ spc' = [spc EXCEPT ![s] = "closed"]
    /\ held' = [held EXCEPT ![s] = {}]
    /\ localEpoch' = IF s \in Pinless THEN localEpoch
                ELSE [localEpoch EXCEPT ![WorkerOf[s]] = 0]
    /\ UNCHANGED <<globalEpoch, offline, registered, stamp, trusted,
                   heapVars, scanVars>>

\* force_offline(): every critical section open on the worker loses its pin.
ForceOffline(w) ==
    /\ w \in registered
    /\ ~offline[w]
    /\ offline' = [offline EXCEPT ![w] = TRUE]
    /\ trusted' = [s \in Sessions |-> trusted[s] /\ WorkerOf[s] # w]
    /\ UNCHANGED <<globalEpoch, localEpoch, registered, spc, stamp, held,
                   heapVars, scanVars>>

ResumeOnline(w) ==
    /\ offline[w]
    /\ offline' = [offline EXCEPT ![w] = FALSE]
    /\ UNCHANGED <<globalEpoch, localEpoch, registered, spc, stamp, held, trusted,
                   heapVars, scanVars>>
-----------------------------------------------------------------------------
(* The partition thread *)

\* Box a new object and exchange it with the pointer.
Exchange(m, c, o) ==
    /\ mpc[m] \in {"recv", "batch"}
    /\ OwnerOf[c] = m
    /\ o \notin allocated
    /\ mpc' = [mpc EXCEPT ![m] = "batch"]
    /\ allocated' = allocated \cup {o}
    /\ cell' = [cell EXCEPT ![c] = o]
    /\ UNCHANGED <<globalEpoch, sessionVars, garbage, freed, curGlobal,
                   minEpoch, unvisited>>

\* swap_ptr: the old pointer is kept for defer_free().
Swap(m, c, o) ==
    /\ Exchange(m, c, o)
    /\ c \notin Discarding
    /\ limbo' = [limbo EXCEPT ![m] = @ \cup {cell[c]}]
    /\ UNCHANGED leaked

\* rebuild_bloom_filter: the old pointer swap_ptr_with_box returns is not used.
Discard(m, c, o) ==
    /\ Exchange(m, c, o)
    /\ c \in Discarding
    /\ leaked' = leaked \cup {cell[c]}
    /\ UNCHANGED limbo

\* The epoch a retired object is stamped with.  Mutant: one too late.
LateRetireEpoch == globalEpoch + 1
RetireEpoch == globalEpoch

\* defer_free: the retired object is stamped with the epoch of the moment.
DeferFree(m, o) ==
    /\ o \in limbo[m]
    /\ limbo' = [limbo EXCEPT ![m] = @ \ {o}]
    /\ garbage' = [garbage EXCEPT ![m] = @ \cup {[obj |-> o, epoch |-> RetireEpoch]}]
    /\ UNCHANGED <<globalEpoch, sessionVars, cell, allocated, freed, leaked, scanVars>>

\* maintenance(): fetch_add, once the batch has deferred all it swapped out.
BumpEpoch(m) ==
    /\ mpc[m] = "batch"
    /\ limbo[m] = {}
    /\ globalEpoch' = globalEpoch + 1
    /\ mpc' = [mpc EXCEPT ![m] = "bumped"]
    /\ UNCHANGED <<sessionVars, heapVars, curGlobal, minEpoch, unvisited>>

\* maintenance(): current_global, and min_epoch starts from it.
LoadGlobal(m) ==
    /\ mpc[m] = "bumped"
    /\ curGlobal' = [curGlobal EXCEPT ![m] = globalEpoch]
    /\ minEpoch' = [minEpoch EXCEPT ![m] = globalEpoch]
    /\ mpc' = [mpc EXCEPT ![m] = "loaded"]
    /\ UNCHANGED <<globalEpoch, sessionVars, heapVars, unvisited>>

\* maintenance(): load the list head.  Nodes are only ever prepended, so the
\* walk visits exactly the workers registered by now.
LoadHead(m) ==
    /\ mpc[m] = "loaded"
    /\ unvisited' = [unvisited EXCEPT ![m] = {w \in registered : HomeOf[w] = m}]
    /\ mpc' = [mpc EXCEPT ![m] = "scan"]
    /\ UNCHANGED <<globalEpoch, sessionVars, heapVars, curGlobal, minEpoch>>

\* A worker that lowers min_epoch.  Mutant: the newest reader instead of the
\* oldest.
RaisesMin(m, w) == ~offline[w] /\ localEpoch[w] # 0 /\ localEpoch[w] > minEpoch[m]
LowersMin(m, w) == ~offline[w] /\ localEpoch[w] # 0 /\ localEpoch[w] < minEpoch[m]

\* maintenance(): one node of the walk.  The order of the nodes is left open,
\* and is_offline and local_epoch are read together: a worker forced offline
\* between the two reads would only be taken into account once more.
Visit(m, w) ==
    /\ mpc[m] = "scan"
    /\ w \in unvisited[m]
    /\ unvisited' = [unvisited EXCEPT ![m] = @ \ {w}]
    /\ minEpoch' = IF LowersMin(m, w) THEN [minEpoch EXCEPT ![m] = localEpoch[w]]
                   ELSE minEpoch
    /\ UNCHANGED <<globalEpoch, sessionVars, heapVars, mpc, curGlobal>>

\* maintenance(): the second increment when no older reader was seen.
EndScan(m) ==
    /\ mpc[m] = "scan"
    /\ unvisited[m] = {}
    /\ globalEpoch' = IF minEpoch[m] = curGlobal[m] THEN globalEpoch + 1
                      ELSE globalEpoch
    /\ mpc' = [mpc EXCEPT ![m] = "retain"]
    /\ UNCHANGED <<sessionVars, heapVars, curGlobal, minEpoch, unvisited>>

\* Entries maintenance() keeps and drops.  Mutants: the entries of min_epoch
\* itself are not kept; they are dropped too early.
KeptAbove(m) == {e \in garbage[m] : e.epoch > minEpoch[m]}
Kept(m) == {e \in garbage[m] : e.epoch >= minEpoch[m]}
ExpiredUpTo(m) == {e \in garbage[m] : e.epoch <= minEpoch[m]}
Expired(m) == {e \in garbage[m] : e.epoch < minEpoch[m]}

\* maintenance(): garbage.retain; what is not retained is dropped.
Retain(m) ==
    /\ mpc[m] = "retain"
    /\ garbage' = [garbage EXCEPT ![m] = Kept(m)]
    /\ freed' = freed \cup {e.obj : e \in Expired(m)}
    /\ mpc' = [mpc EXCEPT ![m] = "recv"]
    /\ UNCHANGED <<globalEpoch, sessionVars, cell, allocated, limbo, leaked,
                   curGlobal, minEpoch, unvisited>>
-----------------------------------------------------------------------------
QsbrReaderNext ==
    \/ \E w \in Workers : Register(w) \/ ForceOffline(w) \/ ResumeOnline(w)
    \/ \E s \in Sessions :
          \/ EnterLoad(s) \/ EnterStore(s) \/ OpenUnpinned(s) \/ Leave(s)
          \/ \E c \in Cells : LoadRef(s, c)

ManagerNext(m) ==
    \/ \E c \in Cells, o \in Objs : Swap(m, c, o) \/ Discard(m, c, o)
    \/ \E o \in Objs : DeferFree(m, o)
    \/ BumpEpoch(m) \/ LoadGlobal(m) \/ LoadHead(m)
    \/ \E w \in Workers : Visit(m, w)
    \/ EndScan(m) \/ Retain(m)

QsbrNext == QsbrReaderNext \/ \E m \in Managers : ManagerNext(m)

QsbrSpec == QsbrInit /\ [][QsbrNext]_qsbrVars
-----------------------------------------------------------------------------
\* No session whose pin was honoured holds a reference to memory that
\* maintenance() has given back (qsbr.rs, WorkerState::enter: data a reader
\* observes must not be reclaimed beneath it).
HeldNotFreed == \A s \in Sessions : trusted[s] => held[s] \cap freed = {}

Queued(m, o) == o \in limbo[m] \/ \E e \in garbage[m] : e.obj = o

\* No object is in two places: two cells, two writers' hands, two garbage
\* entries, or any of these, the free list and those thrown away.
Exclusive ==
    /\ \A c, d \in Cells : cell[c] = cell[d] => c = d
    /\ \A c \in Cells : cell[c] \notin freed \cup leaked
    /\ \A m \in Managers, c \in Cells : ~Queued(m, cell[c])
    /\ \A m \in Managers, o \in freed \cup leaked : ~Queued(m, o)
    /\ freed \cap leaked = {}
    /\ \A m, n \in Managers, o \in Objs : Queued(m, o) /\ Queued(n, o) => m = n
    /\ \A m \in Managers : \A e \in garbage[m] :
          /\ e.obj \notin limbo[m]
          /\ \A f \in garbage[m] : e.obj = f.obj => e = f

\* Every object the writers ever created is in exactly one place: published,
\* swapped out, queued as garbage, freed, or thrown away with the pointer of
\* a bloom filter.  Nothing else leaks, nothing is queued or dropped twice,
\* nothing is dropped while it is still published.
OwnedOnce ==
    /\ Exclusive
    /\ \A o \in Objs :
          o \in allocated <=> \/ o \in freed \cup leaked
                              \/ \E c \in Cells : cell[c] = o
                              \/ \E m \in Managers : Queued(m, o)

\* A maintenance() that meets no reader older than its own epoch frees the
\* whole garbage queue (qsbr.rs: "allowing all pending garbage to be
\* collected"), although other partitions move GLOBAL_EPOCH meanwhile.
QuiescentScanFreesAll ==
    \A m \in Managers :
        (mpc[m] = "retain" /\ minEpoch[m] = curGlobal[m])
            => \A e \in garbage[m] : e.epoch < minEpoch[m]

\* Every other session of s's worker stamps, or last stamped, the epoch of s, so
\* its enter() stores what local_epoch holds already.
SameEpoch(s) ==
    \A t \in Pinned : WorkerOf[t] = WorkerOf[s] => stamp[t] \in {0, stamp[s]}

\* The results of a session stay valid until the session is dropped (query.rs,
\* QuerySession), as long as its worker has been online since the session
\* entered; nested sessions of the same epoch leave only their leave() to
\* differ by.
ResultsValidUntilDrop ==
    \A s \in Pinned : trusted[s] /\ SameEpoch(s) => held[s] \cap freed = {}

\* Reclamation refines the abstract promise: a session is protected while its
\* pin is honoured.
Protected == [s \in Sessions |-> IF trusted[s] THEN held[s] ELSE {}]

R == INSTANCE Reclaim WITH published <- cell, protected <- Protected

\* Nothing is freed that a protected reader holds or a cell still publishes,
\* and nothing is freed twice, step by step.
Reclaims == R!Spec
=============================================================================
