------------------------------- MODULE MCStores -------------------------------
(* Instances of Lifecycle and of Clients for TLC: one partition in detail, *)
(* and the stores built on partitions, each explored by itself.            *)
EXTENDS MCLifecycle, Clients

VARIABLE subject

allVars == <<subject, vars, clientVars>>

ASSUME ClientsAssumption == ClientsConstants

BothInit ==
    /\ subject \in {"partition", "store"}
    /\ Init /\ ClientsInit
    /\ subject = "partition" => kind = "kv"
    /\ subject = "store" => handle[w1] = "live"

IsPartition == subject = "partition" /\ UNCHANGED <<subject, clientVars>>
IsStore == subject = "store" /\ UNCHANGED <<subject, vars>>

Thread ==
    \/ IsPartition /\ Start
    \/ IsPartition /\ Recv
    \/ IsPartition /\ DrainOne
    \/ IsPartition /\ DrainNone
    \/ IsPartition /\ DrainEnd
    \/ IsPartition /\ Apply
    \/ IsPartition /\ SetFlag
    \/ IsPartition /\ Notify
    \/ IsPartition /\ Join

Compactor ==
    \/ IsPartition /\ CompactorWait
    \/ IsPartition /\ CompactorWake
    \/ IsPartition /\ CompactorDone

Dispatcher ==
    \/ IsPartition /\ Replace
    \/ IsPartition /\ DropDispatcher
    \/ IsPartition /\ PushShutdowns
    \/ IsPartition /\ JoinThreads

Writer(w) ==
    \/ IsPartition /\ NewHandle(w)
    \/ IsPartition /\ Send(w)
    \/ IsPartition /\ SendOk(w)
    \/ IsPartition /\ TrySend(w)
    \/ IsPartition /\ Drop(w)
    \/ IsPartition /\ Dropped(w)

StoreDrain(i) == IsStore /\ Drain(i)
StorePut(c, k, op) == IsStore /\ PutBegin(c, k, op)
StoreInsert(c, k) == IsStore /\ InsertBegin(c, k)
StoreSendReturns(c) == IsStore /\ SendReturns(c)
StoreInsertReturns(c) == IsStore /\ InsertReturns(c)
StoreGet(c, k) == IsStore /\ Get(c, k)
StoreDrop == IsStore /\ DropStore
StorePushShutdown == IsStore /\ PushShutdown
StoreJoinAll == IsStore /\ JoinAll
StoreDropWriter == IsStore /\ DropWriter

StoreNext ==
    \/ \E i \in DOMAIN partitions : StoreDrain(i)
    \/ \E c \in Callers, k \in Keys :
           \/ \E op \in {"put", "delete"} : StorePut(c, k, op)
           \/ StoreInsert(c, k) \/ StoreGet(c, k)
    \/ \E c \in Callers : StoreSendReturns(c) \/ StoreInsertReturns(c)
    \/ StoreDrop \/ StorePushShutdown \/ StoreJoinAll \/ StoreDropWriter

BothNext == Thread \/ Compactor \/ Dispatcher \/ (\E w \in Writers : Writer(w)) \/ StoreNext

\* The fairness of Lifecycle and of Clients.
BothSpec ==
    /\ BothInit /\ [][BothNext]_allVars
    /\ WF_allVars(ThreadNext /\ IsPartition)
    /\ WF_allVars(CompactorNext /\ IsPartition)
    /\ WF_allVars((PushShutdowns \/ JoinThreads) /\ IsPartition)
    /\ \A w \in Writers : WF_allVars((SendOk(w) \/ Dropped(w)) /\ IsPartition)
    /\ \A i \in 1 .. MaxOps + 1 : WF_allVars(i \in DOMAIN partitions /\ StoreDrain(i))
    /\ \A c \in Callers : WF_allVars(StoreSendReturns(c) \/ StoreInsertReturns(c))
    /\ WF_allVars(StorePushShutdown \/ StoreJoinAll \/ StoreDropWriter)
=============================================================================
