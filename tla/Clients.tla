------------------------------- MODULE Clients -------------------------------
(***************************************************************************)
(* The two stores an application gets ready made: SimpleKvStore            *)
(* (engine/simple_kv.rs), one partition shared by several callers, and     *)
(* TypedCdDbCache (engine/typed_cache.rs), which registers its partition   *)
(* anew for every insert.  Both own their CdDBDispatcher: dropping the     *)
(* store drops it, which stops and joins the partitions.                   *)
(*                                                                         *)
(* A partition is taken as Lifecycle describes it: it applies what its     *)
(* queue accepted, in order, batch by batch and up to the first Shutdown,  *)
(* and publishes after each batch.                                         *)
(***************************************************************************)
EXTENDS Naturals, Sequences, FiniteSetsExt

CONSTANTS Callers,    \* threads that use the store
          Keys,
          QueueSlots, \* slots of a command queue, 262144 in the code
          MaxOps      \* bound: writes begun

\* What the constants must be.
ClientsConstants ==
    /\ QueueSlots \in Nat \ {0}
    /\ MaxOps \in Nat

VARIABLES
    kind,       \* the store: "kv" or "typed"
    partitions, \* every registration of the one partition name, in order
    route,      \* the registration route_table holds; 0: none
    caller,     \* what each caller is doing
    inHand,     \* the command a caller sends
    store,      \* where the drop of the store is
    begun,      \* writes begun
    returned,   \* history: the latest write of each key that has returned
    got         \* history: the write the latest get of each key found

clientVars == <<kind, partitions, route, caller, inHand, store, begun, returned, got>>

Stop == [op |-> "shutdown"]
Write(k, op, n) == [op |-> op, key |-> k, nr |-> n]
StoreWrites == [op : {"put", "delete"}, key : Keys, nr : 1 .. MaxOps]
Commands == StoreWrites \cup {Stop}

\* queue and accepted: the commands waiting and all that were ever pushed;
\* data: the published write of each key, 0 for none.
Partition == [queue : Seq(Commands), accepted : Seq(Commands),
              data : [Keys -> 0 .. MaxOps], running : BOOLEAN]

ClientsTypeOK ==
    /\ kind \in {"kv", "typed"}
    /\ partitions \in Seq(Partition)
    /\ \A i \in DOMAIN partitions : Len(partitions[i].queue) <= QueueSlots
    /\ route \in 0 .. Len(partitions)
    /\ caller \in [Callers -> {"idle", "sending", "dropping"}]
    /\ inHand \in [Callers -> Commands]
    /\ store \in {"open", "pushing", "joining", "writer", "gone"}
    /\ begun \in 0 .. MaxOps
    /\ returned \in [Keys -> 0 .. MaxOps]
    /\ got \in [Keys -> 0 .. MaxOps]

NewPartition ==
    [queue |-> <<>>, accepted |-> <<>>, data |-> [k \in Keys |-> 0], running |-> TRUE]

\* SimpleKvStore::open registers its partition, with NoopWal;
\* TypedCdDbCache::new registers nothing.
ClientsInit ==
    /\ \/ kind = "kv" /\ partitions = <<NewPartition>>
       \/ kind = "typed" /\ partitions = <<>>
    /\ route = Len(partitions)
    /\ caller = [c \in Callers |-> "idle"]
    /\ inHand = [c \in Callers |-> Stop]
    /\ store = "open"
    /\ begun = 0
    /\ returned = [k \in Keys |-> 0]
    /\ got = [k \in Keys |-> 0]
-----------------------------------------------------------------------------
(* A partition *)

\* BoundedQueue::push succeeds.  Mutant: with no slot free.
PushAnyway(i, cmd) ==
    partitions' = [partitions EXCEPT ![i].queue = Append(@, cmd),
                                     ![i].accepted = Append(@, cmd)]
PushTo(i, cmd) ==
    /\ Len(partitions[i].queue) < QueueSlots
    /\ partitions' = [partitions EXCEPT ![i].queue = Append(@, cmd),
                                        ![i].accepted = Append(@, cmd)]

\* The writes among n messages.  Mutant: a batch that ends in a Shutdown is left.
LostAtStop(queue, n) == IF queue[n] = Stop THEN <<>> ELSE SubSeq(queue, 1, n)
Batch(queue, n) == SubSeq(queue, 1, IF queue[n] = Stop THEN n - 1 ELSE n)

\* What commands make of the published data: of each key the last write among
\* them stays.
WritesOf(cmds, k) == {i \in DOMAIN cmds : cmds[i] # Stop /\ cmds[i].key = k}
Applied(data, cmds) ==
    [k \in Keys |-> IF WritesOf(cmds, k) = {} THEN data[k]
                    ELSE cmds[Max(WritesOf(cmds, k))].nr]

\* The thread takes a batch, a Shutdown at most as the last message of it,
\* applies and publishes it.
Drain(i) ==
    LET part == partitions[i] IN
    /\ part.running
    /\ \E n \in 1 .. Len(part.queue) :
           /\ \A j \in 1 .. n - 1 : part.queue[j] # Stop
           /\ partitions' = [partitions EXCEPT ![i] =
                  [queue    |-> SubSeq(part.queue, n + 1, Len(part.queue)),
                   accepted |-> part.accepted,
                   data     |-> Applied(part.data, Batch(part.queue, n)),
                   running  |-> part.queue[n] # Stop]]
    /\ UNCHANGED <<kind, route, caller, inHand, store, begun, returned, got>>
-----------------------------------------------------------------------------
(* Writes *)

\* The registration a typed insert sends to: always a new one.  Mutant: the
\* one that is there, as get_partition would find it.
KeptRegistration == IF partitions = <<>> THEN <<NewPartition>> ELSE partitions
Registered == Append(partitions, NewPartition)

\* put or delete of SimpleKvStore calls send on the writer the store keeps.
PutBegin(c, k, op) ==
    /\ kind = "kv"
    /\ store = "open"
    /\ caller[c] = "idle"
    /\ begun < MaxOps
    /\ begun' = begun + 1
    /\ inHand' = [inHand EXCEPT ![c] = Write(k, op, begun + 1)]
    /\ caller' = [caller EXCEPT ![c] = "sending"]
    /\ UNCHANGED <<kind, partitions, route, store, returned, got>>

\* insert of TypedCdDbCache, which nothing else runs beside (&mut self),
\* registers the partition; the new route replaces the old one.
InsertBegin(c, k) ==
    /\ kind = "typed"
    /\ store = "open"
    /\ \A d \in Callers : caller[d] = "idle"
    /\ begun < MaxOps
    /\ begun' = begun + 1
    /\ partitions' = Registered
    /\ route' = Len(partitions')
    /\ inHand' = [inHand EXCEPT ![c] = Write(k, "put", begun + 1)]
    /\ caller' = [caller EXCEPT ![c] = "sending"]
    /\ UNCHANGED <<kind, store, returned, got>>

\* send returns once the push succeeded.  put and delete return; insert drops
\* the writer it was given.
SendReturns(c) ==
    /\ caller[c] = "sending"
    /\ PushTo(route, inHand[c])
    /\ \/ /\ kind = "kv"
          /\ caller' = [caller EXCEPT ![c] = "idle"]
          /\ returned' = [returned EXCEPT ![inHand[c].key] = inHand[c].nr]
       \/ /\ kind = "typed"
          /\ caller' = [caller EXCEPT ![c] = "dropping"]
          /\ UNCHANGED returned
    /\ UNCHANGED <<kind, route, inHand, store, begun, got>>

\* Dropping a UserWriter pushes a Shutdown.  Mutant: it counts the references
\* to the queue, of which the route holds one too.
OnlyLastPushes(i) == UNCHANGED partitions
DropPushes(i) == PushTo(i, Stop)

InsertReturns(c) ==
    /\ caller[c] = "dropping"
    /\ DropPushes(route)
    /\ caller' = [caller EXCEPT ![c] = "idle"]
    /\ returned' = [returned EXCEPT ![inHand[c].key] = inHand[c].nr]
    /\ UNCHANGED <<kind, route, inHand, store, begun, got>>
-----------------------------------------------------------------------------
(* Reads *)

\* execute_batch runs the node against the route the table holds, if any.
Found(k) == IF route = 0 THEN 0 ELSE partitions[route].data[k]

\* A key deleted or never written reads as None.  A typed insert excludes gets.
Get(c, k) ==
    /\ store = "open"
    /\ caller[c] = "idle"
    /\ kind = "typed" => \A d \in Callers : caller[d] = "idle"
    /\ got' = [got EXCEPT ![k] = Found(k)]
    /\ UNCHANGED <<kind, partitions, route, caller, inHand, store, begun, returned>>
-----------------------------------------------------------------------------
(* The drop of the store: nobody else has it any more *)

DropStore ==
    /\ store = "open"
    /\ \A c \in Callers : caller[c] = "idle"
    /\ store' = "pushing"
    /\ UNCHANGED <<kind, partitions, route, caller, inHand, begun, returned, got>>

\* The dispatcher, the first field of either store, pushes a Shutdown on the
\* one route of its table ...
PushShutdown ==
    /\ store = "pushing"
    /\ IF route = 0 THEN UNCHANGED partitions ELSE PushTo(route, Stop)
    /\ store' = "joining"
    /\ UNCHANGED <<kind, route, caller, inHand, begun, returned, got>>

\* ... and joins every thread it ever spawned.
JoinAll ==
    /\ store = "joining"
    /\ \A i \in DOMAIN partitions : ~partitions[i].running
    /\ store' = IF kind = "kv" THEN "writer" ELSE "gone"
    /\ UNCHANGED <<kind, partitions, route, caller, inHand, begun, returned, got>>

\* SimpleKvStore then drops its writer, whose thread has exited.
DropWriter ==
    /\ store = "writer"
    /\ PushTo(route, Stop)
    /\ store' = "gone"
    /\ UNCHANGED <<kind, route, caller, inHand, begun, returned, got>>
-----------------------------------------------------------------------------
DropNext == PushShutdown \/ JoinAll \/ DropWriter

ClientsNext ==
    \/ \E i \in DOMAIN partitions : Drain(i)
    \/ \E c \in Callers, k \in Keys : \/ \E op \in {"put", "delete"} : PutBegin(c, k, op)
                                      \/ InsertBegin(c, k) \/ Get(c, k)
    \/ \E c \in Callers : SendReturns(c) \/ InsertReturns(c)
    \/ DropStore \/ DropNext

\* The threads of the partitions are scheduled, and a call goes on when it
\* can.  Nothing obliges anyone to write or to drop the store.
ClientsFairness ==
    /\ \A i \in 1 .. MaxOps + 1 : WF_clientVars(i \in DOMAIN partitions /\ Drain(i))
    /\ \A c \in Callers : WF_clientVars(SendReturns(c) \/ InsertReturns(c))
    /\ WF_clientVars(DropNext)

ClientsSpec == ClientsInit /\ [][ClientsNext]_clientVars /\ ClientsFairness
-----------------------------------------------------------------------------
\* A get never goes back.  In the key value store it finds what the last get
\* of the key found or a write accepted later, whichever caller asked; in the
\* typed cache it finds the latest insert of the key or nothing, never an
\* insert that a later one replaced.
ReadsForward ==
    [][\A k \in Keys : got'[k] # got[k] =>
           IF kind = "kv"
           THEN LET accepted == partitions[route].accepted
                    Place(nr) == {i \in DOMAIN accepted :
                                      accepted[i] # Stop /\ accepted[i].nr = nr}
                IN /\ got'[k] # 0
                   /\ \A i \in Place(got[k]), j \in Place(got'[k]) : i < j
           ELSE got'[k] \in {0, returned[k]}]_got

\* When the drop of the key value store is over, every put and delete that
\* returned has been applied: the data is that of the last one accepted.
DropDrains ==
    store \in {"writer", "gone"} /\ kind = "kv" =>
        partitions[1].data = Applied([k \in Keys |-> 0], partitions[1].accepted)

\* Dropping a store returns: every partition it registered, also those whose
\* route was replaced, has got a Shutdown and room for it.
DropReturns == store = "pushing" ~> store = "gone"
=============================================================================
