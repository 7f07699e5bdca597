------------------------------ MODULE Lifecycle ------------------------------
(***************************************************************************)
(* The life of one partition (engine/dispatcher.rs, engine/partition.rs    *)
(* run): the bounded command queue, the UserWriter handles that push onto  *)
(* it and stop the partition when dropped, the thread that drains it in    *)
(* batches, the compaction thread it spawns and joins, and the dispatcher, *)
(* which stops and joins every partition when it is dropped.               *)
(*                                                                         *)
(* The queue (no_std_tool's BoundedQueue) is a linearizable bounded FIFO.  *)
(* Applying a batch is one step here; Partition opens it up.               *)
(***************************************************************************)
EXTENDS Naturals, Sequences, SequencesExt

CONSTANTS Writers,     \* UserWriter handles that may ever exist
          Capacity,    \* slots of the queue, 262144 in the code
          BatchSize,   \* GROUP_COMMIT_BATCH: tries of the drain loop
          MaxSends     \* bound: writes sent through each handle

ASSUME LifecycleAssumption ==
    /\ Capacity \in Nat \ {0}
    /\ BatchSize \in Nat
    /\ MaxSends \in [Writers -> Nat]

VARIABLES
    queue,      \* the command queue
    pc,         \* where the partition thread is
    batch,      \* commands taken, not yet applied
    tries,      \* iterations of the drain loop
    stopSeen,   \* shutdown_received
    applied,    \* commands applied, in order
    flag,       \* shutdown_flag's boolean
    compactor,  \* where the compaction thread is
    handle,     \* the state of each UserWriter
    sent,       \* writes begun through each handle
    routed,     \* route_table still designates this partition
    dispatcher, \* where CdDBDispatcher is
    accepted    \* history: everything pushed, in order

threadVars == <<pc, batch, tries, stopSeen, applied, flag>>
handleVars == <<handle, sent>>
dispatcherVars == <<routed, dispatcher>>
vars == <<queue, threadVars, compactor, handleVars, dispatcherVars, accepted>>

Shutdown == <<>>
Writes == UNION {{w} \X (1 .. MaxSends[w]) : w \in Writers}
Message == Writes \cup {Shutdown}

TypeOK ==
    /\ queue \in Seq(Message)
    /\ Len(queue) <= Capacity
    /\ pc \in {"replay", "recv", "drain", "apply", "stop", "notify", "join", "exited"}
    /\ batch \in Seq(Writes)
    /\ tries \in 0 .. BatchSize
    /\ stopSeen \in BOOLEAN
    /\ applied \in Seq(Writes)
    /\ flag \in BOOLEAN
    /\ compactor \in {"none", "running", "waiting", "woken", "compacting", "gone"}
    /\ handle \in [Writers -> {"none", "live", "sending", "dropping", "gone"}]
    /\ sent \in [Writers -> Nat]
    /\ \A w \in Writers : sent[w] <= MaxSends[w]
    /\ routed \in BOOLEAN
    /\ dispatcher \in {"up", "pushing", "joining", "gone"}
    /\ accepted \in Seq(Message)

\* The partition has been registered and its first UserWriter returned.
Init ==
    /\ queue = <<>>
    /\ pc = "replay"
    /\ batch = <<>>
    /\ tries = 0
    /\ stopSeen = FALSE
    /\ applied = <<>>
    /\ flag = FALSE
    /\ compactor = "none"
    /\ \E w \in Writers : handle = [v \in Writers |-> IF v = w THEN "live" ELSE "none"]
    /\ sent = [w \in Writers |-> 0]
    /\ routed = TRUE
    /\ dispatcher = "up"
    /\ accepted = <<>>
-----------------------------------------------------------------------------
(* Handles *)

\* BoundedQueue::push succeeds.
Room == Len(queue) < Capacity

Push(msg) ==
    /\ Room
    /\ queue' = Append(queue, msg)
    /\ accepted' = Append(accepted, msg)

\* A handle is cloned, or obtained with get_partition from a dispatcher that
\* still has the route.
NewHandle(w) ==
    /\ handle[w] = "none"
    /\ \/ \E v \in Writers : handle[v] = "live"
       \/ dispatcher = "up" /\ routed
    /\ handle' = [handle EXCEPT ![w] = "live"]
    /\ UNCHANGED <<queue, threadVars, compactor, sent, dispatcherVars, accepted>>

\* send() tries until the push succeeds ...
Send(w) ==
    /\ handle[w] = "live"
    /\ sent[w] < MaxSends[w]
    /\ handle' = [handle EXCEPT ![w] = "sending"]
    /\ sent' = [sent EXCEPT ![w] = @ + 1]
    /\ UNCHANGED <<queue, threadVars, compactor, dispatcherVars, accepted>>

\* ... and returns Ok.
SendOk(w) ==
    /\ handle[w] = "sending"
    /\ Push(<<w, sent[w]>>)
    /\ handle' = [handle EXCEPT ![w] = "live"]
    /\ UNCHANGED <<threadVars, compactor, sent, dispatcherVars>>

\* try_send() discards the command when the queue is full.
TrySend(w) ==
    /\ handle[w] = "live"
    /\ sent[w] < MaxSends[w]
    /\ sent' = [sent EXCEPT ![w] = @ + 1]
    /\ \/ Push(<<w, sent'[w]>>)
       \/ ~Room /\ UNCHANGED <<queue, accepted>>
    /\ UNCHANGED <<threadVars, compactor, handle, dispatcherVars>>

\* Drop of any handle, not only of the last one, pushes a Shutdown ...
Drop(w) ==
    /\ handle[w] = "live"
    /\ handle' = [handle EXCEPT ![w] = "dropping"]
    /\ UNCHANGED <<queue, threadVars, compactor, sent, dispatcherVars, accepted>>

\* ... and tries until the push succeeds.
Dropped(w) ==
    /\ handle[w] = "dropping"
    /\ Push(Shutdown)
    /\ handle' = [handle EXCEPT ![w] = "gone"]
    /\ UNCHANGED <<threadVars, compactor, sent, dispatcherVars>>
-----------------------------------------------------------------------------
(* The partition thread *)

\* replay_wal, then run() spawns the compaction thread.
Start ==
    /\ pc = "replay"
    /\ pc' = "recv"
    /\ compactor' = "running"
    /\ UNCHANGED <<queue, batch, tries, stopSeen, applied, flag, handleVars,
                   dispatcherVars, accepted>>

Recv ==
    /\ pc = "recv"
    /\ queue # <<>>
    /\ queue' = Tail(queue)
    /\ tries' = 0
    /\ \/ /\ Head(queue) = Shutdown
          /\ pc' = "stop"
          /\ UNCHANGED batch
       \/ /\ Head(queue) # Shutdown
          /\ pc' = "drain"
          /\ batch' = <<Head(queue)>>
    /\ UNCHANGED <<stopSeen, applied, flag, compactor, handleVars,
                   dispatcherVars, accepted>>

\* Where the drain loop goes when it meets a Shutdown.  Mutant: it leaves
\* run() at once, as recv() does.
StopAtOnce == "stop"
OnShutdown == "apply"

\* The batch with one more command.  Mutant: the newest first.
Pushed(cmds, cmd) == <<cmd>> \o cmds
Extended(cmds, cmd) == Append(cmds, cmd)

\* The drain loop goes on.  Mutant: one iteration too many.
MoreAndOne == tries <= BatchSize
More == tries < BatchSize

\* try_recv finds a command.
DrainOne ==
    /\ pc = "drain"
    /\ More
    /\ queue # <<>>
    /\ queue' = Tail(queue)
    /\ tries' = tries + 1
    /\ \/ /\ Head(queue) = Shutdown
          /\ stopSeen' = TRUE
          /\ pc' = OnShutdown
          /\ UNCHANGED batch
       \/ /\ Head(queue) # Shutdown
          /\ batch' = Extended(batch, Head(queue))
          /\ UNCHANGED <<stopSeen, pc>>
    /\ UNCHANGED <<applied, flag, compactor, handleVars, dispatcherVars, accepted>>

\* try_recv finds nothing: one more snooze, or enough of them.
DrainNone ==
    /\ pc = "drain"
    /\ More
    /\ queue = <<>>
    /\ \/ pc' = "apply" /\ UNCHANGED tries
       \/ tries' = tries + 1 /\ UNCHANGED pc
    /\ UNCHANGED <<queue, batch, stopSeen, applied, flag, compactor, handleVars,
                   dispatcherVars, accepted>>

DrainEnd ==
    /\ pc = "drain"
    /\ ~More
    /\ pc' = "apply"
    /\ UNCHANGED <<queue, batch, tries, stopSeen, applied, flag, compactor,
                   handleVars, dispatcherVars, accepted>>

\* After a batch.  Mutant: the Shutdown the drain loop met is forgotten.
AlwaysRecv == "recv"
AfterBatch == IF stopSeen THEN "stop" ELSE "recv"

\* Log and apply the batch.
Apply ==
    /\ pc = "apply"
    /\ applied' = applied \o batch
    /\ batch' = <<>>
    /\ pc' = AfterBatch
    /\ UNCHANGED <<queue, tries, stopSeen, flag, compactor, handleVars,
                   dispatcherVars, accepted>>

SetFlag ==
    /\ pc = "stop"
    /\ flag' = TRUE
    /\ pc' = "notify"
    /\ UNCHANGED <<queue, batch, tries, stopSeen, applied, compactor, handleVars,
                   dispatcherVars, accepted>>

\* notify_one wakes the compaction thread only if it waits now.
Notify ==
    /\ pc = "notify"
    /\ pc' = "join"
    /\ compactor' = IF compactor = "waiting" THEN "woken" ELSE compactor
    /\ UNCHANGED <<queue, batch, tries, stopSeen, applied, flag, handleVars,
                   dispatcherVars, accepted>>

Join ==
    /\ pc = "join"
    /\ compactor = "gone"
    /\ pc' = "exited"
    /\ UNCHANGED <<queue, batch, tries, stopSeen, applied, flag, compactor,
                   handleVars, dispatcherVars, accepted>>

ThreadNext ==
    Start \/ Recv \/ DrainOne \/ DrainNone \/ DrainEnd \/ Apply
    \/ SetFlag \/ Notify \/ Join
-----------------------------------------------------------------------------
(* The compaction thread *)

\* It locks and waits without looking at the flag first.
CompactorWait ==
    /\ compactor = "running"
    /\ compactor' = "waiting"
    /\ UNCHANGED <<queue, threadVars, handleVars, dispatcherVars, accepted>>

\* Notified, timed out, or woken for nothing: the flag decides.
CompactorWake ==
    /\ compactor \in {"waiting", "woken"}
    /\ compactor' = IF flag THEN "gone" ELSE "compacting"
    /\ UNCHANGED <<queue, threadVars, handleVars, dispatcherVars, accepted>>

CompactorDone ==
    /\ compactor = "compacting"
    /\ compactor' = "running"
    /\ UNCHANGED <<queue, threadVars, handleVars, dispatcherVars, accepted>>

CompactorNext == CompactorWait \/ CompactorWake \/ CompactorDone
-----------------------------------------------------------------------------
(* The dispatcher *)

\* The name is registered again: the route to this partition is replaced, its
\* thread stays among those to join.
Replace ==
    /\ dispatcher = "up"
    /\ routed
    /\ routed' = FALSE
    /\ UNCHANGED <<queue, threadVars, compactor, handleVars, dispatcher, accepted>>

\* The drop of the dispatcher first pushes the shutdowns.  Mutant: joins first.
JoinFirst == "joining"
DropFirst == "pushing"

DropDispatcher ==
    /\ dispatcher = "up"
    /\ dispatcher' = DropFirst
    /\ UNCHANGED <<queue, threadVars, compactor, handleVars, routed, accepted>>

\* One Shutdown for each route, tried until the push succeeds.
PushShutdowns ==
    /\ dispatcher = "pushing"
    /\ \/ routed /\ Push(Shutdown)
       \/ ~routed /\ UNCHANGED <<queue, accepted>>
    /\ dispatcher' = "joining"
    /\ UNCHANGED <<threadVars, compactor, handleVars, routed>>

JoinThreads ==
    /\ dispatcher = "joining"
    /\ pc = "exited"
    /\ dispatcher' = "gone"
    /\ UNCHANGED <<queue, threadVars, compactor, handleVars, routed, accepted>>
-----------------------------------------------------------------------------
WriterNext(w) ==
    NewHandle(w) \/ Send(w) \/ SendOk(w) \/ TrySend(w) \/ Drop(w) \/ Dropped(w)

DispatcherNext == Replace \/ DropDispatcher \/ PushShutdowns \/ JoinThreads

Next == ThreadNext \/ CompactorNext \/ DispatcherNext \/ \E w \in Writers : WriterNext(w)

Spec == Init /\ [][Next]_vars

\* The threads are scheduled, and a wait with a timeout ends.  Nothing obliges
\* a caller to send or to drop; what it has begun goes on when it can.
Fairness ==
    /\ WF_vars(ThreadNext)
    /\ WF_vars(CompactorNext)
    /\ WF_vars(PushShutdowns \/ JoinThreads)
    /\ \A w \in Writers : WF_vars(SendOk(w) \/ Dropped(w))

FairSpec == Spec /\ Fairness
-----------------------------------------------------------------------------
Stopping == stopSeen \/ pc \in {"stop", "notify", "join", "exited"}

\* The thread takes every command accepted, once and in the order the queue
\* accepted them, up to the first Shutdown and nothing behind it; once it has
\* left its loop it has applied all it took (partition.rs, run).
InOrder ==
    /\ accepted = applied \o batch \o (IF Stopping THEN <<Shutdown>> ELSE <<>>) \o queue
    /\ pc \in {"stop", "notify", "join", "exited"} => batch = <<>>

\* No Shutdown before the i-th message accepted.
Early(i) == \A j \in 1 .. i : accepted[j] # Shutdown

\* Every write accepted before the first Shutdown is eventually applied, also
\* those the thread has in hand when it meets the Shutdown.
EarlyApplied ==
    \A write \in Writes :
        (\E i \in DOMAIN accepted : accepted[i] = write /\ Early(i))
            ~> Contains(applied, write)

\* A Shutdown in the queue stops the thread, whatever is sent meanwhile and
\* wherever the compaction thread is; a notification it misses is made up for
\* by its timeout alone (dispatcher.rs: dropping the writer makes "the
\* background thread exit cleanly").
StopStops == Contains(queue, Shutdown) ~> pc = "exited"

\* Dropping the dispatcher returns once its shutdowns are pushed, if this
\* partition got one: the thread of a name registered twice gets none.
DropJoins ==
    (dispatcher = "joining" /\ (routed \/ Contains(accepted, Shutdown)))
        ~> dispatcher = "gone"

\* A write for which send returned Ok reaches the partition while the caller
\* keeps its writer and the dispatcher (dispatcher.rs, UserWriter::send: the
\* command "to deliver to the partition").
SentIsDelivered ==
    \A write \in Writes :
        Contains(accepted, write)
            ~> \/ Contains(applied, write)
               \/ handle[write[1]] \in {"dropping", "gone"}
               \/ dispatcher # "up"
=============================================================================
