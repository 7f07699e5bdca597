----------------------------- MODULE StoresProofs -----------------------------
(***************************************************************************)
(* Proofs about Lifecycle, for any writers, capacity and batch size, and   *)
(* about Clients, for any number of callers, keys, slots, writes and       *)
(* registrations.                                                          *)
(***************************************************************************)
EXTENDS Lifecycle, Clients, SequenceTheorems, WellFoundedInduction, TLAPS
-----------------------------------------------------------------------------
(* One partition: its queue, its thread and its handles *)

\* What the order of the commands rests on: between batches the thread holds no
\* command, it leaves its loop soon after it has met a Shutdown, and a writer
\* that waits for room has a number for its command.
LoopOK ==
    /\ pc \notin {"drain", "apply"} => batch = <<>>
    /\ pc \in {"replay", "recv", "drain"} => ~stopSeen
    /\ \A w \in Writers : handle[w] = "sending" => sent[w] > 0

\* The Shutdown that the thread has taken, if it has.
Mark == IF Stopping THEN <<Shutdown>> ELSE <<>>

LifecycleInv == TypeOK /\ LoopOK /\ InOrder
-----------------------------------------------------------------------------
(* Sequences of messages *)

\* A write is a message, and so is a Shutdown.
LEMMA Messages ==
  /\ \A w \in Writers : \A n \in 1 .. MaxSends[w] : <<w, n>> \in Writes
  /\ Shutdown \in Message
  /\ Seq(Writes) \subseteq Seq(Message)
  /\ \A m \in Message : m = Shutdown \/ m \in Writes
  /\ <<>> \in Seq(Message)
<1>1. \A w \in Writers : \A n \in 1 .. MaxSends[w] : <<w, n>> \in Writes
  BY DEF Writes
<1>2. Seq(Writes) \subseteq Seq(Message)
  <2> SUFFICES ASSUME NEW s \in Seq(Writes) PROVE s \in Seq(Message)
    OBVIOUS
  <2>1. Writes \subseteq Message
    BY DEF Message
  <2> HIDE DEF Message, Writes
  <2> QED
    BY <2>1
<1>3. <<>> \in Seq(Message)
  BY EmptySeq
<1> QED
  BY <1>1, <1>2, <1>3 DEF Message

\* Concatenation of messages, in the form the steps below use.
LEMMA Concat ==
  /\ \A a, b \in Seq(Message) : a \o b \in Seq(Message)
  /\ \A a, b, c \in Seq(Message) : (a \o b) \o c = a \o (b \o c)
  /\ \A a \in Seq(Message) : a \o <<>> = a /\ <<>> \o a = a
<1>1. \A a, b \in Seq(Message) : a \o b \in Seq(Message)
  BY ConcatProperties
<1>2. \A a, b, c \in Seq(Message) : (a \o b) \o c = a \o (b \o c)
  BY ConcatAssociative
<1>3. \A a \in Seq(Message) : a \o <<>> = a /\ <<>> \o a = a
  BY ConcatEmptySeq
<1> QED
  BY <1>1, <1>2, <1>3

\* Append is concatenation with one message.
LEMMA AppendOne ==
  ASSUME NEW a \in Seq(Message), NEW m \in Message
  PROVE  /\ <<m>> \in Seq(Message)
         /\ Append(a, m) = a \o <<m>>
         /\ Append(a, m) \in Seq(Message)
         /\ Len(Append(a, m)) = Len(a) + 1
BY AppendIsConcat, AppendProperties

\* A queue that is not empty is its head and the rest.
LEMMA HeadTail ==
  ASSUME NEW a \in Seq(Message), a # <<>>
  PROVE  /\ Head(a) \in Message
         /\ Tail(a) \in Seq(Message)
         /\ a = <<Head(a)>> \o Tail(a)
         /\ Len(Tail(a)) = Len(a) - 1
<1>1. Len(a) > 0 /\ Len(a) \in Nat
  BY EmptySeq, LenProperties
<1>2. Head(a) \in Message /\ Tail(a) \in Seq(Message) /\ Len(Tail(a)) = Len(a) - 1
  BY <1>1, HeadTailProperties
<1>3. a = <<Head(a)>> \o Tail(a)
  <2>1. <<Head(a)>> \in Seq(Message)
    BY <1>2
  <2>2. /\ Len(<<Head(a)>> \o Tail(a)) = Len(a)
        /\ <<Head(a)>> \o Tail(a) \in Seq(Message)
    BY <1>1, <1>2, <2>1, ConcatProperties
  <2>3. \A i \in 1 .. Len(a) : (<<Head(a)>> \o Tail(a))[i] = a[i]
    BY <1>1, <1>2
  <2> QED
    BY <2>2, <2>3, SeqEqual
<1> QED
  BY <1>2, <1>3
-----------------------------------------------------------------------------
(* Type correctness *)

\* The types of the sequences, as sequences of messages.
LEMMA Types ==
  ASSUME TypeOK
  PROVE  /\ queue \in Seq(Message) /\ accepted \in Seq(Message)
         /\ applied \in Seq(Message) /\ batch \in Seq(Message)
         /\ applied \o batch \in Seq(Message)
         /\ Mark \in Seq(Message)
         /\ applied \o batch \o Mark \in Seq(Message)
<1>1. /\ queue \in Seq(Message) /\ accepted \in Seq(Message)
      /\ applied \in Seq(Message) /\ batch \in Seq(Message)
  BY Messages DEF TypeOK
<1>2. Mark \in Seq(Message)
  BY Messages, AppendOne DEF Mark
<1> QED
  BY <1>1, <1>2, Concat

\* The initial state.
LEMMA LifecycleInitially == Init => LifecycleInv
<1> SUFFICES ASSUME Init PROVE LifecycleInv
  OBVIOUS
<1>1. TypeOK
  <2>1. handle \in [Writers -> {"none", "live", "sending", "dropping", "gone"}]
    BY DEF Init
  <2>2. sent \in [Writers -> Nat] /\ \A w \in Writers : sent[w] <= MaxSends[w]
    BY LifecycleAssumption DEF Init
  <2>3. queue = <<>> /\ Len(queue) = 0 /\ <<>> \in Seq(Writes)
    BY EmptySeq DEF Init
  <2>4. /\ pc = "replay" /\ batch = <<>> /\ tries \in 0 .. BatchSize
        /\ stopSeen = FALSE /\ applied = <<>> /\ flag = FALSE /\ compactor = "none"
        /\ routed = TRUE /\ dispatcher = "up" /\ accepted = <<>>
        /\ Len(queue) <= Capacity
    BY <2>3, LifecycleAssumption DEF Init
  <2> QED
    BY <2>1, <2>2, <2>3, <2>4, Messages DEF TypeOK
<1>2. LoopOK
  BY DEF Init, LoopOK
<1>3. InOrder
  BY Messages, Concat DEF Init, InOrder, Stopping
<1> QED
  BY <1>1, <1>2, <1>3 DEF LifecycleInv

\* What a push does, whoever it is that pushes.
LEMMA PushInv ==
  ASSUME LifecycleInv, NEW msg \in Message, Push(msg), UNCHANGED threadVars
  PROVE  /\ queue' \in Seq(Message) /\ Len(queue') <= Capacity
         /\ accepted' \in Seq(Message)
         /\ InOrder'
<1> DEFINE taken == applied \o batch \o Mark
<1>1. /\ queue \in Seq(Message) /\ accepted \in Seq(Message)
      /\ taken \in Seq(Message)
      /\ Len(queue) \in Nat
  BY Types, LenProperties DEF LifecycleInv
<1>2. /\ queue' = queue \o <<msg>> /\ queue' \in Seq(Message)
      /\ Len(queue') = Len(queue) + 1
      /\ accepted' = accepted \o <<msg>> /\ accepted' \in Seq(Message)
      /\ <<msg>> \in Seq(Message)
  BY <1>1, AppendOne DEF Push
<1>3. Len(queue') <= Capacity
  BY <1>1, <1>2, LifecycleAssumption DEF Push, Room
<1>4. accepted = taken \o queue
  BY DEF LifecycleInv, InOrder, Mark
<1>5. UNCHANGED <<applied, batch, pc, stopSeen>>
  BY DEF threadVars
<1>6. taken' = taken
  BY <1>5 DEF Mark, Stopping
<1>7. accepted' = taken \o queue'
  <2> HIDE DEF taken
  <2>1. (taken \o queue) \o <<msg>> = taken \o (queue \o <<msg>>)
    BY <1>1, <1>2, Concat
  <2> QED
    BY <2>1, <1>2, <1>4, Zenon
<1>8. pc' \in {"stop", "notify", "join", "exited"} => batch' = <<>>
  BY <1>5 DEF LifecycleInv, InOrder
<1>9. accepted' = applied' \o batch' \o Mark' \o queue'
  BY <1>6, <1>7, Zenon
<1> QED
  BY <1>2, <1>3, <1>8, <1>9 DEF InOrder, Mark

\* The steps of a handle.
LEMMA WriterInv ==
  ASSUME LifecycleInv, NEW w \in Writers, WriterNext(w)
  PROVE  LifecycleInv'
<1> USE DEF LifecycleInv, LoopOK, handleVars, dispatcherVars
<1>1. UNCHANGED threadVars
  BY DEF WriterNext, NewHandle, Send, SendOk, TrySend, Drop, Dropped
<1>t. UNCHANGED <<pc, batch, tries, stopSeen, applied, flag>>
  BY <1>1 DEF threadVars
<1>2. ASSUME UNCHANGED <<queue, accepted>>
      PROVE  /\ queue' \in Seq(Message) /\ Len(queue') <= Capacity
             /\ accepted' \in Seq(Message)
             /\ InOrder'
  BY <1>2, <1>t DEF TypeOK, InOrder, Stopping
<1>3. sent[w] \in Nat /\ MaxSends[w] \in Nat
  BY LifecycleAssumption DEF TypeOK
<1>4. CASE NewHandle(w)
  BY <1>4, <1>t, <1>2 DEF NewHandle, TypeOK
<1>5. CASE Send(w)
  BY <1>5, <1>t, <1>2, <1>3, LifecycleAssumption DEF Send, TypeOK
<1>6. CASE SendOk(w)
  <2>1. <<w, sent[w]>> \in Message
    BY <1>3, <1>6, Messages DEF SendOk, TypeOK, Message
  <2>2. /\ queue' \in Seq(Message) /\ Len(queue') <= Capacity
        /\ accepted' \in Seq(Message)
        /\ InOrder'
    BY <1>1, <1>6, <2>1, PushInv DEF SendOk
  <2> QED
    BY <1>6, <1>t, <2>2 DEF SendOk, TypeOK
<1>7. CASE TrySend(w)
  <2>1. /\ sent' = [sent EXCEPT ![w] = sent[w] + 1]
        /\ sent[w] < MaxSends[w]
        /\ UNCHANGED <<handle, routed, dispatcher, compactor>>
    BY <1>7 DEF TrySend
  <2>2. sent'[w] = sent[w] + 1
    BY <2>1 DEF TypeOK
  <2>3. <<w, sent[w] + 1>> \in Message
    BY <1>3, <2>1, Messages DEF Message
  <2>4. Push(<<w, sent[w] + 1>>) \/ UNCHANGED <<queue, accepted>>
    BY <1>7, <2>2 DEF TrySend
  <2>5. /\ queue' \in Seq(Message) /\ Len(queue') <= Capacity
        /\ accepted' \in Seq(Message)
        /\ InOrder'
    BY <1>1, <1>2, <2>3, <2>4, PushInv
  <2>6. /\ sent' \in [Writers -> Nat]
        /\ \A v \in Writers : sent'[v] <= MaxSends[v] /\ sent'[v] >= sent[v]
    BY <1>3, <2>1, LifecycleAssumption DEF TypeOK
  <2>7. \A v \in Writers : handle'[v] = "sending" => sent'[v] > 0
    BY <2>1, <2>6 DEF TypeOK
  <2> QED
    BY <1>t, <2>1, <2>5, <2>6, <2>7 DEF TypeOK
<1>8. CASE Drop(w)
  BY <1>8, <1>t, <1>2 DEF Drop, TypeOK
<1>9. CASE Dropped(w)
  <2>1. /\ queue' \in Seq(Message) /\ Len(queue') <= Capacity
        /\ accepted' \in Seq(Message)
        /\ InOrder'
    BY <1>1, <1>9, Messages, PushInv DEF Dropped
  <2> QED
    BY <1>9, <1>t, <2>1 DEF Dropped, TypeOK
<1> QED
  BY <1>4, <1>5, <1>6, <1>7, <1>8, <1>9 DEF WriterNext

\* The steps of the dispatcher.
LEMMA DispatcherInv ==
  ASSUME LifecycleInv, DispatcherNext
  PROVE  LifecycleInv'
<1> USE DEF LifecycleInv, LoopOK, handleVars
<1>1. UNCHANGED threadVars /\ UNCHANGED <<handle, sent, compactor>>
  BY DEF DispatcherNext, Replace, DropDispatcher, PushShutdowns, JoinThreads
<1>t. UNCHANGED <<pc, batch, tries, stopSeen, applied, flag>>
  BY <1>1 DEF threadVars
<1>2. \/ Push(Shutdown)
      \/ UNCHANGED <<queue, accepted>>
  BY DEF DispatcherNext, Replace, DropDispatcher, PushShutdowns, JoinThreads
<1>3. /\ queue' \in Seq(Message) /\ Len(queue') <= Capacity
      /\ accepted' \in Seq(Message)
      /\ InOrder'
  <2>1. CASE Push(Shutdown)
    BY <1>1, <2>1, Messages, PushInv
  <2>2. CASE UNCHANGED <<queue, accepted>>
    BY <1>t, <2>2 DEF TypeOK, InOrder, Stopping
  <2> QED
    BY <1>2, <2>1, <2>2
<1>4. routed' \in BOOLEAN /\ dispatcher' \in {"up", "pushing", "joining", "gone"}
  BY DEF TypeOK, DispatcherNext, Replace, DropDispatcher, DropFirst, PushShutdowns,
     JoinThreads
<1> QED
  BY <1>1, <1>t, <1>3, <1>4 DEF TypeOK

\* The steps of the compaction thread.
LEMMA CompactorInv ==
  ASSUME LifecycleInv, CompactorNext
  PROVE  LifecycleInv'
<1>1. /\ UNCHANGED <<queue, accepted, handle, sent, routed, dispatcher>>
      /\ UNCHANGED <<pc, batch, tries, stopSeen, applied, flag>>
      /\ compactor' \in {"running", "waiting", "gone", "compacting"}
  BY DEF CompactorNext, CompactorWait, CompactorWake, CompactorDone, threadVars,
     handleVars, dispatcherVars
<1> QED
  BY <1>1 DEF LifecycleInv, TypeOK, LoopOK, InOrder, Stopping
\* The thread takes the head of the queue: what it had, then that, then the rest.
LEMMA TakeOne ==
  ASSUME LifecycleInv, queue # <<>>
  PROVE  /\ Head(queue) \in Message
         /\ <<Head(queue)>> \in Seq(Message)
         /\ Tail(queue) \in Seq(Message)
         /\ Len(Tail(queue)) <= Capacity
         /\ ~Stopping => accepted = (applied \o batch) \o (<<Head(queue)>> \o Tail(queue))
<1>1. /\ queue \in Seq(Message) /\ Len(queue) <= Capacity /\ Len(queue) \in Nat
      /\ applied \o batch \in Seq(Message)
  BY Types, LenProperties DEF LifecycleInv, TypeOK
<1>2. /\ Head(queue) \in Message
      /\ Tail(queue) \in Seq(Message)
      /\ queue = <<Head(queue)>> \o Tail(queue)
      /\ Len(Tail(queue)) = Len(queue) - 1
  BY <1>1, HeadTail
<1>3. ASSUME ~Stopping
      PROVE  accepted = (applied \o batch) \o queue
  BY <1>1, <1>3, Concat DEF LifecycleInv, InOrder
<1> QED
  BY <1>1, <1>2, <1>3, AppendOne, LifecycleAssumption

\* recv takes a command.
LEMMA RecvInv ==
  ASSUME LifecycleInv, Recv
  PROVE  LifecycleInv'
<1>1. /\ pc = "recv" /\ queue # <<>> /\ queue' = Tail(queue) /\ tries' = 0
      /\ UNCHANGED <<stopSeen, applied, flag, compactor, handle, sent, routed,
                     dispatcher, accepted>>
  BY DEF Recv, handleVars, dispatcherVars
<1>2. batch = <<>> /\ ~stopSeen /\ ~Stopping
  BY <1>1 DEF LifecycleInv, LoopOK, Stopping
<1>3. /\ Head(queue) \in Message
      /\ <<Head(queue)>> \in Seq(Message)
      /\ Tail(queue) \in Seq(Message)
      /\ Len(Tail(queue)) <= Capacity
      /\ accepted = (applied \o batch) \o (<<Head(queue)>> \o Tail(queue))
  BY <1>1, <1>2, TakeOne
<1>4. applied \in Seq(Message) /\ applied \o batch = applied
  BY <1>2, Types, Concat DEF LifecycleInv
<1>5. accepted = applied \o <<Head(queue)>> \o Tail(queue)
  BY <1>3, <1>4, Concat
<1>6. CASE Head(queue) = Shutdown /\ pc' = "stop" /\ batch' = batch
  <2>1. Mark' = <<Head(queue)>>
    BY <1>6 DEF Mark, Stopping
  <2>2. applied' \o batch' \o Mark' \o queue' = applied \o <<Head(queue)>> \o Tail(queue)
    BY <1>1, <1>4, <1>6, <2>1
  <2>3. InOrder'
    BY <1>1, <1>2, <1>5, <1>6, <2>2 DEF InOrder, Mark
  <2>4. TypeOK'
    BY <1>1, <1>3, <1>6, LifecycleAssumption DEF LifecycleInv, TypeOK
  <2>5. LoopOK'
    BY <1>1, <1>2, <1>6 DEF LifecycleInv, LoopOK
  <2> QED
    BY <2>3, <2>4, <2>5 DEF LifecycleInv
<1>7. CASE Head(queue) # Shutdown /\ pc' = "drain" /\ batch' = <<Head(queue)>>
  <2>1. Head(queue) \in Writes
    BY <1>3, <1>7, Messages
  <2>2. batch' \in Seq(Writes)
    <3> DEFINE h == Head(queue)
    <3>1. h \in Writes /\ batch' = <<h>>
      BY <1>7, <2>1
    <3> HIDE DEF h
    <3> QED
      BY <3>1
  <2>3. Mark' = <<>>
    BY <1>1, <1>2, <1>7 DEF Mark, Stopping
  <2>4. applied' \o batch' \o Mark' \o queue' = applied \o <<Head(queue)>> \o Tail(queue)
    <3>1. applied \o <<Head(queue)>> \o <<>> = applied \o <<Head(queue)>>
      BY <1>3, <1>4, Concat
    <3> QED
      BY <1>1, <1>7, <2>3, <3>1
  <2>5. InOrder'
    BY <1>1, <1>5, <1>7, <2>4 DEF InOrder, Mark
  <2>6. TypeOK'
    BY <1>1, <1>3, <1>7, <2>2, LifecycleAssumption DEF LifecycleInv, TypeOK
  <2>7. LoopOK'
    BY <1>1, <1>2, <1>7 DEF LifecycleInv, LoopOK
  <2> QED
    BY <2>5, <2>6, <2>7 DEF LifecycleInv
<1> QED
  BY <1>6, <1>7 DEF Recv

\* The drain loop takes a command.
LEMMA DrainLoopInv ==
  ASSUME LifecycleInv, DrainOne
  PROVE  LifecycleInv'
<1>1. /\ pc = "drain" /\ queue # <<>> /\ queue' = Tail(queue)
      /\ tries < BatchSize /\ tries' = tries + 1
      /\ UNCHANGED <<applied, flag, compactor, handle, sent, routed, dispatcher,
                     accepted>>
  BY DEF DrainOne, More, handleVars, dispatcherVars
<1>2. ~stopSeen /\ ~Stopping
  BY <1>1 DEF LifecycleInv, LoopOK, Stopping
<1>3. /\ Head(queue) \in Message
      /\ <<Head(queue)>> \in Seq(Message)
      /\ Tail(queue) \in Seq(Message)
      /\ Len(Tail(queue)) <= Capacity
      /\ accepted = (applied \o batch) \o (<<Head(queue)>> \o Tail(queue))
  BY <1>1, <1>2, TakeOne
<1>4. /\ applied \in Seq(Message) /\ batch \in Seq(Message)
      /\ applied \o batch \in Seq(Message)
      /\ tries' \in 0 .. BatchSize
  BY <1>1, Types, LifecycleAssumption DEF LifecycleInv, TypeOK
<1>5. accepted = applied \o batch \o <<Head(queue)>> \o Tail(queue)
  BY <1>3, <1>4, Concat
<1>6. CASE Head(queue) = Shutdown /\ stopSeen' = TRUE /\ pc' = "apply" /\ batch' = batch
  <2>1. Mark' = <<Head(queue)>>
    BY <1>6 DEF Mark, Stopping
  <2>2. InOrder'
    BY <1>1, <1>5, <1>6, <2>1 DEF InOrder, Mark
  <2>3. TypeOK'
    BY <1>1, <1>3, <1>4, <1>6 DEF LifecycleInv, TypeOK
  <2>4. LoopOK'
    BY <1>1, <1>6 DEF LifecycleInv, LoopOK
  <2> QED
    BY <2>2, <2>3, <2>4 DEF LifecycleInv
<1>7. CASE Head(queue) # Shutdown /\ batch' = Append(batch, Head(queue))
           /\ UNCHANGED <<stopSeen, pc>>
  <2>1. Head(queue) \in Writes
    BY <1>3, <1>7, Messages
  <2>2. batch' \in Seq(Writes) /\ batch' = batch \o <<Head(queue)>>
    <3>1. batch \in Seq(Writes)
      BY DEF LifecycleInv, TypeOK
    <3>2. Append(batch, Head(queue)) \in Seq(Writes)
      BY <2>1, <3>1, AppendProperties
    <3> QED
      BY <1>3, <1>4, <1>7, <3>2, AppendOne
  <2>3. Mark' = <<>>
    BY <1>2, <1>7 DEF Mark, Stopping
  <2>4. applied \o batch' \o <<>> = applied \o batch \o <<Head(queue)>>
    <3>1. applied \o batch' = applied \o batch \o <<Head(queue)>>
      BY <1>3, <1>4, <2>2, Concat
    <3>2. applied \o batch' \in Seq(Message)
      BY <1>4, <2>2, Messages, Concat
    <3> QED
      BY <3>1, <3>2, Concat
  <2>5. InOrder'
    BY <1>1, <1>5, <1>7, <2>3, <2>4 DEF InOrder, Mark
  <2>6. TypeOK'
    BY <1>1, <1>3, <1>4, <1>7, <2>2 DEF LifecycleInv, TypeOK
  <2>7. LoopOK'
    BY <1>1, <1>7 DEF LifecycleInv, LoopOK
  <2> QED
    BY <2>5, <2>6, <2>7 DEF LifecycleInv
<1> QED
  BY <1>6, <1>7 DEF DrainOne, Extended, OnShutdown

\* The batch is logged and applied.
LEMMA ApplyInv ==
  ASSUME LifecycleInv, Apply
  PROVE  LifecycleInv'
<1>1. /\ pc = "apply" /\ applied' = applied \o batch /\ batch' = <<>>
      /\ pc' = IF stopSeen THEN "stop" ELSE "recv"
      /\ UNCHANGED <<queue, tries, stopSeen, flag, compactor, handle, sent, routed,
                     dispatcher, accepted>>
  BY DEF Apply, AfterBatch, handleVars, dispatcherVars
<1>2. Mark' = Mark
  BY <1>1 DEF Mark, Stopping
<1>3. applied' \o batch' = applied \o batch
  BY <1>1, Types, Concat DEF LifecycleInv
<1>4. InOrder'
  BY <1>1, <1>2, <1>3 DEF LifecycleInv, InOrder, Mark
<1>5. applied' \in Seq(Writes) /\ batch' \in Seq(Writes)
  <2>1. applied \in Seq(Writes) /\ batch \in Seq(Writes)
    BY DEF LifecycleInv, TypeOK
  <2> QED
    BY <1>1, <2>1, ConcatProperties, EmptySeq
<1>6. TypeOK'
  BY <1>1, <1>5 DEF LifecycleInv, TypeOK
<1>7. LoopOK'
  BY <1>1 DEF LifecycleInv, LoopOK
<1> QED
  BY <1>4, <1>6, <1>7 DEF LifecycleInv

\* The other steps of the thread.
LEMMA ThreadInv ==
  ASSUME LifecycleInv, ThreadNext
  PROVE  LifecycleInv'
<1> USE DEF handleVars, dispatcherVars
<1>1. ASSUME UNCHANGED <<queue, batch, stopSeen, applied, handle, sent, routed,
                         dispatcher, accepted>>,
             pc' \in {"recv", "drain", "apply", "stop", "notify", "join", "exited"},
             Stopping' = Stopping,
             pc' \in {"stop", "notify", "join", "exited"} => pc \notin {"drain", "apply"},
             pc' = "recv" => pc = "replay",
             pc' = "drain" => pc = "drain",
             tries' \in 0 .. BatchSize, flag' \in BOOLEAN,
             compactor' \in {"none", "running", "waiting", "woken", "compacting", "gone"}
      PROVE  LifecycleInv'
  <2>1. TypeOK'
    BY <1>1 DEF LifecycleInv, TypeOK
  <2>2. LoopOK'
    BY <1>1 DEF LifecycleInv, LoopOK
  <2>3. InOrder'
    BY <1>1 DEF LifecycleInv, InOrder, LoopOK
  <2> QED
    BY <2>1, <2>2, <2>3 DEF LifecycleInv
<1>2. CASE Start
  BY <1>1, <1>2 DEF Start, Stopping, LifecycleInv, TypeOK, LoopOK
<1>3. CASE DrainNone
  BY <1>1, <1>3, LifecycleAssumption DEF DrainNone, More, Stopping, LifecycleInv, TypeOK, LoopOK
<1>4. CASE DrainEnd
  BY <1>1, <1>4 DEF DrainEnd, Stopping, LifecycleInv, TypeOK, LoopOK
<1>5. CASE SetFlag
  BY <1>1, <1>5 DEF SetFlag, Stopping, LifecycleInv, TypeOK, LoopOK
<1>6. CASE Notify
  BY <1>1, <1>6 DEF Notify, Stopping, LifecycleInv, TypeOK, LoopOK
<1>7. CASE Join
  BY <1>1, <1>7 DEF Join, Stopping, LifecycleInv, TypeOK, LoopOK
<1> QED
  BY <1>2, <1>3, <1>4, <1>5, <1>6, <1>7, RecvInv, DrainLoopInv, ApplyInv DEF ThreadNext
-----------------------------------------------------------------------------
\* Every step keeps the invariant.
LEMMA LifecycleKept == LifecycleInv /\ [Next]_vars => LifecycleInv'
<1> SUFFICES ASSUME LifecycleInv, [Next]_vars PROVE LifecycleInv'
  OBVIOUS
<1>1. CASE UNCHANGED vars
  BY <1>1 DEF vars, threadVars, handleVars, dispatcherVars, LifecycleInv, TypeOK, LoopOK,
     InOrder, Stopping
<1> QED
  BY <1>1, ThreadInv, CompactorInv, DispatcherInv, WriterInv DEF Next

\* The variables have their types, the queue never holds more than its capacity
\* and no writer sends more than it may, whatever threads and handles do
\* (dispatcher.rs, partition.rs run).
THEOREM LifecycleTyped == Spec => []TypeOK
<1>1. LifecycleInv => TypeOK
  BY DEF LifecycleInv
<1> QED
  BY <1>1, LifecycleInitially, LifecycleKept, PTL DEF Spec

\* A partition applies the commands its queue accepted in the order it accepted
\* them, each once, none missing before the first Shutdown and none from behind
\* it, with any number of handles sending, being cloned and being dropped and
\* the dispatcher going away at any moment (partition.rs, run).
THEOREM CommandsInOrder == Spec => []InOrder
<1>1. LifecycleInv => InOrder
  BY DEF LifecycleInv
<1> QED
  BY <1>1, LifecycleInitially, LifecycleKept, PTL DEF Spec

-----------------------------------------------------------------------------
(* The ready-made stores *)

\* How many of the commands accepted a partition has taken from its queue.
Taken(part) == Len(part.accepted) - Len(part.queue)

Nothing == [k \in Keys |-> 0]

\* rest is what comes behind the first m of the commands.
Waiting(rest, cmds, m) ==
    /\ m \in Nat /\ m = Len(cmds) - Len(rest)
    /\ \A j \in 1 .. Len(rest) : rest[j] = cmds[m + j]

NoStop(cmds, m) == \A i \in 1 .. m : cmds[i] # Stop

\* What waits is the rest of what was accepted; the data is that of the part
\* taken; the thread runs until a Shutdown is taken.
PartitionOK(part) ==
    /\ Waiting(part.queue, part.accepted, Taken(part))
    /\ part.data = Applied(Nothing, SubSeq(part.accepted, 1, Taken(part)))
    /\ part.running <=> NoStop(part.accepted, Taken(part))

PartitionsOK == \A i \in DOMAIN partitions : PartitionOK(partitions[i])

IsWrite(i, cmds) == i \in DOMAIN cmds /\ cmds[i] # Stop

\* Who is in a call has a write in hand; a store is dropped when nobody is; only
\* a key value store has a writer to drop.
CallersOK ==
    /\ \A c \in Callers : caller[c] # "idle" => inHand[c] \in StoreWrites
    /\ store # "open" => \A c \in Callers : caller[c] = "idle"
    /\ store = "writer" => kind = "kv"

\* The one partition of a key value store: its only Shutdown before the drop of
\* the writer is the last command, and what the drop leaves queued are
\* Shutdowns.
KvStops ==
    kind = "kv" =>
        /\ Len(partitions) = 1 /\ route = 1
        /\ \A c \in Callers : caller[c] # "dropping"
        /\ store \in {"open", "pushing"} =>
              \A i \in DOMAIN partitions[1].accepted : partitions[1].accepted[i] # Stop
        /\ store = "joining" =>
              \A i \in DOMAIN partitions[1].accepted :
                  partitions[1].accepted[i] = Stop => i = Len(partitions[1].accepted)
        /\ store \in {"writer", "gone"} =>
              \A j \in DOMAIN partitions[1].queue : partitions[1].queue[j] = Stop

\* Every write of a key value store has a number of its own.
KvNumbers ==
    kind = "kv" =>
        /\ \A i, j \in DOMAIN partitions[1].accepted :
              /\ IsWrite(i, partitions[1].accepted) /\ IsWrite(j, partitions[1].accepted)
              /\ partitions[1].accepted[i].nr = partitions[1].accepted[j].nr
              => i = j
        /\ \A i \in DOMAIN partitions[1].accepted :
              IsWrite(i, partitions[1].accepted) => partitions[1].accepted[i].nr <= begun
        /\ \A c \in Callers : caller[c] # "idle" =>
              /\ inHand[c].nr <= begun
              /\ \A i \in DOMAIN partitions[1].accepted :
                    IsWrite(i, partitions[1].accepted) =>
                        partitions[1].accepted[i].nr # inHand[c].nr
              /\ \A d \in Callers : caller[d] # "idle" /\ inHand[d].nr = inHand[c].nr
                                        => c = d

\* What a get of a key value store found is a write of the key that was taken.
KvGot ==
    kind = "kv" =>
        \A k \in Keys : got[k] # 0 =>
            \E i \in 1 .. Taken(partitions[1]) :
                /\ partitions[1].accepted[i] # Stop
                /\ partitions[1].accepted[i].key = k
                /\ partitions[1].accepted[i].nr = got[k]

\* The typed cache: one insert at a time, to the last registration, which
\* accepts no other write than that insert.
TypedOK ==
    kind = "typed" =>
        /\ route = Len(partitions)
        /\ \A c, d \in Callers : caller[c] # "idle" /\ caller[d] # "idle" => c = d
        /\ \A c \in Callers :
              /\ caller[c] # "idle" => route # 0
              /\ caller[c] = "sending" => partitions[route].accepted = <<>>
              /\ caller[c] = "dropping" =>
                    \A i \in DOMAIN partitions[route].accepted :
                        IsWrite(i, partitions[route].accepted) =>
                            partitions[route].accepted[i] = inHand[c]
        /\ route # 0 /\ (\A c \in Callers : caller[c] = "idle") =>
              \A i \in DOMAIN partitions[route].accepted :
                  IsWrite(i, partitions[route].accepted) =>
                      partitions[route].accepted[i].nr
                          = returned[partitions[route].accepted[i].key]

\* The inductive invariant.
ClientsInv ==
    ClientsTypeOK /\ PartitionsOK /\ CallersOK /\ KvStops /\ KvNumbers /\ KvGot /\ TypedOK
-----------------------------------------------------------------------------
(* Commands and what they make of the data *)

\* A command that is no Shutdown is a write, and has a key and a number.
LEMMA CommandParts ==
  \A cmd \in Commands : cmd # Stop =>
      cmd \in StoreWrites /\ cmd.key \in Keys /\ cmd.nr \in 1 .. MaxOps
  BY DEF Commands, StoreWrites

\* A Shutdown is no write.
LEMMA StopIsNoWrite == Stop \notin StoreWrites /\ Stop \in Commands
<1>1. \A cmd \in StoreWrites : cmd.op # Stop.op
  BY DEF StoreWrites, Stop
<1> QED
  BY <1>1 DEF Commands

\* The last of some places of a sequence is one of them.
LEMMA LastPlace ==
  ASSUME NEW n \in Nat, NEW S \in SUBSET (1 .. n), S # {}
  PROVE  Max(S) \in S /\ \A i \in S : i <= Max(S)
<1> DEFINE T == {n - i : i \in S}
<1>1. PICK m \in T : \A l \in T : ~ (<<l, m>> \in OpToRel(<, Nat))
  <2>1. T \subseteq Nat
    <3>1. \A i \in S : i \in 1 .. n
      OBVIOUS
    <3> QED
      BY <3>1
  <2>2. T # {}
    OBVIOUS
  <2> HIDE DEF T
  <2> QED
    BY <2>1, <2>2, NatLessThanWellFounded, WFMin
<1>2. PICK x \in S : m = n - x
  OBVIOUS
<1>3. \A y \in S : x >= y
  <2> SUFFICES ASSUME NEW y \in S, ~ (x >= y)
               PROVE  FALSE
    BY Zenon
  <2>1. n - y \in T /\ n - y < m /\ n - y \in Nat /\ m \in Nat
    BY <1>2
  <2>2. <<n - y, m>> \in OpToRel(<, Nat)
    BY <2>1 DEF OpToRel
  <2> QED
    BY <2>1, <2>2, <1>1
<1>4. Max(S) \in S /\ \A y \in S : Max(S) >= y
  BY <1>3, Zenon DEF Max
<1> QED
  BY <1>4

\* The data after some commands, key by key.
LEMMA AppliedIs ==
  ASSUME NEW d, NEW cmds \in Seq(Commands), NEW k \in Keys
  PROVE  /\ WritesOf(cmds, k) = {} => Applied(d, cmds)[k] = d[k]
         /\ \A i \in WritesOf(cmds, k) :
               (\A j \in WritesOf(cmds, k) : j <= i) => Applied(d, cmds)[k] = cmds[i].nr
         /\ WritesOf(cmds, k) # {} =>
               \E i \in WritesOf(cmds, k) : \A j \in WritesOf(cmds, k) : j <= i
<1> DEFINE S == WritesOf(cmds, k)
<1>1. S \in SUBSET (1 .. Len(cmds)) /\ Len(cmds) \in Nat
  BY LenProperties DEF WritesOf
<1>2. Applied(d, cmds)[k] = IF S = {} THEN d[k] ELSE cmds[Max(S)].nr
  BY DEF Applied
<1>3. S # {} => Max(S) \in S /\ \A i \in S : i <= Max(S)
  <2> HIDE DEF S
  <2> QED
    BY <1>1, LastPlace
<1>4. \A i \in S : (\A j \in S : j <= i) => i = Max(S)
  BY <1>1, <1>3
<1> QED
  BY <1>2, <1>3, <1>4

\* Data stays of its type.
LEMMA AppliedType ==
  ASSUME NEW d \in [Keys -> 0 .. MaxOps], NEW cmds \in Seq(Commands)
  PROVE  Applied(d, cmds) \in [Keys -> 0 .. MaxOps]
<1>1. ASSUME NEW k \in Keys
      PROVE  Applied(d, cmds)[k] \in 0 .. MaxOps
  <2>1. CASE WritesOf(cmds, k) = {}
    BY <2>1, AppliedIs
  <2>2. CASE WritesOf(cmds, k) # {}
    <3>1. PICK i \in WritesOf(cmds, k) : \A j \in WritesOf(cmds, k) : j <= i
      BY <2>2, AppliedIs
    <3>2. Applied(d, cmds)[k] = cmds[i].nr
      BY <3>1, AppliedIs
    <3>3. cmds[i] \in Commands /\ cmds[i] # Stop
      BY ElementOfSeq DEF WritesOf
    <3> QED
      BY <3>2, <3>3, CommandParts
  <2> QED
    BY <2>1, <2>2
<1> QED
  BY <1>1 DEF Applied

\* The data of the first m commands, and then what comes up to the n-th, is the
\* data of the first n commands; a Shutdown at the n-th may be left out.
LEMMA AppliedFrom ==
  ASSUME NEW d, NEW all \in Seq(Commands),
         NEW m \in 0 .. Len(all), NEW n \in m .. Len(all),
         NEW more \in Seq(Commands),
         \/ Len(more) = n - m
         \/ m < n /\ Len(more) = (n - m) - 1 /\ all[n] = Stop,
         \A i \in 1 .. Len(more) : more[i] = all[m + i]
  PROVE  Applied(Applied(d, SubSeq(all, 1, m)), more) = Applied(d, SubSeq(all, 1, n))
<1> DEFINE a == SubSeq(all, 1, m)
           b == SubSeq(all, 1, n)
<1>1. /\ Len(all) \in Nat /\ Len(more) \in Nat
      /\ \A i \in 1 .. Len(all) : all[i] \in Commands
  BY LenProperties, ElementOfSeq
<1>2. /\ a \in Seq(Commands) /\ Len(a) = m /\ DOMAIN a = 1 .. m
      /\ \A i \in 1 .. m : a[i] = all[i]
  BY <1>1, SubSeqProperties
<1>3. /\ b \in Seq(Commands) /\ Len(b) = n /\ DOMAIN b = 1 .. n
      /\ \A i \in 1 .. n : b[i] = all[i]
  BY <1>1, SubSeqProperties
<1>4. DOMAIN more = 1 .. Len(more)
  BY LenProperties
<1> HIDE DEF a, b
<1>5. ASSUME NEW k \in Keys
      PROVE  Applied(Applied(d, a), more)[k] = Applied(d, b)[k]
  <2>1. ASSUME NEW i \in 1 .. Len(more)
        PROVE  i \in WritesOf(more, k) <=> m + i \in WritesOf(b, k)
    <3>1. i \in DOMAIN more /\ m + i \in DOMAIN b /\ more[i] = b[m + i]
      BY <1>1, <1>3, <1>4
    <3> QED
      BY <3>1 DEF WritesOf
  <2>2. ASSUME NEW i \in 1 .. m
        PROVE  i \in WritesOf(a, k) <=> i \in WritesOf(b, k)
    <3>1. i \in DOMAIN a /\ i \in DOMAIN b /\ a[i] = b[i]
      BY <1>1, <1>2, <1>3
    <3> QED
      BY <3>1 DEF WritesOf
  <2>3. \A i \in WritesOf(b, k) : i \in 1 .. n /\ (i = n => all[n] # Stop)
    BY <1>1, <1>3 DEF WritesOf
  <2>4. WritesOf(more, k) \subseteq 1 .. Len(more) /\ WritesOf(a, k) \subseteq 1 .. m
    BY <1>2, <1>4 DEF WritesOf
  <2>5. \A i \in WritesOf(b, k) : i \in 1 .. m \/ i - m \in 1 .. Len(more)
    BY <2>3, <1>1
  <2>6. CASE WritesOf(more, k) # {}
    <3>1. PICK i \in WritesOf(more, k) : \A j \in WritesOf(more, k) : j <= i
      BY <2>6, AppliedIs
    <3>2. m + i \in WritesOf(b, k)
      BY <2>1, <2>4
    <3>3. ASSUME NEW j \in WritesOf(b, k)
          PROVE  j <= m + i
      <4>1. CASE j \in 1 .. m
        BY <4>1, <2>4
      <4>2. CASE j - m \in 1 .. Len(more)
        <5>1. m + (j - m) = j
          BY <2>3
        <5>2. j - m \in WritesOf(more, k)
          BY <4>2, <5>1, <2>1
        <5> QED
          BY <5>2, <3>1, <2>3, <2>4
      <4> QED
        BY <4>1, <4>2, <2>5
    <3>4. Applied(d, b)[k] = b[m + i].nr
      BY <3>2, <3>3, <1>3, AppliedIs
    <3>5. Applied(Applied(d, a), more)[k] = more[i].nr
      BY <3>1, AppliedIs
    <3>6. b[m + i] = more[i]
      BY <3>2, <2>3, <2>4, <1>3
    <3> QED
      BY <3>4, <3>5, <3>6
  <2>7. CASE WritesOf(more, k) = {}
    <3>1. Applied(Applied(d, a), more)[k] = Applied(d, a)[k]
      BY <2>7, AppliedIs
    <3>2. WritesOf(b, k) = WritesOf(a, k)
      <4>1. ASSUME NEW i \in WritesOf(b, k)
            PROVE  i \in 1 .. m
        <5>1. ASSUME i - m \in 1 .. Len(more)
              PROVE  FALSE
          <6>1. m + (i - m) = i
            BY <2>3
          <6> QED
            BY <6>1, <5>1, <2>1, <2>7
        <5> QED
          BY <5>1, <2>5
      <4> QED
        BY <4>1, <2>2, <2>4
    <3>3. \A i \in WritesOf(a, k) : a[i] = b[i]
      BY <2>4, <1>2, <1>3
    <3>4. CASE WritesOf(a, k) = {}
      BY <3>1, <3>2, <3>4, <1>2, <1>3, AppliedIs
    <3>5. CASE WritesOf(a, k) # {}
      <4>1. PICK i \in WritesOf(a, k) : \A j \in WritesOf(a, k) : j <= i
        BY <3>5, <1>2, AppliedIs
      <4>2. Applied(d, a)[k] = a[i].nr
        BY <4>1, <1>2, AppliedIs
      <4>3. Applied(d, b)[k] = b[i].nr
        BY <4>1, <3>2, <1>3, AppliedIs
      <4> QED
        BY <4>2, <4>3, <3>1, <3>3
    <3> QED
      BY <3>4, <3>5
  <2> QED
    BY <2>6, <2>7
<1>6. Applied(Applied(d, a), more) = Applied(d, b)
  <2>1. /\ DOMAIN Applied(Applied(d, a), more) = Keys
        /\ DOMAIN Applied(d, b) = Keys
        /\ Applied(Applied(d, a), more) = [k \in Keys |-> Applied(Applied(d, a), more)[k]]
        /\ Applied(d, b) = [k \in Keys |-> Applied(d, b)[k]]
    BY DEF Applied
  <2> QED
    BY <1>5, <2>1
<1> QED
  BY <1>6 DEF a, b
-----------------------------------------------------------------------------
(* One partition *)

\* The types of what the lemmas below speak of.
LEMMA PartitionParts ==
  ASSUME NEW part \in Partition
  PROVE  /\ part.queue \in Seq(Commands) /\ Len(part.queue) \in Nat
         /\ DOMAIN part.queue = 1 .. Len(part.queue)
         /\ part.accepted \in Seq(Commands) /\ Len(part.accepted) \in Nat
         /\ DOMAIN part.accepted = 1 .. Len(part.accepted)
         /\ part.data \in [Keys -> 0 .. MaxOps]
         /\ part.running \in BOOLEAN
         /\ \A i \in 1 .. Len(part.queue) : part.queue[i] \in Commands
         /\ \A i \in 1 .. Len(part.accepted) : part.accepted[i] \in Commands
<1>1. part.queue \in Seq(Commands) /\ part.accepted \in Seq(Commands)
      /\ part.data \in [Keys -> 0 .. MaxOps] /\ part.running \in BOOLEAN
  BY DEF Partition
<1> QED
  BY <1>1, LenProperties, ElementOfSeq

\* A new partition has nothing and runs.
LEMMA NewOK ==
  ASSUME ClientsConstants
  PROVE  /\ NewPartition \in Partition /\ PartitionOK(NewPartition)
         /\ NewPartition.queue = <<>> /\ NewPartition.accepted = <<>>
<1>1. <<>> \in Seq(Commands) /\ Len(<<>>) = 0
  BY EmptySeq
<1>2. Nothing \in [Keys -> 0 .. MaxOps]
  BY DEF Nothing, ClientsConstants
<1>3. /\ NewPartition \in Partition /\ NewPartition.queue = <<>>
      /\ NewPartition.accepted = <<>> /\ NewPartition.data = Nothing
      /\ NewPartition.running = TRUE
  BY <1>1, <1>2 DEF NewPartition, Partition, Nothing
<1>4. Taken(NewPartition) = 0
  BY <1>1, <1>3 DEF Taken
<1>5. SubSeq(NewPartition.accepted, 1, 0) = <<>>
  BY <1>3
<1>6. \A k \in Keys : WritesOf(<<>>, k) = {}
  BY DEF WritesOf
<1>7. Applied(Nothing, <<>>) = Nothing
  BY <1>6 DEF Applied, Nothing
<1>8. PartitionOK(NewPartition)
  <2>1. Waiting(NewPartition.queue, NewPartition.accepted, Taken(NewPartition))
    BY <1>1, <1>3, <1>4 DEF Waiting
  <2>2. NewPartition.data = Applied(Nothing, SubSeq(NewPartition.accepted, 1, Taken(NewPartition)))
    BY <1>3, <1>4, <1>5, <1>7, Zenon
  <2>3. NoStop(NewPartition.accepted, Taken(NewPartition))
    BY <1>4 DEF NoStop
  <2> QED
    BY <1>3, <2>1, <2>2, <2>3, Zenon DEF PartitionOK
<1> QED
  BY <1>3, <1>8

\* A push adds to what waits and to what was accepted.
LEMMA PushOK ==
  ASSUME NEW part \in Partition, PartitionOK(part), NEW cmd \in Commands, NEW next,
         next = [part EXCEPT !.queue = Append(@, cmd), !.accepted = Append(@, cmd)]
  PROVE  /\ next \in Partition /\ PartitionOK(next)
         /\ Len(next.queue) = Len(part.queue) + 1
         /\ Taken(next) = Taken(part) /\ Taken(part) \in 0 .. Len(part.accepted)
         /\ next.queue = Append(part.queue, cmd)
         /\ next.accepted = Append(part.accepted, cmd)
         /\ next.data = part.data
<1> DEFINE q == part.queue
           a == part.accepted
           m == Taken(part)
<1>1. /\ q \in Seq(Commands) /\ Len(q) \in Nat
      /\ a \in Seq(Commands) /\ Len(a) \in Nat
      /\ part.data \in [Keys -> 0 .. MaxOps] /\ part.running \in BOOLEAN
  BY PartitionParts
<1>2. /\ next.queue = Append(q, cmd) /\ next.accepted = Append(a, cmd)
      /\ next.data = part.data /\ next.running = part.running
      /\ next = [queue |-> Append(q, cmd), accepted |-> Append(a, cmd),
                 data |-> part.data, running |-> part.running]
  BY DEF Partition
<1>3. /\ Append(q, cmd) \in Seq(Commands) /\ Len(Append(q, cmd)) = Len(q) + 1
      /\ Append(q, cmd)[Len(q) + 1] = cmd
      /\ \A i \in 1 .. Len(q) : Append(q, cmd)[i] = q[i]
  BY <1>1, AppendProperties
<1>4. /\ Append(a, cmd) \in Seq(Commands) /\ Len(Append(a, cmd)) = Len(a) + 1
      /\ Append(a, cmd)[Len(a) + 1] = cmd
      /\ \A i \in 1 .. Len(a) : Append(a, cmd)[i] = a[i]
  BY <1>1, AppendProperties
<1>5. next \in Partition
  BY <1>1, <1>2, <1>3, <1>4 DEF Partition
<1>6. /\ Waiting(q, a, m)
      /\ part.data = Applied(Nothing, SubSeq(a, 1, m))
      /\ part.running <=> NoStop(a, m)
  BY DEF PartitionOK
<1> HIDE DEF q, a, m
<1>7. m = Len(a) - Len(q) /\ m \in Nat /\ m \in 0 .. Len(a)
  BY <1>1, <1>6 DEF Waiting
<1>8. \A i \in 1 .. m : Append(a, cmd)[i] = a[i]
  BY <1>1, <1>4, <1>7
<1>9. SubSeq(Append(a, cmd), 1, m) = SubSeq(a, 1, m)
  BY <1>8, <1>7
<1>10. Taken(next) = m
  BY <1>1, <1>2, <1>3, <1>4, <1>7 DEF Taken
<1>11. Waiting(Append(q, cmd), Append(a, cmd), m)
  <2>1. ASSUME NEW j \in 1 .. Len(q) + 1
        PROVE  Append(q, cmd)[j] = Append(a, cmd)[m + j]
    <3>1. CASE j = Len(q) + 1
      <4>1. m + j = Len(a) + 1
        BY <3>1, <1>1, <1>7
      <4> QED
        BY <3>1, <4>1, <1>3, <1>4
    <3>2. CASE j \in 1 .. Len(q)
      <4>1. m + j \in 1 .. Len(a) /\ q[j] = a[m + j]
        BY <3>2, <1>1, <1>6, <1>7 DEF Waiting
      <4> QED
        BY <3>2, <4>1, <1>3, <1>4
    <3>3. j = Len(q) + 1 \/ j \in 1 .. Len(q)
      BY <1>1
    <3> QED
      BY <3>1, <3>2, <3>3
  <2>2. m = Len(Append(a, cmd)) - Len(Append(q, cmd)) /\ m \in Nat
    BY <1>1, <1>3, <1>4, <1>7
  <2> QED
    BY <2>1, <2>2, <1>3, Zenon DEF Waiting
<1>12. NoStop(Append(a, cmd), m) <=> NoStop(a, m)
  BY <1>8, Zenon DEF NoStop
<1>13. PartitionOK(next)
  BY <1>2, <1>6, <1>9, <1>10, <1>11, <1>12, Zenon DEF PartitionOK
<1> QED
  BY <1>2, <1>3, <1>5, <1>7, <1>10, <1>13 DEF q, a, m

\* A place before the last of m and n places is one of the m or of the n - 1.
LEMMA Below ==
  ASSUME NEW m \in Nat, NEW n \in Nat, NEW i \in 1 .. m + n, i # m + n
  PROVE  i \in 1 .. m \/ i - m \in 1 .. n - 1
  OBVIOUS

\* What is left of a queue, and what becomes of the data, when n more commands
\* are taken.
LEMMA TakeMore ==
  ASSUME NEW q \in Seq(Commands), NEW a \in Seq(Commands), NEW d, NEW m,
         Waiting(q, a, m), NoStop(a, m),
         NEW n \in 1 .. Len(q), NoStop(q, n - 1)
  PROVE  /\ SubSeq(q, n + 1, Len(q)) \in Seq(Commands)
         /\ Len(SubSeq(q, n + 1, Len(q))) = Len(q) - n
         /\ \A j \in 1 .. Len(q) - n : SubSeq(q, n + 1, Len(q))[j] = q[n + j]
         /\ Waiting(SubSeq(q, n + 1, Len(q)), a, m + n)
         /\ Batch(q, n) \in Seq(Commands)
         /\ Applied(Applied(d, SubSeq(a, 1, m)), Batch(q, n))
               = Applied(d, SubSeq(a, 1, m + n))
         /\ q[n] # Stop <=> NoStop(a, m + n)
<1> DEFINE l == IF q[n] = Stop THEN n - 1 ELSE n
           rest == SubSeq(q, n + 1, Len(q))
<1>1. /\ Len(q) \in Nat /\ Len(a) \in Nat /\ n \in Nat /\ 1 <= n /\ n <= Len(q)
      /\ \A i \in 1 .. Len(q) : q[i] \in Commands
  <2>1. Len(q) \in Nat /\ Len(a) \in Nat
    BY LenProperties
  <2> QED
    BY <2>1, ElementOfSeq
<1>2. /\ l \in 0 .. Len(q) /\ l \in {n - 1, n}
      /\ (l = n - 1 => q[n] = Stop)
  BY <1>1
<1>3. Batch(q, n) = SubSeq(q, 1, l)
  BY DEF Batch
<1>4. /\ m \in Nat /\ m = Len(a) - Len(q) /\ m + n <= Len(a)
      /\ \A j \in 1 .. Len(q) : q[j] = a[m + j]
  BY <1>1 DEF Waiting
<1> HIDE DEF l
<1>5. /\ Batch(q, n) \in Seq(Commands) /\ Len(Batch(q, n)) = l
      /\ \A i \in 1 .. l : Batch(q, n)[i] = q[i]
  BY <1>1, <1>2, <1>3, SubSeqProperties
<1>6. /\ rest \in Seq(Commands) /\ Len(rest) = Len(q) - n
      /\ \A i \in 1 .. Len(q) - n : rest[i] = q[n + i]
  <2>1. CASE n = Len(q)
    <3>1. rest = <<>>
      BY <2>1, <1>1
    <3> QED
      BY <3>1, <2>1, <1>1, EmptySeq
  <2>2. CASE n + 1 \in 1 .. Len(q)
    <3>1. /\ rest \in Seq(Commands) /\ Len(rest) = (Len(q) - (n + 1)) + 1
          /\ \A i \in 1 .. Len(rest) : rest[i] = q[((n + 1) + i) - 1]
      BY <1>1, <2>2, SubSeqProperties
    <3>2. (Len(q) - (n + 1)) + 1 = Len(q) - n
      BY <1>1
    <3>3. \A i \in 1 .. Len(q) - n : ((n + 1) + i) - 1 = n + i
      BY <1>1
    <3> QED
      BY <3>1, <3>2, <3>3
  <2> QED
    BY <2>1, <2>2, <1>1
<1> HIDE DEF rest
<1>7. Waiting(rest, a, m + n)
  <2>1. ASSUME NEW j \in 1 .. Len(rest)
        PROVE  rest[j] = a[(m + n) + j]
    <3>1. n + j \in 1 .. Len(q) /\ m + (n + j) = (m + n) + j
      BY <1>1, <1>4, <1>6
    <3>2. rest[j] = q[n + j]
      BY <1>6
    <3> QED
      BY <3>1, <3>2, <1>4
  <2> QED
    BY <2>1, <1>1, <1>4, <1>6 DEF Waiting
<1>8. Applied(Applied(d, SubSeq(a, 1, m)), Batch(q, n)) = Applied(d, SubSeq(a, 1, m + n))
  <2> DEFINE k == m + n
  <2>1. m \in 0 .. Len(a) /\ k \in m .. Len(a)
    BY <1>1, <1>4
  <2>2. a[k] = q[n]
    BY <1>1, <1>4
  <2>3. \/ Len(Batch(q, n)) = k - m
        \/ m < k /\ Len(Batch(q, n)) = (k - m) - 1 /\ a[k] = Stop
    BY <2>2, <1>1, <1>2, <1>4, <1>5
  <2>4. ASSUME NEW i \in 1 .. Len(Batch(q, n))
        PROVE  Batch(q, n)[i] = a[m + i]
    <3>1. i \in 1 .. l /\ i \in 1 .. Len(q)
      BY <1>1, <1>2, <1>5
    <3> QED
      BY <3>1, <1>4, <1>5
  <2> HIDE DEF k
  <2>5. Applied(Applied(d, SubSeq(a, 1, m)), Batch(q, n)) = Applied(d, SubSeq(a, 1, k))
    BY <2>1, <2>3, <2>4, <1>5, AppliedFrom, ZenonT(60)
  <2> QED
    BY <2>5 DEF k
<1>9. q[n] # Stop <=> NoStop(a, m + n)
  <2>1. a[m + n] = q[n] /\ m + n \in 1 .. m + n
    BY <1>1, <1>4
  <2>2. ASSUME NEW i \in 1 .. m + n, i # m + n
        PROVE  a[i] # Stop
    <3>1. CASE i \in 1 .. m
      BY <3>1 DEF NoStop
    <3>2. CASE i - m \in 1 .. n - 1
      <4>1. m + (i - m) = i /\ i - m \in 1 .. Len(q)
        BY <3>2, <1>1, <1>4
      <4>2. q[i - m] # Stop
        BY <3>2 DEF NoStop
      <4> QED
        BY <4>1, <4>2, <1>4
    <3>3. i \in 1 .. m \/ i - m \in 1 .. n - 1
      BY <2>2, <1>1, <1>4, Below, Zenon
    <3> QED
      BY <3>1, <3>2, <3>3
  <2> QED
    BY <2>1, <2>2 DEF NoStop
<1> QED
  BY <1>5, <1>6, <1>7, <1>8, <1>9 DEF rest

\* A partition after the first n messages of its queue.
Drained(part, n) ==
    [queue    |-> SubSeq(part.queue, n + 1, Len(part.queue)),
     accepted |-> part.accepted,
     data     |-> Applied(part.data, Batch(part.queue, n)),
     running  |-> part.queue[n] # Stop]

\* A batch is taken from the queue and applied.
LEMMA DrainOK ==
  ASSUME NEW part \in Partition, PartitionOK(part), part.running,
         NEW n \in 1 .. Len(part.queue), NoStop(part.queue, n - 1)
  PROVE  /\ Drained(part, n) \in Partition /\ PartitionOK(Drained(part, n))
         /\ Len(Drained(part, n).queue) = Len(part.queue) - n
         /\ \A j \in 1 .. Len(Drained(part, n).queue) :
               Drained(part, n).queue[j] = part.queue[n + j]
         /\ Taken(Drained(part, n)) = Taken(part) + n
         /\ Drained(part, n).accepted = part.accepted
<1> DEFINE next == Drained(part, n)
           q == part.queue
           a == part.accepted
           m == Taken(part)
           rest == SubSeq(q, n + 1, Len(q))
<1>1. /\ q \in Seq(Commands) /\ Len(q) \in Nat
      /\ a \in Seq(Commands) /\ Len(a) \in Nat
      /\ part.data \in [Keys -> 0 .. MaxOps]
  BY PartitionParts
<1>2. /\ Waiting(q, a, m) /\ NoStop(a, m)
      /\ part.data = Applied(Nothing, SubSeq(a, 1, m))
  BY DEF PartitionOK
<1>3. /\ next.queue = rest /\ next.accepted = a
      /\ next.data = Applied(part.data, Batch(q, n)) /\ next.running = (q[n] # Stop)
  BY DEF Drained
<1>4. n \in 1 .. Len(q) /\ NoStop(q, n - 1)
  OBVIOUS
<1> HIDE DEF q, a, m
<1>5. /\ rest \in Seq(Commands) /\ Len(rest) = Len(q) - n
      /\ \A j \in 1 .. Len(q) - n : rest[j] = q[n + j]
      /\ Waiting(rest, a, m + n)
      /\ Batch(q, n) \in Seq(Commands)
      /\ Applied(Applied(Nothing, SubSeq(a, 1, m)), Batch(q, n))
            = Applied(Nothing, SubSeq(a, 1, m + n))
      /\ q[n] # Stop <=> NoStop(a, m + n)
  BY <1>1, <1>2, <1>4, TakeMore
<1> HIDE DEF rest
<1>6. next.data = Applied(Nothing, SubSeq(a, 1, m + n))
  BY <1>2, <1>3, <1>5, Zenon
<1>7. next.data \in [Keys -> 0 .. MaxOps]
  BY <1>1, <1>3, <1>5, AppliedType
<1>8. next \in Partition
  <2>1. next = [queue |-> next.queue, accepted |-> next.accepted,
                data |-> next.data, running |-> next.running]
    BY Zenon DEF Drained
  <2>2. next.running \in BOOLEAN
    BY <1>3
  <2> HIDE DEF Commands, next
  <2> QED
    BY <1>1, <1>3, <1>5, <1>7, <2>1, <2>2 DEF Partition
<1>9. Taken(next) = m + n
  <2>1. m + n = Len(a) - Len(rest)
    BY <1>5 DEF Waiting
  <2> QED
    BY <2>1, <1>3, Zenon DEF Taken
<1>10. PartitionOK(next)
  BY <1>3, <1>5, <1>6, <1>9, Zenon DEF PartitionOK
<1> HIDE DEF next
<1>11. /\ next \in Partition /\ PartitionOK(next)
       /\ Len(next.queue) = Len(part.queue) - n
       /\ \A j \in 1 .. Len(next.queue) : next.queue[j] = part.queue[n + j]
       /\ Taken(next) = Taken(part) + n
       /\ next.accepted = part.accepted
  BY <1>3, <1>5, <1>8, <1>9, <1>10, Zenon DEF q, a, m
<1> QED
  BY <1>11, Zenon DEF next
-----------------------------------------------------------------------------
(* The steps of the partitions *)

\* The parts of the invariant in terms of one partition.
LEMMA OnePartition ==
  ASSUME ClientsTypeOK, PartitionsOK, NEW i \in DOMAIN partitions
  PROVE  /\ partitions[i] \in Partition /\ PartitionOK(partitions[i])
         /\ Len(partitions[i].queue) \in 0 .. QueueSlots
         /\ Len(partitions) \in Nat /\ DOMAIN partitions = 1 .. Len(partitions)
<1>1. partitions \in Seq(Partition) /\ Len(partitions[i].queue) <= QueueSlots
  BY DEF ClientsTypeOK
<1>2. /\ Len(partitions) \in Nat /\ DOMAIN partitions = 1 .. Len(partitions)
      /\ partitions[i] \in Partition
  BY <1>1, LenProperties, ElementOfSeq
<1>3. Len(partitions[i].queue) \in Nat
  BY <1>2, PartitionParts
<1>4. PartitionOK(partitions[i])
  BY DEF PartitionsOK
<1> QED
  BY <1>1, <1>2, <1>3, <1>4

\* Replacing one partition by another of the right kind.
LEMMA Replaced ==
  ASSUME ClientsTypeOK, PartitionsOK, NEW i \in DOMAIN partitions, NEW next \in Partition,
         PartitionOK(next), Len(next.queue) <= QueueSlots,
         partitions' = [partitions EXCEPT ![i] = next]
  PROVE  /\ partitions' \in Seq(Partition)
         /\ Len(partitions') = Len(partitions) /\ DOMAIN partitions' = DOMAIN partitions
         /\ partitions'[i] = next
         /\ \A j \in DOMAIN partitions : j # i => partitions'[j] = partitions[j]
         /\ \A j \in DOMAIN partitions' : Len(partitions'[j].queue) <= QueueSlots
         /\ PartitionsOK'
<1>1. partitions \in Seq(Partition) /\ DOMAIN partitions = 1 .. Len(partitions)
  BY LenProperties DEF ClientsTypeOK
<1>2. /\ partitions' \in Seq(Partition) /\ Len(partitions') = Len(partitions)
      /\ partitions'[i] = next
      /\ \A j \in 1 .. Len(partitions) : j # i => partitions'[j] = partitions[j]
  BY <1>1, ExceptSeq
<1>3. DOMAIN partitions' = DOMAIN partitions
  BY <1>1, <1>2, LenProperties
<1>4. \A j \in DOMAIN partitions : Len(partitions[j].queue) <= QueueSlots
  BY DEF ClientsTypeOK
<1>5. \A j \in DOMAIN partitions' :
         PartitionOK(partitions'[j]) /\ Len(partitions'[j].queue) <= QueueSlots
  BY <1>1, <1>2, <1>3, <1>4 DEF PartitionsOK
<1>6. PartitionsOK'
  BY <1>5 DEF PartitionsOK
<1> QED
  BY <1>1, <1>2, <1>3, <1>5, <1>6

\* A command is pushed.
LEMMA PushStep ==
  ASSUME ClientsConstants, ClientsTypeOK, PartitionsOK,
         NEW i \in DOMAIN partitions, NEW cmd \in Commands, PushTo(i, cmd)
  PROVE  /\ partitions' \in Seq(Partition)
         /\ Len(partitions') = Len(partitions) /\ DOMAIN partitions' = DOMAIN partitions
         /\ \A j \in DOMAIN partitions : j # i => partitions'[j] = partitions[j]
         /\ \A j \in DOMAIN partitions' : Len(partitions'[j].queue) <= QueueSlots
         /\ PartitionsOK'
         /\ Taken(partitions'[i]) = Taken(partitions[i])
         /\ Taken(partitions[i]) \in 0 .. Len(partitions[i].accepted)
         /\ partitions'[i].queue = Append(partitions[i].queue, cmd)
         /\ partitions'[i].accepted = Append(partitions[i].accepted, cmd)
<1> DEFINE part == partitions[i]
           next == [part EXCEPT !.queue = Append(@, cmd), !.accepted = Append(@, cmd)]
<1>1. /\ part \in Partition /\ PartitionOK(part) /\ Len(part.queue) \in Nat
      /\ Len(part.queue) < QueueSlots /\ QueueSlots \in Nat
  BY OnePartition DEF PushTo, ClientsConstants
<1>2. partitions' = [partitions EXCEPT ![i] = next]
  BY DEF PushTo
<1>3. /\ next \in Partition /\ PartitionOK(next)
      /\ Len(next.queue) = Len(part.queue) + 1
      /\ Taken(next) = Taken(part) /\ Taken(part) \in 0 .. Len(part.accepted)
      /\ next.queue = Append(part.queue, cmd)
      /\ next.accepted = Append(part.accepted, cmd)
  <2> HIDE DEF part
  <2> QED
    BY <1>1, PushOK
<1> HIDE DEF next
<1>4. Len(next.queue) <= QueueSlots
  BY <1>1, <1>3
<1> QED
  BY <1>2, <1>3, <1>4, Replaced

\* A batch is taken.
LEMMA DrainStep ==
  ASSUME ClientsConstants, ClientsTypeOK, PartitionsOK,
         NEW i \in DOMAIN partitions, Drain(i)
  PROVE  /\ partitions' \in Seq(Partition)
         /\ Len(partitions') = Len(partitions) /\ DOMAIN partitions' = DOMAIN partitions
         /\ \A j \in DOMAIN partitions : j # i => partitions'[j] = partitions[j]
         /\ \A j \in DOMAIN partitions' : Len(partitions'[j].queue) <= QueueSlots
         /\ PartitionsOK'
         /\ partitions'[i].accepted = partitions[i].accepted
         /\ \E n \in 1 .. Len(partitions[i].queue) :
               /\ Taken(partitions'[i]) = Taken(partitions[i]) + n
               /\ Len(partitions'[i].queue) = Len(partitions[i].queue) - n
               /\ \A j \in 1 .. Len(partitions'[i].queue) :
                     partitions'[i].queue[j] = partitions[i].queue[n + j]
         /\ Taken(partitions[i]) \in Nat
<1> DEFINE part == partitions[i]
<1>1. /\ part \in Partition /\ PartitionOK(part) /\ Len(part.queue) \in 0 .. QueueSlots
      /\ QueueSlots \in Nat
  BY OnePartition DEF ClientsConstants
<1>2. PICK n \in 1 .. Len(part.queue) :
         /\ \A j \in 1 .. n - 1 : part.queue[j] # Stop
         /\ partitions' = [partitions EXCEPT ![i] =
                [queue    |-> SubSeq(part.queue, n + 1, Len(part.queue)),
                 accepted |-> part.accepted,
                 data     |-> Applied(part.data, Batch(part.queue, n)),
                 running  |-> part.queue[n] # Stop]]
  BY Zenon DEF Drain
<1>3. part.running
  BY DEF Drain
<1> DEFINE next == Drained(part, n)
<1>4. NoStop(part.queue, n - 1)
  BY <1>2 DEF NoStop
<1>5. /\ next \in Partition /\ PartitionOK(next)
      /\ Len(next.queue) = Len(part.queue) - n
      /\ \A j \in 1 .. Len(next.queue) : next.queue[j] = part.queue[n + j]
      /\ Taken(next) = Taken(part) + n
      /\ next.accepted = part.accepted
  <2> HIDE DEF part
  <2> QED
    BY <1>1, <1>3, <1>4, DrainOK
<1>6. partitions' = [partitions EXCEPT ![i] = next]
  BY <1>2, Zenon DEF Drained
<1> HIDE DEF next
<1>7. Len(next.queue) <= QueueSlots
  BY <1>1, <1>5
<1>8. Taken(part) \in Nat
  BY <1>1 DEF PartitionOK, Waiting
<1>9. /\ partitions' \in Seq(Partition)
      /\ Len(partitions') = Len(partitions) /\ DOMAIN partitions' = DOMAIN partitions
      /\ \A j \in DOMAIN partitions : j # i => partitions'[j] = partitions[j]
      /\ \A j \in DOMAIN partitions' : Len(partitions'[j].queue) <= QueueSlots
      /\ PartitionsOK' /\ partitions'[i] = next
  BY <1>5, <1>6, <1>7, Replaced
<1> QED
  BY <1>5, <1>8, <1>9, Zenon

\* A partition is registered.
LEMMA RegisterStep ==
  ASSUME ClientsConstants, ClientsTypeOK, PartitionsOK, partitions' = Registered
  PROVE  /\ partitions' \in Seq(Partition)
         /\ Len(partitions') = Len(partitions) + 1 /\ Len(partitions) \in Nat
         /\ \A j \in DOMAIN partitions' : Len(partitions'[j].queue) <= QueueSlots
         /\ PartitionsOK'
         /\ partitions'[Len(partitions')].accepted = <<>>
<1>1. /\ partitions \in Seq(Partition) /\ Len(partitions) \in Nat
      /\ DOMAIN partitions = 1 .. Len(partitions)
      /\ \A j \in DOMAIN partitions : Len(partitions[j].queue) <= QueueSlots
  BY LenProperties DEF ClientsTypeOK
<1>2. /\ NewPartition \in Partition /\ PartitionOK(NewPartition)
      /\ NewPartition.queue = <<>> /\ NewPartition.accepted = <<>>
  BY NewOK
<1>3. Len(NewPartition.queue) <= QueueSlots
  BY <1>2, EmptySeq DEF ClientsConstants
<1>4. /\ partitions' \in Seq(Partition)
      /\ Len(partitions') = Len(partitions) + 1
      /\ partitions'[Len(partitions) + 1] = NewPartition
      /\ \A j \in 1 .. Len(partitions) : partitions'[j] = partitions[j]
  BY <1>1, <1>2, AppendProperties DEF Registered
<1>5. DOMAIN partitions' = 1 .. Len(partitions) + 1
  BY <1>4, LenProperties
<1>6. ASSUME NEW j \in DOMAIN partitions'
      PROVE  PartitionOK(partitions'[j]) /\ Len(partitions'[j].queue) <= QueueSlots
  <2>1. CASE j = Len(partitions) + 1
    BY <2>1, <1>2, <1>3, <1>4
  <2>2. CASE j \in 1 .. Len(partitions)
    BY <2>2, <1>1, <1>4 DEF PartitionsOK
  <2> QED
    BY <2>1, <2>2, <1>1, <1>5
<1>7. PartitionsOK'
  BY <1>6 DEF PartitionsOK
<1> QED
  BY <1>1, <1>2, <1>4, <1>6, <1>7
-----------------------------------------------------------------------------
(* The invariant *)

\* Where the last command of an appended sequence is, and what is before it.
LEMMA AppendIs ==
  ASSUME NEW cmds \in Seq(Commands), NEW cmd \in Commands
  PROVE  /\ Append(cmds, cmd) \in Seq(Commands)
         /\ Len(cmds) \in Nat /\ DOMAIN cmds = 1 .. Len(cmds)
         /\ Len(Append(cmds, cmd)) = Len(cmds) + 1
         /\ DOMAIN Append(cmds, cmd) = 1 .. Len(cmds) + 1
         /\ Append(cmds, cmd)[Len(cmds) + 1] = cmd
         /\ \A i \in 1 .. Len(cmds) : Append(cmds, cmd)[i] = cmds[i]
         /\ \A i \in 1 .. Len(cmds) : cmds[i] \in Commands
  BY AppendProperties, LenProperties, ElementOfSeq

\* The one partition of a key value store.
LEMMA KvPartition ==
  ASSUME ClientsTypeOK, PartitionsOK, KvStops, kind = "kv"
  PROVE  /\ DOMAIN partitions = {1} /\ route = 1
         /\ partitions[1] \in Partition /\ PartitionOK(partitions[1])
         /\ partitions[1].accepted \in Seq(Commands)
         /\ partitions[1].queue \in Seq(Commands)
<1>1. partitions \in Seq(Partition) /\ Len(partitions) = 1 /\ route = 1
  BY DEF ClientsTypeOK, KvStops
<1>2. DOMAIN partitions = 1 .. 1
  BY <1>1, LenProperties
<1>3. DOMAIN partitions = {1}
  BY <1>2
<1>4. partitions[1] \in Partition /\ PartitionOK(partitions[1])
  BY <1>3, OnePartition
<1> QED
  BY <1>1, <1>3, <1>4, PartitionParts

\* The partition a call of the typed cache goes to.
LEMMA TypedPartition ==
  ASSUME ClientsTypeOK, PartitionsOK, TypedOK, kind = "typed", route # 0
  PROVE  /\ route \in DOMAIN partitions /\ route = Len(partitions)
         /\ partitions[route] \in Partition /\ PartitionOK(partitions[route])
         /\ partitions[route].accepted \in Seq(Commands)
<1>1. partitions \in Seq(Partition) /\ route = Len(partitions)
  BY DEF ClientsTypeOK, TypedOK
<1>2. DOMAIN partitions = 1 .. Len(partitions) /\ Len(partitions) \in Nat
  BY <1>1, LenProperties
<1>3. route \in DOMAIN partitions
  BY <1>1, <1>2
<1>4. partitions[route] \in Partition /\ PartitionOK(partitions[route])
  BY <1>3, OnePartition
<1> QED
  BY <1>1, <1>3, <1>4, PartitionParts

\* A store that was just opened.
LEMMA ClientsInitially ==
  ASSUME ClientsConstants, ClientsInit
  PROVE  ClientsInv
<1>1. /\ NewPartition \in Partition /\ PartitionOK(NewPartition)
      /\ NewPartition.queue = <<>> /\ NewPartition.accepted = <<>>
  BY NewOK
<1>2. /\ QueueSlots \in Nat /\ MaxOps \in Nat /\ Len(<<>>) = 0
  BY EmptySeq DEF ClientsConstants
<1>3. /\ caller = [c \in Callers |-> "idle"] /\ inHand = [c \in Callers |-> Stop]
      /\ store = "open" /\ begun = 0 /\ returned = Nothing /\ got = Nothing
      /\ route = Len(partitions)
  BY DEF ClientsInit, Nothing
<1>4. /\ caller \in [Callers -> {"idle", "sending", "dropping"}]
      /\ inHand \in [Callers -> Commands]
      /\ begun \in 0 .. MaxOps /\ returned \in [Keys -> 0 .. MaxOps]
      /\ got \in [Keys -> 0 .. MaxOps]
      /\ \A c \in Callers : caller[c] = "idle"
      /\ \A k \in Keys : got[k] = 0
  BY <1>2, <1>3, StopIsNoWrite DEF Nothing
<1>5. CallersOK
  BY <1>3, <1>4 DEF CallersOK
<1>6. CASE kind = "kv" /\ partitions = <<NewPartition>>
  <2>1. /\ partitions \in Seq(Partition) /\ Len(partitions) = 1
        /\ partitions[1] = NewPartition /\ DOMAIN partitions = 1 .. 1
    BY <1>1, <1>6
  <2>2. ClientsTypeOK
    BY <1>1, <1>2, <1>3, <1>4, <1>6, <2>1 DEF ClientsTypeOK
  <2>3. PartitionsOK
    BY <1>1, <2>1 DEF PartitionsOK
  <2>4. DOMAIN partitions[1].accepted = {} /\ partitions[1].queue = <<>>
    BY <1>1, <2>1
  <2>5. KvStops
    BY <1>3, <1>4, <2>1, <2>4 DEF KvStops
  <2>6. KvNumbers
    BY <1>4, <2>4 DEF KvNumbers
  <2>7. KvGot /\ TypedOK
    BY <1>4, <1>6 DEF KvGot, TypedOK
  <2> QED
    BY <1>5, <2>2, <2>3, <2>5, <2>6, <2>7 DEF ClientsInv
<1>7. CASE kind = "typed" /\ partitions = <<>>
  <2>1. /\ partitions \in Seq(Partition) /\ Len(partitions) = 0
        /\ DOMAIN partitions = {} /\ route = 0
    BY <1>3, <1>7, EmptySeq
  <2>2. ClientsTypeOK
    BY <1>2, <1>3, <1>4, <1>7, <2>1 DEF ClientsTypeOK
  <2>3. PartitionsOK
    BY <2>1 DEF PartitionsOK
  <2>4. KvStops /\ KvNumbers /\ KvGot
    BY <1>7 DEF KvStops, KvNumbers, KvGot
  <2>5. TypedOK
    BY <1>4, <2>1 DEF TypedOK
  <2> QED
    BY <1>5, <2>2, <2>3, <2>4, <2>5 DEF ClientsInv
<1> QED
  BY <1>6, <1>7 DEF ClientsInit

\* A batch is applied.
LEMMA ClientsDrainInv ==
  ASSUME ClientsConstants, ClientsInv, NEW i \in DOMAIN partitions, Drain(i)
  PROVE  ClientsInv'
<1>1. /\ partitions' \in Seq(Partition)
      /\ Len(partitions') = Len(partitions) /\ DOMAIN partitions' = DOMAIN partitions
      /\ \A j \in DOMAIN partitions : j # i => partitions'[j] = partitions[j]
      /\ \A j \in DOMAIN partitions' : Len(partitions'[j].queue) <= QueueSlots
      /\ PartitionsOK'
      /\ partitions'[i].accepted = partitions[i].accepted
      /\ Taken(partitions[i]) \in Nat
  BY DrainStep DEF ClientsInv
<1>2. PICK n \in 1 .. Len(partitions[i].queue) :
         /\ Taken(partitions'[i]) = Taken(partitions[i]) + n
         /\ Len(partitions'[i].queue) = Len(partitions[i].queue) - n
         /\ \A j \in 1 .. Len(partitions'[i].queue) :
               partitions'[i].queue[j] = partitions[i].queue[n + j]
  BY DrainStep DEF ClientsInv
<1>3. UNCHANGED <<kind, route, caller, inHand, store, begun, returned, got>>
  BY DEF Drain
<1>4. ClientsTypeOK'
  BY <1>1, <1>3 DEF ClientsInv, ClientsTypeOK
<1>5. CallersOK'
  BY <1>3 DEF ClientsInv, CallersOK
<1>6. \A j \in DOMAIN partitions : partitions'[j].accepted = partitions[j].accepted
  BY <1>1
<1>7. CASE kind = "kv"
  <2>1. /\ DOMAIN partitions = {1} /\ partitions[1].queue \in Seq(Commands)
        /\ partitions[1] \in Partition
    BY <1>7, KvPartition DEF ClientsInv
  <2>2. i = 1 /\ partitions'[1] \in Partition
    BY <2>1, <1>1, ElementOfSeq, LenProperties
  <2>3. partitions'[1].accepted = partitions[1].accepted
    BY <2>1, <1>6
  <2>4. ASSUME store \in {"writer", "gone"}, NEW j \in DOMAIN partitions'[1].queue
        PROVE  partitions'[1].queue[j] = Stop
    <3>1. /\ DOMAIN partitions'[1].queue = 1 .. Len(partitions'[1].queue)
          /\ DOMAIN partitions[1].queue = 1 .. Len(partitions[1].queue)
          /\ Len(partitions[1].queue) \in Nat
      BY <2>1, <2>2, PartitionParts
    <3>2. n + j \in DOMAIN partitions[1].queue
      BY <3>1, <2>2, <1>2
    <3>3. partitions[1].queue[n + j] = Stop
      BY <3>2, <2>4, <1>7 DEF ClientsInv, KvStops
    <3> QED
      BY <3>1, <3>3, <2>2, <1>2
  <2>5. KvStops'
    BY <1>1, <1>3, <2>3, <2>4 DEF ClientsInv, KvStops
  <2>6. KvNumbers'
    BY <1>3, <2>3 DEF ClientsInv, KvNumbers, IsWrite
  <2>7. KvGot'
    <3>1. 1 .. Taken(partitions[1]) \subseteq 1 .. Taken(partitions'[1])
      BY <1>1, <1>2, <2>2
    <3> QED
      BY <3>1, <1>3, <2>3 DEF ClientsInv, KvGot
  <2>8. TypedOK'
    BY <1>3, <1>7 DEF TypedOK
  <2> QED
    BY <1>1, <1>4, <1>5, <2>5, <2>6, <2>7, <2>8 DEF ClientsInv
<1>8. CASE kind # "kv"
  <2>1. KvStops' /\ KvNumbers' /\ KvGot'
    BY <1>3, <1>8 DEF KvStops, KvNumbers, KvGot
  <2>2. kind = "typed" /\ route # 0 => partitions'[route].accepted = partitions[route].accepted
    BY <1>6, TypedPartition DEF ClientsInv
  <2>3. TypedOK'
    BY <1>1, <1>3, <2>2 DEF ClientsInv, TypedOK, IsWrite
  <2> QED
    BY <1>1, <1>4, <1>5, <2>1, <2>3 DEF ClientsInv
<1> QED
  BY <1>7, <1>8

\* put and delete begin.
LEMMA PutBeginInv ==
  ASSUME ClientsConstants, ClientsInv, NEW c \in Callers, NEW k \in Keys,
         NEW op \in {"put", "delete"}, PutBegin(c, k, op)
  PROVE  ClientsInv'
<1>1. /\ kind = "kv" /\ store = "open" /\ begun' = begun + 1 /\ begun < MaxOps
      /\ inHand' = [inHand EXCEPT ![c] = Write(k, op, begun + 1)]
      /\ caller' = [caller EXCEPT ![c] = "sending"]
      /\ caller[c] = "idle"
      /\ UNCHANGED <<kind, partitions, route, store, returned, got>>
  BY DEF PutBegin
<1>2. /\ begun \in 0 .. MaxOps /\ MaxOps \in Nat
      /\ inHand \in [Callers -> Commands]
      /\ caller \in [Callers -> {"idle", "sending", "dropping"}]
  BY DEF ClientsInv, ClientsTypeOK, ClientsConstants
<1>3. /\ Write(k, op, begun + 1) \in StoreWrites
      /\ Write(k, op, begun + 1).nr = begun + 1
  BY <1>1, <1>2 DEF Write, StoreWrites
<1>4. begun' \in 0 .. MaxOps
  BY <1>1, <1>2
<1> HIDE DEF Write
<1>5. /\ inHand' \in [Callers -> Commands]
      /\ caller' \in [Callers -> {"idle", "sending", "dropping"}]
      /\ inHand'[c] = Write(k, op, begun + 1) /\ caller'[c] = "sending"
      /\ \A d \in Callers : d # c => inHand'[d] = inHand[d] /\ caller'[d] = caller[d]
  BY <1>1, <1>2, <1>3 DEF Commands
<1>6. ClientsTypeOK' /\ PartitionsOK'
  BY <1>1, <1>4, <1>5 DEF ClientsInv, ClientsTypeOK, PartitionsOK
<1>7. CallersOK'
  BY <1>1, <1>3, <1>5 DEF ClientsInv, CallersOK
<1>8. KvStops' /\ KvGot' /\ TypedOK'
  BY <1>1, <1>5 DEF ClientsInv, KvStops, KvGot, TypedOK
<1>9. KvNumbers'
  <2> DEFINE A == partitions[1].accepted
  <2>1. /\ \A i, j \in DOMAIN A : IsWrite(i, A) /\ IsWrite(j, A) /\ A[i].nr = A[j].nr => i = j
        /\ \A i \in DOMAIN A : IsWrite(i, A) => A[i].nr <= begun
        /\ \A e \in Callers : caller[e] # "idle" =>
              /\ inHand[e].nr <= begun
              /\ \A i \in DOMAIN A : IsWrite(i, A) => A[i].nr # inHand[e].nr
              /\ \A d \in Callers : caller[d] # "idle" /\ inHand[d].nr = inHand[e].nr => e = d
    BY <1>1 DEF ClientsInv, KvNumbers
  <2>2. \A i \in DOMAIN A : IsWrite(i, A) => A[i].nr \in Nat
    BY <1>1, KvPartition, ElementOfSeq, LenProperties, CommandParts DEF ClientsInv, IsWrite
  <2>3. \A e \in Callers : caller[e] # "idle" => inHand[e].nr \in Nat
    BY DEF ClientsInv, CallersOK, StoreWrites
  <2> HIDE DEF A
  <2>4. \A i \in DOMAIN A : IsWrite(i, A) => A[i].nr <= begun + 1 /\ A[i].nr # begun + 1
    BY <2>1, <2>2, <1>2
  <2>5. ASSUME NEW e \in Callers, caller'[e] # "idle"
        PROVE  /\ inHand'[e].nr <= begun + 1
               /\ \A i \in DOMAIN A : IsWrite(i, A) => A[i].nr # inHand'[e].nr
               /\ \A d \in Callers : caller'[d] # "idle" /\ inHand'[d].nr = inHand'[e].nr
                     => e = d
    <3>1. CASE e = c
      <4>1. inHand'[e].nr = begun + 1
        BY <3>1, <1>3, <1>5
      <4>2. ASSUME NEW d \in Callers, caller'[d] # "idle", d # c
            PROVE  inHand'[d].nr # begun + 1
        BY <4>2, <1>2, <1>5, <2>1, <2>3
      <4> QED
        BY <4>1, <4>2, <3>1, <2>4, <1>2
    <3>2. CASE e # c
      <4>1. inHand'[e] = inHand[e] /\ caller[e] # "idle"
        BY <3>2, <2>5, <1>5
      <4>2. inHand[e].nr <= begun /\ inHand[e].nr \in Nat
        BY <4>1, <2>1, <2>3
      <4>3. ASSUME NEW d \in Callers, caller'[d] # "idle", inHand'[d].nr = inHand'[e].nr
            PROVE  e = d
        <5>1. CASE d = c
          BY <5>1, <4>1, <4>2, <4>3, <1>2, <1>3, <1>5
        <5>2. CASE d # c
          BY <5>2, <4>1, <4>3, <2>1, <1>5
        <5> QED
          BY <5>1, <5>2
      <4> QED
        BY <4>1, <4>2, <4>3, <2>1, <1>2
    <3> QED
      BY <3>1, <3>2
  <2> QED
    BY <2>1, <2>4, <2>5, <1>1 DEF KvNumbers, A
<1> QED
  BY <1>6, <1>7, <1>8, <1>9 DEF ClientsInv

\* insert begins: it registers the partition it will send to.
LEMMA InsertBeginInv ==
  ASSUME ClientsConstants, ClientsInv, NEW c \in Callers, NEW k \in Keys, InsertBegin(c, k)
  PROVE  ClientsInv'
<1>1. /\ kind = "typed" /\ store = "open" /\ begun' = begun + 1 /\ begun < MaxOps
      /\ partitions' = Registered /\ route' = Len(partitions')
      /\ inHand' = [inHand EXCEPT ![c] = Write(k, "put", begun + 1)]
      /\ caller' = [caller EXCEPT ![c] = "sending"]
      /\ \A d \in Callers : caller[d] = "idle"
      /\ UNCHANGED <<kind, store, returned, got>>
  BY DEF InsertBegin
<1>2. /\ begun \in 0 .. MaxOps /\ MaxOps \in Nat
      /\ inHand \in [Callers -> Commands]
      /\ caller \in [Callers -> {"idle", "sending", "dropping"}]
  BY DEF ClientsInv, ClientsTypeOK, ClientsConstants
<1>3. Write(k, "put", begun + 1) \in StoreWrites
  BY <1>1, <1>2 DEF Write, StoreWrites
<1>4. begun' \in 0 .. MaxOps
  BY <1>1, <1>2
<1>5. /\ inHand' \in [Callers -> Commands]
      /\ caller' \in [Callers -> {"idle", "sending", "dropping"}]
      /\ inHand'[c] \in StoreWrites /\ caller'[c] = "sending"
      /\ \A d \in Callers : d # c => caller'[d] = "idle"
  BY <1>1, <1>2, <1>3 DEF Commands
<1>6. /\ partitions' \in Seq(Partition)
      /\ Len(partitions') = Len(partitions) + 1 /\ Len(partitions) \in Nat
      /\ \A j \in DOMAIN partitions' : Len(partitions'[j].queue) <= QueueSlots
      /\ PartitionsOK'
      /\ partitions'[Len(partitions')].accepted = <<>>
  BY <1>1, RegisterStep DEF ClientsInv
<1>7. route' \in 0 .. Len(partitions') /\ route' # 0
  BY <1>1, <1>6
<1>8. ClientsTypeOK'
  BY <1>1, <1>4, <1>5, <1>6, <1>7 DEF ClientsInv, ClientsTypeOK
<1>9. CallersOK'
  BY <1>1, <1>5 DEF CallersOK
<1>10. KvStops' /\ KvNumbers' /\ KvGot'
  BY <1>1 DEF KvStops, KvNumbers, KvGot
<1>11. TypedOK'
  BY <1>1, <1>5, <1>6, <1>7 DEF TypedOK
<1> QED
  BY <1>6, <1>8, <1>9, <1>10, <1>11 DEF ClientsInv

\* A push to the one partition of a key value store, of a Shutdown or of a
\* write with a number no write accepted has.
LEMMA KvPush ==
  ASSUME ClientsConstants, ClientsInv, kind = "kv", kind' = kind,
         NEW cmd \in Commands, PushTo(1, cmd)
  PROVE  /\ partitions' \in Seq(Partition) /\ Len(partitions') = 1
         /\ DOMAIN partitions' = {1}
         /\ Len(partitions'[1].queue) <= QueueSlots
         /\ PartitionsOK'
         /\ Len(partitions[1].accepted) \in Nat
         /\ DOMAIN partitions[1].accepted = 1 .. Len(partitions[1].accepted)
         /\ DOMAIN partitions'[1].accepted = 1 .. Len(partitions[1].accepted) + 1
         /\ Len(partitions'[1].accepted) = Len(partitions[1].accepted) + 1
         /\ partitions'[1].accepted[Len(partitions[1].accepted) + 1] = cmd
         /\ \A i \in 1 .. Len(partitions[1].accepted) :
               partitions'[1].accepted[i] = partitions[1].accepted[i]
         /\ Len(partitions[1].queue) \in Nat
         /\ DOMAIN partitions[1].queue = 1 .. Len(partitions[1].queue)
         /\ DOMAIN partitions'[1].queue = 1 .. Len(partitions[1].queue) + 1
         /\ partitions'[1].queue[Len(partitions[1].queue) + 1] = cmd
         /\ \A j \in 1 .. Len(partitions[1].queue) :
               partitions'[1].queue[j] = partitions[1].queue[j]
         /\ Taken(partitions'[1]) = Taken(partitions[1])
         /\ Taken(partitions[1]) \in 0 .. Len(partitions[1].accepted)
<1>1. /\ DOMAIN partitions = {1} /\ partitions[1].accepted \in Seq(Commands)
      /\ partitions[1].queue \in Seq(Commands)
  BY KvPartition DEF ClientsInv
<1>2. Len(partitions) = 1
  BY DEF ClientsInv, KvStops
<1>3. 1 \in DOMAIN partitions /\ ClientsTypeOK /\ PartitionsOK
  BY <1>1 DEF ClientsInv
<1>4. /\ partitions' \in Seq(Partition)
      /\ Len(partitions') = Len(partitions) /\ DOMAIN partitions' = DOMAIN partitions
      /\ \A j \in DOMAIN partitions' : Len(partitions'[j].queue) <= QueueSlots
      /\ PartitionsOK'
      /\ Taken(partitions'[1]) = Taken(partitions[1])
      /\ Taken(partitions[1]) \in 0 .. Len(partitions[1].accepted)
      /\ partitions'[1].queue = Append(partitions[1].queue, cmd)
      /\ partitions'[1].accepted = Append(partitions[1].accepted, cmd)
  BY <1>3, PushStep
<1> QED
  BY <1>1, <1>2, <1>4, AppendIs

\* What a push leaves true of a key value store.
LEMMA KvPushGot ==
  ASSUME ClientsConstants, ClientsInv, kind = "kv", kind' = kind, got' = got,
         NEW cmd \in Commands, PushTo(1, cmd)
  PROVE  KvGot'
<1> DEFINE A == partitions[1].accepted
           B == partitions'[1].accepted
           n == Taken(partitions[1])
<1>1. /\ Taken(partitions'[1]) = n /\ n \in 0 .. Len(A) /\ Len(A) \in Nat
      /\ \A i \in 1 .. Len(A) : B[i] = A[i]
  BY KvPush
<1>2. \A k \in Keys : got[k] # 0 =>
         \E i \in 1 .. n : A[i] # Stop /\ A[i].key = k /\ A[i].nr = got[k]
  BY DEF ClientsInv, KvGot
<1> HIDE DEF A, B, n
<1>3. \A k \in Keys : got[k] # 0 =>
         \E i \in 1 .. n : B[i] # Stop /\ B[i].key = k /\ B[i].nr = got[k]
  BY <1>1, <1>2
<1> QED
  BY <1>1, <1>3 DEF KvGot, A, B, n

\* A Shutdown is pushed to a key value store, and nobody is in a call.
LEMMA KvPushStop ==
  ASSUME ClientsConstants, ClientsInv, kind = "kv", kind' = kind, begun' = begun,
         caller' = caller, inHand' = inHand, PushTo(1, Stop)
  PROVE  KvNumbers'
<1> DEFINE A == partitions[1].accepted
           B == partitions'[1].accepted
<1>1. /\ Len(A) \in Nat /\ DOMAIN A = 1 .. Len(A) /\ DOMAIN B = 1 .. Len(A) + 1
      /\ B[Len(A) + 1] = Stop
      /\ \A i \in 1 .. Len(A) : B[i] = A[i]
  BY KvPush, StopIsNoWrite
<1>2. /\ \A i, j \in DOMAIN A : IsWrite(i, A) /\ IsWrite(j, A) /\ A[i].nr = A[j].nr => i = j
      /\ \A i \in DOMAIN A : IsWrite(i, A) => A[i].nr <= begun
      /\ \A e \in Callers : caller[e] # "idle" =>
            /\ inHand[e].nr <= begun
            /\ \A i \in DOMAIN A : IsWrite(i, A) => A[i].nr # inHand[e].nr
            /\ \A d \in Callers : caller[d] # "idle" /\ inHand[d].nr = inHand[e].nr => e = d
  BY DEF ClientsInv, KvNumbers
<1> HIDE DEF A, B
<1>3. \A i \in DOMAIN B : IsWrite(i, B) => i \in DOMAIN A /\ IsWrite(i, A) /\ B[i] = A[i]
  BY <1>1 DEF IsWrite
<1>4. /\ \A i, j \in DOMAIN B : IsWrite(i, B) /\ IsWrite(j, B) /\ B[i].nr = B[j].nr => i = j
      /\ \A i \in DOMAIN B : IsWrite(i, B) => B[i].nr <= begun
      /\ \A e \in Callers : caller[e] # "idle" =>
            /\ inHand[e].nr <= begun
            /\ \A i \in DOMAIN B : IsWrite(i, B) => B[i].nr # inHand[e].nr
            /\ \A d \in Callers : caller[d] # "idle" /\ inHand[d].nr = inHand[e].nr => e = d
  BY <1>2, <1>3, Zenon
<1> QED
  BY <1>4 DEF KvNumbers, B

\* The write in hand is pushed.
LEMMA SendOkInv ==
  ASSUME ClientsConstants, ClientsInv, NEW c \in Callers, SendReturns(c)
  PROVE  ClientsInv'
<1>1. /\ caller[c] = "sending" /\ PushTo(route, inHand[c])
      /\ UNCHANGED <<kind, route, inHand, store, begun, got>>
  BY DEF SendReturns
<1>2. /\ inHand[c] \in StoreWrites /\ inHand[c] \in Commands /\ inHand[c] # Stop
      /\ inHand[c].key \in Keys /\ inHand[c].nr \in 1 .. MaxOps
      /\ store = "open"
  <2>1. inHand[c] \in StoreWrites /\ store = "open"
    BY <1>1 DEF ClientsInv, CallersOK
  <2> QED
    BY <2>1, StopIsNoWrite, CommandParts DEF Commands
<1>3. /\ caller \in [Callers -> {"idle", "sending", "dropping"}]
      /\ returned \in [Keys -> 0 .. MaxOps] /\ kind \in {"kv", "typed"}
      /\ MaxOps \in Nat
  BY DEF ClientsInv, ClientsTypeOK, ClientsConstants
<1>4. CASE kind = "kv"
  <2>1. /\ caller' = [caller EXCEPT ![c] = "idle"]
        /\ returned' = [returned EXCEPT ![inHand[c].key] = inHand[c].nr]
    BY <1>4 DEF SendReturns
  <2>2. /\ caller' \in [Callers -> {"idle", "sending", "dropping"}]
        /\ returned' \in [Keys -> 0 .. MaxOps]
        /\ caller'[c] = "idle"
        /\ \A d \in Callers : d # c => caller'[d] = caller[d]
    BY <2>1, <1>2, <1>3
  <2>3. route = 1 /\ PushTo(1, inHand[c])
    BY <1>1, <1>4 DEF ClientsInv, KvStops
  <2> DEFINE A == partitions[1].accepted
             B == partitions'[1].accepted
  <2>4. /\ partitions' \in Seq(Partition) /\ Len(partitions') = 1
        /\ DOMAIN partitions' = {1}
        /\ Len(partitions'[1].queue) <= QueueSlots
        /\ PartitionsOK'
        /\ Len(A) \in Nat /\ DOMAIN A = 1 .. Len(A) /\ DOMAIN B = 1 .. Len(A) + 1
        /\ B[Len(A) + 1] = inHand[c]
        /\ \A i \in 1 .. Len(A) : B[i] = A[i]
    BY <1>1, <1>2, <1>4, <2>3, KvPush
  <2>5. ClientsTypeOK'
    BY <1>1, <2>2, <2>3, <2>4 DEF ClientsInv, ClientsTypeOK
  <2>6. CallersOK'
    BY <1>1, <2>2 DEF ClientsInv, CallersOK
  <2>7. KvGot'
    BY <1>1, <1>2, <1>4, <2>3, KvPushGot
  <2>8. KvStops'
    <3>1. \A d \in Callers : caller'[d] # "dropping"
      BY <1>4, <2>2 DEF ClientsInv, KvStops
    <3>2. \A i \in DOMAIN B : B[i] # Stop
      <4>1. \A i \in DOMAIN A : A[i] # Stop
        BY <1>2, <1>4 DEF ClientsInv, KvStops
      <4> HIDE DEF A, B
      <4> QED
        BY <4>1, <1>2, <2>4
    <3> QED
      BY <1>1, <1>2, <2>3, <2>4, <3>1, <3>2 DEF KvStops
  <2>9. KvNumbers'
    <3>1. /\ \A i, j \in DOMAIN A : IsWrite(i, A) /\ IsWrite(j, A) /\ A[i].nr = A[j].nr
                => i = j
          /\ \A i \in DOMAIN A : IsWrite(i, A) => A[i].nr <= begun
          /\ \A e \in Callers : caller[e] # "idle" =>
                /\ inHand[e].nr <= begun
                /\ \A i \in DOMAIN A : IsWrite(i, A) => A[i].nr # inHand[e].nr
                /\ \A d \in Callers : caller[d] # "idle" /\ inHand[d].nr = inHand[e].nr
                      => e = d
      BY <1>4 DEF ClientsInv, KvNumbers
    <3> HIDE DEF A, B
    <3>2. ASSUME NEW i \in DOMAIN B, IsWrite(i, B)
          PROVE  \/ i = Len(A) + 1 /\ B[i] = inHand[c]
                 \/ i \in DOMAIN A /\ IsWrite(i, A) /\ B[i] = A[i]
      BY <2>4, <3>2 DEF IsWrite
    <3>3. \A e \in Callers : caller'[e] # "idle" => caller[e] # "idle" /\ e # c
      BY <2>2
    <3>4. caller[c] # "idle"
      BY <1>1
    <3>5. ASSUME NEW i \in DOMAIN B, NEW j \in DOMAIN B, IsWrite(i, B), IsWrite(j, B),
                 B[i].nr = B[j].nr
          PROVE  i = j
      <4>1. CASE i = Len(A) + 1 /\ B[i] = inHand[c]
        BY <4>1, <3>1, <3>2, <3>4, <3>5
      <4>2. CASE i \in DOMAIN A /\ IsWrite(i, A) /\ B[i] = A[i]
        BY <4>2, <3>1, <3>2, <3>4, <3>5
      <4> QED
        BY <4>1, <4>2, <3>2, <3>5
    <3>6. \A i \in DOMAIN B : IsWrite(i, B) => B[i].nr <= begun
      BY <3>1, <3>2, <3>4
    <3>7. ASSUME NEW e \in Callers, caller'[e] # "idle"
          PROVE  /\ inHand[e].nr <= begun
                 /\ \A i \in DOMAIN B : IsWrite(i, B) => B[i].nr # inHand[e].nr
                 /\ \A d \in Callers : caller'[d] # "idle" /\ inHand[d].nr = inHand[e].nr
                       => e = d
      <4>1. caller[e] # "idle" /\ e # c
        BY <3>3, <3>7
      <4>2. inHand[c].nr # inHand[e].nr
        BY <4>1, <3>1, <3>4
      <4> QED
        BY <4>1, <4>2, <3>1, <3>2, <3>3
    <3> QED
      BY <1>1, <3>5, <3>6, <3>7 DEF KvNumbers, B
  <2>10. TypedOK'
    BY <1>1, <1>4 DEF TypedOK
  <2> QED
    BY <2>4, <2>5, <2>6, <2>7, <2>8, <2>9, <2>10 DEF ClientsInv
<1>5. CASE kind = "typed"
  <2>1. caller' = [caller EXCEPT ![c] = "dropping"] /\ returned' = returned
    BY <1>5 DEF SendReturns
  <2>2. /\ caller' \in [Callers -> {"idle", "sending", "dropping"}]
        /\ caller'[c] = "dropping"
        /\ \A d \in Callers : d # c => caller[d] = "idle" /\ caller'[d] = "idle"
    BY <2>1, <1>1, <1>3, <1>5 DEF ClientsInv, TypedOK
  <2>3. /\ route # 0 /\ partitions[route].accepted = <<>>
    BY <1>1, <1>5 DEF ClientsInv, TypedOK
  <2>4. route \in DOMAIN partitions
    BY <1>5, <2>3, TypedPartition DEF ClientsInv
  <2>5. /\ partitions' \in Seq(Partition) /\ Len(partitions') = Len(partitions)
        /\ \A j \in DOMAIN partitions' : Len(partitions'[j].queue) <= QueueSlots
        /\ PartitionsOK'
        /\ partitions'[route].accepted = Append(partitions[route].accepted, inHand[c])
    BY <1>1, <1>2, <2>4, PushStep DEF ClientsInv
  <2>6. \A i \in DOMAIN partitions'[route].accepted :
           partitions'[route].accepted[i] = inHand[c]
    <3>1. <<>> \in Seq(Commands) /\ Len(<<>>) = 0
      BY EmptySeq
    <3>2. /\ DOMAIN Append(<<>>, inHand[c]) = 1 .. Len(<<>>) + 1
          /\ Append(<<>>, inHand[c])[Len(<<>>) + 1] = inHand[c]
      BY <3>1, <1>2, AppendIs
    <3> QED
      BY <3>1, <3>2, <2>3, <2>5
  <2>7. ClientsTypeOK'
    BY <1>1, <2>1, <2>2, <2>5 DEF ClientsInv, ClientsTypeOK
  <2>8. CallersOK'
    BY <1>1, <1>2, <2>2 DEF CallersOK
  <2>9. KvStops' /\ KvNumbers' /\ KvGot'
    BY <1>1, <1>5 DEF KvStops, KvNumbers, KvGot
  <2>10. TypedOK'
    <3>1. route' = Len(partitions') /\ route' = route
      BY <1>1, <1>5, <2>5 DEF ClientsInv, TypedOK
    <3> QED
      BY <1>1, <2>2, <2>3, <2>6, <3>1 DEF TypedOK
  <2> QED
    BY <2>5, <2>7, <2>8, <2>9, <2>10 DEF ClientsInv
<1> QED
  BY <1>3, <1>4, <1>5

\* insert drops its writer and returns.
LEMMA InsertReturnsInv ==
  ASSUME ClientsConstants, ClientsInv, NEW c \in Callers, InsertReturns(c)
  PROVE  ClientsInv'
<1>1. /\ caller[c] = "dropping" /\ PushTo(route, Stop)
      /\ caller' = [caller EXCEPT ![c] = "idle"]
      /\ returned' = [returned EXCEPT ![inHand[c].key] = inHand[c].nr]
      /\ UNCHANGED <<kind, route, inHand, store, begun, got>>
  BY DEF InsertReturns, DropPushes
<1>2. kind = "typed"
  BY <1>1 DEF ClientsInv, ClientsTypeOK, KvStops
<1>3. /\ inHand[c] \in StoreWrites /\ inHand[c].key \in Keys /\ inHand[c].nr \in 1 .. MaxOps
  <2>1. inHand[c] \in StoreWrites
    BY <1>1 DEF ClientsInv, CallersOK
  <2> QED
    BY <2>1, StopIsNoWrite, CommandParts DEF Commands
<1>4. /\ caller \in [Callers -> {"idle", "sending", "dropping"}]
      /\ returned \in [Keys -> 0 .. MaxOps] /\ MaxOps \in Nat
  BY DEF ClientsInv, ClientsTypeOK, ClientsConstants
<1>5. /\ caller' \in [Callers -> {"idle", "sending", "dropping"}]
      /\ returned' \in [Keys -> 0 .. MaxOps]
      /\ returned'[inHand[c].key] = inHand[c].nr
      /\ \A d \in Callers : caller'[d] = "idle"
  BY <1>1, <1>2, <1>3, <1>4 DEF ClientsInv, TypedOK
<1>6. /\ route # 0 /\ route = Len(partitions)
      /\ \A i \in DOMAIN partitions[route].accepted :
            IsWrite(i, partitions[route].accepted) =>
                partitions[route].accepted[i] = inHand[c]
  BY <1>1, <1>2 DEF ClientsInv, TypedOK
<1>7. route \in DOMAIN partitions /\ partitions[route].accepted \in Seq(Commands)
  BY <1>2, <1>6, TypedPartition DEF ClientsInv
<1>8. /\ partitions' \in Seq(Partition) /\ Len(partitions') = Len(partitions)
      /\ \A j \in DOMAIN partitions' : Len(partitions'[j].queue) <= QueueSlots
      /\ PartitionsOK'
      /\ partitions'[route].accepted = Append(partitions[route].accepted, Stop)
  BY <1>1, <1>7, StopIsNoWrite, PushStep DEF ClientsInv
<1>9. \A i \in DOMAIN partitions'[route].accepted :
         IsWrite(i, partitions'[route].accepted) =>
             partitions'[route].accepted[i] = inHand[c]
  <2> DEFINE A == partitions[route].accepted
  <2>1. /\ Len(A) \in Nat /\ DOMAIN A = 1 .. Len(A)
        /\ DOMAIN Append(A, Stop) = 1 .. Len(A) + 1
        /\ Append(A, Stop)[Len(A) + 1] = Stop
        /\ \A i \in 1 .. Len(A) : Append(A, Stop)[i] = A[i]
    BY <1>7, StopIsNoWrite, AppendIs
  <2>2. \A i \in DOMAIN A : A[i] # Stop => A[i] = inHand[c]
    BY <1>6 DEF IsWrite
  <2> HIDE DEF A
  <2>3. \A i \in DOMAIN Append(A, Stop) :
           Append(A, Stop)[i] # Stop => Append(A, Stop)[i] = inHand[c]
    BY <2>1, <2>2
  <2> QED
    BY <2>3, <1>8 DEF A, IsWrite
<1>10. ClientsTypeOK'
  BY <1>1, <1>5, <1>8 DEF ClientsInv, ClientsTypeOK
<1>11. CallersOK'
  BY <1>1, <1>5 DEF ClientsInv, CallersOK
<1>12. KvStops' /\ KvNumbers' /\ KvGot'
  BY <1>1, <1>2 DEF KvStops, KvNumbers, KvGot
<1>13. TypedOK'
  <2>1. route' = route /\ route' = Len(partitions') /\ inHand' = inHand
    BY <1>1, <1>6, <1>8
  <2>2. \A i \in DOMAIN partitions'[route].accepted :
           IsWrite(i, partitions'[route].accepted) =>
               partitions'[route].accepted[i].nr
                   = returned'[partitions'[route].accepted[i].key]
    BY <1>5, <1>9
  <2> QED
    BY <1>5, <1>6, <2>1, <2>2 DEF TypedOK
<1> QED
  BY <1>8, <1>10, <1>11, <1>12, <1>13 DEF ClientsInv

\* The first commands of a sequence.
LEMMA FirstOf ==
  ASSUME NEW cmds \in Seq(Commands), NEW m \in 0 .. Len(cmds)
  PROVE  /\ SubSeq(cmds, 1, m) \in Seq(Commands)
         /\ Len(SubSeq(cmds, 1, m)) = m
         /\ DOMAIN SubSeq(cmds, 1, m) = 1 .. m
         /\ \A i \in 1 .. m : SubSeq(cmds, 1, m)[i] = cmds[i]
<1>1. Len(cmds) \in Nat /\ \A i \in 1 .. Len(cmds) : cmds[i] \in Commands
  BY LenProperties, ElementOfSeq
<1> QED
  BY <1>1, SubSeqProperties

\* What was taken is a part of what was accepted.
LEMMA TakenIs ==
  ASSUME NEW part \in Partition, PartitionOK(part)
  PROVE  /\ Taken(part) \in 0 .. Len(part.accepted)
         /\ Taken(part) \in Nat
         /\ 1 .. Taken(part) \subseteq DOMAIN part.accepted
<1> DEFINE n == Len(part.accepted)
           l == Len(part.queue)
           m == Taken(part)
<1>1. n \in Nat /\ l \in Nat /\ DOMAIN part.accepted = 1 .. n
  BY PartitionParts
<1>2. m \in Nat /\ m = n - l
  BY Zenon DEF PartitionOK, Waiting
<1> HIDE DEF n, l, m
<1>3. m \in 0 .. n /\ 1 .. m \subseteq 1 .. n
  BY <1>1, <1>2
<1> QED
  BY <1>1, <1>2, <1>3 DEF n, m

\* Data that is there is that of the last write of its key among the commands
\* taken.
LEMMA FoundTaken ==
  ASSUME NEW part \in Partition, PartitionOK(part), NEW k \in Keys, part.data[k] # 0
  PROVE  \E i \in 1 .. Taken(part) :
            /\ part.accepted[i] # Stop
            /\ part.accepted[i].key = k
            /\ part.accepted[i].nr = part.data[k]
            /\ \A j \in 1 .. Taken(part) :
                  part.accepted[j] # Stop /\ part.accepted[j].key = k => j <= i
<1> DEFINE A == part.accepted
           m == Taken(part)
           done == SubSeq(A, 1, m)
<1>1. /\ A \in Seq(Commands) /\ Len(A) \in Nat
      /\ part.queue \in Seq(Commands) /\ Len(part.queue) \in Nat
      /\ \A i \in 1 .. Len(A) : A[i] \in Commands
  BY PartitionParts
<1>2. m \in Nat /\ m = Len(A) - Len(part.queue) /\ part.data = Applied(Nothing, done)
  BY Zenon DEF PartitionOK, Waiting
<1> HIDE DEF A, m
<1>3. m \in 0 .. Len(A)
  BY TakenIs DEF A, m
<1>4. /\ done \in Seq(Commands) /\ Len(done) = m /\ DOMAIN done = 1 .. m
      /\ \A i \in 1 .. m : done[i] = A[i]
  BY <1>1, <1>3, FirstOf
<1> HIDE DEF done
<1>5. part.data[k] = Applied(Nothing, done)[k] /\ Nothing[k] = 0
  BY <1>2 DEF Nothing
<1>6. WritesOf(done, k) # {}
  BY <1>4, <1>5, AppliedIs
<1>7. PICK i \in WritesOf(done, k) : \A j \in WritesOf(done, k) : j <= i
  BY <1>4, <1>6, AppliedIs
<1>8. part.data[k] = done[i].nr
  BY <1>4, <1>5, <1>7, AppliedIs
<1>9. i \in 1 .. m /\ A[i] # Stop /\ A[i].key = k /\ A[i].nr = part.data[k]
  BY <1>4, <1>7, <1>8 DEF WritesOf
<1>10. \A j \in 1 .. m : A[j] # Stop /\ A[j].key = k => j <= i
  BY <1>4, <1>7 DEF WritesOf
<1> QED
  BY <1>9, <1>10 DEF A, m

\* A get changes only what was found.
LEMMA GetInv ==
  ASSUME ClientsConstants, ClientsInv, NEW c \in Callers, NEW k \in Keys, Get(c, k)
  PROVE  ClientsInv'
<1>1. /\ got' = [got EXCEPT ![k] = Found(k)]
      /\ UNCHANGED <<kind, partitions, route, caller, inHand, store, begun, returned>>
  BY DEF Get
<1>2. got \in [Keys -> 0 .. MaxOps] /\ MaxOps \in Nat
  BY DEF ClientsInv, ClientsTypeOK, ClientsConstants
<1>3. Found(k) \in 0 .. MaxOps
  <2>1. CASE route = 0
    BY <2>1, <1>2 DEF Found
  <2>2. CASE route # 0
    <3>1. partitions \in Seq(Partition) /\ route \in 0 .. Len(partitions)
      BY DEF ClientsInv, ClientsTypeOK
    <3>2. DOMAIN partitions = 1 .. Len(partitions) /\ Len(partitions) \in Nat
      BY <3>1, LenProperties
    <3>3. route \in DOMAIN partitions
      BY <2>2, <3>1, <3>2
    <3>4. partitions[route].data \in [Keys -> 0 .. MaxOps]
      BY <3>3, OnePartition, PartitionParts DEF ClientsInv
    <3> QED
      BY <2>2, <3>4 DEF Found
  <2> QED
    BY <2>1, <2>2
<1>4. /\ got' \in [Keys -> 0 .. MaxOps]
      /\ got'[k] = Found(k)
      /\ \A l \in Keys : l # k => got'[l] = got[l]
  BY <1>1, <1>2, <1>3
<1>5. ClientsTypeOK' /\ PartitionsOK'
  BY <1>1, <1>4 DEF ClientsInv, ClientsTypeOK, PartitionsOK
<1>6. CallersOK' /\ KvStops' /\ KvNumbers' /\ TypedOK'
  BY <1>1 DEF ClientsInv, CallersOK, KvStops, KvNumbers, TypedOK
<1>7. KvGot'
  <2> SUFFICES ASSUME kind = "kv", NEW l \in Keys, got'[l] # 0
               PROVE  \E i \in 1 .. Taken(partitions[1]) :
                         /\ partitions[1].accepted[i] # Stop
                         /\ partitions[1].accepted[i].key = l
                         /\ partitions[1].accepted[i].nr = got'[l]
    BY <1>1 DEF KvGot
  <2>1. CASE l # k
    BY <2>1, <1>4 DEF ClientsInv, KvGot
  <2>2. CASE l = k
    <3>1. route = 1 /\ partitions[1] \in Partition /\ PartitionOK(partitions[1])
      BY KvPartition DEF ClientsInv
    <3>2. partitions[1].data[k] = got'[k] /\ partitions[1].data[k] # 0
      BY <2>2, <3>1, <1>4 DEF Found
    <3> QED
      BY <2>2, <3>1, <3>2, FoundTaken
  <2> QED
    BY <2>1, <2>2
<1> QED
  BY <1>5, <1>6, <1>7 DEF ClientsInv

\* The drop of the store begins, and nobody is in a call.
LEMMA DropStoreInv ==
  ASSUME ClientsInv, DropStore
  PROVE  ClientsInv'
<1>1. /\ store = "open" /\ store' = "pushing"
      /\ \A c \in Callers : caller[c] = "idle"
      /\ UNCHANGED <<kind, partitions, route, caller, inHand, begun, returned, got>>
  BY DEF DropStore
<1>2. ClientsTypeOK' /\ PartitionsOK' /\ CallersOK'
  BY <1>1 DEF ClientsInv, ClientsTypeOK, PartitionsOK, CallersOK
<1>3. KvStops' /\ KvNumbers' /\ KvGot' /\ TypedOK'
  BY <1>1 DEF ClientsInv, KvStops, KvNumbers, KvGot, TypedOK
<1> QED
  BY <1>2, <1>3 DEF ClientsInv

\* The dispatcher pushes its Shutdown, the last command of a key value store.
LEMMA PushShutdownInv ==
  ASSUME ClientsConstants, ClientsInv, PushShutdown
  PROVE  ClientsInv'
<1>1. /\ store = "pushing" /\ store' = "joining"
      /\ UNCHANGED <<kind, route, caller, inHand, begun, returned, got>>
      /\ IF route = 0 THEN UNCHANGED partitions ELSE PushTo(route, Stop)
  BY DEF PushShutdown
<1>2. \A c \in Callers : caller[c] = "idle"
  BY <1>1 DEF ClientsInv, CallersOK
<1>3. CallersOK'
  BY <1>1, <1>2 DEF CallersOK
<1>4. kind \in {"kv", "typed"}
  BY DEF ClientsInv, ClientsTypeOK
<1>5. CASE kind = "kv"
  <2>1. route = 1 /\ PushTo(1, Stop)
    BY <1>1, <1>5 DEF ClientsInv, KvStops
  <2> DEFINE A == partitions[1].accepted
             B == partitions'[1].accepted
  <2>2. /\ partitions' \in Seq(Partition) /\ Len(partitions') = 1
        /\ DOMAIN partitions' = {1}
        /\ Len(partitions'[1].queue) <= QueueSlots
        /\ PartitionsOK'
        /\ Len(A) \in Nat /\ DOMAIN A = 1 .. Len(A) /\ DOMAIN B = 1 .. Len(A) + 1
        /\ Len(B) = Len(A) + 1
        /\ \A i \in 1 .. Len(A) : B[i] = A[i]
    BY <1>1, <1>5, <2>1, StopIsNoWrite, KvPush
  <2>3. ClientsTypeOK'
    BY <1>1, <2>1, <2>2 DEF ClientsInv, ClientsTypeOK
  <2>4. KvStops'
    <3>1. \A i \in DOMAIN A : A[i] # Stop
      BY <1>1, <1>5 DEF ClientsInv, KvStops
    <3>2. \A i \in DOMAIN B : B[i] = Stop => i = Len(B)
      <4> HIDE DEF A, B
      <4> QED
        BY <2>2, <3>1
    <3> QED
      BY <1>1, <1>2, <2>1, <2>2, <3>2 DEF KvStops
  <2>5. KvNumbers' /\ KvGot'
    BY <1>1, <1>5, <2>1, StopIsNoWrite, KvPushStop, KvPushGot
  <2>6. TypedOK'
    BY <1>1, <1>5 DEF TypedOK
  <2> QED
    BY <1>3, <2>2, <2>3, <2>4, <2>5, <2>6 DEF ClientsInv
<1>6. CASE kind = "typed"
  <2>1. KvStops' /\ KvNumbers' /\ KvGot'
    BY <1>1, <1>6 DEF KvStops, KvNumbers, KvGot
  <2>2. CASE route = 0
    <3>1. ClientsTypeOK' /\ PartitionsOK' /\ TypedOK'
      BY <1>1, <2>2 DEF ClientsInv, ClientsTypeOK, PartitionsOK, TypedOK
    <3> QED
      BY <1>3, <2>1, <3>1 DEF ClientsInv
  <2>3. CASE route # 0
    <3>1. /\ route \in DOMAIN partitions /\ route = Len(partitions)
          /\ partitions[route].accepted \in Seq(Commands)
      BY <1>6, <2>3, TypedPartition DEF ClientsInv
    <3>2. /\ partitions' \in Seq(Partition) /\ Len(partitions') = Len(partitions)
          /\ \A j \in DOMAIN partitions' : Len(partitions'[j].queue) <= QueueSlots
          /\ PartitionsOK'
          /\ partitions'[route].accepted = Append(partitions[route].accepted, Stop)
      BY <1>1, <2>3, <3>1, StopIsNoWrite, PushStep DEF ClientsInv
    <3>3. ClientsTypeOK'
      BY <1>1, <3>2 DEF ClientsInv, ClientsTypeOK
    <3>4. ASSUME NEW i \in DOMAIN partitions'[route].accepted,
                 IsWrite(i, partitions'[route].accepted)
          PROVE  partitions'[route].accepted[i].nr
                     = returned[partitions'[route].accepted[i].key]
      <4> DEFINE A == partitions[route].accepted
      <4>1. /\ Len(A) \in Nat /\ DOMAIN A = 1 .. Len(A)
            /\ DOMAIN Append(A, Stop) = 1 .. Len(A) + 1
            /\ Append(A, Stop)[Len(A) + 1] = Stop
            /\ \A j \in 1 .. Len(A) : Append(A, Stop)[j] = A[j]
        BY <3>1, StopIsNoWrite, AppendIs
      <4>2. \A j \in DOMAIN A : A[j] # Stop => A[j].nr = returned[A[j].key]
        BY <1>2, <1>6, <2>3 DEF ClientsInv, TypedOK, IsWrite
      <4>3. i \in DOMAIN Append(A, Stop) /\ Append(A, Stop)[i] # Stop
        BY <3>2, <3>4 DEF IsWrite
      <4> HIDE DEF A
      <4>4. Append(A, Stop)[i] = A[i] /\ i \in DOMAIN A /\ A[i] # Stop
        BY <4>1, <4>3
      <4>5. Append(A, Stop)[i].nr = returned[Append(A, Stop)[i].key]
        BY <4>2, <4>4
      <4> QED
        BY <4>5, <3>2 DEF A
    <3>5. TypedOK'
      BY <1>1, <1>2, <2>3, <3>1, <3>2, <3>4 DEF TypedOK
    <3> QED
      BY <1>3, <2>1, <3>2, <3>3, <3>5 DEF ClientsInv
  <2> QED
    BY <2>2, <2>3
<1> QED
  BY <1>4, <1>5, <1>6

\* When the thread of a key value store has ended, it has taken the Shutdown, so
\* that nothing waits any more.
LEMMA JoinThreadsInv ==
  ASSUME ClientsInv, JoinAll
  PROVE  ClientsInv'
<1>1. /\ store = "joining" /\ store' = IF kind = "kv" THEN "writer" ELSE "gone"
      /\ \A i \in DOMAIN partitions : ~ partitions[i].running
      /\ UNCHANGED <<kind, partitions, route, caller, inHand, begun, returned, got>>
  BY DEF JoinAll
<1>2. /\ store' \in {"writer", "gone"}
      /\ store' \notin {"open", "pushing", "joining"}
  BY <1>1
<1>3. \A c \in Callers : caller[c] = "idle"
  BY <1>1 DEF ClientsInv, CallersOK
<1>4. ClientsTypeOK' /\ PartitionsOK' /\ CallersOK'
  BY <1>1, <1>2, <1>3 DEF ClientsInv, ClientsTypeOK, PartitionsOK, CallersOK
<1>5. KvNumbers' /\ KvGot' /\ TypedOK'
  BY <1>1 DEF ClientsInv, KvNumbers, KvGot, TypedOK
<1>6. KvStops'
  <2>1. CASE kind = "kv"
    <3>1. /\ DOMAIN partitions = {1} /\ partitions[1] \in Partition
          /\ PartitionOK(partitions[1])
      BY <2>1, KvPartition DEF ClientsInv
    <3> DEFINE A == partitions[1].accepted
               q == partitions[1].queue
               m == Taken(partitions[1])
    <3>2. /\ Len(A) \in Nat /\ DOMAIN A = 1 .. Len(A)
          /\ Len(q) \in Nat /\ DOMAIN q = 1 .. Len(q)
      BY <3>1, PartitionParts
    <3>3. m \in Nat /\ m = Len(A) - Len(q)
      BY <3>1, Zenon DEF PartitionOK, Waiting
    <3>4. ~ NoStop(A, m)
      BY <1>1, <3>1 DEF PartitionOK
    <3>5. \A i \in DOMAIN A : A[i] = Stop => i = Len(A)
      BY <1>1, <2>1 DEF ClientsInv, KvStops
    <3> HIDE DEF A, q, m
    <3>6. PICK i \in 1 .. m : A[i] = Stop
      BY <3>4 DEF NoStop
    <3>10. i \in DOMAIN A
      BY <3>2, <3>3
    <3>7. i = Len(A)
      BY <3>5, <3>6, <3>10
    <3>8. Len(q) = 0
      BY <3>2, <3>3, <3>6, <3>7
    <3>9. DOMAIN q = {}
      BY <3>2, <3>8
    <3> QED
      BY <1>1, <1>2, <3>9 DEF ClientsInv, KvStops, q
  <2>2. CASE kind # "kv"
    BY <1>1, <2>2 DEF KvStops
  <2> QED
    BY <2>1, <2>2
<1> QED
  BY <1>4, <1>5, <1>6 DEF ClientsInv

\* The writer's Shutdown is pushed behind all that was applied.
LEMMA DropWriterInv ==
  ASSUME ClientsConstants, ClientsInv, DropWriter
  PROVE  ClientsInv'
<1>1. /\ store = "writer" /\ store' = "gone" /\ PushTo(route, Stop)
      /\ UNCHANGED <<kind, route, caller, inHand, begun, returned, got>>
  BY DEF DropWriter
<1>2. \A c \in Callers : caller[c] = "idle"
  BY <1>1 DEF ClientsInv, CallersOK
<1>3. CallersOK'
  BY <1>1, <1>2 DEF CallersOK
<1>4. kind = "kv"
  BY <1>1 DEF ClientsInv, CallersOK
<1>5. route = 1 /\ PushTo(1, Stop)
  BY <1>1, <1>4 DEF ClientsInv, KvStops
<1> DEFINE q == partitions[1].queue
           r == partitions'[1].queue
<1>6. /\ partitions' \in Seq(Partition) /\ Len(partitions') = 1
      /\ DOMAIN partitions' = {1}
      /\ Len(r) <= QueueSlots
      /\ PartitionsOK'
      /\ Len(q) \in Nat /\ DOMAIN q = 1 .. Len(q) /\ DOMAIN r = 1 .. Len(q) + 1
      /\ r[Len(q) + 1] = Stop
      /\ \A j \in 1 .. Len(q) : r[j] = q[j]
  BY <1>1, <1>4, <1>5, StopIsNoWrite, KvPush
<1>7. ClientsTypeOK'
  BY <1>1, <1>5, <1>6 DEF ClientsInv, ClientsTypeOK
<1>8. KvStops'
  <2>1. \A j \in DOMAIN q : q[j] = Stop
    BY <1>1, <1>4 DEF ClientsInv, KvStops
  <2>2. \A j \in DOMAIN r : r[j] = Stop
    <3> HIDE DEF q, r
    <3> QED
      BY <1>6, <2>1
  <2> QED
    BY <1>1, <1>2, <1>5, <1>6, <2>2 DEF KvStops
<1>9. KvNumbers' /\ KvGot'
  BY <1>1, <1>4, <1>5, StopIsNoWrite, KvPushStop, KvPushGot
<1>10. TypedOK'
  BY <1>1, <1>4 DEF TypedOK
<1> QED
  BY <1>3, <1>6, <1>7, <1>8, <1>9, <1>10 DEF ClientsInv

\* Every step keeps the invariant.
LEMMA ClientsKept ==
  ASSUME ClientsConstants, ClientsInv, [ClientsNext]_clientVars
  PROVE  ClientsInv'
<1>1. CASE \E i \in DOMAIN partitions : Drain(i)
  BY <1>1, ClientsDrainInv
<1>2. CASE \E c \in Callers, k \in Keys : \E op \in {"put", "delete"} : PutBegin(c, k, op)
  BY <1>2, PutBeginInv
<1>3. CASE \E c \in Callers, k \in Keys : InsertBegin(c, k)
  BY <1>3, InsertBeginInv
<1>4. CASE \E c \in Callers, k \in Keys : Get(c, k)
  BY <1>4, GetInv
<1>5. CASE \E c \in Callers : SendReturns(c)
  BY <1>5, SendOkInv
<1>6. CASE \E c \in Callers : InsertReturns(c)
  BY <1>6, InsertReturnsInv
<1>7. CASE DropStore
  BY <1>7, DropStoreInv
<1>8. CASE PushShutdown
  BY <1>8, PushShutdownInv
<1>9. CASE JoinAll
  BY <1>9, JoinThreadsInv
<1>10. CASE DropWriter
  BY <1>10, DropWriterInv
<1>11. CASE UNCHANGED clientVars
  <2>1. UNCHANGED <<kind, partitions, route, caller, inHand, store, begun, returned, got>>
    BY <1>11 DEF clientVars
  <2>2. ClientsTypeOK' /\ PartitionsOK' /\ CallersOK'
    BY <2>1 DEF ClientsInv, ClientsTypeOK, PartitionsOK, CallersOK
  <2>3. KvStops' /\ KvNumbers' /\ KvGot' /\ TypedOK'
    BY <2>1 DEF ClientsInv, KvStops, KvNumbers, KvGot, TypedOK
  <2> QED
    BY <2>2, <2>3 DEF ClientsInv
<1> QED
  BY <1>1, <1>2, <1>3, <1>4, <1>5, <1>6, <1>7, <1>8, <1>9, <1>10, <1>11 DEF ClientsNext, DropNext

-----------------------------------------------------------------------------
(* The theorems *)

\* Type correctness of both stores: whatever callers, partitions and the drop do,
\* no queue ever holds more than it has slots for.
THEOREM ClientsTyped == ASSUME ClientsConstants PROVE ClientsSpec => []ClientsTypeOK
<1>1. ClientsInit => ClientsInv
  BY ClientsInitially
<1>2. ClientsInv /\ [ClientsNext]_clientVars => ClientsInv'
  BY ClientsKept
<1>3. ClientsInv => ClientsTypeOK
  BY DEF ClientsInv
<1> QED
  BY <1>1, <1>2, <1>3, PTL DEF ClientsSpec

\* Shutdowns behind the m-th command change nothing of the data.
LEMMA AppliedBefore ==
  ASSUME NEW d, NEW all \in Seq(Commands), NEW m \in 0 .. Len(all),
         \A i \in m + 1 .. Len(all) : all[i] = Stop
  PROVE  Applied(d, all) = Applied(d, SubSeq(all, 1, m))
<1> DEFINE a == SubSeq(all, 1, m)
<1>1. /\ Len(all) \in Nat /\ DOMAIN all = 1 .. Len(all)
      /\ \A i \in 1 .. Len(all) : all[i] \in Commands
  BY LenProperties, ElementOfSeq
<1>2. /\ a \in Seq(Commands) /\ Len(a) = m /\ DOMAIN a = 1 .. m
      /\ \A i \in 1 .. m : a[i] = all[i]
  BY <1>1, SubSeqProperties
<1> HIDE DEF a
<1>3. ASSUME NEW k \in Keys
      PROVE  Applied(d, all)[k] = Applied(d, a)[k]
  <2>1. WritesOf(all, k) = WritesOf(a, k)
    <3>1. ASSUME NEW i \in WritesOf(all, k)
          PROVE  i \in WritesOf(a, k)
      <4>1. i \in 1 .. Len(all) /\ all[i] # Stop /\ all[i].key = k
        BY <1>1 DEF WritesOf
      <4>2. i \in 1 .. m
        BY <4>1, <1>1
      <4> QED
        BY <4>1, <4>2, <1>2 DEF WritesOf
    <3>2. ASSUME NEW i \in WritesOf(a, k)
          PROVE  i \in WritesOf(all, k)
      <4>1. i \in 1 .. m /\ all[i] # Stop /\ all[i].key = k
        BY <1>2 DEF WritesOf
      <4>2. i \in DOMAIN all
        BY <4>1, <1>1
      <4> QED
        BY <4>1, <4>2 DEF WritesOf
    <3> QED
      BY <3>1, <3>2
  <2>2. \A i \in WritesOf(a, k) : a[i] = all[i]
    BY <1>2 DEF WritesOf
  <2>3. CASE WritesOf(a, k) = {}
    BY <2>1, <2>3, <1>2, AppliedIs
  <2>4. CASE WritesOf(a, k) # {}
    <3>1. PICK i \in WritesOf(a, k) : \A j \in WritesOf(a, k) : j <= i
      BY <2>4, <1>2, AppliedIs
    <3>2. Applied(d, a)[k] = a[i].nr
      BY <3>1, <1>2, AppliedIs
    <3>3. Applied(d, all)[k] = all[i].nr
      BY <3>1, <2>1, AppliedIs
    <3> QED
      BY <3>2, <3>3, <2>2
  <2> QED
    BY <2>3, <2>4
<1>4. Applied(d, all) = Applied(d, a)
  <2>1. /\ DOMAIN Applied(d, all) = Keys /\ DOMAIN Applied(d, a) = Keys
        /\ Applied(d, all) = [k \in Keys |-> Applied(d, all)[k]]
        /\ Applied(d, a) = [k \in Keys |-> Applied(d, a)[k]]
    BY DEF Applied
  <2> QED
    BY <1>3, <2>1
<1> QED
  BY <1>4 DEF a

\* A write that was taken shows in the data.
LEMMA TakenFound ==
  ASSUME NEW part \in Partition, PartitionOK(part), NEW k \in Keys,
         NEW i \in 1 .. Taken(part), part.accepted[i] # Stop, part.accepted[i].key = k
  PROVE  part.data[k] # 0
<1> DEFINE A == part.accepted
           m == Taken(part)
           done == SubSeq(A, 1, m)
<1>1. /\ A \in Seq(Commands) /\ Len(A) \in Nat
      /\ part.queue \in Seq(Commands) /\ Len(part.queue) \in Nat
      /\ \A j \in 1 .. Len(A) : A[j] \in Commands
  BY PartitionParts
<1>2. m \in Nat /\ m = Len(A) - Len(part.queue) /\ part.data = Applied(Nothing, done)
  BY Zenon DEF PartitionOK, Waiting
<1>3. i \in 1 .. m /\ A[i] # Stop /\ A[i].key = k
  OBVIOUS
<1> HIDE DEF A, m
<1>4. m \in 0 .. Len(A)
  BY TakenIs DEF A, m
<1>5. /\ done \in Seq(Commands) /\ Len(done) = m /\ DOMAIN done = 1 .. m
      /\ \A j \in 1 .. m : done[j] = A[j]
  BY <1>1, <1>4, FirstOf
<1> HIDE DEF done
<1>6. i \in WritesOf(done, k)
  BY <1>3, <1>5 DEF WritesOf
<1>7. PICK n \in WritesOf(done, k) : \A j \in WritesOf(done, k) : j <= n
  BY <1>5, <1>6, AppliedIs
<1>8. part.data[k] = done[n].nr
  BY <1>2, <1>5, <1>7, AppliedIs
<1>9. done[n] \in Commands /\ done[n] # Stop
  BY <1>5, <1>7, ElementOfSeq DEF WritesOf
<1> QED
  BY <1>8, <1>9, CommandParts

\* The invariant says what a finished drop leaves.
LEMMA NothingLeft ==
  ASSUME ClientsInv
  PROVE  DropDrains
<1> SUFFICES ASSUME store \in {"writer", "gone"}, kind = "kv"
             PROVE  partitions[1].data = Applied(Nothing, partitions[1].accepted)
  BY DEF DropDrains, Nothing
<1> DEFINE A == partitions[1].accepted
           q == partitions[1].queue
           m == Taken(partitions[1])
<1>1. partitions[1] \in Partition /\ PartitionOK(partitions[1])
  BY KvPartition DEF ClientsInv
<1>2. /\ A \in Seq(Commands) /\ Len(A) \in Nat /\ Len(q) \in Nat
      /\ DOMAIN q = 1 .. Len(q)
  BY <1>1, PartitionParts
<1>3. /\ m \in Nat /\ m = Len(A) - Len(q)
      /\ \A j \in 1 .. Len(q) : q[j] = A[m + j]
      /\ partitions[1].data = Applied(Nothing, SubSeq(A, 1, m))
  BY <1>1, Zenon DEF PartitionOK, Waiting
<1>4. \A j \in DOMAIN q : q[j] = Stop
  BY DEF ClientsInv, KvStops
<1> HIDE DEF A, q, m
<1>5. ASSUME NEW i \in m + 1 .. Len(A)
      PROVE  A[i] = Stop
  <2>1. i - m \in 1 .. Len(q) /\ m + (i - m) = i
    BY <1>2, <1>3
  <2> QED
    BY <2>1, <1>2, <1>3, <1>4
<1>6. m \in 0 .. Len(A)
  BY <1>2, <1>3
<1>7. Applied(Nothing, A) = Applied(Nothing, SubSeq(A, 1, m))
  BY <1>2, <1>5, <1>6, AppliedBefore
<1> QED
  BY <1>3, <1>7 DEF A

\* When the drop of a key value store is over, all that was put and deleted by
\* any caller has been applied, in the order in which it was accepted.
THEOREM DropAppliesAll == ASSUME ClientsConstants PROVE ClientsSpec => []DropDrains
<1>1. ClientsInit => ClientsInv
  BY ClientsInitially
<1>2. ClientsInv /\ [ClientsNext]_clientVars => ClientsInv'
  BY ClientsKept
<1>3. ClientsInv => DropDrains
  BY NothingLeft
<1> QED
  BY <1>1, <1>2, <1>3, PTL DEF ClientsSpec

\* Steps other than a get leave what was found.
LEMMA OnlyGets ==
  ASSUME [ClientsNext]_clientVars, got' # got
  PROVE  \E c \in Callers, k \in Keys : Get(c, k)
  BY DEF ClientsNext, DropNext, clientVars, Drain, PutBegin, InsertBegin, SendReturns, InsertReturns,
     DropStore, PushShutdown, JoinAll, DropWriter

\* A get finds what the last one found or a write accepted later; in the typed
\* cache, the latest insert or nothing.
LEMMA GetForward ==
  ASSUME ClientsInv, NEW c \in Callers, NEW l \in Keys, Get(c, l),
         NEW k \in Keys, got'[k] # got[k]
  PROVE  IF kind = "kv"
         THEN /\ got'[k] # 0
              /\ \A i, j \in DOMAIN partitions[route].accepted :
                    /\ IsWrite(i, partitions[route].accepted)
                    /\ IsWrite(j, partitions[route].accepted)
                    /\ partitions[route].accepted[i].nr = got[k]
                    /\ partitions[route].accepted[j].nr = got'[k]
                    => i < j
         ELSE got'[k] \in {0, returned[k]}
<1>1. /\ got' = [got EXCEPT ![l] = Found(l)]
      /\ store = "open" /\ (kind = "typed" => \A d \in Callers : caller[d] = "idle")
  BY DEF Get
<1>2. got \in [Keys -> 0 .. MaxOps] /\ kind \in {"kv", "typed"}
  BY DEF ClientsInv, ClientsTypeOK
<1>3. k = l /\ got'[k] = Found(k)
  BY <1>1, <1>2
<1>4. CASE kind = "kv"
  <2> DEFINE A == partitions[1].accepted
             m == Taken(partitions[1])
  <2>1. /\ route = 1 /\ partitions[1] \in Partition /\ PartitionOK(partitions[1])
        /\ got'[k] = partitions[1].data[k]
    BY <1>3, <1>4, KvPartition DEF ClientsInv, Found
  <2>2. /\ A \in Seq(Commands) /\ Len(A) \in Nat /\ DOMAIN A = 1 .. Len(A)
        /\ Len(partitions[1].queue) \in Nat
    BY <2>1, PartitionParts
  <2>3. m \in Nat /\ 1 .. m \subseteq DOMAIN A
    BY <2>1, TakenIs
  <2>4. \A i, j \in DOMAIN A : IsWrite(i, A) /\ IsWrite(j, A) /\ A[i].nr = A[j].nr => i = j
    BY <1>4 DEF ClientsInv, KvNumbers
  <2>5. got[k] # 0 => \E i \in 1 .. m : A[i] # Stop /\ A[i].key = k /\ A[i].nr = got[k]
    BY <1>4 DEF ClientsInv, KvGot
  <2>6. got'[k] # 0 =>
           \E i \in 1 .. m :
              /\ A[i] # Stop /\ A[i].key = k /\ A[i].nr = got'[k]
              /\ \A j \in 1 .. m : A[j] # Stop /\ A[j].key = k => j <= i
    BY <2>1, FoundTaken
  <2>7. \A j \in DOMAIN A : IsWrite(j, A) => A[j].nr # 0
    <3>1. \A j \in DOMAIN A : A[j] \in Commands
      BY <2>2, ElementOfSeq
    <3> QED
      BY <3>1, CommandParts DEF IsWrite
  <2>8. got'[k] # 0
    BY <2>1, <2>5, <1>3, TakenFound
  <2> HIDE DEF A, m
  <2>9. 1 .. m \subseteq DOMAIN A
    BY <2>3
  <2>10. PICK n \in 1 .. m :
            /\ A[n] # Stop /\ A[n].key = k /\ A[n].nr = got'[k]
            /\ \A j \in 1 .. m : A[j] # Stop /\ A[j].key = k => j <= n
    BY <2>6, <2>8
  <2>11. ASSUME NEW i \in DOMAIN A, NEW j \in DOMAIN A, IsWrite(i, A), IsWrite(j, A),
                A[i].nr = got[k], A[j].nr = got'[k]
         PROVE  i < j
    <3>1. j = n
      BY <2>4, <2>9, <2>10, <2>11 DEF IsWrite
    <3>2. got[k] # 0
      BY <2>7, <2>11
    <3>3. PICK o \in 1 .. m : A[o] # Stop /\ A[o].key = k /\ A[o].nr = got[k]
      BY <2>5, <3>2
    <3>4. i = o
      BY <2>4, <2>9, <2>11, <3>3 DEF IsWrite
    <3>5. i <= n /\ i # n
      BY <2>10, <2>11, <3>3, <3>4
    <3> QED
      BY <3>1, <3>4, <3>5, <2>3
  <2> QED
    BY <1>4, <2>1, <2>8, <2>11 DEF A
<1>5. CASE kind = "typed"
  <2>1. CASE route = 0
    BY <1>3, <1>5, <2>1 DEF Found
  <2>2. CASE route # 0
    <3> DEFINE A == partitions[route].accepted
               m == Taken(partitions[route])
    <3>1. /\ partitions[route] \in Partition /\ PartitionOK(partitions[route])
          /\ got'[k] = partitions[route].data[k]
      BY <1>3, <1>5, <2>2, TypedPartition DEF ClientsInv, Found
    <3>3. 1 .. m \subseteq DOMAIN A
      BY <3>1, TakenIs
    <3>4. \A i \in DOMAIN A : IsWrite(i, A) => A[i].nr = returned[A[i].key]
      BY <1>1, <1>5, <2>2 DEF ClientsInv, TypedOK
    <3>5. got'[k] # 0 => \E i \in 1 .. m : A[i] # Stop /\ A[i].key = k /\ A[i].nr = got'[k]
      BY <3>1, FoundTaken
    <3> HIDE DEF A, m
    <3> QED
      BY <1>5, <3>3, <3>4, <3>5 DEF IsWrite
  <2> QED
    BY <2>1, <2>2
<1> QED
  BY <1>2, <1>4, <1>5

\* A get never goes back: in the key value store it finds what the last get of
\* the key found or a write accepted later, in the typed cache the latest insert
\* of the key or nothing.
THEOREM GetsGoForward == ASSUME ClientsConstants PROVE ClientsSpec => ReadsForward
<1> DEFINE Forward ==
      \A k \in Keys : got'[k] # got[k] =>
           IF kind = "kv"
           THEN LET history == partitions[route].accepted
                    Place(nr) == {i \in DOMAIN history :
                                     history[i] # Stop /\ history[i].nr = nr}
                IN /\ got'[k] # 0
                   /\ \A i \in Place(got[k]), j \in Place(got'[k]) : i < j
           ELSE got'[k] \in {0, returned[k]}
<1>1. ClientsInit => ClientsInv
  BY ClientsInitially
<1>2. ClientsInv /\ [ClientsNext]_clientVars => ClientsInv'
  BY ClientsKept
<1>3. ClientsInv /\ [ClientsNext]_clientVars => [Forward]_got
  <2> SUFFICES ASSUME ClientsInv, [ClientsNext]_clientVars, got' # got
               PROVE  Forward
    OBVIOUS
  <2>1. PICK c \in Callers, l \in Keys : Get(c, l)
    BY OnlyGets
  <2> SUFFICES ASSUME NEW k \in Keys, got'[k] # got[k]
               PROVE  IF kind = "kv"
                      THEN LET history == partitions[route].accepted
                               Place(nr) == {i \in DOMAIN history :
                                                history[i] # Stop /\ history[i].nr = nr}
                           IN /\ got'[k] # 0
                              /\ \A i \in Place(got[k]), j \in Place(got'[k]) : i < j
                      ELSE got'[k] \in {0, returned[k]}
    OBVIOUS
  <2>2. IF kind = "kv"
        THEN /\ got'[k] # 0
             /\ \A i, j \in DOMAIN partitions[route].accepted :
                   /\ IsWrite(i, partitions[route].accepted)
                   /\ IsWrite(j, partitions[route].accepted)
                   /\ partitions[route].accepted[i].nr = got[k]
                   /\ partitions[route].accepted[j].nr = got'[k]
                   => i < j
        ELSE got'[k] \in {0, returned[k]}
    BY <2>1, GetForward
  <2> QED
    BY <2>2 DEF IsWrite
<1> QED
  BY <1>1, <1>2, <1>3, PTL DEF ClientsSpec, ReadsForward

=============================================================================
