----------------------------- MODULE QsbrProofs -----------------------------
(***************************************************************************)
(* Proofs about Qsbr, for any number of partitions, workers, sessions,     *)
(* pointers and objects.                                                   *)
(***************************************************************************)
EXTENDS Qsbr, TLAPS

\* Every step keeps the types.
LEMMA TypeStep ==
  ASSUME QsbrTypeOK, [QsbrNext]_qsbrVars
  PROVE  QsbrTypeOK'
<1> USE QsbrAssumption DEF QsbrTypeOK, sessionVars, heapVars, scanVars
<1>1. ASSUME NEW w \in Workers, Register(w) PROVE QsbrTypeOK'
  BY <1>1 DEF Register
<1>2. ASSUME NEW s \in Sessions, EnterLoad(s) PROVE QsbrTypeOK'
  BY <1>2 DEF EnterLoad
<1>3. ASSUME NEW s \in Sessions, EnterStore(s) PROVE QsbrTypeOK'
  BY <1>3 DEF EnterStore
<1>4. ASSUME NEW s \in Sessions, OpenUnpinned(s) PROVE QsbrTypeOK'
  BY <1>4 DEF OpenUnpinned
<1>5. ASSUME NEW s \in Sessions, NEW c \in Cells, LoadRef(s, c) PROVE QsbrTypeOK'
  BY <1>5 DEF LoadRef
<1>6. ASSUME NEW s \in Sessions, Leave(s) PROVE QsbrTypeOK'
  BY <1>6 DEF Leave
<1>7. ASSUME NEW w \in Workers, ForceOffline(w) PROVE QsbrTypeOK'
  BY <1>7, Zenon DEF ForceOffline
<1>8. ASSUME NEW w \in Workers, ResumeOnline(w) PROVE QsbrTypeOK'
  BY <1>8 DEF ResumeOnline
<1>9. ASSUME NEW m \in Managers, NEW c \in Cells, NEW o \in Objs, Swap(m, c, o)
      PROVE QsbrTypeOK'
  BY <1>9 DEF Swap, Exchange
<1>10. ASSUME NEW m \in Managers, NEW o \in Objs, DeferFree(m, o) PROVE QsbrTypeOK'
  BY <1>10 DEF DeferFree, RetireEpoch, Entry
<1>11. ASSUME NEW m \in Managers, BumpEpoch(m) PROVE QsbrTypeOK'
  BY <1>11 DEF BumpEpoch
<1>12. ASSUME NEW m \in Managers, LoadGlobal(m) PROVE QsbrTypeOK'
  BY <1>12 DEF LoadGlobal
<1>13. ASSUME NEW m \in Managers, LoadHead(m) PROVE QsbrTypeOK'
  BY <1>13 DEF LoadHead
<1>14. ASSUME NEW m \in Managers, NEW w \in Workers, Visit(m, w) PROVE QsbrTypeOK'
  BY <1>14 DEF Visit, LowersMin
<1>15. ASSUME NEW m \in Managers, EndScan(m) PROVE QsbrTypeOK'
  BY <1>15 DEF EndScan
<1>16. ASSUME NEW m \in Managers, Retain(m) PROVE QsbrTypeOK'
  BY <1>16 DEF Retain, Kept, Expired, Entry
<1>18. ASSUME NEW m \in Managers, NEW c \in Cells, NEW o \in Objs, Discard(m, c, o)
      PROVE QsbrTypeOK'
  BY <1>18 DEF Discard, Exchange
<1>17. CASE UNCHANGED qsbrVars
  BY <1>17 DEF qsbrVars
<1> QED
  BY <1>1, <1>2, <1>3, <1>4, <1>5, <1>6, <1>7, <1>8, <1>9, <1>10, <1>11,
     <1>12, <1>13, <1>14, <1>15, <1>16, <1>17, <1>18, Zenon
     DEF QsbrNext, QsbrReaderNext, ManagerNext

\* Every variable of the reclamation protocol keeps its type (core/qsbr.rs).
THEOREM TypeCorrect == QsbrSpec => []QsbrTypeOK
<1>1. QsbrInit => QsbrTypeOK
  BY QsbrAssumption DEF QsbrInit, FirstEpoch, QsbrTypeOK
<1>2. QsbrTypeOK /\ [QsbrNext]_qsbrVars => QsbrTypeOK'
  BY TypeStep
<1> QED
  BY <1>1, <1>2, PTL DEF QsbrSpec
-----------------------------------------------------------------------------
(* The inductive invariant.                                                *)

Home(s) == HomeOf[WorkerOf[s]]

\* What the writer does not own in limbo outside a batch, and how far the
\* garbage epochs can be.
WriterInv ==
    \A m \in Managers :
        /\ mpc[m] # "batch" => limbo[m] = {}
        /\ mpc[m] = "retain" => unvisited[m] = {}
        /\ curGlobal[m] <= globalEpoch
        /\ \A e \in garbage[m] :
              /\ e.epoch <= globalEpoch
              /\ mpc[m] = "bumped" => e.epoch < globalEpoch
              /\ mpc[m] \in {"loaded", "scan", "retain"} => e.epoch < curGlobal[m]

\* A session that is not closed stamps a registered worker with an epoch that
\* has been reached, and references exist only while it is open.
PinInv ==
    \A s \in Sessions :
        /\ held[s] \subseteq allocated
        /\ held[s] # {} => spc[s] = "open"
        /\ spc[s] # "closed" => WorkerOf[s] \in registered
        /\ spc[s] = "entering" => s \in Pinned
        /\ trusted[s] => s \in Pinned /\ ~offline[WorkerOf[s]]
        /\ (s \in Pinned /\ spc[s] # "closed") => 1 <= stamp[s] /\ stamp[s] <= globalEpoch
        /\ (s \in Pinned /\ spc[s] = "open") => localEpoch[WorkerOf[s]] = stamp[s]

\* A reader's objects are published or retired by its own partition.
HomeInv ==
    \A s \in Sessions : \A o \in held[s] :
        /\ \A c \in Cells : cell[c] = o => OwnerOf[c] = Home(s)
        /\ \A m \in Managers : o \in limbo[m] => m = Home(s)
        /\ \A m \in Managers : \A e \in garbage[m] : e.obj = o => m = Home(s)

\* What a pinned reader holds was retired no earlier than its stamp.
EpochInv ==
    \A s \in Pinned : \A m \in Managers : \A e \in garbage[m] :
        e.obj \in held[s] => stamp[s] <= e.epoch

\* Once the walk is past a reader, min_epoch covers what the reader holds.
ScanInv ==
    \A s \in Sessions : \A m \in Managers : \A e \in garbage[m] :
        (mpc[m] \in {"scan", "retain"} /\ trusted[s] /\ e.obj \in held[s])
            => WorkerOf[s] \in unvisited[m] \/ minEpoch[m] <= e.epoch

IInv == QsbrTypeOK /\ OwnedOnce /\ WriterInv /\ PinInv /\ HomeInv /\ EpochInv
             /\ ScanInv /\ HeldNotFreed
-----------------------------------------------------------------------------
\* Ownership depends on the heap alone.
LEMMA SameHeap ==
  ASSUME OwnedOnce, UNCHANGED heapVars
  PROVE  OwnedOnce'
<1>1. UNCHANGED <<cell, allocated, limbo, garbage, freed, leaked>>
  BY DEF heapVars
<1>2. \A m, o : Queued(m, o)' <=> Queued(m, o)
  BY <1>1 DEF Queued
<1> QED
  BY <1>1, <1>2 DEF OwnedOnce, Exclusive

\* Every step keeps each object in one place.
LEMMA OwnedOnceStep ==
  ASSUME QsbrTypeOK, OwnedOnce, [QsbrNext]_qsbrVars
  PROVE  OwnedOnce'
<1> USE QsbrAssumption DEF QsbrTypeOK, sessionVars, heapVars, scanVars, OwnedOnce, Exclusive, Queued, Entry
<1>1. ASSUME NEW w \in Workers, Register(w) PROVE OwnedOnce'
  BY <1>1, SameHeap DEF Register
<1>2. ASSUME NEW s \in Sessions, EnterLoad(s) PROVE OwnedOnce'
  BY <1>2, SameHeap DEF EnterLoad
<1>3. ASSUME NEW s \in Sessions, EnterStore(s) PROVE OwnedOnce'
  BY <1>3, SameHeap DEF EnterStore
<1>4. ASSUME NEW s \in Sessions, OpenUnpinned(s) PROVE OwnedOnce'
  BY <1>4, SameHeap DEF OpenUnpinned
<1>5. ASSUME NEW s \in Sessions, NEW c \in Cells, LoadRef(s, c) PROVE OwnedOnce'
  BY <1>5, SameHeap DEF LoadRef
<1>6. ASSUME NEW s \in Sessions, Leave(s) PROVE OwnedOnce'
  BY <1>6, SameHeap DEF Leave
<1>7. ASSUME NEW w \in Workers, ForceOffline(w) PROVE OwnedOnce'
  BY <1>7, SameHeap DEF ForceOffline
<1>8. ASSUME NEW w \in Workers, ResumeOnline(w) PROVE OwnedOnce'
  BY <1>8, SameHeap DEF ResumeOnline
<1>9. ASSUME NEW m \in Managers, NEW c \in Cells, NEW o \in Objs, Swap(m, c, o) PROVE OwnedOnce'
  <2>1. /\ cell' = [cell EXCEPT ![c] = o] /\ UNCHANGED <<garbage, freed, leaked>>
        /\ o \in Objs \ allocated /\ allocated' = allocated \cup {o}
        /\ cell[c] \in Objs /\ cell[c] \in allocated
    BY <1>9 DEF Swap, Exchange
  <2>2. \A n \in Managers, x \in Objs :
           Queued(n, x)' <=> Queued(n, x) \/ (n = m /\ x = cell[c])
    BY <1>9 DEF Swap, Exchange
  <2>3. \A d \in Cells : cell[d] # o
    BY <2>1
  <2>4. \A n \in Managers : ~Queued(n, o)
    BY <2>1
  <2>5. Exclusive'
    <3>1. \A n, k \in Managers, x \in Objs : Queued(n, x)' /\ Queued(k, x)' => n = k
      <4> HIDE DEF Queued
      <4>1. \A n \in Managers : ~Queued(n, cell[c])
        BY <2>1
      <4> QED
        BY <4>1, <2>2
    <3>2. \A n \in Managers : \A e \in garbage'[n] :
             e.obj \notin limbo'[n] /\ \A f \in garbage'[n] : e.obj = f.obj => e = f
      BY <1>9 DEF Swap, Exchange
    <3>3. \A n \in Managers, d \in Cells : ~Queued(n, cell[d])'
      <4> HIDE DEF Queued
      <4> TAKE n \in Managers, d \in Cells
      <4>1. cell'[d] \in Objs /\ cell'[d] # cell[c] /\ ~Queued(n, cell'[d])
        BY <2>1, <2>3, <2>4
      <4> QED
        BY <4>1, <2>2
    <3>4. \A n \in Managers, x \in freed' \cup leaked' : ~Queued(n, x)'
      <4> HIDE DEF Queued
      <4> TAKE n \in Managers, x \in freed' \cup leaked'
      <4>1. x \in Objs /\ x # cell[c] /\ ~Queued(n, x)
        BY <2>1
      <4> QED
        BY <4>1, <2>2
    <3>5. \A d \in Cells : cell'[d] \notin freed' \cup leaked' /\ freed' \cap leaked' = {}
      BY <2>1
    <3>6. \A d, b \in Cells : cell'[d] = cell'[b] => d = b
      BY <2>1, <2>3
    <3> HIDE DEF Queued
    <3> QED
      BY <3>1, <3>2, <3>3, <3>4, <3>5, <3>6
  <2>6. \A x \in Objs : x \in allocated' <=> \/ x \in freed' \cup leaked'
                                             \/ \E d \in Cells : cell'[d] = x
                                             \/ \E n \in Managers : Queued(n, x)'
    <3> HIDE DEF Queued, Exclusive
    <3> TAKE x \in Objs
    <3>1. CASE x = o
      BY <3>1, <2>1
    <3>2. CASE x = cell[c]
      BY <3>2, <2>1, <2>2
    <3>3. CASE x # o /\ x # cell[c]
      BY <3>3, <2>1, <2>2
    <3> QED
      BY <3>1, <3>2, <3>3
  <2> QED
    BY <2>5, <2>6 DEF OwnedOnce
<1>10. ASSUME NEW m \in Managers, NEW o \in Objs, DeferFree(m, o) PROVE OwnedOnce'
  <2>1. \A n \in Managers, x \in Objs : Queued(n, x)' <=> Queued(n, x)
    <3> TAKE n \in Managers, x \in Objs
    <3>1. n # m => limbo'[n] = limbo[n] /\ garbage'[n] = garbage[n]
      BY <1>10 DEF DeferFree, RetireEpoch
    <3>2. limbo'[m] = limbo[m] \ {o} /\ o \in limbo[m]
      BY <1>10 DEF DeferFree, RetireEpoch
    <3>3. garbage'[m] = garbage[m] \cup {[obj |-> o, epoch |-> globalEpoch]}
      BY <1>10 DEF DeferFree, RetireEpoch
    <3>4. (\E e \in garbage'[m] : e.obj = x) <=> x = o \/ \E e \in garbage[m] : e.obj = x
      <4> DEFINE new == [obj |-> o, epoch |-> globalEpoch]
      <4>1. new.obj = o
        OBVIOUS
      <4>2. garbage'[m] = garbage[m] \cup {new}
        BY <3>3
      <4> HIDE DEF new
      <4> QED
        BY <4>1, <4>2, Zenon
    <3>5. CASE n = m
      BY <3>2, <3>4, <3>5
    <3>6. CASE n # m
      BY <3>1, <3>6
    <3> QED
      BY <3>5, <3>6
  <2>2. \A n \in Managers : \A e \in garbage'[n] :
           e.obj \notin limbo'[n] /\ \A f \in garbage'[n] : e.obj = f.obj => e = f
    BY <1>10 DEF DeferFree, RetireEpoch
  <2>3. UNCHANGED <<cell, freed, leaked, allocated>>
    BY <1>10 DEF DeferFree, RetireEpoch
  <2> HIDE DEF Queued
  <2> QED
    BY <2>1, <2>2, <2>3
<1>11. ASSUME NEW m \in Managers, BumpEpoch(m) PROVE OwnedOnce'
  BY <1>11, SameHeap DEF BumpEpoch
<1>12. ASSUME NEW m \in Managers, LoadGlobal(m) PROVE OwnedOnce'
  BY <1>12, SameHeap DEF LoadGlobal
<1>13. ASSUME NEW m \in Managers, LoadHead(m) PROVE OwnedOnce'
  BY <1>13, SameHeap DEF LoadHead
<1>14. ASSUME NEW m \in Managers, NEW w \in Workers, Visit(m, w) PROVE OwnedOnce'
  BY <1>14, SameHeap DEF Visit, LowersMin
<1>15. ASSUME NEW m \in Managers, EndScan(m) PROVE OwnedOnce'
  BY <1>15, SameHeap DEF EndScan
<1>16. ASSUME NEW m \in Managers, Retain(m) PROVE OwnedOnce'
  <2> DEFINE Dropped(n, x) == n = m /\ \E e \in garbage[m] : e.obj = x /\ e.epoch < minEpoch[m]
  <2>1. \A x \in Objs : x \in freed' <=> x \in freed \/ \E n \in Managers : Dropped(n, x)
    BY <1>16 DEF Retain, Kept, Expired
  <2>2. \A n \in Managers, x \in Objs : Queued(n, x)' <=> Queued(n, x) /\ ~Dropped(n, x)
    <3> TAKE n \in Managers, x \in Objs
    <3>1. limbo' = limbo /\ (n # m => garbage'[n] = garbage[n])
      BY <1>16 DEF Retain
    <3>2. garbage'[m] = {e \in garbage[m] : e.epoch >= minEpoch[m]}
      BY <1>16 DEF Retain, Kept
    <3>3. \A e \in garbage[m] : e.epoch \in Nat /\ minEpoch[m] \in Nat
      OBVIOUS
    <3>4. Dropped(n, x) => x \notin limbo[m]
      OBVIOUS
    <3>5. \A e, f \in garbage[m] : e.obj = f.obj => e = f
      OBVIOUS
    <3>6. CASE n # m
      BY <3>1, <3>6
    <3>7. CASE n = m
      <4>1. (\E e \in garbage'[m] : e.obj = x)
              <=> (\E e \in garbage[m] : e.obj = x) /\ ~Dropped(n, x)
        BY <3>2, <3>3, <3>5, <3>7
      <4> QED
        BY <4>1, <3>1, <3>4, <3>7
    <3> QED
      BY <3>6, <3>7
  <2>3. \A n \in Managers, x \in Objs : Dropped(n, x) => Queued(n, x)
    OBVIOUS
  <2>4. \A n \in Managers : \A e \in garbage'[n] :
           e.obj \notin limbo'[n] /\ \A f \in garbage'[n] : e.obj = f.obj => e = f
    BY <1>16 DEF Retain, Kept, Expired
  <2>5. UNCHANGED <<cell, allocated, leaked>> /\ freed' \subseteq Objs
    <3>1. UNCHANGED <<cell, allocated, leaked>>
      BY <1>16 DEF Retain
    <3>2. freed' \subseteq Objs
      BY <1>16 DEF Retain, Expired
    <3> QED
      BY <3>1, <3>2
  <2> HIDE DEF Queued, Dropped
  <2>6. \A n \in Managers, x \in freed' \cup leaked' : ~Queued(n, x)'
    BY <2>1, <2>2, <2>5, <2>3
  <2>7. (\A d \in Cells : cell'[d] \notin freed' \cup leaked') /\ freed' \cap leaked' = {}
    BY <2>1, <2>3, <2>5
  <2>8. \A n \in Managers, d \in Cells : ~Queued(n, cell[d])'
    BY <2>2, <2>5
  <2>9. \A n, k \in Managers, x \in Objs : Queued(n, x)' /\ Queued(k, x)' => n = k
    BY <2>2
  <2>10. Exclusive'
    BY <2>4, <2>5, <2>6, <2>7, <2>8, <2>9
  <2>11. \A x \in Objs : x \in allocated' <=> \/ x \in freed' \cup leaked'
                                              \/ \E d \in Cells : cell'[d] = x
                                              \/ \E n \in Managers : Queued(n, x)'
    <3> HIDE DEF Exclusive
    <3> TAKE x \in Objs
    <3>1. CASE \E n \in Managers : Dropped(n, x)
      <4>1. \E n \in Managers : Queued(n, x)
        BY <3>1, <2>3
      <4>2. x \in allocated
        BY <4>1
      <4>3. x \in freed'
        BY <3>1, <2>1
      <4> QED
        BY <4>2, <4>3, <2>5, Zenon
    <3>2. CASE ~\E n \in Managers : Dropped(n, x)
      <4>1. x \in freed' <=> x \in freed
        BY <3>2, <2>1
      <4>2. \A n \in Managers : Queued(n, x)' <=> Queued(n, x)
        BY <3>2, <2>2
      <4> QED
        BY <4>1, <4>2, <2>5
    <3> QED
      BY <3>1, <3>2
  <2> QED
    BY <2>10, <2>11 DEF OwnedOnce
<1>18. ASSUME NEW m \in Managers, NEW c \in Cells, NEW o \in Objs, Discard(m, c, o) PROVE OwnedOnce'
  <2>1. /\ cell' = [cell EXCEPT ![c] = o] /\ UNCHANGED <<garbage, freed, limbo>>
        /\ o \in Objs \ allocated /\ allocated' = allocated \cup {o}
        /\ cell[c] \in Objs /\ cell[c] \in allocated
        /\ leaked' = leaked \cup {cell[c]}
    BY <1>18 DEF Discard, Exchange
  <2>2. \A n \in Managers, x \in Objs : Queued(n, x)' <=> Queued(n, x)
    BY <2>1
  <2>3. /\ \A d \in Cells : cell[d] # o
        /\ \A n \in Managers : ~Queued(n, o) /\ ~Queued(n, cell[c])
        /\ o \notin freed \cup leaked /\ cell[c] \notin freed \cup leaked
    BY <2>1
  <2>4. \A n \in Managers : \A e \in garbage'[n] :
           e.obj \notin limbo'[n] /\ \A f \in garbage'[n] : e.obj = f.obj => e = f
    BY <2>1
  <2>5. Exclusive'
    <3> HIDE DEF Queued
    <3> QED
      BY <2>1, <2>2, <2>3, <2>4
  <2>6. \A x \in Objs : x \in allocated' <=> \/ x \in freed' \cup leaked'
                                             \/ \E d \in Cells : cell'[d] = x
                                             \/ \E n \in Managers : Queued(n, x)'
    <3> HIDE DEF Queued, Exclusive
    <3> QED
      BY <2>1, <2>2, <2>3
  <2> QED
    BY <2>5, <2>6 DEF OwnedOnce
<1>17. CASE UNCHANGED qsbrVars
  BY <1>17, SameHeap DEF qsbrVars
<1> QED
  BY <1>1, <1>2, <1>3, <1>4, <1>5, <1>6, <1>7, <1>8, <1>9, <1>10,
     <1>11, <1>12, <1>13, <1>14, <1>15, <1>16, <1>17, <1>18, Zenon
     DEF QsbrNext, QsbrReaderNext, ManagerNext

\* Every step keeps the garbage older than the maintenance() under way.
LEMMA WriterStep ==
  ASSUME QsbrTypeOK, WriterInv, [QsbrNext]_qsbrVars
  PROVE  WriterInv'
<1> USE QsbrAssumption DEF QsbrTypeOK, sessionVars, heapVars, scanVars, WriterInv, Entry
<1>1. ASSUME NEW w \in Workers, Register(w) PROVE WriterInv'
  BY <1>1 DEF Register
<1>2. ASSUME NEW s \in Sessions, EnterLoad(s) PROVE WriterInv'
  BY <1>2 DEF EnterLoad
<1>3. ASSUME NEW s \in Sessions, EnterStore(s) PROVE WriterInv'
  BY <1>3 DEF EnterStore
<1>4. ASSUME NEW s \in Sessions, OpenUnpinned(s) PROVE WriterInv'
  BY <1>4 DEF OpenUnpinned
<1>5. ASSUME NEW s \in Sessions, NEW c \in Cells, LoadRef(s, c) PROVE WriterInv'
  BY <1>5 DEF LoadRef
<1>6. ASSUME NEW s \in Sessions, Leave(s) PROVE WriterInv'
  BY <1>6 DEF Leave
<1>7. ASSUME NEW w \in Workers, ForceOffline(w) PROVE WriterInv'
  BY <1>7 DEF ForceOffline
<1>8. ASSUME NEW w \in Workers, ResumeOnline(w) PROVE WriterInv'
  BY <1>8 DEF ResumeOnline
<1>9. ASSUME NEW m \in Managers, NEW c \in Cells, NEW o \in Objs, Swap(m, c, o) PROVE WriterInv'
  BY <1>9 DEF Swap, Exchange
<1>10. ASSUME NEW m \in Managers, NEW o \in Objs, DeferFree(m, o) PROVE WriterInv'
  BY <1>10 DEF DeferFree, RetireEpoch
<1>11. ASSUME NEW m \in Managers, BumpEpoch(m) PROVE WriterInv'
  BY <1>11 DEF BumpEpoch
<1>12. ASSUME NEW m \in Managers, LoadGlobal(m) PROVE WriterInv'
  BY <1>12 DEF LoadGlobal
<1>13. ASSUME NEW m \in Managers, LoadHead(m) PROVE WriterInv'
  BY <1>13 DEF LoadHead
<1>14. ASSUME NEW m \in Managers, NEW w \in Workers, Visit(m, w) PROVE WriterInv'
  BY <1>14 DEF Visit, LowersMin
<1>15. ASSUME NEW m \in Managers, EndScan(m) PROVE WriterInv'
  BY <1>15 DEF EndScan
<1>16. ASSUME NEW m \in Managers, Retain(m) PROVE WriterInv'
  BY <1>16 DEF Retain, Kept, Expired
<1>18. ASSUME NEW m \in Managers, NEW c \in Cells, NEW o \in Objs, Discard(m, c, o)
      PROVE WriterInv'
  BY <1>18 DEF Discard, Exchange
<1>17. CASE UNCHANGED qsbrVars
  BY <1>17 DEF qsbrVars
<1> QED
  BY <1>1, <1>2, <1>3, <1>4, <1>5, <1>6, <1>7, <1>8, <1>9, <1>10,
     <1>11, <1>12, <1>13, <1>14, <1>15, <1>16, <1>17, <1>18, Zenon
     DEF QsbrNext, QsbrReaderNext, ManagerNext

\* Every step keeps the stamps of the sessions, if no worker carries two.
LEMMA PinStep ==
  ASSUME QsbrTypeOK, OwnedOnce, PinInv, Disciplined, [QsbrNext]_qsbrVars
  PROVE  PinInv'
<1> USE QsbrAssumption DEF QsbrTypeOK, sessionVars, heapVars, scanVars, PinInv, OwnedOnce, Exclusive, Queued, Disciplined, Pinned
<1>1. ASSUME NEW w \in Workers, Register(w) PROVE PinInv'
  BY <1>1 DEF Register
<1>2. ASSUME NEW s \in Sessions, EnterLoad(s) PROVE PinInv'
  BY <1>2 DEF EnterLoad
<1>3. ASSUME NEW s \in Sessions, EnterStore(s) PROVE PinInv'
  <2>1. s \in Pinned
    BY <1>3 DEF EnterStore
  <2>2. \A t \in Pinned : t # s => localEpoch'[WorkerOf[t]] = localEpoch[WorkerOf[t]]
    BY <1>3, <2>1 DEF EnterStore
  <2>3. localEpoch'[WorkerOf[s]] = stamp[s] /\ ~offline'[WorkerOf[s]] = trusted'[s]
    BY <1>3 DEF EnterStore
  <2> QED
    BY <1>3, <2>1, <2>2, <2>3 DEF EnterStore
<1>4. ASSUME NEW s \in Sessions, OpenUnpinned(s) PROVE PinInv'
  BY <1>4 DEF OpenUnpinned
<1>5. ASSUME NEW s \in Sessions, NEW c \in Cells, LoadRef(s, c) PROVE PinInv'
  BY <1>5 DEF LoadRef
<1>6. ASSUME NEW s \in Sessions, Leave(s) PROVE PinInv'
  BY <1>6 DEF Leave
<1>7. ASSUME NEW w \in Workers, ForceOffline(w) PROVE PinInv'
  BY <1>7 DEF ForceOffline
<1>8. ASSUME NEW w \in Workers, ResumeOnline(w) PROVE PinInv'
  BY <1>8 DEF ResumeOnline
<1>9. ASSUME NEW m \in Managers, NEW c \in Cells, NEW o \in Objs, Swap(m, c, o) PROVE PinInv'
  BY <1>9 DEF Swap, Exchange
<1>10. ASSUME NEW m \in Managers, NEW o \in Objs, DeferFree(m, o) PROVE PinInv'
  BY <1>10 DEF DeferFree, RetireEpoch
<1>11. ASSUME NEW m \in Managers, BumpEpoch(m) PROVE PinInv'
  BY <1>11 DEF BumpEpoch
<1>12. ASSUME NEW m \in Managers, LoadGlobal(m) PROVE PinInv'
  BY <1>12 DEF LoadGlobal
<1>13. ASSUME NEW m \in Managers, LoadHead(m) PROVE PinInv'
  BY <1>13 DEF LoadHead
<1>14. ASSUME NEW m \in Managers, NEW w \in Workers, Visit(m, w) PROVE PinInv'
  BY <1>14 DEF Visit, LowersMin
<1>15. ASSUME NEW m \in Managers, EndScan(m) PROVE PinInv'
  BY <1>15 DEF EndScan
<1>16. ASSUME NEW m \in Managers, Retain(m) PROVE PinInv'
  BY <1>16 DEF Retain, Kept, Expired
<1>18. ASSUME NEW m \in Managers, NEW c \in Cells, NEW o \in Objs, Discard(m, c, o)
      PROVE PinInv'
  BY <1>18 DEF Discard, Exchange
<1>17. CASE UNCHANGED qsbrVars
  BY <1>17 DEF qsbrVars
<1> QED
  BY <1>1, <1>2, <1>3, <1>4, <1>5, <1>6, <1>7, <1>8, <1>9, <1>10,
     <1>11, <1>12, <1>13, <1>14, <1>15, <1>16, <1>17, <1>18, Zenon
     DEF QsbrNext, QsbrReaderNext, ManagerNext

\* Every step keeps readers and the retired objects they hold in one partition.
LEMMA HomeStep ==
  ASSUME QsbrTypeOK, OwnedOnce, PinInv, HomeInv, [QsbrNext]_qsbrVars
  PROVE  HomeInv'
<1> USE QsbrAssumption DEF QsbrTypeOK, sessionVars, heapVars, scanVars, HomeInv, PinInv, OwnedOnce, Exclusive, Queued, Home, Entry
<1>1. ASSUME NEW w \in Workers, Register(w) PROVE HomeInv'
  BY <1>1 DEF Register
<1>2. ASSUME NEW s \in Sessions, EnterLoad(s) PROVE HomeInv'
  BY <1>2 DEF EnterLoad
<1>3. ASSUME NEW s \in Sessions, EnterStore(s) PROVE HomeInv'
  BY <1>3 DEF EnterStore
<1>4. ASSUME NEW s \in Sessions, OpenUnpinned(s) PROVE HomeInv'
  BY <1>4 DEF OpenUnpinned
<1>5. ASSUME NEW s \in Sessions, NEW c \in Cells, LoadRef(s, c) PROVE HomeInv'
  BY <1>5 DEF LoadRef
<1>6. ASSUME NEW s \in Sessions, Leave(s) PROVE HomeInv'
  BY <1>6 DEF Leave
<1>7. ASSUME NEW w \in Workers, ForceOffline(w) PROVE HomeInv'
  BY <1>7 DEF ForceOffline
<1>8. ASSUME NEW w \in Workers, ResumeOnline(w) PROVE HomeInv'
  BY <1>8 DEF ResumeOnline
<1>9. ASSUME NEW m \in Managers, NEW c \in Cells, NEW o \in Objs, Swap(m, c, o) PROVE HomeInv'
  BY <1>9 DEF Swap, Exchange
<1>10. ASSUME NEW m \in Managers, NEW o \in Objs, DeferFree(m, o) PROVE HomeInv'
  BY <1>10 DEF DeferFree, RetireEpoch
<1>11. ASSUME NEW m \in Managers, BumpEpoch(m) PROVE HomeInv'
  BY <1>11 DEF BumpEpoch
<1>12. ASSUME NEW m \in Managers, LoadGlobal(m) PROVE HomeInv'
  BY <1>12 DEF LoadGlobal
<1>13. ASSUME NEW m \in Managers, LoadHead(m) PROVE HomeInv'
  BY <1>13 DEF LoadHead
<1>14. ASSUME NEW m \in Managers, NEW w \in Workers, Visit(m, w) PROVE HomeInv'
  BY <1>14 DEF Visit, LowersMin
<1>15. ASSUME NEW m \in Managers, EndScan(m) PROVE HomeInv'
  BY <1>15 DEF EndScan
<1>16. ASSUME NEW m \in Managers, Retain(m) PROVE HomeInv'
  BY <1>16 DEF Retain, Kept, Expired
<1>18. ASSUME NEW m \in Managers, NEW c \in Cells, NEW o \in Objs, Discard(m, c, o)
      PROVE HomeInv'
  BY <1>18 DEF Discard, Exchange
<1>17. CASE UNCHANGED qsbrVars
  BY <1>17 DEF qsbrVars
<1> QED
  BY <1>1, <1>2, <1>3, <1>4, <1>5, <1>6, <1>7, <1>8, <1>9, <1>10,
     <1>11, <1>12, <1>13, <1>14, <1>15, <1>16, <1>17, <1>18, Zenon
     DEF QsbrNext, QsbrReaderNext, ManagerNext

\* Every step keeps retirement epochs at or above the stamps of the holders.
LEMMA EpochStep ==
  ASSUME QsbrTypeOK, OwnedOnce, PinInv, EpochInv, [QsbrNext]_qsbrVars
  PROVE  EpochInv'
<1> USE QsbrAssumption DEF QsbrTypeOK, sessionVars, heapVars, scanVars, EpochInv, PinInv, OwnedOnce, Exclusive, Queued, Pinned, Entry
<1>1. ASSUME NEW w \in Workers, Register(w) PROVE EpochInv'
  BY <1>1 DEF Register
<1>2. ASSUME NEW s \in Sessions, EnterLoad(s) PROVE EpochInv'
  <2>1. held[s] = {}
    BY <1>2 DEF EnterLoad
  <2>2. \A t \in Sessions : t # s => stamp'[t] = stamp[t]
    BY <1>2 DEF EnterLoad
  <2> QED
    BY <1>2, <2>1, <2>2 DEF EnterLoad
<1>3. ASSUME NEW s \in Sessions, EnterStore(s) PROVE EpochInv'
  BY <1>3 DEF EnterStore
<1>4. ASSUME NEW s \in Sessions, OpenUnpinned(s) PROVE EpochInv'
  BY <1>4 DEF OpenUnpinned
<1>5. ASSUME NEW s \in Sessions, NEW c \in Cells, LoadRef(s, c) PROVE EpochInv'
  BY <1>5 DEF LoadRef
<1>6. ASSUME NEW s \in Sessions, Leave(s) PROVE EpochInv'
  BY <1>6 DEF Leave
<1>7. ASSUME NEW w \in Workers, ForceOffline(w) PROVE EpochInv'
  BY <1>7 DEF ForceOffline
<1>8. ASSUME NEW w \in Workers, ResumeOnline(w) PROVE EpochInv'
  BY <1>8 DEF ResumeOnline
<1>9. ASSUME NEW m \in Managers, NEW c \in Cells, NEW o \in Objs, Swap(m, c, o) PROVE EpochInv'
  BY <1>9 DEF Swap, Exchange
<1>10. ASSUME NEW m \in Managers, NEW o \in Objs, DeferFree(m, o) PROVE EpochInv'
  <2>1. \A n \in Managers : \A e \in garbage'[n] :
           e \in garbage[n] \/ (e.obj = o /\ e.epoch = globalEpoch)
    BY <1>10 DEF DeferFree, RetireEpoch
  <2>2. \A s \in Pinned : o \in held[s] => stamp[s] <= globalEpoch
    OBVIOUS
  <2>3. UNCHANGED <<held, stamp>>
    BY <1>10 DEF DeferFree, RetireEpoch
  <2> HIDE DEF PinInv, OwnedOnce, Exclusive
  <2> QED
    BY <2>1, <2>2, <2>3
<1>11. ASSUME NEW m \in Managers, BumpEpoch(m) PROVE EpochInv'
  BY <1>11 DEF BumpEpoch
<1>12. ASSUME NEW m \in Managers, LoadGlobal(m) PROVE EpochInv'
  BY <1>12 DEF LoadGlobal
<1>13. ASSUME NEW m \in Managers, LoadHead(m) PROVE EpochInv'
  BY <1>13 DEF LoadHead
<1>14. ASSUME NEW m \in Managers, NEW w \in Workers, Visit(m, w) PROVE EpochInv'
  BY <1>14 DEF Visit, LowersMin
<1>15. ASSUME NEW m \in Managers, EndScan(m) PROVE EpochInv'
  BY <1>15 DEF EndScan
<1>16. ASSUME NEW m \in Managers, Retain(m) PROVE EpochInv'
  BY <1>16 DEF Retain, Kept, Expired
<1>18. ASSUME NEW m \in Managers, NEW c \in Cells, NEW o \in Objs, Discard(m, c, o)
      PROVE EpochInv'
  BY <1>18 DEF Discard, Exchange
<1>17. CASE UNCHANGED qsbrVars
  BY <1>17 DEF qsbrVars
<1> QED
  BY <1>1, <1>2, <1>3, <1>4, <1>5, <1>6, <1>7, <1>8, <1>9, <1>10,
     <1>11, <1>12, <1>13, <1>14, <1>15, <1>16, <1>17, <1>18, Zenon
     DEF QsbrNext, QsbrReaderNext, ManagerNext

\* Every step keeps min_epoch below what visited readers hold.
LEMMA ScanStep ==
  ASSUME QsbrTypeOK, OwnedOnce, WriterInv, PinInv, HomeInv, EpochInv, ScanInv, [QsbrNext]_qsbrVars
  PROVE  ScanInv'
<1> USE QsbrAssumption DEF QsbrTypeOK, sessionVars, heapVars, scanVars, ScanInv, WriterInv, EpochInv, PinInv, HomeInv, OwnedOnce, Exclusive, Queued, Home, Pinned, Entry
<1>1. ASSUME NEW w \in Workers, Register(w) PROVE ScanInv'
  BY <1>1 DEF Register
<1>2. ASSUME NEW s \in Sessions, EnterLoad(s) PROVE ScanInv'
  BY <1>2 DEF EnterLoad
<1>3. ASSUME NEW s \in Sessions, EnterStore(s) PROVE ScanInv'
  <2>1. held[s] = {}
    BY <1>3 DEF EnterStore
  <2>2. \A t \in Sessions : t # s => trusted'[t] = trusted[t]
    BY <1>3 DEF EnterStore
  <2> QED
    BY <1>3, <2>1, <2>2 DEF EnterStore
<1>4. ASSUME NEW s \in Sessions, OpenUnpinned(s) PROVE ScanInv'
  BY <1>4 DEF OpenUnpinned
<1>5. ASSUME NEW s \in Sessions, NEW c \in Cells, LoadRef(s, c) PROVE ScanInv'
  BY <1>5 DEF LoadRef
<1>6. ASSUME NEW s \in Sessions, Leave(s) PROVE ScanInv'
  BY <1>6 DEF Leave
<1>7. ASSUME NEW w \in Workers, ForceOffline(w) PROVE ScanInv'
  BY <1>7 DEF ForceOffline
<1>8. ASSUME NEW w \in Workers, ResumeOnline(w) PROVE ScanInv'
  BY <1>8 DEF ResumeOnline
<1>9. ASSUME NEW m \in Managers, NEW c \in Cells, NEW o \in Objs, Swap(m, c, o) PROVE ScanInv'
  BY <1>9 DEF Swap, Exchange
<1>10. ASSUME NEW m \in Managers, NEW o \in Objs, DeferFree(m, o) PROVE ScanInv'
  <2>1. mpc[m] = "batch"
    BY <1>10 DEF DeferFree, RetireEpoch
  <2>2. \A n \in Managers : n # m => garbage'[n] = garbage[n]
    BY <1>10 DEF DeferFree, RetireEpoch
  <2> QED
    BY <1>10, <2>1, <2>2 DEF DeferFree, RetireEpoch
<1>11. ASSUME NEW m \in Managers, BumpEpoch(m) PROVE ScanInv'
  BY <1>11 DEF BumpEpoch
<1>12. ASSUME NEW m \in Managers, LoadGlobal(m) PROVE ScanInv'
  BY <1>12 DEF LoadGlobal
<1>13. ASSUME NEW m \in Managers, LoadHead(m) PROVE ScanInv'
  <2>1. \A s \in Sessions : \A e \in garbage[m] :
           e.obj \in held[s] => WorkerOf[s] \in unvisited'[m]
    <3> TAKE s \in Sessions
    <3> TAKE e \in garbage[m]
    <3> HAVE e.obj \in held[s]
    <3>1. WorkerOf[s] \in registered
      OBVIOUS
    <3>2. HomeOf[WorkerOf[s]] = m
      OBVIOUS
    <3> QED
      BY <1>13, <3>1, <3>2 DEF LoadHead
  <2>2. \A n \in Managers : n # m => unvisited'[n] = unvisited[n] /\ mpc'[n] = mpc[n]
    BY <1>13 DEF LoadHead
  <2> QED
    BY <1>13, <2>1, <2>2 DEF LoadHead
<1>14. ASSUME NEW m \in Managers, NEW w \in Workers, Visit(m, w) PROVE ScanInv'
  <2>1. minEpoch'[m] <= minEpoch[m]
    BY <1>14 DEF Visit, LowersMin
  <2>2. ASSUME NEW s \in Sessions, NEW e \in garbage[m], trusted[s],
               e.obj \in held[s], WorkerOf[s] = w
        PROVE  minEpoch'[m] <= e.epoch
    <3>1. localEpoch[w] = stamp[s] /\ 1 <= stamp[s] /\ ~offline[w]
      BY <2>2
    <3>2. stamp[s] <= e.epoch
      BY <2>2
    <3>3. minEpoch'[m] <= localEpoch[w]
      BY <1>14, <3>1 DEF Visit, LowersMin
    <3> QED
      BY <3>1, <3>2, <3>3, <1>14 DEF Visit, LowersMin
  <2>3. \A n \in Managers : n # m => unvisited'[n] = unvisited[n] /\ minEpoch'[n] = minEpoch[n]
    BY <1>14 DEF Visit, LowersMin
  <2>4. \A e \in garbage[m] : e.epoch \in Nat
    OBVIOUS
  <2>5. minEpoch'[m] \in Nat /\ minEpoch[m] \in Nat
    BY <1>14 DEF Visit, LowersMin
  <2>6. ASSUME NEW s \in Sessions, NEW e \in garbage[m], trusted[s],
               e.obj \in held[s], WorkerOf[s] # w
        PROVE  WorkerOf[s] \in unvisited'[m] \/ minEpoch'[m] <= e.epoch
    <3>1. WorkerOf[s] \in unvisited[m] \/ minEpoch[m] <= e.epoch
      BY <1>14, <2>6 DEF Visit, LowersMin
    <3> QED
      BY <1>14, <2>1, <2>4, <2>5, <2>6, <3>1 DEF Visit, LowersMin
  <2> HIDE DEF WriterInv, EpochInv, PinInv, HomeInv, OwnedOnce, Exclusive
  <2> QED
    BY <1>14, <2>2, <2>3, <2>6 DEF Visit, LowersMin
<1>15. ASSUME NEW m \in Managers, EndScan(m) PROVE ScanInv'
  BY <1>15 DEF EndScan
<1>16. ASSUME NEW m \in Managers, Retain(m) PROVE ScanInv'
  BY <1>16 DEF Retain, Kept, Expired
<1>18. ASSUME NEW m \in Managers, NEW c \in Cells, NEW o \in Objs, Discard(m, c, o)
      PROVE ScanInv'
  BY <1>18 DEF Discard, Exchange
<1>17. CASE UNCHANGED qsbrVars
  BY <1>17 DEF qsbrVars
<1> QED
  BY <1>1, <1>2, <1>3, <1>4, <1>5, <1>6, <1>7, <1>8, <1>9, <1>10,
     <1>11, <1>12, <1>13, <1>14, <1>15, <1>16, <1>17, <1>18, Zenon
     DEF QsbrNext, QsbrReaderNext, ManagerNext

\* Every step leaves what trusted sessions hold alone.
LEMMA HeldStep ==
  ASSUME QsbrTypeOK, OwnedOnce, WriterInv, PinInv, ScanInv, HeldNotFreed, [QsbrNext]_qsbrVars
  PROVE  HeldNotFreed'
<1> USE QsbrAssumption DEF QsbrTypeOK, sessionVars, heapVars, scanVars, HeldNotFreed, ScanInv, WriterInv, PinInv, OwnedOnce, Exclusive, Queued, Pinned, Entry
<1>1. ASSUME NEW w \in Workers, Register(w) PROVE HeldNotFreed'
  BY <1>1 DEF Register
<1>2. ASSUME NEW s \in Sessions, EnterLoad(s) PROVE HeldNotFreed'
  BY <1>2 DEF EnterLoad
<1>3. ASSUME NEW s \in Sessions, EnterStore(s) PROVE HeldNotFreed'
  <2>1. held[s] = {}
    BY <1>3 DEF EnterStore
  <2>2. \A t \in Sessions : t # s => trusted'[t] = trusted[t]
    BY <1>3 DEF EnterStore
  <2> QED
    BY <1>3, <2>1, <2>2 DEF EnterStore
<1>4. ASSUME NEW s \in Sessions, OpenUnpinned(s) PROVE HeldNotFreed'
  BY <1>4 DEF OpenUnpinned
<1>5. ASSUME NEW s \in Sessions, NEW c \in Cells, LoadRef(s, c) PROVE HeldNotFreed'
  BY <1>5 DEF LoadRef
<1>6. ASSUME NEW s \in Sessions, Leave(s) PROVE HeldNotFreed'
  BY <1>6 DEF Leave
<1>7. ASSUME NEW w \in Workers, ForceOffline(w) PROVE HeldNotFreed'
  BY <1>7 DEF ForceOffline
<1>8. ASSUME NEW w \in Workers, ResumeOnline(w) PROVE HeldNotFreed'
  BY <1>8 DEF ResumeOnline
<1>9. ASSUME NEW m \in Managers, NEW c \in Cells, NEW o \in Objs, Swap(m, c, o) PROVE HeldNotFreed'
  BY <1>9 DEF Swap, Exchange
<1>10. ASSUME NEW m \in Managers, NEW o \in Objs, DeferFree(m, o) PROVE HeldNotFreed'
  BY <1>10 DEF DeferFree, RetireEpoch
<1>11. ASSUME NEW m \in Managers, BumpEpoch(m) PROVE HeldNotFreed'
  BY <1>11 DEF BumpEpoch
<1>12. ASSUME NEW m \in Managers, LoadGlobal(m) PROVE HeldNotFreed'
  BY <1>12 DEF LoadGlobal
<1>13. ASSUME NEW m \in Managers, LoadHead(m) PROVE HeldNotFreed'
  BY <1>13 DEF LoadHead
<1>14. ASSUME NEW m \in Managers, NEW w \in Workers, Visit(m, w) PROVE HeldNotFreed'
  BY <1>14 DEF Visit, LowersMin
<1>15. ASSUME NEW m \in Managers, EndScan(m) PROVE HeldNotFreed'
  BY <1>15 DEF EndScan
<1>16. ASSUME NEW m \in Managers, Retain(m) PROVE HeldNotFreed'
  <2>1. ASSUME NEW s \in Sessions, trusted[s], NEW e \in garbage[m],
               e.obj \in held[s]
        PROVE  ~(e.epoch < minEpoch[m])
    <3>1. unvisited[m] = {} /\ minEpoch[m] <= e.epoch
      BY <1>16, <2>1 DEF Retain, Kept, Expired
    <3> QED
      BY <3>1, <1>16
  <2> HIDE DEF ScanInv, WriterInv, PinInv, OwnedOnce, Exclusive
  <2> QED
    BY <1>16, <2>1 DEF Retain, Kept, Expired
<1>18. ASSUME NEW m \in Managers, NEW c \in Cells, NEW o \in Objs, Discard(m, c, o)
      PROVE HeldNotFreed'
  BY <1>18 DEF Discard, Exchange
<1>17. CASE UNCHANGED qsbrVars
  BY <1>17 DEF qsbrVars
<1> QED
  BY <1>1, <1>2, <1>3, <1>4, <1>5, <1>6, <1>7, <1>8, <1>9, <1>10,
     <1>11, <1>12, <1>13, <1>14, <1>15, <1>16, <1>17, <1>18, Zenon
     DEF QsbrNext, QsbrReaderNext, ManagerNext

\* The initial state has its types.
LEMMA InitTypeOK ==
  ASSUME QsbrInit
  PROVE  QsbrTypeOK
  BY QsbrAssumption DEF QsbrInit, FirstEpoch, QsbrTypeOK

\* Each object of the initial heap is in one cell.
LEMMA InitOwnedOnce ==
  ASSUME QsbrInit
  PROVE  OwnedOnce
<1>1. /\ freed = {} /\ leaked = {} /\ allocated = {cell[c] : c \in Cells}
      /\ \A c, d \in Cells : cell[c] = cell[d] => c = d
      /\ \A m \in Managers : limbo[m] = {} /\ garbage[m] = {}
  BY DEF QsbrInit, FirstEpoch
<1> QED
  BY <1>1 DEF OwnedOnce, Exclusive, Queued

\* The inductive invariant holds of every behaviour whose workers carry one
\* pinned critical section at a time.
THEOREM Invariance ==
  ASSUME Disciplined
  PROVE  QsbrSpec => []IInv
<1>1. QsbrInit => IInv
  <2> SUFFICES ASSUME QsbrInit PROVE IInv
    OBVIOUS
  <2>1. QsbrTypeOK /\ OwnedOnce
    BY InitTypeOK, InitOwnedOnce
  <2>2. WriterInv
    BY DEF QsbrInit, FirstEpoch, WriterInv
  <2>3. PinInv
    BY QsbrAssumption DEF QsbrInit, FirstEpoch, PinInv, Pinned
  <2>4. HomeInv /\ HeldNotFreed
    BY DEF QsbrInit, FirstEpoch, HomeInv, HeldNotFreed
  <2>5. EpochInv /\ ScanInv
    BY DEF QsbrInit, FirstEpoch, EpochInv, ScanInv
  <2> QED
    BY <2>1, <2>2, <2>3, <2>4, <2>5 DEF IInv
<1>2. IInv /\ [QsbrNext]_qsbrVars => IInv'
  BY Disciplined, TypeStep, OwnedOnceStep, WriterStep, PinStep, HomeStep,
     EpochStep, ScanStep, HeldStep DEF IInv
<1> QED
  BY <1>1, <1>2, PTL DEF QsbrSpec

\* Safe reclamation, the property core/qsbr.rs exists for: on a sequentially
\* consistent memory, whatever the number of partitions sharing GLOBAL_EPOCH,
\* maintenance() frees nothing that an honoured pin protects.
THEOREM SafeReclamation ==
  ASSUME Disciplined
  PROVE  QsbrSpec => []HeldNotFreed
<1>1. IInv => HeldNotFreed
  BY DEF IInv
<1> QED
  BY Invariance, <1>1, PTL

\* No object is leaked, queued twice or freed twice; readers do not matter.
THEOREM Ownership == QsbrSpec => []OwnedOnce
<1>1. QsbrInit => QsbrTypeOK /\ OwnedOnce
  BY InitTypeOK, InitOwnedOnce
<1>2. (QsbrTypeOK /\ OwnedOnce) /\ [QsbrNext]_qsbrVars => (QsbrTypeOK /\ OwnedOnce)'
  BY TypeStep, OwnedOnceStep
<1> QED
  BY <1>1, <1>2, PTL DEF QsbrSpec

\* A maintenance() that meets no older reader empties the garbage queue.
THEOREM QuiescentCollection == QsbrSpec => []QuiescentScanFreesAll
<1>1. QsbrInit => QsbrTypeOK /\ WriterInv
  BY QsbrAssumption DEF QsbrInit, FirstEpoch, WriterInv, QsbrTypeOK
<1>2. (QsbrTypeOK /\ WriterInv) /\ [QsbrNext]_qsbrVars => (QsbrTypeOK /\ WriterInv)'
  BY TypeStep, WriterStep
<1>3. QsbrTypeOK /\ WriterInv => QuiescentScanFreesAll
  BY DEF QsbrTypeOK, WriterInv, QuiescentScanFreesAll
<1> QED
  BY <1>1, <1>2, <1>3, PTL DEF QsbrSpec
-----------------------------------------------------------------------------
(* Refinement.                                                             *)

\* A step that leaves pointers, allocation, the free list and what trusted
\* sessions hold alone is a stuttering step of Reclaim.
LEMMA Stutter ==
  ASSUME UNCHANGED <<cell, allocated, freed>>, Protected' = Protected
  PROVE  [R!Next]_(R!vars)
  BY DEF R!vars

\* Every step of Qsbr is a step of Reclaim or stutters.
LEMMA StepRefines ==
  ASSUME Disciplined, IInv, IInv', [QsbrNext]_qsbrVars
  PROVE  [R!Next]_(R!vars)
<1> USE QsbrAssumption DEF sessionVars, heapVars, scanVars
<1> QsbrTypeOK /\ PinInv /\ HeldNotFreed
  BY DEF IInv
<1> USE DEF QsbrTypeOK
<1>1. ASSUME NEW w \in Workers, Register(w) PROVE [R!Next]_(R!vars)
  BY <1>1, Stutter DEF Register, Protected
<1>2. ASSUME NEW s \in Sessions, EnterLoad(s) PROVE [R!Next]_(R!vars)
  BY <1>2, Stutter DEF EnterLoad, Protected
<1>3. ASSUME NEW s \in Sessions, EnterStore(s) PROVE [R!Next]_(R!vars)
  <2>1. held[s] = {} /\ held' = held
    BY <1>3 DEF EnterStore, PinInv
  <2>2. \A t \in Sessions : t # s => trusted'[t] = trusted[t]
    BY <1>3 DEF EnterStore
  <2>3. Protected' = Protected
    BY <2>1, <2>2 DEF Protected
  <2> QED
    BY <1>3, <2>3, Stutter DEF EnterStore
<1>4. ASSUME NEW s \in Sessions, OpenUnpinned(s) PROVE [R!Next]_(R!vars)
  BY <1>4, Stutter DEF OpenUnpinned, Protected
<1>5. ASSUME NEW s \in Sessions, NEW c \in Cells, LoadRef(s, c) PROVE [R!Next]_(R!vars)
  <2>1. CASE trusted[s]
    <3>1. Protected' = [Protected EXCEPT ![s] = @ \cup {cell[c]}]
      BY <1>5, <2>1 DEF LoadRef, Protected
    <3>2. R!Acquire(s, c)
      BY <1>5, <3>1 DEF LoadRef, R!Acquire
    <3> QED
      BY <3>2 DEF R!Next
  <2>2. CASE ~trusted[s]
    <3>1. Protected' = Protected
      BY <1>5, <2>2 DEF LoadRef, Protected
    <3> QED
      BY <1>5, <3>1, Stutter DEF LoadRef
  <2> QED
    BY <2>1, <2>2
<1>6. ASSUME NEW s \in Sessions, Leave(s) PROVE [R!Next]_(R!vars)
  <2>1. Protected' = [Protected EXCEPT ![s] = {}]
    BY <1>6 DEF Leave, Protected
  <2>2. R!Release(s)
    BY <1>6, <2>1 DEF Leave, R!Release
  <2> QED
    BY <2>2 DEF R!Next
<1>7. ASSUME NEW w \in Workers, ForceOffline(w) PROVE [R!Next]_(R!vars)
  <2>1. CASE \E s \in Sessions : trusted[s] /\ WorkerOf[s] = w
    <3>1. PICK s \in Sessions : trusted[s] /\ WorkerOf[s] = w
      BY <2>1
    <3>2. \A t \in Sessions : trusted[t] /\ WorkerOf[t] = w => t = s
      BY <3>1 DEF PinInv, Disciplined
    <3>3. Protected' = [Protected EXCEPT ![s] = {}]
      BY <1>7, <3>1, <3>2 DEF ForceOffline, Protected
    <3>4. R!Release(s)
      BY <1>7, <3>3 DEF ForceOffline, R!Release
    <3> QED
      BY <3>4 DEF R!Next
  <2>2. CASE \A s \in Sessions : trusted[s] => WorkerOf[s] # w
    <3>1. Protected' = Protected
      BY <1>7, <2>2 DEF ForceOffline, Protected
    <3> QED
      BY <1>7, <3>1, Stutter DEF ForceOffline
  <2> QED
    BY <2>1, <2>2
<1>8. ASSUME NEW w \in Workers, ResumeOnline(w) PROVE [R!Next]_(R!vars)
  BY <1>8, Stutter DEF ResumeOnline, Protected
<1>9. ASSUME NEW m \in Managers, NEW c \in Cells, NEW o \in Objs, Swap(m, c, o)
      PROVE [R!Next]_(R!vars)
  <2>1. Protected' = Protected
    BY <1>9 DEF Swap, Exchange, Protected
  <2>2. R!Publish(c, o)
    BY <1>9, <2>1 DEF Swap, Exchange, R!Publish
  <2> QED
    BY <2>2 DEF R!Next
<1>10. ASSUME NEW m \in Managers, NEW o \in Objs, DeferFree(m, o) PROVE [R!Next]_(R!vars)
  BY <1>10, Stutter DEF DeferFree, RetireEpoch, Protected
<1>11. ASSUME NEW m \in Managers, BumpEpoch(m) PROVE [R!Next]_(R!vars)
  BY <1>11, Stutter DEF BumpEpoch, Protected
<1>12. ASSUME NEW m \in Managers, LoadGlobal(m) PROVE [R!Next]_(R!vars)
  BY <1>12, Stutter DEF LoadGlobal, Protected
<1>13. ASSUME NEW m \in Managers, LoadHead(m) PROVE [R!Next]_(R!vars)
  BY <1>13, Stutter DEF LoadHead, Protected
<1>14. ASSUME NEW m \in Managers, NEW w \in Workers, Visit(m, w) PROVE [R!Next]_(R!vars)
  BY <1>14, Stutter DEF Visit, LowersMin, Protected
<1>15. ASSUME NEW m \in Managers, EndScan(m) PROVE [R!Next]_(R!vars)
  BY <1>15, Stutter DEF EndScan, Protected
<1>16. ASSUME NEW m \in Managers, Retain(m) PROVE [R!Next]_(R!vars)
  <2> DEFINE objs == {e.obj : e \in Expired(m)}
  <2>1. Protected' = Protected
    BY <1>16 DEF Retain, Kept, Expired, Protected
  <2>2. freed' = freed \cup objs /\ UNCHANGED <<cell, allocated>>
    BY <1>16 DEF Retain, Kept, Expired
  <2>3. objs \subseteq Objs /\ \A x \in objs : Queued(m, x)
    BY DEF Entry, Queued, Expired
  <2>4. OwnedOnce
    BY DEF IInv
  <2>5. objs \subseteq allocated \ freed /\ \A c \in Cells : cell[c] \notin objs
    BY <2>3, <2>4 DEF OwnedOnce, Exclusive
  <2>6. \A s \in Sessions : trusted'[s] => held'[s] \cap freed' = {}
    BY DEF IInv, HeldNotFreed
  <2>7. \A s \in Sessions : Protected[s] \cap objs = {}
    BY <2>2, <2>6, <1>16 DEF Retain, Kept, Expired, Protected
  <2> HIDE DEF objs
  <2>8. R!Free(objs)
    BY <2>1, <2>2, <2>5, <2>7 DEF R!Free
  <2> QED
    BY <2>3, <2>8 DEF R!Next
<1>18. ASSUME NEW m \in Managers, NEW c \in Cells, NEW o \in Objs, Discard(m, c, o)
      PROVE [R!Next]_(R!vars)
  <2>1. Protected' = Protected
    BY <1>18 DEF Discard, Exchange, Protected
  <2>2. R!Publish(c, o)
    BY <1>18, <2>1 DEF Discard, Exchange, R!Publish
  <2> QED
    BY <2>2 DEF R!Next
<1>17. CASE UNCHANGED qsbrVars
  BY <1>17, Stutter DEF qsbrVars, Protected
<1> QED
  BY <1>1, <1>2, <1>3, <1>4, <1>5, <1>6, <1>7, <1>8, <1>9, <1>10,
     <1>11, <1>12, <1>13, <1>14, <1>15, <1>16, <1>17, <1>18, Zenon
     DEF QsbrNext, QsbrReaderNext, ManagerNext

\* The protocol implements the abstract promise of safe reclamation.
THEOREM Refinement ==
  ASSUME Disciplined
  PROVE  QsbrSpec => Reclaims
<1>1. QsbrInit => R!Init
  BY QsbrAssumption DEF QsbrInit, FirstEpoch, R!Init, Protected
<1>2. IInv /\ IInv' /\ [QsbrNext]_qsbrVars => [R!Next]_(R!vars)
  BY Disciplined, StepRefines
<1> QED
  BY Invariance, <1>1, <1>2, PTL DEF QsbrSpec, R!Spec, Reclaims
=============================================================================
