------------------------------ MODULE Reclaim ------------------------------
(***************************************************************************)
(* What safe memory reclamation promises, without saying how: a writer     *)
(* publishes heap objects in cells, readers acquire what a cell holds and  *)
(* release everything at once, and an object is freed once, after it has   *)
(* been replaced and while no reader that is protected holds it.           *)
(***************************************************************************)
EXTENDS Naturals

CONSTANTS Cells,      \* the shared pointers
          Sessions,   \* the readers
          Objs        \* heap objects; an identity is used once

VARIABLES published,  \* [Cells -> Objs]: what each pointer designates
          protected,  \* [Sessions -> SUBSET Objs]: references readers may use
          allocated,  \* every object handed out so far
          freed       \* the objects given back to the allocator

vars == <<published, protected, allocated, freed>>

Init ==
    /\ published \in [Cells -> Objs]
    /\ \A c, d \in Cells : published[c] = published[d] => c = d
    /\ protected = [s \in Sessions |-> {}]
    /\ allocated = {published[c] : c \in Cells}
    /\ freed = {}

Publish(c, o) ==
    /\ o \notin allocated
    /\ published' = [published EXCEPT ![c] = o]
    /\ allocated' = allocated \cup {o}
    /\ UNCHANGED <<protected, freed>>

Acquire(s, c) ==
    /\ protected' = [protected EXCEPT ![s] = @ \cup {published[c]}]
    /\ UNCHANGED <<published, allocated, freed>>

Release(s) ==
    /\ protected' = [protected EXCEPT ![s] = {}]
    /\ UNCHANGED <<published, allocated, freed>>

Free(objs) ==
    /\ objs \subseteq allocated \ freed
    /\ \A c \in Cells : published[c] \notin objs
    /\ \A s \in Sessions : protected[s] \cap objs = {}
    /\ freed' = freed \cup objs
    /\ UNCHANGED <<published, protected, allocated>>

Next ==
    \/ \E c \in Cells, o \in Objs : Publish(c, o)
    \/ \E s \in Sessions, c \in Cells : Acquire(s, c)
    \/ \E s \in Sessions : Release(s)
    \/ \E objs \in SUBSET Objs : Free(objs)

Spec == Init /\ [][Next]_vars
=============================================================================
