------------------------------ MODULE CommandLog ------------------------------
(***************************************************************************)
(* What a write-ahead log promises: commands are accepted in one order,    *)
(* that of their numbers; the log may fail to take some of them; some it   *)
(* has made safe, and a crash leaves a first part of those it has taken    *)
(* that contains the safe ones.                                            *)
(***************************************************************************)
EXTENDS Naturals

VARIABLES accepted, \* the commands accepted
          lost,     \* those of them the log has failed to take
          safe      \* those of them no crash can take away

Init == accepted = {} /\ lost = {} /\ safe = {}

\* Part is what S begins with.
FirstPart(part, S) ==
    /\ part \subseteq S
    /\ \A x \in S, y \in part : x < y => x \in part

Accept ==
    /\ accepted' # accepted
    /\ FirstPart(accepted, accepted')
    /\ UNCHANGED <<lost, safe>>

Fail ==
    /\ lost \subseteq lost'
    /\ lost' \subseteq accepted \ safe
    /\ UNCHANGED <<accepted, safe>>

Secure ==
    /\ safe \subseteq safe'
    /\ FirstPart(safe', accepted \ lost)
    /\ UNCHANGED <<accepted, lost>>

Crash ==
    /\ FirstPart(accepted', accepted \ lost)
    /\ safe \subseteq safe' /\ safe' \subseteq accepted'
    /\ lost' = {}

Next == Accept \/ Fail \/ Secure \/ Crash

Spec == Init /\ [][Next]_<<accepted, lost, safe>>
===============================================================================
