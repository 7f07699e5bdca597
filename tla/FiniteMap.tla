------------------------------- MODULE FiniteMap -------------------------------
(***************************************************************************)
(* A map from keys to values, and the result of the last call.             *)
(***************************************************************************)
CONSTANTS Keys, Values, None,
          ValuesOf  \* [Keys -> the values a key may be given]

VARIABLES map,  \* the entries, a set of pairs of a key and its value
          ret   \* what the last call returned

Init == map = {} /\ ret = None

Entry(k) == {e \in map : e[1] = k}

\* Calls on a key return the value it had.
Result(k) == ret' = IF Entry(k) = {} THEN None ELSE (CHOOSE e \in Entry(k) : TRUE)[2]

Get(k) == Result(k) /\ UNCHANGED map

Remove(k) == Result(k) /\ map' = map \ Entry(k)

Insert(k, v) == Result(k) /\ map' = (map \ Entry(k)) \cup {<<k, v>>}

GetMut(k, v) == Entry(k) # {} /\ Insert(k, v)

\* One value for all the keys that may have it.
SetAll(v) ==
    /\ ret' = None
    /\ map' = {<<e[1], IF v \in ValuesOf[e[1]] THEN v ELSE e[2]>> : e \in map}

Clear == ret' = None /\ map' = {}

Next == \/ \E k \in Keys : Get(k) \/ Remove(k)
        \/ \E k \in Keys, v \in Values : Insert(k, v) \/ GetMut(k, v)
        \/ \E v \in Values : SetAll(v)
        \/ Clear

Spec == Init /\ [][Next]_<<map, ret>>
================================================================================
