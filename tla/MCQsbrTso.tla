------------------------------ MODULE MCQsbrTso -----------------------------
(* One partition, one cell and one reader with a store buffer.             *)
EXTENDS QsbrTso, TLC

CONSTANTS m1, w1, s1, c1, o1, o2

HomeDef == w1 :> m1
WorkerDef == s1 :> w1
OwnerDef == c1 :> m1
=============================================================================
