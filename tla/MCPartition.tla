----------------------------- MODULE MCPartition -----------------------------
(* Instances of Partition for TLC.                                         *)
EXTENDS Partition, TLC

CONSTANTS e1, e2, r1, a, b

\* Attribute a is an integer, b a string.
TypedShapes == {a :> "int", a :> "int" @@ b :> "str"}
\* Attribute a is an integer in one entity, a string in another.
MixedShapes == {a :> "int", a :> "str"}
IntShape == a :> "int"
IntStr == <<"int", "str">>
BothCols == <<<<"str", b>>, <<"int", a>>>>
OneCol == <<<<"int", a>>>>
OneBlock == e1 :> {e1, e2} @@ e2 :> {e1, e2}
=============================================================================
