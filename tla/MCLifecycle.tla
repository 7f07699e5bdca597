----------------------------- MODULE MCLifecycle -----------------------------
(* Instances of Lifecycle for TLC.                                         *)
EXTENDS Lifecycle, TLC

CONSTANTS w1, w2

TwoAndOne == w1 :> 2 @@ w2 :> 1
OneEach == w1 :> 1 @@ w2 :> 1
=============================================================================
