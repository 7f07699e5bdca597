------------------------------ MODULE MCStorage ------------------------------
(* Instances of Storage for TLC.                                           *)
EXTENDS Storage, TLC

CONSTANTS e1, e2
=============================================================================
