------------------------------- MODULE MCQsbr -------------------------------
(* Instances of Qsbr for TLC.                                              *)
EXTENDS Qsbr, TLC

CONSTANTS m1, m2, w1, s1, s2, s3, c1, c2, c3, o1, o2, o3, o4, o5

\* Every reader is a Query on the first partition.
OneHome == w1 :> m1

\* Two partitions share GLOBAL_EPOCH and swap one cell each, the second also its
\* bloom filter c3; the Query has a pinned session s1 and an unpinned call s3.
OneOfEach == s1 :> w1 @@ s3 :> w1
OneCellEach == c1 :> m1 @@ c2 :> m2 @@ c3 :> m2

\* One partition, one Query with two sessions.
SharedWorker == s1 :> w1 @@ s2 :> w1
OneCell == c1 :> m1

\* Objects are interchangeable.
ObjSymmetry == Permutations(Objs)
=============================================================================
