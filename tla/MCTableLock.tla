---------------------------- MODULE MCTableLock ----------------------------
(* Instances of TableLock for TLC. *)
EXTENDS TableLock, TLC

CONSTANTS s1, s2, s3, t1

OneTable == [s \in Sessions |-> t1]

SessionSymmetry == Permutations(Sessions)
=============================================================================
