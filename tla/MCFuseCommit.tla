---------------------------- MODULE MCFuseCommit ----------------------------
(* Instances of FuseCommit for TLC *)
EXTENDS FuseSerial, TLC

CONSTANTS t1, t2

TwoStatements == {t1, t2}
Interchangeable == Permutations(Txn)
=============================================================================
