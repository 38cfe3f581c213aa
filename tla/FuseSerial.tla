----------------------------- MODULE FuseSerial -----------------------------
(* The optimistic commits of FuseCommit implement the serial table of SerialTable. *)
EXTENDS FuseCommit

\* What a statement does to the rows it has read
Effect(t) ==
    LET x == tx[t]
        clears == IsTruncate(x) \/ x.prog \in {"delete_all", "overwrite", "modify"}
    IN  [clear |-> x.work /\ clears,
         exact |-> x.work /\ PinsSnapshot(x),
         seen  |-> x.base.summary,
         del   |-> CASE ~x.work \/ clears -> EmptyBag
                     [] x.prog = "segcompact" -> x.base.summary
                     [] OTHER -> Touched(x),
         add   |-> IF x.work /\ Writes(x) THEN NewRows(t, x) ELSE EmptyBag]

NoEffect == [clear |-> FALSE, exact |-> FALSE, seen |-> EmptyBag, del |-> EmptyBag,
             add |-> EmptyBag]

\* Every statement takes effect at one instant, as a whole, on the rows that are then in the
\* table, and is told the truth about it: the optimistic commit (the seq check of
\* update_multi_table_meta, the conflict resolution of the generators and of commit_mutation, the
\* retries of the sink) implements a serial table.  The exception is a commit that was applied and
\* not acknowledged, which the statement may repeat or take for aborted.
Serial == INSTANCE SerialTable WITH
    rows      <- Current.summary,
    want      <- [t \in Txn |-> IF tx[t].pc \in {"start", "failed"} THEN NoEffect ELSE Effect(t)],
    committed <- [t \in Txn |-> Commits(t)],
    lost      <- echoed,
    told      <- [t \in Txn |-> CASE tx[t].pc = "start" -> "idle"
                                  [] tx[t].pc \in {"done", "failed"} -> tx[t].out
                                  [] OTHER -> "running"]
Serializes == Serial!SerialSpec
=============================================================================
