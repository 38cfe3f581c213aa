---------------------------- MODULE SerialTable ----------------------------
(***************************************************************************)
(* What a fuse table promises the statements that write it: the table      *)
(* holds a bag of rows, and every statement changes it at one instant, as  *)
(* a whole or not at all, against the rows that are in the table at that   *)
(* instant.  A statement deletes only rows that are still there, one that  *)
(* is bound to the rows it has read (`exact`) takes effect only if they    *)
(* are still the rows of the table, and one that is told "aborted" has     *)
(* changed nothing.  The promise is broken for a statement whose commit    *)
(* was acknowledged by a reply that never arrived (`lost`): it may be told *)
(* anything, and may take effect again.  Once one has, the table holds the *)
(* same segment twice, and no later change of the rows is promised.        *)
(***************************************************************************)
EXTENDS Naturals, Bags

CONSTANT Txn

VARIABLES
    rows,        \* the rows of the table, a bag
    want,        \* what each statement does to them
    committed,   \* how often it took effect
    lost,        \* statements whose acknowledgement was lost
    told         \* what each statement was told

serialVars == <<rows, want, committed, lost, told>>

NoEffect == [clear |-> FALSE, exact |-> FALSE, seen |-> EmptyBag,
             del |-> EmptyBag, add |-> EmptyBag]

SerialInit ==
    /\ IsABag(rows)
    /\ want = [t \in Txn |-> NoEffect]
    /\ committed = [t \in Txn |-> 0]
    /\ lost = {}
    /\ told = [t \in Txn |-> "idle"]

\* the statement reads the table and decides what to do to it
Decide(t) ==
    /\ told[t] = "idle" /\ told' = [told EXCEPT ![t] = "running"]
    /\ \A u \in Txn \ {t} : want'[u] = want[u]
    /\ want'[t].seen = rows
    /\ want'[t].del \sqsubseteq rows
    /\ UNCHANGED <<rows, committed, lost>>

Duplicated == \E t \in Txn : committed[t] > 1

TakeEffect(t) ==
    /\ told[t] = "running"
    /\ committed[t] = 0 \/ t \in lost
    /\ want[t].exact => rows = want[t].seen
    /\ \/ Duplicated
       \/ /\ want[t].del \sqsubseteq rows
          /\ rows' = (IF want[t].clear THEN EmptyBag ELSE rows (-) want[t].del) (+) want[t].add
    /\ committed' = [committed EXCEPT ![t] = @ + 1]
    /\ lost' \in {lost, lost \union {t}}
    /\ UNCHANGED <<want, told>>

Report(t) ==
    /\ told[t] = "running"
    /\ \E o \in {"ok", "aborted", "error"} :
          /\ o = "ok" => committed[t] > 0 \/ want[t] = [NoEffect EXCEPT !.seen = want[t].seen]
          /\ o = "aborted" => committed[t] = 0 \/ t \in lost
          /\ told' = [told EXCEPT ![t] = o]
    /\ UNCHANGED <<rows, want, committed, lost>>

\* a statement that cannot read the table
Fail(t) ==
    /\ told[t] = "idle" /\ told' = [told EXCEPT ![t] = "error"]
    /\ UNCHANGED <<rows, want, committed, lost>>

SerialNext == \E t \in Txn : Decide(t) \/ TakeEffect(t) \/ Report(t) \/ Fail(t)

SerialSpec == SerialInit /\ [][SerialNext]_serialVars
=============================================================================
