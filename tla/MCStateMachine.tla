-------------------------- MODULE MCStateMachine --------------------------
(* Instances of StateMachine for TLC *)
EXTENDS StateMachine, TLC

CONSTANTS n1, n2, k1, k2

TwoReplicas == {n1, n2}
OneReplica  == {n1}
Order       == <<k1, k2>>

Ttl(n)   == [kind |-> "ttl", n |-> n]
At(n)    == [kind |-> "at", n |-> n]
Exact(n) == [kind |-> "exact", n |-> n]

UpsertCmd(k, m, o, meta) ==
    [op |-> "upsert", upsert |-> [key |-> k, match |-> m, op |-> o, val |-> 1, meta |-> meta]]

Cond(t, k, o, n) == [target |-> t, key |-> k, op |-> o, n |-> n, prefix |-> {k1, k2}]
PutOp(k, meta)   == [kind |-> "put", key |-> k, val |-> 2, meta |-> meta]
DelOp(k, m)      == [kind |-> "delete", key |-> k, match |-> m]
DelPrefix        == [kind |-> "deletePrefix", prefix |-> {k1, k2}]

Txn(c, t, e) == [op |-> "txn", branches |-> <<>>, cond |-> c, then |-> t, else |-> e]
TxnIf(b, e)  == [op |-> "txn", branches |-> b, cond |-> <<Cond("seq", k1, "lt", 0)>>,
                 then |-> <<>>, else |-> e]
Branch(o, subs, cs, ops) == [pred |-> [op |-> o, subs |-> subs, conds |-> cs], ops |-> ops]
Leaf(o, cs)              == [op |-> o, subs |-> <<>>, conds |-> cs]

Blank == [op |-> "blank"]

\* records that expire, at the boundary of a second and not
Expiring ==
    { UpsertCmd(k1, AnySeq, "update", Ttl(1)), UpsertCmd(k1, AnySeq, "update", At(1)),
      Txn(<<Cond("seq", k1, "eq", 0)>>, <<PutOp(k1, NoMeta)>>, <<PutOp(k2, Ttl(2))>>),
      Blank }

\* every command and operation
AllCommands ==
    { Blank,
      [op |-> "addNode", node |-> <<1, "a">>, overriding |-> FALSE],
      [op |-> "addNode", node |-> <<1, "b">>, overriding |-> TRUE],
      [op |-> "removeNode", node |-> <<1, "">>],
      UpsertCmd(k1, AnySeq, "update", Ttl(1)),
      UpsertCmd(k1, Exact(1), "asis", At(1)),
      UpsertCmd(k1, [kind |-> "ge", n |-> 1], "delete", NoMeta),
      UpsertCmd(k2, Exact(0), "update", NoMeta),
      Txn(<<Cond("prefix", k1, "ge", 1), Cond("value", k1, "eq", 1)>>,
          <<PutOp(k1, NoMeta), DelOp(k1, AnySeq), PutOp(k2, Ttl(2))>>, <<PutOp(k1, At(1))>>),
      TxnIf(<<Branch("and", <<Leaf("and", <<Cond("seq", k1, "ge", 1)>>)>>,
                     <<Cond("seq", k2, "le", 1)>>, <<DelOp(k1, Exact(1)), [kind |-> "get"]>>)>>,
            <<PutOp(k2, NoMeta)>>),
      TxnIf(<<Branch("or", <<>>, <<Cond("seq", k1, "eq", 0), Cond("seq", k1, "gt", 5)>>,
                     <<PutOp(k2, NoMeta)>>)>>, <<DelPrefix>>),
      Txn(<<Cond("prefix", k1, "ge", 2)>>, <<DelPrefix>>, <<>>) }
===========================================================================
