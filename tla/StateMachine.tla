--------------------------- MODULE StateMachine ---------------------------
(***************************************************************************)
(* The meta service's state machine as `Applier` drives it: every replica  *)
(* applies the same raft log, whose entries carry the proposing leader's   *)
(* clock.  An entry first removes the records that expired by its time,    *)
(* then runs its command, and publishes the changes to the watchers.       *)
(*                                                                         *)
(* The map is flat here; MetaStore shows that the leveled one shows the    *)
(* same.  The cursor up to which records were expired is kept in memory    *)
(* only: it is not part of a snapshot.                                     *)
(*                                                                         *)
(* A record is [seq, val, exp].  Time is in units of which Second make a   *)
(* second: expire times are stored in whole seconds.                       *)
(***************************************************************************)
EXTENDS Integers, Sequences, SequencesExt

CONSTANTS
    Replicas,
    KeyOrder,      \* the keys in their byte order, a sequence
    Payloads,      \* commands that may be proposed
    MaxLog,        \* bound on the raft log
    MaxTime,       \* bound on the leaders' clocks
    Second,        \* clock units per second
    MonotoneTime,  \* log times never decrease
    Installs       \* a replica may be sent another one's snapshot

ASSUME StateMachineAssumption ==
    /\ MaxLog \in Nat /\ MaxTime \in Nat /\ Second \in Nat \ {0}
    /\ MonotoneTime \in BOOLEAN /\ Installs \in BOOLEAN

VARIABLES
    log,       \* committed entries: [time, cmd], time 0 for none
    sm,        \* [kv, exp, seq, nodes, applied] of every replica
    cursor,    \* its expire_cursor's time
    snap,      \* its last snapshot
    changes    \* the changes published when it applied its last entry

vars == <<log, sm, cursor, snap, changes>>

Keys  == Range(KeyOrder)
Never == 1000000                      \* expires_at_ms() of a record without expire_at
None  == [seq |-> 0, val |-> 0, exp |-> Never]
Empty == [k \in {} |-> None]

EmptySM == [kv |-> Empty, exp |-> Empty, seq |-> 0, nodes |-> {}, applied |-> 0]

Get(s, k) == IF k \in DOMAIN s.kv THEN s.kv[k] ELSE None

Assign(f, k, v) == [x \in DOMAIN f \cup {k} |-> IF x = k THEN v ELSE f[x]]
Drop(f, S)      == [x \in DOMAIN f \ S |-> f[x]]

-----------------------------------------------------------------------------
(* Writing one key.  A context `c` is [sm, cursor, time, changes]. *)

\* MetaSpec::to_kv_meta, then expires_at_ms: a ttl overrides an absolute time,
\* and is cut to the second it falls in
ExpiresAt(meta, time) ==
    CASE meta.kind = "ttl" -> ((time + meta.n) \div Second) * Second
      [] meta.kind = "at"  -> meta.n * Second
      [] OTHER             -> Never

\* MatchSeq::match_seq
MatchSeq(m, seq) ==
    CASE m.kind = "exact" -> seq = m.n
      [] m.kind = "ge"    -> seq >= m.n
      [] OTHER            -> TRUE

Put(s, k, v, e) ==
    [s EXCEPT !.seq = @ + 1, !.kv = Assign(@, k, [seq |-> s.seq + 1, val |-> v, exp |-> e])]

Delete(s, k) == [s EXCEPT !.kv = Drop(@, {k})]

\* Mutant of UpsertPrimary: a record that is already expired is left to the index
UpsertPrimaryLate(s, u, cur, time) ==
    LET prev == Get(s, u.key)
        e    == ExpiresAt(u.meta, time)
    IN  CASE ~MatchSeq(u.match, prev.seq)      -> s
          [] u.op = "update"                   -> Put(s, u.key, u.val, e)
          [] u.op = "delete"                   -> Delete(s, u.key)
          [] u.op = "asis" /\ prev # None      -> Put(s, u.key, prev.val, e)
          [] OTHER                             -> s

\* upsert_kv_primary_index; `u` is [key, match, op, val, meta]
UpsertPrimary(s, u, cur, time) ==
    LET prev == Get(s, u.key)
        e    == ExpiresAt(u.meta, time)
        done == CASE u.op = "update"                -> Put(s, u.key, u.val, e)
                  [] u.op = "delete"                -> Delete(s, u.key)
                  [] u.op = "asis" /\ prev # None   -> Put(s, u.key, prev.val, e)
                  [] OTHER                          -> s
    IN  IF ~MatchSeq(u.match, prev.seq) THEN s
        ELSE IF e < cur THEN Delete(done, u.key)
        ELSE done

\* Mutant of UpdateExpire: the entry of the replaced record stays
UpdateExpireAdds(s, k, removed, added) ==
    IF removed = added \/ added.exp = Never THEN s
    ELSE [s EXCEPT !.exp = Assign(@, <<added.exp, added.seq>>, k)]

\* update_expire_index
UpdateExpire(s, k, removed, added) ==
    LET gone == IF removed.exp = Never THEN {} ELSE {<<removed.exp, removed.seq>>}
        left == Drop(s.exp, gone)
    IN  IF removed = added THEN s
        ELSE [s EXCEPT !.exp = IF added.exp = Never THEN left
                               ELSE Assign(left, <<added.exp, added.seq>>, k)]

\* push_change
PushChange(c, k, prev, result) ==
    IF prev = result THEN c
    ELSE [c EXCEPT !.changes = Append(@, [key |-> k, prev |-> prev, result |-> result])]

\* upsert_kv
Upsert(c, u) ==
    LET s1     == UpsertPrimary(c.sm, u, c.cursor, c.time)
        prev   == Get(c.sm, u.key)
        result == Get(s1, u.key)
    IN  PushChange([c EXCEPT !.sm = UpdateExpire(s1, u.key, prev, result)],
                   u.key, prev, result)

NoMeta   == [kind |-> "none", n |-> 0]
AnySeq   == [kind |-> "any", n |-> 0]
DeleteOf(k, m) == [key |-> k, match |-> m, op |-> "delete", val |-> 0, meta |-> NoMeta]
UpdateOf(k, v, meta) ==
    [key |-> k, match |-> AnySeq, op |-> "update", val |-> v, meta |-> meta]

-----------------------------------------------------------------------------
(* Transactions *)

\* list_kv: keys of a prefix, here a set of keys, in order
ListKv(s, prefix) == SelectSeq(KeyOrder, LAMBDA k : k \in prefix /\ k \in DOMAIN s.kv)

Compare(l, op, r) ==
    CASE op = "eq" -> l = r   [] op = "ne" -> l # r
      [] op = "lt" -> l < r   [] op = "le" -> l <= r
      [] op = "gt" -> l > r   [] op = "ge" -> l >= r

\* eval_one_condition; the keys of a prefix are counted up to n + 1
EvalOne(s, cond) ==
    CASE cond.target = "seq"    -> Compare(Get(s, cond.key).seq, cond.op, cond.n)
      [] cond.target = "value"  -> /\ Get(s, cond.key) # None
                                   /\ Compare(Get(s, cond.key).val, cond.op, cond.n)
      [] cond.target = "prefix" ->
            LET all == Len(ListKv(s, cond.prefix))
            IN  Compare(IF all > cond.n + 1 THEN cond.n + 1 ELSE all, cond.op, cond.n)

EvalAll(s, conds) == \A i \in DOMAIN conds : EvalOne(s, conds[i])
EvalAny(s, conds) == \E i \in DOMAIN conds : EvalOne(s, conds[i])

\* eval_bool_expression of an expression without sub-expressions: both loops
\* fall through to Ok(true)
EvalLeaf(s, e) ==
    CASE e.op = "and" -> EvalAll(s, e.conds)
      [] e.op = "or"  -> EvalAny(s, e.conds) \/ TRUE

\* eval_bool_expression of an expression with sub-expressions of that kind
EvalBool(s, e) ==
    CASE e.op = "and" -> (\A i \in DOMAIN e.subs : EvalLeaf(s, e.subs[i])) /\ EvalLeaf(s, e)
      [] e.op = "or"  -> (\E i \in DOMAIN e.subs : EvalLeaf(s, e.subs[i])) \/ EvalLeaf(s, e)

\* txn_execute_operation
Execute(c, op) ==
    CASE op.kind = "get" -> c
      [] op.kind = "put" -> Upsert(c, UpdateOf(op.key, op.val, op.meta))
      [] op.kind = "delete" -> Upsert(c, DeleteOf(op.key, op.match))
      [] op.kind = "deletePrefix" ->
            FoldLeft(LAMBDA d, k :
                        LET e == Upsert(d, DeleteOf(k, AnySeq))
                        IN  PushChange(e, k, Get(d.sm, k), Get(e.sm, k)),
                     c, ListKv(c.sm, op.prefix))

ExecuteAll(c, ops) == FoldLeft(Execute, c, ops)

\* the first conditional operation whose predicate evaluates to true, else 0
Chosen(s, branches) == SelectInSeq(branches, LAMBDA b : EvalBool(s, b.pred))

\* apply_txn
ApplyTxn(c, t) ==
    LET i == Chosen(c.sm, t.branches)
    IN  IF i > 0 THEN ExecuteAll(c, t.branches[i].ops)
        ELSE IF EvalAll(c.sm, t.cond) THEN ExecuteAll(c, t.then)
        ELSE ExecuteAll(c, t.else)

-----------------------------------------------------------------------------
(* Applying one entry *)

ExpireOrder(x, y) == x[1] < y[1] \/ (x[1] = y[1] /\ x[2] < y[2])

\* list_expire_index: from the cursor up to, not including, `time`
Expired(s, cur, time) == {x \in DOMAIN s.exp : cur <= x[1] /\ x[1] < time}

\* Mutant of CleanExpired: the removals are not published
CleanExpiredSilently(c) ==
    IF c.time = 0 THEN c
    ELSE LET Del(d, x) == Upsert(d, DeleteOf(c.sm.exp[x], AnySeq))
             cleaned   == FoldLeft(Del, c, SetToSortSeq(Expired(c.sm, c.cursor, c.time), ExpireOrder))
         IN  [cleaned EXCEPT !.changes = c.changes, !.cursor = IF c.time < @ THEN @ ELSE c.time]

\* Mutant of CleanExpired: the cursor moves only when something expired
CleanExpiredLazily(c) ==
    LET expired   == Expired(c.sm, c.cursor, c.time)
        Del(d, x) == Upsert(d, DeleteOf(c.sm.exp[x], AnySeq))
    IN  IF expired = {} THEN c
        ELSE [FoldLeft(Del, c, SetToSortSeq(expired, ExpireOrder)) EXCEPT !.cursor = c.time]

\* clean_expired_kvs and update_expire_cursor
CleanExpired(c) ==
    IF c.time = 0 THEN c
    ELSE LET cleaned == FoldLeft(LAMBDA d, x : Upsert(d, DeleteOf(c.sm.exp[x], AnySeq)), c,
                                 SetToSortSeq(Expired(c.sm, c.cursor, c.time), ExpireOrder))
         IN  IF c.time < c.cursor THEN cleaned ELSE [cleaned EXCEPT !.cursor = c.time]

\* apply_cmd; membership is kept with the nodes, which no other command reads
ApplyCmd(c, cmd) ==
    CASE cmd.op = "upsert"     -> Upsert(c, cmd.upsert)
      [] cmd.op = "txn"        -> ApplyTxn(c, cmd)
      [] cmd.op = "addNode"    ->
            IF cmd.overriding \/ ~\E x \in c.sm.nodes : x[1] = cmd.node[1]
            THEN [c EXCEPT !.sm.nodes = {x \in @ : x[1] # cmd.node[1]} \cup {cmd.node}]
            ELSE c
      [] cmd.op = "removeNode" -> [c EXCEPT !.sm.nodes = {x \in @ : x[1] # cmd.node[1]}]
      [] cmd.op = "blank"      -> c

Context(n) ==
    [sm |-> sm[n], cursor |-> cursor[n], time |-> log[sm[n].applied + 1].time, changes |-> <<>>]

Init ==
    /\ log = <<>>
    /\ sm = [n \in Replicas |-> EmptySM]
    /\ cursor = [n \in Replicas |-> 0]
    /\ snap = [n \in Replicas |-> EmptySM]
    /\ changes = [n \in Replicas |-> <<>>]

\* a leader proposes, and raft commits, an entry; only commands carry a time
Propose ==
    /\ Len(log) < MaxLog
    /\ \E cmd \in Payloads, t \in 0 .. MaxTime :
          /\ (cmd.op = "blank") <=> (t = 0)
          /\ MonotoneTime /\ t > 0 => \A i \in DOMAIN log : log[i].time <= t
          /\ log' = Append(log, [time |-> t, cmd |-> cmd])
    /\ UNCHANGED <<sm, cursor, snap, changes>>

\* Applier::apply
Apply(n) ==
    /\ sm[n].applied < Len(log)
    /\ LET cmd   == log[sm[n].applied + 1].cmd
           clean == CleanExpired(Context(n))
           done  == ApplyCmd(clean, cmd)
       IN  /\ sm' = [sm EXCEPT ![n] = [done.sm EXCEPT !.applied = @ + 1]]
           /\ cursor' = [cursor EXCEPT ![n] = done.cursor]
           /\ changes' = [changes EXCEPT ![n] = done.changes]
    /\ UNCHANGED <<log, snap>>

\* do_build_snapshot: the data, without the cursor
BuildSnapshot(n) ==
    /\ snap' = [snap EXCEPT ![n] = sm[n]]
    /\ UNCHANGED <<log, sm, cursor, changes>>

\* install_snapshot_v003: no event is published, the cursor stays
Install(n, m) ==
    /\ Installs
    /\ sm[n].applied < snap[m].applied
    /\ sm' = [sm EXCEPT ![n] = snap[m]]
    /\ snap' = [snap EXCEPT ![n] = snap[m]]
    /\ changes' = [changes EXCEPT ![n] = <<>>]
    /\ UNCHANGED <<log, cursor>>

\* RaftStoreInner::open: from the last snapshot, with a new cursor
Restart(n) ==
    /\ sm' = [sm EXCEPT ![n] = snap[n]]
    /\ cursor' = [cursor EXCEPT ![n] = 0]
    /\ changes' = [changes EXCEPT ![n] = <<>>]
    /\ UNCHANGED <<log, snap>>

Next ==
    \/ Propose
    \/ \E n \in Replicas :
          \/ Apply(n)
          \/ BuildSnapshot(n)
          \/ Restart(n)
          \/ \E m \in Replicas \ {n} : Install(n, m)

Spec == Init /\ [][Next]_vars

-----------------------------------------------------------------------------
(* Properties *)

\* KVMeta keeps expire times in seconds
Seconds == {s * Second : s \in 0 .. 2 * MaxTime}
Records == [seq : Nat, val : Nat, exp : Seconds \cup {Never}]

\* Every replica's data is made of records under known keys, and the expire index
\* of keys under (time, seq) pairs; expire times are whole seconds.
TypeOK ==
    \A n \in Replicas :
        /\ cursor[n] \in 0 .. MaxTime
        /\ \A s \in {sm[n], snap[n]} :
              /\ s.seq \in Nat /\ s.applied \in 0 .. Len(log)
              /\ \A k \in DOMAIN s.kv : k \in Keys /\ s.kv[k] \in Records
              /\ \A x \in DOMAIN s.exp : x \in Seconds \X Nat /\ s.exp[x] \in Keys

\* Applier::apply is deterministic across replicas: two that have applied the same
\* entries hold the same records, index, nodes and seq, though one expired the
\* records entry by entry and the other started from a snapshot with no cursor.
ReplicasAgree ==
    \A n, m \in Replicas : sm[n].applied = sm[m].applied => sm[n] = sm[m]

\* clean_expired_kvs asserts that an index entry names a record of that very seq:
\* the index holds exactly the records that expire, and no seq is used twice.
IndexIsExact ==
    /\ TypeOK
    /\ \A n \in Replicas :
        LET s == sm[n] IN
        /\ \A x \in DOMAIN s.exp : Get(s, s.exp[x]).seq = x[2] /\ Get(s, s.exp[x]).exp = x[1]
        /\ \A k \in DOMAIN s.kv :
              /\ s.kv[k].exp # Never => <<s.kv[k].exp, s.kv[k].seq>> \in DOMAIN s.exp
              /\ s.kv[k].seq \in 1 .. s.seq
              /\ \A j \in DOMAIN s.kv : s.kv[j].seq = s.kv[k].seq => j = k

\* "All expired keys will be removed before applying a log": what a replica holds
\* after an entry had not expired by the entry's time.
ExpiredAreRemoved ==
    \A n \in Replicas : sm[n].applied > 0 =>
        \A k \in DOMAIN sm[n].kv : sm[n].kv[k].exp >= log[sm[n].applied].time

\* Replaying changes on a map; a change whose prev is not what the map holds fails, unless it
\* deletes what is gone: delete_by_prefix pushes each deletion itself, after upsert_kv has.
Replay(kv, chs) ==
    LET Step(a, ch) ==
            LET now == IF ch.key \in DOMAIN a.kv THEN a.kv[ch.key] ELSE None
            IN  [ok |-> a.ok /\ (now = ch.prev \/ (now = None /\ ch.result = None)),
                 kv |-> IF ch.result = None THEN Drop(a.kv, {ch.key})
                        ELSE Assign(a.kv, ch.key, ch.result)]
    IN  FoldLeft(Step, [ok |-> TRUE, kv |-> kv], chs)

\* The changes an entry publishes ("The changes have been made by the applying one
\* log entry") lead, one after the other, from the records before the entry to the
\* records after it: none is missing or out of order, and none but a deletion repeated.
ChangesExplainEntry ==
    [][\A n \in Replicas : sm'[n].applied = sm[n].applied + 1 /\ log' = log /\ snap' = snap =>
          Replay(sm[n].kv, changes'[n]) = [ok |-> TRUE, kv |-> sm'[n].kv]]_vars
=============================================================================
