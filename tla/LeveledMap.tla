---------------------------- MODULE LeveledMap ----------------------------
(***************************************************************************)
(* The map that stores the data of the meta service's state machine: a     *)
(* stack of levels, like an LSM tree, each a partial map from keys to      *)
(* `Marked` entries.  A stack is a sequence, oldest level first: the       *)
(* persisted `DB`, the immutable levels and, last, the writable level.     *)
(* PlainMap is the reference: the map that a reader is to see.             *)
(***************************************************************************)
EXTENDS PlainMap, Sequences, FiniteSets

-----------------------------------------------------------------------------
(* The order of marked entries *)

\* Mutant of Below: tombstones are not preferred at the same seq.
BelowBySeq(a, b) == a.seq < b.seq

\* order_key() of `a` is below that of `b`: at one seq a tombstone is the greater
Below(a, b) == a.seq < b.seq \/ (a.seq = b.seq /\ ~a.tomb /\ b.tomb)

SameOrder(a, b) == a.seq = b.seq /\ a.tomb = b.tomb

-----------------------------------------------------------------------------
(* One level *)

\* sys_data (sequence, last_applied) is copied into every level
Level(s, n, d) == [seq |-> s, applied |-> n, data |-> d]

\* Level::new_level
NewLevel(l) == Level(l.seq, l.applied, NoData)

Insert(l, k, m) ==
    Level(l.seq, l.applied,
          [x \in DOMAIN l.data \cup {k} |-> IF x = k THEN m ELSE l.data[x]])

\* MapApi<String>::set with a value takes the next seq
SetStr(l, k, v) == Insert(Level(l.seq + 1, l.applied, l.data), k, Normal(l.seq + 1, v))

\* MapApi<ExpireKey>::set with a value reuses the current seq
SetExpire(l, k, v) == Insert(l, k, Normal(l.seq, v))

\* both, without a value: a tombstone at the current seq
SetNone(l, k) == Insert(l, k, Tombstone(l.seq))

-----------------------------------------------------------------------------
(* Reading a stack of levels *)

Keys(stack) == UNION {DOMAIN stack[i].data : i \in DOMAIN stack}

Holding(stack, k) == {i \in DOMAIN stack : k \in DOMAIN stack[i].data}

Top(S) == CHOOSE i \in S : \A j \in S : j <= i

\* compacted_get: the entry of the newest level that has one
compacted_get(stack, k) ==
    IF Holding(stack, k) = {}
    THEN NotFound
    ELSE stack[Top(Holding(stack, k))].data[k]

\* the coalesced k-way merge: the entry with the greatest order key
Greatest(S) == CHOOSE m \in S : \A o \in S : ~Below(m, o)

Entries(stack, k) == {stack[i].data[k] : i \in Holding(stack, k)}

\* compacted_range over all keys, tombstones included
compacted_range(stack) == [k \in Keys(stack) |-> Greatest(Entries(stack, k))]

\* Mutant of compact: tombstones are dropped before merging with the db.
compactEager(levels, db) ==
    LET mem    == compacted_range(levels)
        newest == levels[Len(levels)]
        live   == [k \in {x \in DOMAIN mem : ~mem[x].tomb} |-> mem[k]]
    IN  Level(newest.seq, newest.applied, compacted_range(db \o <<Level(0, 0, live)>>))

\* Mutant of compact: sys_data is taken from the oldest level.
compactOldestSys(levels, db) ==
    LET mem    == compacted_range(levels)
        merged == compacted_range(db \o <<Level(0, 0, mem)>>)
    IN  Level(levels[1].seq, levels[1].applied,
              [k \in {x \in DOMAIN merged : ~merged[x].tomb} |-> merged[k]])

\* `db` is a sequence of at most one level.  The in-memory levels are merged
\* first, then with the db; tombstones are dropped at the very end
compact(levels, db) ==
    LET mem    == compacted_range(levels)
        newest == levels[Len(levels)]
        merged == compacted_range(db \o <<Level(0, 0, mem)>>)
    IN  Level(newest.seq, newest.applied,
              [k \in {x \in DOMAIN merged : ~merged[x].tomb} |-> merged[k]])

\* what by_key_seq asserts of the entries it merges
MergeOrderOk(stack) ==
    \A i, j \in DOMAIN stack : \A k \in DOMAIN stack[i].data \cap DOMAIN stack[j].data :
        i # j /\ SameOrder(stack[i].data[k], stack[j].data[k]) => stack[i].data[k].tomb

-----------------------------------------------------------------------------
(* Writing: `below` are the levels under the writable level `w` *)

\* LeveledMap::set without a value: no tombstone for a key that was never there
MapSetNone(below, w, k) ==
    IF compacted_get(Append(below, w), k) = NotFound THEN w ELSE SetNone(w, k)

\* update_expire_index, its two halves
DropExpire(below, w, removed) ==
    IF ExpireKeys(removed) = {}
    THEN w
    ELSE MapSetNone(below, w, <<removed.val, removed.seq>>)

AddExpire(w, cmd) ==
    IF cmd.exp = 0 THEN w ELSE SetExpire(w, <<cmd.exp, w.seq>>, cmd.key)

\* upsert_kv: the primary index, then the expire index
UpsertPut(below, w, cmd) ==
    LET prev == compacted_get(Append(below, w), cmd.key)
        w1   == SetStr(w, cmd.key, cmd.exp)
    IN  AddExpire(DropExpire(below, w1, prev), cmd)

UpsertDel(below, w, cmd) ==
    LET prev == compacted_get(Append(below, w), cmd.key)
        w1   == MapSetNone(below, w, cmd.key)
    IN  DropExpire(below, w1, prev)

Upsert(below, w, cmd) ==
    IF cmd.op = "put" THEN UpsertPut(below, w, cmd) ELSE UpsertDel(below, w, cmd)

\* the live records a reader of the stack sees, with the seq counter
View(stack) ==
    LET live == {k \in Keys(stack) : ~compacted_get(stack, k).tomb}
    IN  [seq |-> stack[Len(stack)].seq, data |-> [k \in live |-> compacted_get(stack, k)]]
=============================================================================
