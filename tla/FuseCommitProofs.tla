-------------------------- MODULE FuseCommitProofs --------------------------
(***************************************************************************)
(* Two facts about the commits to a fuse table, for any number of          *)
(* statements, any clocks and any number of retries: the commits form one  *)
(* history, and a mutation that started without change tracking does not   *)
(* commit to a table that has it.                                          *)
(***************************************************************************)
EXTENDS FuseCommit, SequenceTheorems, TLAPS

-----------------------------------------------------------------------------
(* The inductive invariant *)

IsTable(v) ==
    v = [seq |-> v.seq, snap |-> v.snap, schema |-> v.schema, tracking |-> v.tracking]
    /\ v.seq \in Nat

IsStatement(x) ==
    /\ x = [pc |-> x.pc, prog |-> x.prog, view |-> x.view, base |-> x.base, ts |-> x.ts,
            work |-> x.work, schema |-> x.schema, tracking |-> x.tracking, snap |-> x.snap,
            files |-> x.files, record |-> x.record, retries |-> x.retries,
            resent |-> x.resent, out |-> x.out]
    /\ IsTable(x.view)
    /\ x.ts \in Nat /\ x.retries \in Nat

Shapes ==
    /\ IsTable(tbl)
    /\ chain = [i \in 1 .. Len(chain) |-> chain[i]] /\ Len(chain) \in Nat \ {0}
    /\ tx = [t \in Txn |-> tx[t]] /\ \A t \in Txn : IsStatement(tx[t])

Preparing(x) == x.pc \in {"start", "fill", "refresh"}
Prepared(x) == x.pc \in {"write", "meta"}

\* the snapshots that are, were or may become the table's
Made(s) ==
    \/ s \in snaps
    \/ \E i \in 1 .. Len(chain) : s = chain[i]
    \/ \E t \in Txn : Prepared(tx[t]) /\ s = tx[t].snap

\* a snapshot id is used once, for it holds the statement and its attempt
IdsAreUnique ==
    /\ \A s : Made(s) => s.ts \in Nat /\ (s.id = NoId => s = NoSnapshot)
    /\ \A s, r : Made(s) /\ Made(r) /\ s.id = r.id => s = r
    /\ \A s : Made(s) => \A t \in Txn, n \in Nat :
          s.id = <<t, n>> => /\ Preparing(tx[t]) => n < tx[t].retries
                             /\ Prepared(tx[t]) => n <= tx[t].retries

\* what a statement knows of the table, as long as the table has the seq it has seen
Informed(t) ==
    LET x == tx[t] IN
    /\ x.pc = "start" => x.retries = 0
    /\ x.pc = "fill" =>
          /\ x.view.seq <= tbl.seq /\ x.base.ts \in Nat
          /\ x.view.seq = tbl.seq => x.view.snap = tbl.snap /\ x.base = Current
    /\ Prepared(x) =>
          /\ x.snap.id = <<t, x.retries>>
          /\ x.view.seq <= tbl.seq
          /\ x.view.seq = tbl.seq => x.snap.prev = Current.id /\ x.snap.ts > Current.ts
          /\ x.prog # "segcompact" /\ ~IsAppend(x) => (x.view.tracking => x.tracking)

\* the statement keeps the attempt it has prepared
SameAttempt(x, y) ==
    /\ Prepared(x) /\ Prepared(y)
    /\ y.view = x.view /\ y.snap = x.snap /\ y.retries = x.retries
    /\ y.prog = x.prog /\ y.tracking = x.tracking

History ==
    /\ Shapes
    /\ IdsAreUnique
    /\ tbl.snap = Current.id
    /\ HistoryIsAChain
    /\ \A t \in Txn : Informed(t)

-----------------------------------------------------------------------------
(* The operators *)

\* An ended statement is neither preparing nor prepared: Ended forgets the attempt.
LEMMA EndedFacts ==
    ASSUME NEW x, NEW out
    PROVE  \A y : /\ y = Ended(x, out) => IsStatement(y) /\ y.pc = "done"
                  /\ y = Ends(x, out) => IsStatement(y) /\ y.pc = "finish"
                  /\ y = [Ended(x, out) EXCEPT !.pc = "failed"] =>
                        IsStatement(y) /\ y.pc = "failed"
<1> DEFINE e(pc) == [pc |-> pc, prog |-> x.prog, view |-> NoTable, base |-> x.base, ts |-> 0,
                     work |-> x.work, schema |-> 0, tracking |-> FALSE, snap |-> NoSnapshot,
                     files |-> {}, record |-> 0, retries |-> 0, resent |-> FALSE, out |-> out]
<1>1. PICK d : d = Ended(x, out)
  OBVIOUS
<1>2. PICK i : i = Idle(x.prog)
  OBVIOUS
<1>3. d = [i EXCEPT !.pc = "done", !.base = x.base, !.work = x.work, !.out = out]
  BY <1>1, <1>2 DEF Ended
<1>4. d = e("done")
  BY <1>2, <1>3, Zenon DEF Idle
<1>5. IsTable(NoTable)
  BY DEF NoTable, IsTable
<1>6. ASSUME NEW y, NEW pc, y = [d EXCEPT !.pc = pc] PROVE y = e(pc)
  BY <1>4, <1>6, Zenon
<1>7. ASSUME NEW pc PROVE IsStatement(e(pc)) /\ e(pc).pc = pc
  BY <1>5 DEF IsStatement
<1> HIDE DEF e
<1> QED
  BY <1>1, <1>4, <1>6, <1>7 DEF Ends

\* The timestamp of a snapshot is later than its predecessor's (monotonically_increased_timestamp).
LEMMA AfterIsLater ==
    ASSUME NEW ts \in Nat, NEW s, s.ts \in Nat
    PROVE  After(ts, s) \in Nat /\ After(ts, s) > s.ts
BY DEF After

\* GenerateSnapshot aborts the statement or prepares a later snapshot on top of `previous`.
LEMMA Generated ==
    ASSUME NEW t, NEW x, NEW view, NEW previous, IsStatement(x), IsTable(view),
           previous.ts \in Nat, NEW y, y = GenerateSnapshot(t, x, view, previous)
    PROVE  /\ IsStatement(y)
           /\ \/ y.pc = "done"
              \/ /\ y.pc = "write" /\ y.view = view /\ y.prog = x.prog /\ y.tracking = x.tracking
                 /\ y.retries = x.retries /\ y.snap.id = <<t, x.retries>>
                 /\ y.snap.prev = previous.id /\ y.snap.ts \in Nat /\ y.snap.ts > previous.ts
                 /\ y.prog # "segcompact" /\ ~IsAppend(y) => (y.view.tracking => y.tracking)
<1> DEFINE ts == After(x.ts, previous)
           snap == [id |-> <<t, x.retries>>, ts |-> ts, prev |-> previous.id,
                    segs |-> Segments(t, x, previous), summary |-> Summary(t, x, previous)]
           z == [x EXCEPT !.pc = "write", !.view = view, !.snap = snap]
<1>1. ts \in Nat /\ ts > previous.ts
  BY AfterIsLater DEF IsStatement
<1>2. \/ y = Ended(x, "aborted")
      \/ y = z /\ (x.prog # "segcompact" /\ ~IsAppend(x) => (view.tracking => x.tracking))
  BY DEF GenerateSnapshot
<1>3. CASE y = Ended(x, "aborted")
  BY <1>3, EndedFacts
<1>4. CASE y = z /\ (x.prog # "segcompact" /\ ~IsAppend(x) => (view.tracking => x.tracking))
  <2> HIDE DEF ts
  <2>1. snap.id = <<t, x.retries>> /\ snap.prev = previous.id /\ snap.ts = ts
    OBVIOUS
  <2> HIDE DEF snap
  <2>2. y = [pc |-> "write", prog |-> x.prog, view |-> view, base |-> x.base, ts |-> x.ts,
             work |-> x.work, schema |-> x.schema, tracking |-> x.tracking, snap |-> snap,
             files |-> x.files, record |-> x.record, retries |-> x.retries,
             resent |-> x.resent, out |-> x.out]
    BY <1>4, Zenon DEF IsStatement
  <2>3. /\ IsStatement(y) /\ y.pc = "write" /\ y.view = view /\ y.prog = x.prog
        /\ y.tracking = x.tracking /\ y.retries = x.retries /\ y.snap = snap
    BY <2>2 DEF IsStatement
  <2> QED
    BY <1>1, <1>4, <2>1, <2>3 DEF IsAppend
<1> QED
  BY <1>2, <1>3, <1>4

\* Become changes one statement.
LEMMA Became ==
    ASSUME Shapes, NEW t \in Txn, NEW y, Become(t, y), IsStatement(y)
    PROVE  /\ tx'[t] = y /\ \A u \in Txn \ {t} : tx'[u] = tx[u]
           /\ tx' = [u \in Txn |-> tx'[u]] /\ \A u \in Txn : IsStatement(tx'[u])
<1>1. tx = [u \in Txn |-> tx[u]] /\ \A u \in Txn : IsStatement(tx[u])
  BY DEF Shapes
<1>2. /\ tx'[t] = y /\ \A u \in Txn \ {t} : tx'[u] = tx[u]
      /\ tx' = [u \in Txn |-> tx'[u]]
  BY <1>1 DEF Become
<1> QED
  BY <1>1, <1>2

\* Appending a snapshot to the history keeps what is there.
LEMMA Appended ==
    ASSUME Shapes, NEW s, chain' = Append(chain, s)
    PROVE  /\ Len(chain') = Len(chain) + 1
           /\ chain' = [i \in 1 .. Len(chain') |-> chain'[i]]
           /\ \A i \in 1 .. Len(chain) : chain'[i] = chain[i]
           /\ chain'[Len(chain')] = s
<1> DEFINE S == {chain[i] : i \in 1 .. Len(chain)} \union {s}
<1>1. chain \in Seq(S)
  <2>1. Len(chain) \in Nat /\ chain \in [1 .. Len(chain) -> S]
    BY DEF Shapes
  <2> QED
    BY <2>1, SeqDef, Zenon
<1>2. s \in S
  OBVIOUS
<1> HIDE DEF S
<1>3. /\ chain' \in Seq(S) /\ Len(chain') = Len(chain) + 1
      /\ \A i \in 1 .. Len(chain) : chain'[i] = chain[i]
      /\ chain'[Len(chain) + 1] = s
  BY <1>1, <1>2, AppendProperties
<1> QED
  BY <1>1, <1>2, <1>3, LenProperties, Zenon

\* The file the table names is the last snapshot committed; any file has a timestamp.
LEMMA ReadFacts ==
    ASSUME History, NEW id, NEW s \in ReadSnapshot(id)
    PROVE  s.ts \in Nat /\ (id = tbl.snap => s = Current)
<1>1. Made(Current)
  BY DEF Made, History, Shapes, Current
<1>2. CASE id = NoId
  <2>1. s = NoSnapshot /\ s.ts \in Nat
    BY <1>2 DEF ReadSnapshot, NoSnapshot
  <2> QED
    BY <1>1, <1>2, <2>1 DEF History, IdsAreUnique
<1>3. CASE id # NoId
  <2>1. Made(s) /\ s.id = id
    BY <1>3 DEF ReadSnapshot, Made
  <2> QED
    BY <1>1, <2>1 DEF History, IdsAreUnique
<1> QED
  BY <1>2, <1>3

-----------------------------------------------------------------------------
(* What a step keeps *)

\* Attempts are numbered upwards, and no snapshot appears.
LEMMA IdsKept ==
    ASSUME IdsAreUnique, Shapes, Shapes',
           \A s : Made(s)' => Made(s),
           \A u \in Txn :
              /\ Preparing(tx'[u]) =>
                    \/ Preparing(tx[u]) /\ tx'[u].retries >= tx[u].retries
                    \/ Prepared(tx[u]) /\ tx'[u].retries > tx[u].retries
              /\ Prepared(tx'[u]) => Prepared(tx[u]) /\ tx'[u].retries >= tx[u].retries
    PROVE  IdsAreUnique'
<1>1. \A u \in Txn : tx[u].retries \in Nat /\ tx'[u].retries \in Nat
  BY DEF Shapes, IsStatement
<1> QED
  BY <1>1 DEF IdsAreUnique

\* A statement that does not move is informed as long as every change of the table has a new seq.
LEMMA InformedKept ==
    ASSUME Shapes, Shapes', NEW u \in Txn, Informed(u), tx'[u] = tx[u],
           \/ tbl'.seq = tbl.seq /\ tbl'.snap = tbl.snap /\ Current' = Current
           \/ tbl'.seq > tbl.seq
    PROVE  Informed(u)'
<1>1. tbl.seq \in Nat /\ tbl'.seq \in Nat /\ tx[u].view.seq \in Nat
  BY Zenon DEF Shapes, IsStatement, IsTable
<1> QED
  BY <1>1 DEF Informed, Prepared

\* A step that leaves the table and the statements' attempts alone.
LEMMA QuietStep ==
    ASSUME History, NEW t \in Txn, NEW y, Become(t, y), IsStatement(y),
           ~Preparing(y), ~Prepared(y),
           UNCHANGED <<tbl, chain>>, snaps' \subseteq snaps
    PROVE  History'
<1>1. /\ tx'[t] = y /\ \A u \in Txn \ {t} : tx'[u] = tx[u]
      /\ tx' = [u \in Txn |-> tx'[u]] /\ \A u \in Txn : IsStatement(tx'[u])
  BY Became DEF History
<1>2. Shapes'
  BY <1>1 DEF History, Shapes
<1>3. Current' = Current
  BY DEF Current
<1>4. \A s : Made(s)' => Made(s)
  BY <1>1 DEF Made
<1>5. IdsAreUnique'
  <2>1. \A u \in Txn : tx[u].retries \in Nat
    BY DEF History, Shapes, IsStatement
  <2> QED
    BY <1>1, <1>2, <1>4, <2>1, IdsKept DEF History
<1>6. ASSUME NEW u \in Txn PROVE Informed(u)'
  <2>1. CASE u = t
    BY <1>1, <2>1 DEF Informed, Preparing, Prepared
  <2>2. CASE u # t
    BY <1>1, <1>2, <1>3, <2>2, InformedKept DEF History
  <2> QED
    BY <2>1, <2>2
<1> QED
  BY <1>2, <1>3, <1>5, <1>6 DEF History, HistoryIsAChain

\* A preparing statement goes on preparing, or a refused one does with a new attempt.
LEMMA PreparingStep ==
    ASSUME History, NEW t \in Txn, NEW y, Become(t, y), IsStatement(y),
           y.pc \in {"fill", "refresh"},
           \/ Preparing(tx[t]) /\ y.retries >= tx[t].retries
           \/ Prepared(tx[t]) /\ y.retries > tx[t].retries,
           y.pc = "fill" => /\ y.view.seq = tbl.seq /\ y.view.snap = tbl.snap
                            /\ y.base = Current /\ y.base.ts \in Nat,
           UNCHANGED <<tbl, chain, snaps>>
    PROVE  History'
<1>1. /\ tx'[t] = y /\ \A u \in Txn \ {t} : tx'[u] = tx[u]
      /\ tx' = [u \in Txn |-> tx'[u]] /\ \A u \in Txn : IsStatement(tx'[u])
  BY Became DEF History
<1>2. Shapes'
  BY <1>1 DEF History, Shapes
<1>3. Current' = Current
  BY DEF Current
<1>4. ~Prepared(y)
  BY DEF Prepared
<1>5. \A s : Made(s)' => Made(s)
  BY <1>1, <1>4 DEF Made
<1>6. IdsAreUnique'
  <2>1. \A u \in Txn : tx[u].retries \in Nat
    BY DEF History, Shapes, IsStatement
  <2> QED
    BY <1>1, <1>2, <1>4, <1>5, <2>1, IdsKept DEF History
<1>7. ASSUME NEW u \in Txn PROVE Informed(u)'
  <2>1. CASE u = t
    <3>1. tbl.seq \in Nat
      BY DEF History, Shapes, IsTable
    <3> QED
      BY <1>1, <1>3, <1>4, <2>1, <3>1 DEF Informed
  <2>2. CASE u # t
    BY <1>1, <1>2, <1>3, <2>2, InformedKept DEF History
  <2> QED
    BY <2>1, <2>2
<1> QED
  BY <1>2, <1>3, <1>6, <1>7 DEF History, HistoryIsAChain

\* A statement prepares a snapshot on `previous`, which is the table's if its view still is.
LEMMA GenerateStep ==
    ASSUME History, NEW t \in Txn, Preparing(tx[t]),
           NEW view, IsTable(view), view.seq <= tbl.seq,
           NEW previous, previous.ts \in Nat, view.seq = tbl.seq => previous = Current,
           Become(t, GenerateSnapshot(t, tx[t], view, previous)),
           UNCHANGED <<tbl, chain, snaps>>
    PROVE  History'
<1>1. PICK y : y = GenerateSnapshot(t, tx[t], view, previous)
  OBVIOUS
<1>2. IsStatement(tx[t])
  BY DEF History, Shapes
<1>3. IsStatement(y) /\ Become(t, y)
  BY <1>1, <1>2, Generated
<1>4. CASE y.pc = "done"
  BY <1>3, <1>4, QuietStep DEF Preparing, Prepared
<1>5. CASE /\ y.pc = "write" /\ y.view = view /\ y.prog = tx[t].prog
           /\ y.tracking = tx[t].tracking
           /\ y.retries = tx[t].retries /\ y.snap.id = <<t, tx[t].retries>>
           /\ y.snap.prev = previous.id /\ y.snap.ts \in Nat /\ y.snap.ts > previous.ts
           /\ y.prog # "segcompact" /\ ~IsAppend(y) => (y.view.tracking => y.tracking)
  <2>1. /\ tx'[t] = y /\ \A u \in Txn \ {t} : tx'[u] = tx[u]
        /\ tx' = [u \in Txn |-> tx'[u]] /\ \A u \in Txn : IsStatement(tx'[u])
    BY <1>3, Became DEF History
  <2>2. Shapes'
    BY <2>1 DEF History, Shapes
  <2>3. Current' = Current
    BY DEF Current
  <2>4. Prepared(y) /\ ~Preparing(y)
    BY <1>5 DEF Prepared, Preparing
  <2>5. \A s : Made(s)' => Made(s) \/ s = y.snap
    BY <2>1 DEF Made
  <2>6. \A u \in Txn : tx[u].retries \in Nat
    BY DEF History, Shapes, IsStatement
  <2>7. \A s : Made(s) => s.id # y.snap.id
    BY <1>5, <2>6 DEF History, IdsAreUnique
  <2>8. y.snap.id # NoId
    BY <1>5 DEF NoId
  <2>9. IdsAreUnique'
    <3>1. \A s : Made(s)' => s.ts \in Nat /\ (s.id = NoId => s = NoSnapshot)
      BY <1>5, <2>5, <2>8, Zenon DEF History, IdsAreUnique
    <3>2. \A s, r : Made(s)' /\ Made(r)' /\ s.id = r.id => s = r
      BY <2>5, <2>7 DEF History, IdsAreUnique
    <3>3. ASSUME NEW s, Made(s)', NEW u \in Txn, NEW n \in Nat, s.id = <<u, n>>
          PROVE  /\ Preparing(tx'[u]) => n < tx'[u].retries
                 /\ Prepared(tx'[u]) => n <= tx'[u].retries
      <4>1. CASE Made(s)
        BY <1>5, <2>1, <2>4, <2>6, <3>3, <4>1 DEF History, IdsAreUnique
      <4>2. CASE s = y.snap
        <5>1. u = t /\ n = tx[t].retries
          BY <1>5, <3>3, <4>2
        <5> QED
          BY <1>5, <2>1, <2>4, <2>6, <5>1
      <4> QED
        BY <2>5, <3>3, <4>1, <4>2
    <3> QED
      BY <3>1, <3>2, <3>3 DEF IdsAreUnique
  <2>10. ASSUME NEW u \in Txn PROVE Informed(u)'
    <3>1. CASE u = t
      BY <1>5, <2>1, <2>3, <3>1 DEF Informed
    <3>2. CASE u # t
      BY <2>1, <2>2, <2>3, <3>2, InformedKept DEF History
    <3> QED
      BY <3>1, <3>2
  <2> QED
    BY <2>2, <2>3, <2>9, <2>10 DEF History, HistoryIsAChain
<1> QED
  BY <1>1, <1>2, <1>4, <1>5, Generated

\* The prepared snapshot is written, or the call that swaps it in is lost.
LEMMA SameAttemptStep ==
    ASSUME History, NEW t \in Txn, NEW y, Become(t, y), IsStatement(y), SameAttempt(tx[t], y),
           UNCHANGED <<tbl, chain>>, snaps' \subseteq snaps \union {tx[t].snap}
    PROVE  History'
<1>1. /\ tx'[t] = y /\ \A u \in Txn \ {t} : tx'[u] = tx[u]
      /\ tx' = [u \in Txn |-> tx'[u]] /\ \A u \in Txn : IsStatement(tx'[u])
  BY Became DEF History
<1>2. Shapes'
  BY <1>1 DEF History, Shapes
<1>3. Current' = Current
  BY DEF Current
<1>4. \A s : Made(s)' => Made(s)
  BY <1>1 DEF Made, SameAttempt
<1>5. ~Preparing(y)
  BY DEF SameAttempt, Prepared, Preparing
<1>6. IdsAreUnique'
  <2>1. \A u \in Txn : tx[u].retries \in Nat
    BY DEF History, Shapes, IsStatement
  <2> QED
    BY <1>1, <1>2, <1>4, <1>5, <2>1, IdsKept DEF History, SameAttempt
<1>7. ASSUME NEW u \in Txn PROVE Informed(u)'
  <2>1. CASE u = t
    BY <1>1, <1>3, <1>5, <2>1 DEF History, Informed, SameAttempt, IsAppend, Preparing
  <2>2. CASE u # t
    BY <1>1, <1>2, <1>3, <2>2, InformedKept DEF History
  <2> QED
    BY <2>1, <2>2
<1> QED
  BY <1>2, <1>3, <1>6, <1>7 DEF History, HistoryIsAChain

\* A swap moves the table to the prepared snapshot and to a seq no statement has seen.
LEMMA SwapFacts ==
    ASSUME History, NEW t \in Txn, Swap(t)
    PROVE  /\ IsTable(tbl)' /\ tbl'.seq > tbl.seq
           /\ tbl'.snap = tx[t].snap.id /\ tbl'.tracking = tx[t].view.tracking
<1>1. IsTable(tx[t].view) /\ IsTable(tbl)
  BY DEF History, Shapes, IsStatement
<1>2. PICK v : v = tx[t].view
  OBVIOUS
<1>3. tbl' = [v EXCEPT !.seq = tbl.seq + 1, !.snap = tx[t].snap.id]
  BY <1>2 DEF Swap
<1>4. tbl' = [seq |-> tbl.seq + 1, snap |-> tx[t].snap.id, schema |-> v.schema,
              tracking |-> v.tracking]
  BY <1>1, <1>2, <1>3, Zenon DEF IsTable
<1> QED
  BY <1>1, <1>2, <1>4 DEF IsTable

\* The committed snapshot extends the history, and every other view is outdated.
LEMMA SwapStep ==
    ASSUME History, NEW t \in Txn, NEW y, Become(t, y), IsStatement(y),
           Prepared(tx[t]), Swap(t),
           SameAttempt(tx[t], y) \/ (~Preparing(y) /\ ~Prepared(y)),
           UNCHANGED snaps
    PROVE  History'
<1>1. /\ tx'[t] = y /\ \A u \in Txn \ {t} : tx'[u] = tx[u]
      /\ tx' = [u \in Txn |-> tx'[u]] /\ \A u \in Txn : IsStatement(tx'[u])
  BY Became DEF History
<1>2. /\ IsTable(tbl)' /\ tbl'.seq > tbl.seq
      /\ tbl'.snap = tx[t].snap.id
  BY SwapFacts
<1>3. /\ Len(chain') = Len(chain) + 1
      /\ chain' = [i \in 1 .. Len(chain') |-> chain'[i]]
      /\ \A i \in 1 .. Len(chain) : chain'[i] = chain[i]
      /\ chain'[Len(chain')] = tx[t].snap
  BY Appended DEF History, Swap
<1>4. Len(chain) \in Nat \ {0}
  BY DEF History, Shapes
<1>5. Shapes'
  BY <1>1, <1>2, <1>3, <1>4 DEF Shapes
<1>6. Current' = tx[t].snap
  BY <1>3 DEF Current
<1>7. \A s : Made(s)' => Made(s)
  <2>1. \A i \in 1 .. Len(chain') : chain'[i] = tx[t].snap \/ \E j \in 1 .. Len(chain) : chain'[i] = chain[j]
    BY <1>3, <1>4
  <2> QED
    BY <1>1, <2>1 DEF Made, SameAttempt
<1>8. IdsAreUnique'
  <2>1. \A u \in Txn : tx[u].retries \in Nat
    BY DEF History, Shapes, IsStatement
  <2>2. ~Preparing(y)
    BY DEF SameAttempt, Prepared, Preparing
  <2> QED
    BY <1>1, <1>5, <1>7, <2>1, <2>2, IdsKept DEF History, SameAttempt
<1>9. HistoryIsAChain'
  <2>1. tx[t].snap.prev = Current.id /\ tx[t].snap.ts > Current.ts
    BY DEF History, Informed, Swap, SeqMatches
  <2>2. ASSUME NEW i \in 2 .. Len(chain')
        PROVE  chain'[i].prev = chain'[i - 1].id /\ chain'[i].ts > chain'[i - 1].ts
    <3>1. CASE i = Len(chain')
      BY <1>3, <1>4, <2>1, <3>1 DEF Current
    <3>2. CASE i # Len(chain')
      <4>1. i \in 2 .. Len(chain) /\ i - 1 \in 1 .. Len(chain) /\ i \in 1 .. Len(chain)
        BY <1>3, <1>4, <3>2
      <4> QED
        BY <1>3, <4>1 DEF History, HistoryIsAChain
    <3> QED
      BY <3>1, <3>2
  <2> QED
    BY <2>2 DEF HistoryIsAChain
<1>10. ASSUME NEW u \in Txn PROVE Informed(u)'
  <2>1. CASE u # t
    BY <1>1, <1>2, <1>5, <2>1, InformedKept DEF History
  <2>2. CASE u = t /\ SameAttempt(tx[t], y)
    <3>1. /\ tx[t].snap.id = <<t, tx[t].retries>> /\ tx[t].view.seq = tbl.seq
          /\ tx[t].prog # "segcompact" /\ ~IsAppend(tx[t]) =>
                (tx[t].view.tracking => tx[t].tracking)
      BY DEF History, Informed, Swap, SeqMatches
    <3>2. tbl.seq \in Nat /\ tbl'.seq \in Nat
      BY <1>5 DEF History, Shapes, IsTable
    <3>3. y.pc \notin {"start", "fill"}
      BY <2>2 DEF SameAttempt, Prepared
    <3> QED
      BY <1>1, <1>2, <2>2, <3>1, <3>2, <3>3 DEF Informed, SameAttempt, IsAppend
  <2>3. CASE u = t /\ ~Preparing(y) /\ ~Prepared(y)
    BY <1>1, <2>3 DEF Informed, Preparing
  <2> QED
    BY <2>1, <2>2, <2>3
<1> QED
  BY <1>2, <1>5, <1>6, <1>8, <1>9, <1>10 DEF History

-----------------------------------------------------------------------------
(* The invariant is inductive *)

\* An empty or a loaded table, before any statement has read it.
LEMMA InitHistory == Init => History
<1> SUFFICES ASSUME Init PROVE History
  OBVIOUS
<1>1. PICK s \in {NoSnapshot, Loaded} :
         /\ tbl = [NoTable EXCEPT !.seq = 1, !.snap = s.id]
         /\ snaps = {s} \ {NoSnapshot}
         /\ chain = <<s>>
  BY Zenon DEF Init
<1>2. /\ s.ts \in Nat /\ s.id \in {NoId, <<"initial", 0>>}
      /\ s.id = NoId => s = NoSnapshot
  <2>1. NoSnapshot.ts = 0 /\ NoSnapshot.id = NoId
    BY DEF NoSnapshot
  <2>2. Loaded.ts = 1 /\ Loaded.id = <<"initial", 0>>
    BY DEF Loaded
  <2>3. <<"initial", 0>> # NoId
    BY DEF NoId
  <2> QED
    BY <2>1, <2>2, <2>3
<1>3. PICK n : n = NoTable
  OBVIOUS
<1>4. tbl = [seq |-> 1, snap |-> s.id, schema |-> 0, tracking |-> FALSE]
  <2>1. tbl = [n EXCEPT !.seq = 1, !.snap = s.id]
    BY <1>1, <1>3
  <2> QED
    BY <1>3, <2>1, Zenon DEF NoTable
<1>5. Len(chain) = 1 /\ chain[1] = s /\ chain = [i \in 1 .. Len(chain) |-> chain[i]]
  BY <1>1
<1>6. tx = [t \in Txn |-> tx[t]]
  BY DEF Init
<1>7. IsTable(NoTable)
  BY DEF NoTable, IsTable
<1>8. ASSUME NEW t \in Txn PROVE IsStatement(tx[t]) /\ tx[t].pc = "start" /\ tx[t].retries = 0
  <2>1. PICK p \in Programs : tx[t] = Idle(p)
    BY DEF Init
  <2> QED
    BY <1>7, <2>1 DEF Idle, IsStatement
<1>9. Shapes
  BY <1>4, <1>5, <1>6, <1>8 DEF Shapes, IsTable
<1>10. \A r : Made(r) => r = s
  BY <1>1, <1>5, <1>8 DEF Made, Prepared
<1>11. \A t \in Txn, m \in Nat : s.id # <<t, m>>
  <2>1. "initial" \notin Txn
    BY FuseCommitAssumption
  <2>2. \A t \in Txn, m \in Nat : <<"initial", 0>> # <<t, m>> /\ NoId # <<t, m>>
    BY <2>1 DEF NoId
  <2> QED
    BY <1>2, <2>2
<1>12. IdsAreUnique
  BY <1>2, <1>10, <1>11 DEF IdsAreUnique
<1>13. tbl.snap = Current.id /\ HistoryIsAChain
  BY <1>4, <1>5 DEF Current, HistoryIsAChain
<1>14. \A t \in Txn : Informed(t)
  BY <1>8 DEF Informed, Prepared
<1> QED
  BY <1>9, <1>12, <1>13, <1>14 DEF History

\* Start reads the table and the snapshot it names in one step.
LEMMA StartKeepsHistory ==
    ASSUME History, NEW t \in Txn, Start(t)
    PROVE  History'
<1>1. UNCHANGED <<tbl, chain, snaps>> /\ tx[t].pc = "start"
  BY DEF Start
<1>2. CASE Become(t, [Ended(tx[t], "error") EXCEPT !.pc = "failed"])
  <2>1. PICK y : y = [Ended(tx[t], "error") EXCEPT !.pc = "failed"]
    BY Zenon
  <2>2. IsStatement(y) /\ y.pc = "failed" /\ Become(t, y)
    BY <1>2, <2>1, EndedFacts
  <2> QED
    BY <1>1, <2>2, QuietStep DEF Preparing, Prepared
<1>3. ASSUME NEW now \in 1 .. MaxNow, NEW base \in ReadSnapshot(tbl.snap), Begin(t, now, base)
      PROVE  History'
  <2>1. base = Current /\ base.ts \in Nat
    BY ReadFacts
  <2>2. PICK view : view = IF tx[t].prog = "modify" THEN [tbl EXCEPT !.schema = @ + 1] ELSE tbl
    BY Zenon
  <2>3. IsTable(tbl)
    BY DEF History, Shapes
  <2>4. IsTable(view) /\ view.seq = tbl.seq /\ view.snap = tbl.snap
    <3>1. CASE view = [tbl EXCEPT !.schema = @ + 1]
      <4>1. view = [seq |-> tbl.seq, snap |-> tbl.snap, schema |-> tbl.schema + 1,
                    tracking |-> tbl.tracking]
        BY <2>3, <3>1 DEF IsTable
      <4> QED
        BY <2>3, <4>1 DEF IsTable
    <3> QED
      BY <2>2, <2>3, <3>1
  <2>5. PICK o : o = tx[t]
    OBVIOUS
  <2>6. PICK ts : ts = After(now, base)
    OBVIOUS
  <2>7. ts \in Nat
    BY <2>1, <2>6, AfterIsLater, FuseCommitAssumption
  <2>8. PICK work : work = HasWork(o.prog, base)
    OBVIOUS
  <2>9. PICK x : x = [o EXCEPT !.pc = "fill", !.view = view, !.base = base, !.ts = ts,
                               !.schema = view.schema, !.tracking = tbl.tracking,
                               !.work = work]
    OBVIOUS
  <2>10. Become(t, IF x.work THEN x ELSE Ends(x, "ok"))
    BY <1>3, <2>2, <2>5, <2>6, <2>8, <2>9 DEF Begin
  <2>11. IsStatement(o)
    BY <2>5 DEF History, Shapes
  <2>12. x = [pc |-> "fill", prog |-> o.prog, view |-> view, base |-> base, ts |-> ts,
              work |-> work, schema |-> view.schema, tracking |-> tbl.tracking,
              snap |-> o.snap, files |-> o.files, record |-> o.record,
              retries |-> o.retries, resent |-> o.resent, out |-> o.out]
    BY <2>9, <2>11, Zenon DEF IsStatement
  <2>13. IsStatement(x) /\ x.pc = "fill" /\ x.view = view /\ x.base = base
         /\ x.retries = o.retries
    BY <2>4, <2>7, <2>11, <2>12 DEF IsStatement
  <2>14. CASE Become(t, x)
    <3>1. Preparing(tx[t]) /\ x.retries >= tx[t].retries
      BY <1>1, <2>5, <2>11, <2>13 DEF Preparing, IsStatement
    <3> QED
      BY <1>1, <2>1, <2>4, <2>13, <2>14, <3>1, PreparingStep
  <2>15. CASE Become(t, Ends(x, "ok"))
    <3>1. PICK y : y = Ends(x, "ok")
      OBVIOUS
    <3>2. IsStatement(y) /\ y.pc = "finish" /\ Become(t, y)
      BY <2>15, <3>1, EndedFacts
    <3> QED
      BY <1>1, <3>2, QuietStep DEF Preparing, Prepared
  <2> QED
    BY <2>10, <2>14, <2>15
<1> QED
  BY <1>2, <1>3 DEF Start

\* The sink generates a snapshot from the file its view names, or ends.
LEMMA FillDefaultKeepsHistory ==
    ASSUME History, NEW t \in Txn, FillDefault(t)
    PROVE  History'
<1>1. UNCHANGED <<tbl, chain, snaps>> /\ tx[t].pc = "fill"
  BY DEF FillDefault
<1>2. PICK read : read = ReadSnapshot(tx[t].view.snap)
  OBVIOUS
<1>3. \/ Become(t, Ended(tx[t], "error"))
      \/ Become(t, Ended(tx[t], "aborted"))
      \/ /\ read # {}
         /\ Become(t, GenerateSnapshot(t, tx[t], tx[t].view, CHOOSE s \in read : TRUE))
  BY <1>2 DEF FillDefault
<1>4. ASSUME NEW out, Become(t, Ended(tx[t], out)) PROVE History'
  <2>1. PICK y : y = Ended(tx[t], out)
    OBVIOUS
  <2>2. IsStatement(y) /\ y.pc = "done" /\ Become(t, y)
    BY <1>4, <2>1, EndedFacts
  <2> QED
    BY <1>1, <2>2, QuietStep DEF Preparing, Prepared
<1>5. ASSUME read # {}, Become(t, GenerateSnapshot(t, tx[t], tx[t].view, CHOOSE s \in read : TRUE))
      PROVE  History'
  <2>1. PICK previous : previous = CHOOSE s \in read : TRUE
    OBVIOUS
  <2>2. previous \in ReadSnapshot(tx[t].view.snap)
    BY <1>2, <1>5, <2>1
  <2>3. previous.ts \in Nat /\ (tx[t].view.snap = tbl.snap => previous = Current)
    BY <2>2, ReadFacts
  <2>4. /\ IsTable(tx[t].view) /\ tx[t].view.seq <= tbl.seq
        /\ tx[t].view.seq = tbl.seq => tx[t].view.snap = tbl.snap
    BY <1>1 DEF History, Shapes, IsStatement, Informed
  <2> QED
    BY <1>1, <1>5, <2>1, <2>3, <2>4, GenerateStep, Zenon DEF Preparing
<1> QED
  BY <1>3, <1>4, <1>5

\* The segment compaction generates one from the snapshot it has in hand.
LEMMA CommitMutationKeepsHistory ==
    ASSUME History, NEW t \in Txn, CommitMutation(t)
    PROVE  History'
<1>1. /\ UNCHANGED <<tbl, chain, snaps>> /\ tx[t].pc = "fill"
      /\ Become(t, GenerateSnapshot(t, tx[t], tx[t].view, tx[t].base))
  BY DEF CommitMutation
<1>2. /\ IsTable(tx[t].view) /\ tx[t].view.seq <= tbl.seq /\ tx[t].base.ts \in Nat
      /\ tx[t].view.seq = tbl.seq => tx[t].base = Current
  BY <1>1 DEF History, Shapes, IsStatement, Informed
<1> QED
  BY <1>1, <1>2, GenerateStep DEF Preparing

\* A retry generates one from the latest snapshot.
LEMMA RefreshTableKeepsHistory ==
    ASSUME History, NEW t \in Txn, RefreshTable(t)
    PROVE  History'
<1>1. UNCHANGED <<tbl, chain, snaps>> /\ tx[t].pc = "refresh"
  BY DEF RefreshTable
<1>2. PICK read : read = ReadSnapshot(tbl.snap)
  OBVIOUS
<1>3. \/ Become(t, Ended(tx[t], "error"))
      \/ read # {} /\ Become(t, GenerateSnapshot(t, tx[t], tbl, CHOOSE s \in read : TRUE))
  BY <1>2 DEF RefreshTable
<1>4. CASE Become(t, Ended(tx[t], "error"))
  <2>1. PICK y : y = Ended(tx[t], "error")
    OBVIOUS
  <2>2. IsStatement(y) /\ y.pc = "done" /\ Become(t, y)
    BY <1>4, <2>1, EndedFacts
  <2> QED
    BY <1>1, <2>2, QuietStep DEF Preparing, Prepared
<1>5. CASE read # {} /\ Become(t, GenerateSnapshot(t, tx[t], tbl, CHOOSE s \in read : TRUE))
  <2>1. PICK previous : previous = CHOOSE s \in read : TRUE
    OBVIOUS
  <2>2. previous \in ReadSnapshot(tbl.snap)
    BY <1>2, <1>5, <2>1
  <2>3. previous.ts \in Nat /\ previous = Current
    BY <2>2, ReadFacts
  <2>4. IsTable(tbl) /\ tbl.seq <= tbl.seq
    BY DEF History, Shapes, IsTable
  <2> QED
    BY <1>1, <1>5, <2>1, <2>3, <2>4, GenerateStep, Zenon DEF Preparing
<1> QED
  BY <1>3, <1>4, <1>5

\* A statement that only moves its pc, or marks its call as resent, keeps its attempt.
LEMMA MarkedFacts ==
    ASSUME NEW x, IsStatement(x), NEW y
    PROVE  /\ \A pc : y = [x EXCEPT !.pc = pc] =>
                 /\ IsStatement(y) /\ y.pc = pc
                 /\ Prepared(x) /\ pc \in {"write", "meta"} => SameAttempt(x, y)
           /\ y = [x EXCEPT !.resent = TRUE] =>
                 IsStatement(y) /\ (Prepared(x) => SameAttempt(x, y))
<1>1. ASSUME NEW pc, y = [x EXCEPT !.pc = pc]
      PROVE  /\ IsStatement(y) /\ y.pc = pc
             /\ Prepared(x) /\ pc \in {"write", "meta"} => SameAttempt(x, y)
  <2>1. y = [pc |-> pc, prog |-> x.prog, view |-> x.view, base |-> x.base, ts |-> x.ts,
             work |-> x.work, schema |-> x.schema, tracking |-> x.tracking, snap |-> x.snap,
             files |-> x.files, record |-> x.record, retries |-> x.retries,
             resent |-> x.resent, out |-> x.out]
    BY <1>1 DEF IsStatement
  <2> QED
    BY <2>1 DEF IsStatement, SameAttempt, Prepared
<1>2. ASSUME y = [x EXCEPT !.resent = TRUE]
      PROVE  IsStatement(y) /\ (Prepared(x) => SameAttempt(x, y))
  <2>1. y = [pc |-> x.pc, prog |-> x.prog, view |-> x.view, base |-> x.base, ts |-> x.ts,
             work |-> x.work, schema |-> x.schema, tracking |-> x.tracking, snap |-> x.snap,
             files |-> x.files, record |-> x.record, retries |-> x.retries,
             resent |-> TRUE, out |-> x.out]
    BY <1>2, Zenon DEF IsStatement
  <2> QED
    BY <2>1 DEF IsStatement, SameAttempt, Prepared
<1> QED
  BY <1>1, <1>2

\* After its commit a statement truncates, purges or ends.
LEMMA CommittedFacts ==
    ASSUME NEW x, IsStatement(x), NEW y, y = Committed(x)
    PROVE  IsStatement(y) /\ y.pc \in {"list", "latest", "finish"}
<1>1. ASSUME NEW pc, y = [x EXCEPT !.pc = pc, !.snap = NoSnapshot]
      PROVE  IsStatement(y) /\ y.pc = pc
  <2>1. y = [pc |-> pc, prog |-> x.prog, view |-> x.view, base |-> x.base, ts |-> x.ts,
             work |-> x.work, schema |-> x.schema, tracking |-> x.tracking,
             snap |-> NoSnapshot, files |-> x.files, record |-> x.record,
             retries |-> x.retries, resent |-> x.resent, out |-> x.out]
    BY <1>1, Zenon DEF IsStatement
  <2> QED
    BY <2>1 DEF IsStatement
<1>2. \/ y = [x EXCEPT !.pc = "list", !.snap = NoSnapshot]
      \/ y = [x EXCEPT !.pc = "latest", !.snap = NoSnapshot]
      \/ y = Ends(x, "ok")
  BY DEF Committed
<1>3. CASE y = Ends(x, "ok")
  BY <1>3, EndedFacts
<1> QED
  BY <1>1, <1>2, <1>3, Zenon

\* A failed call is sent again with the same attempt, or ends the statement.
LEMMA CallFailedFacts ==
    ASSUME History, NEW t \in Txn, tx[t].pc = "meta", CallFailed(t)
    PROVE  \E y : /\ Become(t, y) /\ IsStatement(y)
                  /\ SameAttempt(tx[t], y) \/ (~Preparing(y) /\ ~Prepared(y))
<1>1. IsStatement(tx[t]) /\ Prepared(tx[t])
  BY DEF History, Shapes, Prepared
<1>2. CASE Become(t, [tx[t] EXCEPT !.resent = TRUE])
  <2>1. PICK y : y = [tx[t] EXCEPT !.resent = TRUE]
    BY Zenon
  <2>2. Become(t, y) /\ IsStatement(y) /\ SameAttempt(tx[t], y)
    BY <1>1, <1>2, <2>1, MarkedFacts
  <2> QED
    BY <2>2
<1>3. CASE Become(t, Ends(tx[t], "error"))
  <2>1. PICK y : y = Ends(tx[t], "error")
    OBVIOUS
  <2>2. IsStatement(y) /\ y.pc = "finish" /\ Become(t, y)
    BY <1>3, <2>1, EndedFacts
  <2> QED
    BY <2>2 DEF Preparing, Prepared
<1> QED
  BY <1>2, <1>3 DEF CallFailed

\* The steps of the commit call.
LEMMA CommitKeepsHistory ==
    ASSUME History, NEW t \in Txn,
           \/ WriteSnapshot(t) \/ CommitAcknowledged(t) \/ CommitNotAcknowledged(t)
           \/ RequestLost(t)
    PROVE  History'
<1>1. IsStatement(tx[t])
  BY DEF History, Shapes
<1>2. CASE WriteSnapshot(t)
  <2>1. PICK y : y = [tx[t] EXCEPT !.pc = "meta"]
    BY Zenon
  <2>2. Prepared(tx[t]) /\ Become(t, y)
    BY <1>2, <2>1 DEF WriteSnapshot, Prepared
  <2>3. IsStatement(y) /\ SameAttempt(tx[t], y)
    BY <1>1, <2>1, <2>2, MarkedFacts
  <2>4. UNCHANGED <<tbl, chain>> /\ snaps' \subseteq snaps \union {tx[t].snap}
    BY <1>2 DEF WriteSnapshot
  <2> QED
    BY <2>2, <2>3, <2>4, SameAttemptStep
<1>3. CASE CommitAcknowledged(t)
  <2>1. PICK y : y = Committed(tx[t])
    OBVIOUS
  <2>2. Prepared(tx[t]) /\ Swap(t) /\ Become(t, y) /\ UNCHANGED snaps
    BY <1>3, <2>1 DEF CommitAcknowledged, Prepared
  <2>3. IsStatement(y) /\ ~Preparing(y) /\ ~Prepared(y)
    BY <1>1, <2>1, CommittedFacts DEF Preparing, Prepared
  <2> QED
    BY <2>2, <2>3, SwapStep
<1>4. CASE CommitNotAcknowledged(t)
  <2>1. tx[t].pc = "meta" /\ Swap(t) /\ CallFailed(t) /\ UNCHANGED snaps
    BY <1>4 DEF CommitNotAcknowledged
  <2>2. PICK y : /\ Become(t, y) /\ IsStatement(y)
                 /\ SameAttempt(tx[t], y) \/ (~Preparing(y) /\ ~Prepared(y))
    BY <2>1, CallFailedFacts
  <2> QED
    BY <2>1, <2>2, SwapStep DEF Prepared
<1>5. CASE RequestLost(t)
  <2>1. tx[t].pc = "meta" /\ CallFailed(t) /\ UNCHANGED <<tbl, chain, snaps>>
    BY <1>5 DEF RequestLost
  <2>2. PICK y : /\ Become(t, y) /\ IsStatement(y)
                 /\ SameAttempt(tx[t], y) \/ (~Preparing(y) /\ ~Prepared(y))
    BY <2>1, CallFailedFacts
  <2> QED
    BY <2>1, <2>2, SameAttemptStep, QuietStep
<1> QED
  BY <1>2, <1>3, <1>4, <1>5

\* A commit refused because of its seq is given up or tried again as a new attempt.
LEMMA RefusedKeepsHistory ==
    ASSUME History, NEW t \in Txn, Refused(t) \/ FileAlreadyLoaded(t)
    PROVE  History'
<1>1. UNCHANGED <<tbl, chain, snaps>> /\ tx[t].pc = "meta"
  BY DEF Refused, FileAlreadyLoaded
<1>2. PICK x : x = tx[t]
  OBVIOUS
<1>3. \/ Become(t, Ended(x, "error")) \/ Become(t, Ended(x, "aborted"))
      \/ Become(t, [x EXCEPT !.pc = "refresh", !.retries = @ + 1, !.resent = FALSE,
                             !.snap = NoSnapshot])
  BY <1>2 DEF Refused, FileAlreadyLoaded
<1>4. ASSUME NEW out, Become(t, Ended(x, out)) PROVE History'
  <2>1. PICK y : y = Ended(x, out)
    OBVIOUS
  <2>2. IsStatement(y) /\ y.pc = "done" /\ Become(t, y)
    BY <1>4, <2>1, EndedFacts
  <2> QED
    BY <1>1, <2>2, QuietStep DEF Preparing, Prepared
<1>5. CASE Become(t, [x EXCEPT !.pc = "refresh", !.retries = @ + 1, !.resent = FALSE,
                               !.snap = NoSnapshot])
  <2>1. PICK y : y = [x EXCEPT !.pc = "refresh", !.retries = @ + 1, !.resent = FALSE,
                               !.snap = NoSnapshot]
    OBVIOUS
  <2>2. IsStatement(x)
    BY <1>2 DEF History, Shapes
  <2>3. y = [pc |-> "refresh", prog |-> x.prog, view |-> x.view, base |-> x.base, ts |-> x.ts,
             work |-> x.work, schema |-> x.schema, tracking |-> x.tracking,
             snap |-> NoSnapshot, files |-> x.files, record |-> x.record,
             retries |-> x.retries + 1, resent |-> FALSE, out |-> x.out]
    BY <2>1, <2>2, Zenon DEF IsStatement
  <2>4. IsStatement(y) /\ y.pc = "refresh" /\ y.retries > x.retries
    BY <2>2, <2>3 DEF IsStatement
  <2>5. Become(t, y) /\ Prepared(tx[t])
    BY <1>1, <1>5, <2>1 DEF Prepared
  <2> QED
    BY <1>1, <1>2, <2>4, <2>5, PreparingStep
<1> QED
  BY <1>3, <1>4, <1>5

\* What follows a commit may remove snapshot files, and changes neither table nor attempts.
LEMMA AftermathKeepsHistory ==
    ASSUME History, NEW t \in Txn,
           \/ TruncateList(t) \/ TruncateDelete(t) \/ PurgeRefresh(t) \/ PurgeList(t)
           \/ Purge(t) \/ Finish(t)
    PROVE  History'
<1>1. PICK x : x = tx[t]
  OBVIOUS
<1>2. IsStatement(x) /\ IsTable(tbl)
  BY <1>1 DEF History, Shapes
<1>3. UNCHANGED <<tbl, chain>> /\ snaps' \subseteq snaps
  BY DEF TruncateList, TruncateDelete, PurgeRefresh, PurgeList, Purge, Finish
<1>4. \E y : \/ y = [x EXCEPT !.pc = "unlist", !.record = copied] /\ Become(t, y)
             \/ y = [x EXCEPT !.pc = "latest", !.record = 0] /\ Become(t, y)
             \/ y = Ends(x, "ok") /\ Become(t, y)
             \/ y = [x EXCEPT !.pc = "files", !.view = tbl] /\ Become(t, y)
             \/ y = [x EXCEPT !.pc = "purge", !.files = {s.id : s \in snaps}] /\ Become(t, y)
             \/ y = [x EXCEPT !.pc = "done"] /\ Become(t, y)
  <2>1. CASE TruncateList(t)
    BY <1>1, <2>1, Zenon DEF TruncateList
  <2>2. CASE TruncateDelete(t)
    BY <1>1, <2>2, Zenon DEF TruncateDelete
  <2>3. CASE PurgeRefresh(t)
    BY <1>1, <2>3, Zenon DEF PurgeRefresh
  <2>4. CASE PurgeList(t)
    BY <1>1, <2>4, Zenon DEF PurgeList
  <2>5. CASE Purge(t)
    BY <1>1, <2>5, Zenon DEF Purge
  <2>6. CASE Finish(t)
    BY <1>1, <2>6, Zenon DEF Finish
  <2> QED
    BY <2>1, <2>2, <2>3, <2>4, <2>5, <2>6, Zenon
<1>5. PICK y : \/ y = [x EXCEPT !.pc = "unlist", !.record = copied] /\ Become(t, y)
               \/ y = [x EXCEPT !.pc = "latest", !.record = 0] /\ Become(t, y)
               \/ y = Ends(x, "ok") /\ Become(t, y)
               \/ y = [x EXCEPT !.pc = "files", !.view = tbl] /\ Become(t, y)
               \/ y = [x EXCEPT !.pc = "purge", !.files = {s.id : s \in snaps}] /\ Become(t, y)
               \/ y = [x EXCEPT !.pc = "done"] /\ Become(t, y)
  BY <1>4, Zenon
<1>6. Become(t, y)
  BY <1>5
<1>7. ASSUME NEW pc, NEW view, IsTable(view), NEW files, NEW record,
             y = [pc |-> pc, prog |-> x.prog, view |-> view, base |-> x.base, ts |-> x.ts,
                  work |-> x.work, schema |-> x.schema, tracking |-> x.tracking,
                  snap |-> x.snap, files |-> files, record |-> record,
                  retries |-> x.retries, resent |-> x.resent, out |-> x.out]
      PROVE  IsStatement(y) /\ y.pc = pc
  BY <1>2, <1>7 DEF IsStatement
<1>8. IsStatement(y) /\ y.pc \in {"unlist", "latest", "finish", "files", "purge", "done"}
  <2>1. CASE y = [x EXCEPT !.pc = "unlist", !.record = copied]
    <3>1. y = [pc |-> "unlist", prog |-> x.prog, view |-> x.view, base |-> x.base,
               ts |-> x.ts, work |-> x.work, schema |-> x.schema, tracking |-> x.tracking,
               snap |-> x.snap, files |-> x.files, record |-> copied,
               retries |-> x.retries, resent |-> x.resent, out |-> x.out]
      BY <1>2, <2>1, Zenon DEF IsStatement
    <3> QED
      BY <1>2, <1>7, <3>1 DEF IsStatement
  <2>2. CASE y = [x EXCEPT !.pc = "latest", !.record = 0]
    <3>1. y = [pc |-> "latest", prog |-> x.prog, view |-> x.view, base |-> x.base,
               ts |-> x.ts, work |-> x.work, schema |-> x.schema, tracking |-> x.tracking,
               snap |-> x.snap, files |-> x.files, record |-> 0,
               retries |-> x.retries, resent |-> x.resent, out |-> x.out]
      BY <1>2, <2>2, Zenon DEF IsStatement
    <3> QED
      BY <1>2, <1>7, <3>1 DEF IsStatement
  <2>3. CASE y = Ends(x, "ok")
    BY <2>3, EndedFacts
  <2>4. CASE y = [x EXCEPT !.pc = "files", !.view = tbl]
    <3>1. y = [pc |-> "files", prog |-> x.prog, view |-> tbl, base |-> x.base,
               ts |-> x.ts, work |-> x.work, schema |-> x.schema, tracking |-> x.tracking,
               snap |-> x.snap, files |-> x.files, record |-> x.record,
               retries |-> x.retries, resent |-> x.resent, out |-> x.out]
      BY <1>2, <2>4, Zenon DEF IsStatement
    <3> QED
      BY <1>2, <1>7, <3>1, Zenon
  <2>5. CASE y = [x EXCEPT !.pc = "purge", !.files = {s.id : s \in snaps}]
    <3>1. PICK files : files = {s.id : s \in snaps}
      BY Zenon
    <3>2. y = [x EXCEPT !.pc = "purge", !.files = files]
      BY <2>5, <3>1
    <3>3. y = [pc |-> "purge", prog |-> x.prog, view |-> x.view, base |-> x.base,
               ts |-> x.ts, work |-> x.work, schema |-> x.schema, tracking |-> x.tracking,
               snap |-> x.snap, files |-> files, record |-> x.record,
               retries |-> x.retries, resent |-> x.resent, out |-> x.out]
      BY <1>2, <3>2, Zenon DEF IsStatement
    <3> QED
      BY <1>2, <1>7, <3>3, Zenon DEF IsStatement
  <2>6. CASE y = [x EXCEPT !.pc = "done"]
    BY <1>2, <2>6, MarkedFacts
  <2> QED
    BY <1>5, <2>1, <2>2, <2>3, <2>4, <2>5, <2>6
<1> QED
  BY <1>3, <1>6, <1>8, QuietStep DEF Preparing, Prepared

\* Enabling change tracking gives the table a seq no statement has seen.
LEMMA EnableTrackingKeepsHistory ==
    ASSUME History, EnableTracking
    PROVE  History' /\ tbl'.snap = tbl.snap
<1>1. UNCHANGED <<snaps, tx, chain>>
  BY DEF EnableTracking
<1>2. IsTable(tbl)
  BY DEF History, Shapes
<1>3. tbl' = [seq |-> tbl.seq + 1, snap |-> tbl.snap, schema |-> tbl.schema, tracking |-> TRUE]
  BY <1>2, Zenon DEF EnableTracking, IsTable
<1>4. IsTable(tbl)' /\ tbl'.seq > tbl.seq /\ tbl'.snap = tbl.snap
  BY <1>2, <1>3 DEF IsTable
<1>5. Shapes'
  BY <1>1, <1>4 DEF History, Shapes
<1>6. IdsAreUnique' /\ Current' = Current /\ HistoryIsAChain'
  BY <1>1 DEF History, IdsAreUnique, Made, Current, HistoryIsAChain
<1>7. \A u \in Txn : Informed(u)'
  BY <1>1, <1>4, <1>5, InformedKept, Zenon DEF History
<1> QED
  BY <1>4, <1>5, <1>6, <1>7 DEF History

\* Every step is one of those above.
LEMMA NextKeepsHistory == History /\ [Next]_vars => History'
<1> SUFFICES ASSUME History, [Next]_vars PROVE History'
  OBVIOUS
<1>1. CASE EnableTracking
  BY <1>1, EnableTrackingKeepsHistory
<1>2. ASSUME NEW t \in Txn, Statement(t) PROVE History'
  BY <1>2, StartKeepsHistory, FillDefaultKeepsHistory, CommitMutationKeepsHistory,
     CommitKeepsHistory, RefusedKeepsHistory, RefreshTableKeepsHistory, AftermathKeepsHistory
     DEF Statement
<1>3. CASE UNCHANGED vars
  <2>1. UNCHANGED <<tbl, snaps, tx, chain>>
    BY <1>3 DEF vars
  <2> QED
    BY <2>1 DEF History, Shapes, IdsAreUnique, Made, Current, HistoryIsAChain, Informed
<1> QED
  BY <1>1, <1>2, <1>3 DEF Next

\* The commits of a table form one history, whatever statements run, however often they retry and
\* whatever the clocks show: every snapshot names the one committed before it as its predecessor
\* and has a later timestamp (commit_to_meta_server, update_multi_table_meta,
\* monotonically_increased_timestamp).
THEOREM OneHistory == Spec => []HistoryIsAChain
<1>1. History => HistoryIsAChain
  BY DEF History
<1> QED
  BY <1>1, InitHistory, NextKeepsHistory, PTL DEF Spec

\* Only a swap moves the table to another snapshot.
LEMMA OnlySwaps ==
    ASSUME History, [Next]_vars, tbl'.snap # tbl.snap
    PROVE  \E t \in Txn : Prepared(tx[t]) /\ Swap(t)
<1>1. ~EnableTracking /\ tbl' # tbl
  BY EnableTrackingKeepsHistory
<1>2. PICK t \in Txn : Statement(t)
  BY <1>1 DEF Next, vars
<1>3. CommitAcknowledged(t) \/ CommitNotAcknowledged(t)
  BY <1>1, <1>2 DEF Statement, Start, FillDefault, CommitMutation, WriteSnapshot, RequestLost,
     Refused, FileAlreadyLoaded, RefreshTable, TruncateList, TruncateDelete, PurgeRefresh,
     PurgeList, Purge, Finish
<1> QED
  BY <1>3 DEF CommitAcknowledged, CommitNotAcknowledged, Prepared

\* A statement that rewrites or deletes rows and started before change tracking was enabled does
\* not commit to the table that has it, on whichever retry (the comparison of the change tracking
\* options in State::GenerateSnapshot together with the seq check of the commit).
THEOREM MutationsAreTracked == Spec => TrackedFromTheStart
<1>1. ASSUME History, [Next]_vars, NEW t \in Txn, tbl'.snap # tbl.snap,
             tbl'.snap \in {t} \X Nat, ~IsAppend(tx[t]), tx[t].prog # "segcompact",
             tbl'.tracking
      PROVE  tx[t].tracking
  <2>1. PICK u \in Txn : Prepared(tx[u]) /\ Swap(u)
    BY <1>1, OnlySwaps
  <2>2. tbl'.snap = tx[u].snap.id /\ tbl'.tracking = tx[u].view.tracking
    BY <1>1, <2>1, SwapFacts, Zenon
  <2>3. tx[u].snap.id = <<u, tx[u].retries>>
    BY <1>1, <2>1 DEF History, Informed
  <2>4. u = t
    BY <1>1, <2>2, <2>3
  <2> QED
    BY <1>1, <2>1, <2>2, <2>4 DEF History, Informed
<1>2. History /\ [Next]_vars =>
         [\A t \in Txn : /\ tbl'.snap # tbl.snap /\ tbl'.snap \in {t} \X Nat
                         /\ ~IsAppend(tx[t]) /\ tx[t].prog # "segcompact"
                         => (tbl'.tracking => tx[t].tracking)]_vars
  BY <1>1
<1> QED
  BY <1>2, InitHistory, NextKeepsHistory, PTL DEF Spec, TrackedFromTheStart
=============================================================================
