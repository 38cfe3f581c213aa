-------------------------- MODULE MetaStoreProofs --------------------------
(***************************************************************************)
(* What a meta-service node keeps true, whatever the order in which it     *)
(* applies, installs, freezes, compacts, replaces, cleans, exports, purges *)
(* and restarts, and that it implements ReplicatedMap: for every set of    *)
(* keys and expire times, and every bound.                                 *)
(***************************************************************************)
EXTENDS MetaPromise, LeveledMapProofs

\* a plain map with its seq counter
FlatType == [seq : Nat, data : PartialMap]

\* the committed log and the maps that the other nodes compute from it
LogOk ==
    /\ log \in Seq(Cmds)
    /\ history \in Seq(FlatType)
    /\ Len(history) = Len(log) + 1
    /\ history[1] = FlatEmpty
    /\ \A i \in 1 .. Len(log) : history[i + 1] = FlatApply(history[i], log[i])
    /\ \A i \in 1 .. Len(history) : Flat(history[i])

\* db holds the map of its last_log_id
IsSnapshot(db) == db.applied \in 0 .. Len(log) /\ db = Snapshot(db.applied)

\* Stack, as the lemmas about levels read it
Levels == Append(persisted \o immutable, writable)

\* The levels show the log up to last_applied, and those that a compaction would take show
\* it up to the last_applied of the newest of them.
MapOk ==
    /\ persisted \in Seq(LevelType)
    /\ immutable \in Seq(LevelType)
    /\ writable \in LevelType
    /\ Len(persisted) <= 1
    /\ \A i \in 1 .. Len(persisted) : IsSnapshot(persisted[i])
    /\ Sound(Levels)
    /\ applied \in 0 .. Len(log)
    /\ View(Levels) = history[applied + 1]
    /\ immutable # <<>> =>
          /\ immutable[Len(immutable)].applied \in 0 .. Len(log)
          /\ View(persisted \o immutable) = history[immutable[Len(immutable)].applied + 1]

\* The builder has frozen a level when it waits; what it compacts is a snapshot; and the
\* levels it has taken are the ones the map still has, unless a snapshot was installed.
BuildOk ==
    /\ build \in BuildStates
    /\ lock \in BOOLEAN /\ (lock <=> build = "wait")
    /\ build = "wait" => immutable # <<>>
    /\ build \in {"compact", "replace", "clean"} => IsSnapshot(Built)
    /\ build \in {"compact", "replace"} =>
          /\ taken.levels \in Seq(LevelType) /\ taken.levels # <<>>
          /\ immutable = <<>> \/ (immutable = taken.levels /\ persisted = taken.db)

\* a snapshot that is being installed holds the map of its last_log_id
InstallOk ==
    /\ install \in Seq(LevelType)
    /\ Len(install) <= 1
    /\ \A i \in 1 .. Len(install) : IsSnapshot(install[i])

\* one holder of the Compactor: the builder and the exporter are never in it together
ExportOk ==
    /\ export \in ExportStates
    /\ compactor = IF build \in {"compact", "replace"} THEN "build"
                   ELSE IF export \in {"dump", "release"} THEN "export" ELSE "none"
    /\ build \in {"compact", "replace"} => export = "idle"
    /\ dump \in [snap : Nat, from : Nat]

\* a snapshot on disk reaches log entry n
Covered(n) == n = 0 \/ \E db \in disk : n <= db.applied

\* snapshots on disk are what they say, and one of them is the last
DiskOk ==
    /\ \A db \in disk : IsSnapshot(db)
    /\ disk # {} => \E db \in disk : \A o \in disk : o.applied <= db.applied

\* Everything the log was purged up to, or openraft may purge it up to, is on disk.
CoverOk ==
    /\ purged \in Nat /\ Covered(purged)
    /\ raftSnap \in Nat /\ Covered(raftSnap)
    /\ install # <<>> => Covered(install[1].applied)
    /\ build \in {"replace", "clean"} => Covered(Built.applied)
    /\ boot \in BOOLEAN

\* The inductive invariant.
Inv == LogOk /\ MapOk /\ BuildOk /\ InstallOk /\ ExportOk /\ DiskOk /\ CoverOk

-----------------------------------------------------------------------------
(* The log and snapshots of it *)

\* Every prefix of the committed log has its map, a plain one without tombstones.
LEMMA HistoryFacts ==
    ASSUME LogOk, NEW i \in 0 .. Len(log)
    PROVE  /\ i + 1 \in 1 .. Len(history)
           /\ history[i + 1] \in FlatType
           /\ Flat(history[i + 1])
<1>1. Len(log) \in Nat
  BY LenProperties DEF LogOk
<1>2. i + 1 \in 1 .. Len(history)
  BY <1>1 DEF LogOk
<1>3. history[i + 1] \in FlatType
  BY <1>2, ElementOfSeq DEF LogOk
<1>4. QED
  BY <1>2, <1>3 DEF LogOk

\* The snapshot of a prefix of the log, as another node would send it, is a level with that
\* last_log_id.
LEMMA SnapshotFacts ==
    ASSUME LogOk, NEW i \in 0 .. Len(log)
    PROVE  /\ Snapshot(i) \in LevelType
           /\ Snapshot(i).applied = i
           /\ IsSnapshot(Snapshot(i))
<1>1. i \in Nat
  BY LenProperties DEF LogOk
<1>2. PICK f : f = history[i + 1]
  OBVIOUS
<1>3. f \in FlatType
  BY <1>2, HistoryFacts
<1>4. f.seq \in Nat /\ f.data \in PartialMap
  BY <1>3 DEF FlatType
<1>5. Snapshot(i) = Level(f.seq, i, f.data)
  BY <1>2 DEF Snapshot
<1>6. Snapshot(i) \in LevelType /\ Snapshot(i).applied = i
  BY <1>1, <1>4, <1>5, LevelFacts
<1>7. QED
  BY <1>6 DEF IsSnapshot

\* What is known of a database file that holds the map of its last_log_id.
LEMMA IsSnapshotFacts ==
    ASSUME LogOk, NEW db, IsSnapshot(db)
    PROVE  /\ db \in LevelType
           /\ db.applied \in 0 .. Len(log)
           /\ db.applied \in Nat
           /\ db = Snapshot(db.applied)
<1>1. db.applied \in 0 .. Len(log) /\ db = Snapshot(db.applied)
  BY DEF IsSnapshot
<1>2. db.applied \in Nat
  BY <1>1, LenProperties DEF LogOk
<1>3. Snapshot(db.applied) \in LevelType
  BY <1>1, SnapshotFacts
<1>4. QED
  BY <1>1, <1>2, <1>3

\* The committed log only grows: what was the map of a prefix, and what was a snapshot of it,
\* stays so.
LEMMA LogStep ==
    ASSUME LogOk, Commit \/ UNCHANGED clusterVars
    PROVE  /\ LogOk'
           /\ Len(log) <= Len(log')
           /\ \A i \in 0 .. Len(log) : history'[i + 1] = history[i + 1]
           /\ \A db : IsSnapshot(db) => IsSnapshot(db)'
<1>0. Len(log) \in Nat
  BY LenProperties DEF LogOk
<1>1. CASE UNCHANGED clusterVars
  <2>1. log' = log /\ history' = history
    BY <1>1 DEF clusterVars
  <2>2. LogOk'
    BY <2>1 DEF LogOk
  <2>3. \A db : IsSnapshot(db) => IsSnapshot(db)'
    BY <2>1 DEF IsSnapshot, Snapshot
  <2>4. QED
    BY <1>0, <2>1, <2>2, <2>3
<1>2. CASE Commit
  <2>1. PICK cmd \in Cmds :
            /\ log' = Append(log, cmd)
            /\ history' = Append(history, FlatApply(history[Len(history)], cmd))
    BY <1>2 DEF Commit
  <2>2. PICK f : f = FlatApply(history[Len(history)], cmd)
    OBVIOUS
  <2>3. Len(history) = Len(log) + 1 /\ history[Len(history)] = history[Len(log) + 1]
    BY DEF LogOk
  <2>4. Flat(history[Len(log) + 1])
    BY <1>0, HistoryFacts
  <2>5. Flat(f)
    BY <2>1, <2>2, <2>3, <2>4, FlatFacts
  <2>6. f \in FlatType
    BY <2>5 DEF Flat, FlatType
  <2>7. log \in Seq(Cmds) /\ history \in Seq(FlatType)
    BY DEF LogOk
  <2>8. /\ log' \in Seq(Cmds)
        /\ Len(log') = Len(log) + 1
        /\ log'[Len(log) + 1] = cmd
        /\ \A i \in 1 .. Len(log) : log'[i] = log[i]
    BY <2>1, <2>7, AppendProperties
  <2>9. /\ history' \in Seq(FlatType)
        /\ Len(history') = Len(history) + 1
        /\ history'[Len(history) + 1] = f
        /\ \A i \in 1 .. Len(history) : history'[i] = history[i]
    BY <2>1, <2>2, <2>6, <2>7, AppendProperties
  <2>10. \A i \in 0 .. Len(log) : history'[i + 1] = history[i + 1]
    BY <1>0, <2>3, <2>9
  <2>11. history'[1] = FlatEmpty
    BY <1>0, <2>3, <2>9 DEF LogOk
  <2>12. ASSUME NEW i \in 1 .. Len(log')
         PROVE  history'[i + 1] = FlatApply(history'[i], log'[i])
    <3>1. CASE i = Len(log) + 1
      <4>1. history'[i + 1] = f
        BY <1>0, <3>1, <2>3, <2>9
      <4>2. history'[i] = history[Len(history)]
        BY <1>0, <3>1, <2>3, <2>9
      <4>3. log'[i] = cmd
        BY <3>1, <2>8
      <4>4. QED
        BY <4>1, <4>2, <4>3, <2>2
    <3>2. CASE i \in 1 .. Len(log)
      <4>1. history[i + 1] = FlatApply(history[i], log[i])
        BY <3>2 DEF LogOk
      <4>2. history'[i + 1] = history[i + 1] /\ history'[i] = history[i] /\ log'[i] = log[i]
        BY <1>0, <3>2, <2>3, <2>8, <2>9
      <4>3. QED
        BY <4>1, <4>2
    <3>3. QED
      BY <1>0, <2>8, <3>1, <3>2
  <2>13. ASSUME NEW i \in 1 .. Len(history')
         PROVE  Flat(history'[i])
    <3>1. CASE i = Len(history) + 1
      BY <3>1, <2>5, <2>9
    <3>2. CASE i \in 1 .. Len(history)
      <4>1. Flat(history[i])
        BY <3>2 DEF LogOk
      <4>2. history'[i] = history[i]
        BY <3>2, <2>9
      <4>3. QED
        BY <4>1, <4>2
    <3>3. QED
      BY <1>0, <2>3, <2>9, <3>1, <3>2
  <2>14. LogOk'
    BY <1>0, <2>3, <2>8, <2>9, <2>11, <2>12, <2>13 DEF LogOk
  <2>15. ASSUME NEW db, IsSnapshot(db)
         PROVE  IsSnapshot(db)'
    <3>1. db.applied \in 0 .. Len(log) /\ db = Snapshot(db.applied)
      BY <2>15 DEF IsSnapshot
    <3>2. history'[db.applied + 1] = history[db.applied + 1]
      BY <3>1, <2>10
    <3>3. Snapshot(db.applied)' = Snapshot(db.applied)
      BY <3>2 DEF Snapshot
    <3>4. db.applied \in 0 .. Len(log')
      BY <1>0, <3>1, <2>8
    <3>5. QED
      BY <3>1, <3>3, <3>4 DEF IsSnapshot
  <2>16. QED
    BY <1>0, <2>8, <2>10, <2>14, <2>15
<1>3. QED
  BY <1>1, <1>2

-----------------------------------------------------------------------------
(* The levels *)

\* The newest snapshot has no newer one, so purging keeps it.
LEMMA NoneNewer == Cardinality({}) = 0
BY Zenon DEF Cardinality

\* The frozen levels can be read before or after they are joined to the persisted one
\* (Levels of leveled_map and the levels a compaction reads).
LEMMA LevelsJoin ==
    ASSUME NEW p \in Seq(LevelType), NEW m \in Seq(LevelType), NEW o \in Seq(LevelType)
    PROVE  (p \o m) \o o = p \o (m \o o)
BY ConcatAssociative, SMTT(30)

\* The levels of a node form one sound stack, and so do those below the writable one, which
\* a compaction reads.
LEMMA LevelsFacts ==
    ASSUME MapOk
    PROVE  /\ persisted \o immutable \in Seq(LevelType)
           /\ Levels \in Seq(LevelType)
           /\ Stack = Levels
           /\ Sound(persisted \o immutable)
<1>1. /\ persisted \in Seq(LevelType) /\ immutable \in Seq(LevelType)
      /\ writable \in LevelType /\ Sound(Levels)
  BY DEF MapOk
<1>2. PICK s : s = persisted \o immutable
  BY Zenon
<1>3. s \in Seq(LevelType)
  BY <1>1, <1>2, ConcatProperties
<1>4. Append(s, writable) \in Seq(LevelType)
  BY <1>1, <1>3, AppendProperties
<1>5. Sound(Append(s, writable))
  BY <1>1, <1>2 DEF Levels
<1>6. Sound(s)
  BY <1>1, <1>3, <1>5, SoundAppend
<1>7. PICK o : o = <<writable>>
  BY Zenon
<1>8. o \in Seq(LevelType)
  BY <1>1, <1>7, OneIsSound
<1>9. Append(immutable, writable) = immutable \o o
  BY <1>1, <1>7, AppendIsConcat
<1>10. Append(s, writable) = s \o o
  BY <1>1, <1>3, <1>7, AppendIsConcat
<1>11. (persisted \o immutable) \o o = persisted \o (immutable \o o)
  <2> PICK p, m : p = persisted /\ m = immutable
    BY Zenon
  <2>1. p \in Seq(LevelType) /\ m \in Seq(LevelType)
    BY <1>1
  <2>2. (p \o m) \o o = p \o (m \o o)
    BY <1>8, <2>1, LevelsJoin, SMTT(30)
  <2>3. QED
    BY <2>2
<1>12. Stack = Append(s, writable)
  BY <1>2, <1>9, <1>10, <1>11 DEF Stack
<1>13. QED
  BY <1>2, <1>3, <1>4, <1>6, <1>12 DEF Levels

\* A node that finds no snapshot on disk starts with one empty level, which shows the empty
\* map.
LEMMA NoLevels ==
    /\ EmptyLevel \in LevelType /\ EmptyLevel.applied = 0
    /\ Append(<<>> \o <<>>, EmptyLevel) = <<EmptyLevel>>
    /\ Sound(<<EmptyLevel>>)
    /\ View(<<EmptyLevel>>) = FlatEmpty
<1>1. PICK f : f = FlatEmpty
  OBVIOUS
<1>2. f.seq = 0 /\ f.data = NoData /\ Flat(f)
  BY <1>1, FlatFacts DEF FlatEmpty
<1>3. EmptyLevel = Level(f.seq, 0, f.data)
  BY <1>2 DEF EmptyLevel
<1>4. PICK l : l = EmptyLevel
  OBVIOUS
<1>5. l \in LevelType /\ l.applied = 0 /\ Sound(<<l>>) /\ View(<<l>>) = f
  BY <1>2, <1>3, <1>4, FlatLevel
<1>6. PICK e : e = <<>>
  OBVIOUS
<1>7. e \in Seq(LevelType) /\ e \o e = e
  BY <1>6, EmptySeq, ConcatEmptySeq
<1>8. PICK o : o = <<l>>
  BY Zenon
<1>9. o \in Seq(LevelType)
  BY <1>5, <1>8, OneIsSound
<1>10. Append(e, l) = e \o o
  BY <1>5, <1>7, <1>8, AppendIsConcat
<1>11. e \o o = o
  BY <1>6, <1>9, ConcatEmptySeq
<1>12. QED
  BY <1>1, <1>4, <1>5, <1>6, <1>7, <1>8, <1>10, <1>11

\* A node whose data is a snapshot below an empty level, as install_snapshot_v003 and open
\* leave it, shows the log up to the snapshot's last_log_id.
LEMMA MapFromSnapshot ==
    ASSUME LogOk, UNCHANGED clusterVars, NEW db, IsSnapshot(db),
           persisted' = <<db>>, immutable' = <<>>, writable' = NewLevel(db)
    PROVE  MapOk'
<1>1. PICK i : i = db.applied
  OBVIOUS
<1>2. db \in LevelType /\ i \in 0 .. Len(log) /\ i \in Nat /\ db = Snapshot(i)
  BY <1>1, IsSnapshotFacts
<1>3. PICK f : f = history[i + 1]
  OBVIOUS
<1>4. Flat(f)
  BY <1>2, <1>3, HistoryFacts
<1>5. db = Level(f.seq, i, f.data)
  BY <1>2, <1>3 DEF Snapshot
<1>6. PICK w : w = NewLevel(db)
  OBVIOUS
<1>7. /\ w \in LevelType /\ w.applied = i
      /\ Sound(Append(<<db>>, w))
      /\ View(Append(<<db>>, w)) = f
  BY <1>2, <1>4, <1>5, <1>6, InstallFacts
<1>8. PICK p : p = <<db>>
  OBVIOUS
<1>9. p \in Seq(LevelType) /\ Len(p) = 1 /\ p[1] = db
  BY <1>2, <1>8, OneIsSound
<1>10. PICK e : e = <<>>
  OBVIOUS
<1>11. e \in Seq(LevelType) /\ p \o e = p
  BY <1>9, <1>10, EmptySeq, ConcatEmptySeq
<1>12. persisted' = p /\ immutable' = e /\ writable' = w
  BY <1>6, <1>8, <1>10
<1>13. Levels' = Append(p, w)
  BY <1>11, <1>12 DEF Levels
<1>14. log' = log /\ history' = history
  BY DEF clusterVars
<1>15. \A j \in 1 .. Len(p) : p[j] = db
  BY <1>9
<1>16. IsSnapshot(db)'
  BY <1>14 DEF IsSnapshot, Snapshot
<1>17. /\ (\A j \in 1 .. Len(persisted) : IsSnapshot(persisted[j]))'
       /\ Len(persisted') <= 1
  BY <1>9, <1>12, <1>15, <1>16
<1>18. Sound(Levels') /\ View(Levels') = f
  BY <1>7, <1>8, <1>13
<1>19. applied' = i
  BY <1>7, <1>12 DEF applied
<1>20. immutable' = <<>>
  BY <1>10, <1>12
<1>21. QED
  BY <1>2, <1>3, <1>7, <1>9, <1>11, <1>12, <1>14, <1>17, <1>18, <1>19, <1>20 DEF MapOk

\* A step of openraft, of the builder or of the exporter that leaves the levels alone does
\* not change what they show, though the log may grow.
LEMMA MapUnchanged ==
    ASSUME LogOk, MapOk, UNCHANGED mapVars, Commit \/ UNCHANGED clusterVars
    PROVE  MapOk'
<1>0. Len(log) \in Nat
  BY LenProperties DEF LogOk
<1>1. persisted' = persisted /\ immutable' = immutable /\ writable' = writable
  BY DEF mapVars
<1>2. /\ Len(log) <= Len(log') /\ LogOk'
      /\ \A i \in 0 .. Len(log) : history'[i + 1] = history[i + 1]
      /\ \A db : IsSnapshot(db) => IsSnapshot(db)'
  BY LogStep
<1>3. Len(log') \in Nat
  BY <1>2, LenProperties DEF LogOk
<1>4. \A i \in 0 .. Len(log) : i \in 0 .. Len(log')
  BY <1>0, <1>2, <1>3
<1>5. Levels' = Levels /\ applied' = applied
  BY <1>1 DEF Levels, applied
<1>6. (\A i \in 1 .. Len(persisted) : IsSnapshot(persisted[i]))'
  <2>1. \A i \in 1 .. Len(persisted) : IsSnapshot(persisted[i])
    BY DEF MapOk
  <2>2. ASSUME NEW i \in 1 .. Len(persisted)
        PROVE  IsSnapshot(persisted[i])'
    <3>1. PICK db : db = persisted[i]
      OBVIOUS
    <3>2. IsSnapshot(db)'
      BY <2>1, <3>1, <1>2
    <3>3. db = persisted'[i]
      BY <3>1, <1>1
    <3>4. QED
      BY <3>2, <3>3
  <2>3. QED
    BY <1>1, <2>2
<1>7. applied' \in 0 .. Len(log') /\ View(Levels') = history'[applied' + 1]
  BY <1>2, <1>4, <1>5 DEF MapOk
<1>8. immutable' # <<>> =>
          /\ immutable'[Len(immutable')].applied \in 0 .. Len(log')
          /\ View(persisted' \o immutable') = history'[immutable'[Len(immutable')].applied + 1]
  BY <1>1, <1>2, <1>4 DEF MapOk
<1>9. QED
  BY <1>1, <1>5, <1>6, <1>7, <1>8 DEF MapOk

\* RaftStateMachine::apply: after the entry is written to the writable level the node shows
\* the log up to that entry.
LEMMA ApplyMap ==
    ASSUME LogOk, MapOk, Apply
    PROVE  MapOk'
<1>0. Len(log) \in Nat
  BY LenProperties DEF LogOk
<1>1. PICK a : a = applied
  OBVIOUS
<1>2. a \in 0 .. Len(log) /\ a < Len(log) /\ a \in Nat /\ a + 1 \in 1 .. Len(log)
  BY <1>0, <1>1 DEF MapOk, Apply
<1>3. PICK cmd : cmd = log[a + 1]
  OBVIOUS
<1>4. cmd \in Cmds
  BY <1>2, <1>3, ElementOfSeq DEF LogOk
<1>5. PICK b : b = persisted \o immutable
  BY Zenon
<1>6. b \in Seq(LevelType)
  BY <1>5, LevelsFacts
<1>7. PICK w : w = writable
  OBVIOUS
<1>8. w \in LevelType /\ Sound(Append(b, w)) /\ View(Append(b, w)) = history[a + 1]
  BY <1>1, <1>5, <1>7 DEF MapOk, Levels
<1>9. PICK u : u = Upsert(b, w, cmd)
  OBVIOUS
<1>10. PICK n : n = Level(u.seq, a + 1, u.data)
  OBVIOUS
<1>11. a + 1 \in Nat
  BY <1>2
<1>12. /\ n \in LevelType /\ n.applied = a + 1
       /\ Sound(Append(b, n))
       /\ View(Append(b, n)) = FlatApply(View(Append(b, w)), cmd)
  BY <1>4, <1>6, <1>8, <1>9, <1>10, <1>11, UpsertIsCommand
<1>13. history[(a + 1) + 1] = FlatApply(history[a + 1], cmd)
  BY <1>2, <1>3 DEF LogOk
<1>14. writable' = n
  BY <1>1, <1>3, <1>5, <1>7, <1>9, <1>10 DEF Apply
<1>15. /\ persisted' = persisted /\ immutable' = immutable
       /\ log' = log /\ history' = history
  BY DEF Apply, clusterVars
<1>16. Levels' = Append(b, n)
  BY <1>5, <1>14, <1>15 DEF Levels
<1>17. Sound(Levels') /\ View(Levels') = history'[(a + 1) + 1]
  BY <1>8, <1>12, <1>13, <1>15, <1>16
<1>18. applied' = a + 1 /\ a + 1 \in 0 .. Len(log')
  BY <1>0, <1>2, <1>12, <1>14, <1>15 DEF applied
<1>19. (\A i \in 1 .. Len(persisted) : IsSnapshot(persisted[i]))'
  BY <1>15 DEF MapOk, IsSnapshot, Snapshot
<1>20. QED
  BY <1>12, <1>14, <1>15, <1>17, <1>18, <1>19 DEF MapOk

\* freeze_writable does not show, and the levels below the new writable one show the log up
\* to the frozen level's last_applied.
LEMMA FreezeMap ==
    ASSUME LogOk, MapOk, BuildFreeze
    PROVE  MapOk' /\ immutable' # <<>>
<1>1. PICK b : b = persisted \o immutable
  BY Zenon
<1>2. PICK w : w = writable
  OBVIOUS
<1>3. PICK n : n = NewLevel(w)
  OBVIOUS
<1>4. /\ b \in Seq(LevelType) /\ w \in LevelType /\ Sound(Append(b, w))
      /\ View(Append(b, w)) = history[w.applied + 1]
      /\ w.applied \in 0 .. Len(log)
  BY <1>1, <1>2, LevelsFacts DEF MapOk, Levels, applied
<1>5. /\ n \in LevelType /\ n.applied = w.applied
      /\ Sound(Append(Append(b, w), n))
      /\ View(Append(Append(b, w), n)) = View(Append(b, w))
  BY <1>3, <1>4, FreezeFacts
<1>6. PICK m : m = immutable
  OBVIOUS
<1>7. PICK p : p = persisted
  OBVIOUS
<1>8. m \in Seq(LevelType) /\ p \in Seq(LevelType) /\ Len(m) \in Nat
  BY <1>6, <1>7, LenProperties DEF MapOk
<1>9. PICK q : q = Append(m, w)
  BY Zenon
<1>10. /\ q \in Seq(LevelType) /\ Len(q) = Len(m) + 1 /\ q[Len(m) + 1] = w
  BY <1>4, <1>8, <1>9, AppendProperties
<1>11. q # <<>> /\ q[Len(q)] = w
  BY <1>8, <1>10
<1>12. p \o q = Append(b, w)
  <2>1. PICK o : o = <<w>>
    BY Zenon
  <2>2. o \in Seq(LevelType)
    BY <1>4, <2>1, OneIsSound
  <2>3. q = m \o o
    BY <1>4, <1>8, <1>9, <2>1, AppendIsConcat
  <2>4. Append(b, w) = b \o o
    BY <1>4, <2>1, AppendIsConcat
  <2>5. (p \o m) \o o = p \o (m \o o)
    BY <1>8, <2>2, LevelsJoin, SMTT(30)
  <2>6. QED
    BY <1>1, <1>6, <1>7, <2>3, <2>4, <2>5
<1>13. /\ writable' = n /\ immutable' = q /\ persisted' = p
       /\ log' = log /\ history' = history
  BY <1>2, <1>3, <1>6, <1>7, <1>9 DEF BuildFreeze, clusterVars
<1>14. Levels' = Append(Append(b, w), n)
  BY <1>12, <1>13 DEF Levels
<1>15. applied' = w.applied
  BY <1>5, <1>13 DEF applied
<1>16. Sound(Levels') /\ View(Levels') = history'[applied' + 1]
  BY <1>4, <1>5, <1>13, <1>14, <1>15
<1>17. View(persisted' \o immutable') = history'[w.applied + 1]
  BY <1>4, <1>12, <1>13, Zenon
<1>18. immutable'[Len(immutable')].applied = w.applied
  BY <1>11, <1>13
<1>19. (\A i \in 1 .. Len(persisted) : IsSnapshot(persisted[i]))' /\ Len(persisted') <= 1
  BY <1>7, <1>13 DEF MapOk, IsSnapshot, Snapshot
<1>20. MapOk'
  BY <1>4, <1>5, <1>8, <1>10, <1>13, <1>15, <1>16, <1>17, <1>18, <1>19 DEF MapOk
<1>21. QED
  BY <1>11, <1>13, <1>20

\* What a compaction of all immutable levels and the persisted one writes is the snapshot
\* of the newest immutable level's last_applied.
LEMMA CompactionOf ==
    ASSUME LogOk, MapOk, immutable # <<>>,
           NEW t, t = compact(immutable, persisted)
    PROVE  /\ t = Level(View(persisted \o immutable).seq, t.applied,
                        View(persisted \o immutable).data)
           /\ t.applied \in Nat
           /\ IsSnapshot(t)
<1>1. PICK b : b = persisted \o immutable
  BY Zenon
<1>2. b \in Seq(LevelType) /\ Sound(b)
  BY <1>1, LevelsFacts
<1>3. PICK n : n = immutable[Len(immutable)].applied
  OBVIOUS
<1>4. n \in 0 .. Len(log) /\ View(b) = history[n + 1]
  BY <1>1, <1>3 DEF MapOk
<1>5. n \in Nat
  BY <1>4, LenProperties DEF LogOk
<1>6. persisted \in Seq(LevelType) /\ immutable \in Seq(LevelType)
  BY DEF MapOk
<1>7. compact(immutable, persisted)
          = Level(View(persisted \o immutable).seq, immutable[Len(immutable)].applied,
                  View(persisted \o immutable).data)
  BY <1>1, <1>2, <1>6, CompactIsView
<1>8. t = Level(View(b).seq, n, View(b).data)
  BY <1>1, <1>3, <1>7
<1>9. t.applied = n
  BY <1>8 DEF Level
<1>10. t = Snapshot(n)
  BY <1>4, <1>8 DEF Snapshot
<1>11. QED
  BY <1>1, <1>4, <1>5, <1>8, <1>9, <1>10 DEF IsSnapshot

\* replace_with_compacted, when it does not panic: the levels it removes are exactly those
\* that were compacted, and the node shows what it showed.
LEMMA ReplaceMap ==
    ASSUME LogOk, MapOk, BuildOk, BuildReplace
    PROVE  MapOk' /\ immutable' = <<>>
<1>1. /\ taken.levels \in Seq(LevelType) /\ taken.levels # <<>>
      /\ immutable = <<>> \/ (immutable = taken.levels /\ persisted = taken.db)
  BY DEF BuildOk, BuildReplace
<1>2. Len(taken.levels) \in Nat \ {0}
  BY <1>1, EmptySeq, LenProperties
<1>3. Len(taken.levels) <= Len(immutable)
  BY DEF BuildReplace
<1>4. immutable # <<>>
  BY <1>2, <1>3
<1>5. immutable = taken.levels /\ persisted = taken.db
  BY <1>1, <1>4
<1>6. PICK t : t = Built
  OBVIOUS
<1>7. t = compact(immutable, persisted)
  BY <1>5, <1>6 DEF Built
<1>8. PICK s : s = persisted \o immutable
  BY Zenon
<1>9. PICK w : w = writable
  OBVIOUS
<1>10. /\ t = Level(View(s).seq, t.applied, View(s).data)
       /\ t.applied \in Nat
       /\ IsSnapshot(t)
  BY <1>4, <1>7, <1>8, CompactionOf
<1>11. /\ s \in Seq(LevelType) /\ w \in LevelType /\ Sound(Append(s, w))
       /\ View(Append(s, w)) = history[w.applied + 1]
       /\ w.applied \in 0 .. Len(log)
  BY <1>8, <1>9, LevelsFacts DEF MapOk, Levels, applied
<1>12. s # <<>>
  <2>1. Len(s) = Len(persisted) + Len(immutable)
    BY <1>8, ConcatProperties DEF MapOk
  <2>2. Len(persisted) \in Nat /\ Len(immutable) \in Nat \ {0}
    BY <1>2, <1>5, LenProperties DEF MapOk
  <2>3. Len(s) # 0
    BY <2>1, <2>2
  <2>4. QED
    BY <1>11, <2>3, EmptySeq
<1>13. PICK n : n = t.applied
  OBVIOUS
<1>14. /\ t \in LevelType
       /\ Sound(Append(<<t>>, w))
       /\ View(Append(<<t>>, w)) = View(Append(s, w))
  BY <1>10, <1>11, <1>12, <1>13, ReplaceFacts
<1>15. PICK p : p = <<t>>
  BY Zenon
<1>16. p \in Seq(LevelType) /\ Len(p) = 1 /\ p[1] = t
  BY <1>14, <1>15, OneIsSound
<1>17. PICK e : e = <<>>
  OBVIOUS
<1>18. e \in Seq(LevelType) /\ p \o e = p
  BY <1>16, <1>17, EmptySeq, ConcatEmptySeq
<1>19. SubSeq(immutable, Len(immutable) + 1, Len(immutable)) = <<>>
  <2>1. immutable \in Seq(LevelType) /\ Len(immutable) \in Nat
    BY LenProperties DEF MapOk
  <2>2. QED
    BY <2>1, SubSeqEmpty
<1>20. /\ persisted' = p /\ immutable' = e /\ writable' = w
       /\ log' = log /\ history' = history
  BY <1>5, <1>6, <1>9, <1>15, <1>17, <1>19 DEF BuildReplace, clusterVars
<1>21. Levels' = Append(p, w)
  BY <1>18, <1>20 DEF Levels
<1>22. applied' = w.applied
  BY <1>20 DEF applied
<1>23. Sound(Levels') /\ View(Levels') = history'[applied' + 1]
  BY <1>11, <1>14, <1>15, <1>20, <1>21, <1>22
<1>24. IsSnapshot(t)'
  BY <1>10, <1>20 DEF IsSnapshot, Snapshot
<1>25. (\A i \in 1 .. Len(persisted) : IsSnapshot(persisted[i]))' /\ Len(persisted') <= 1
  <2>1. \A i \in 1 .. Len(p) : p[i] = t
    BY <1>16
  <2>2. ASSUME NEW i \in 1 .. Len(persisted')
        PROVE  IsSnapshot(persisted[i])'
    <3>1. persisted'[i] = t
      BY <1>20, <2>1
    <3>2. QED
      BY <1>24, <3>1
  <2>3. Len(persisted') <= 1
    <3>1. Len(p) <= 1
      BY <1>16
    <3>2. persisted' = p
      BY <1>20
    <3>3. QED
      BY <3>1, <3>2
  <2>4. QED
    BY <2>2, <2>3
<1>26. MapOk'
  BY <1>11, <1>16, <1>17, <1>18, <1>20, <1>22, <1>23, <1>25 DEF MapOk
<1>27. QED
  BY <1>17, <1>20, <1>26

-----------------------------------------------------------------------------
(* The snapshot directory *)

\* load_last_snapshot finds the snapshot with the greatest last_log_id, or none.
LEMMA LastFacts ==
    ASSUME LogOk, DiskOk
    PROVE  \/ disk = {} /\ LastOnDisk = <<>>
           \/ \E db \in disk : /\ LastOnDisk = <<db>>
                               /\ IsSnapshot(db)
                               /\ \A o \in disk : o.applied <= db.applied
<1>1. CASE disk = {}
  BY <1>1 DEF LastOnDisk
<1>2. CASE disk # {}
  <2>1. \E db \in disk : \A o \in disk : o.applied <= db.applied
    BY <1>2 DEF DiskOk
  <2>2. PICK db : db = CHOOSE d \in disk : \A o \in disk : o.applied <= d.applied
    OBVIOUS
  <2>3. db \in disk /\ \A o \in disk : o.applied <= db.applied
    BY <2>1, <2>2
  <2>4. LastOnDisk = <<db>>
    BY <1>2, <2>2 DEF LastOnDisk
  <2>5. IsSnapshot(db)
    BY <2>3 DEF DiskOk
  <2>6. QED
    BY <2>3, <2>4, <2>5
<1>3. QED
  BY <1>1, <1>2

\* The snapshot that load_last_snapshot finds reaches whatever some snapshot on disk reaches.
LEMMA LastCovers ==
    ASSUME LogOk, DiskOk, NEW n \in Nat, Covered(n)
    PROVE  n <= SnapshotIndex(LastOnDisk)
<1>1. CASE disk = {} /\ LastOnDisk = <<>>
  BY <1>1 DEF Covered, SnapshotIndex
<1>2. ASSUME NEW db \in disk, LastOnDisk = <<db>>, IsSnapshot(db),
             \A o \in disk : o.applied <= db.applied
      PROVE  n <= SnapshotIndex(LastOnDisk)
  <2>1. db.applied \in Nat
    BY <1>2, IsSnapshotFacts
  <2>2. SnapshotIndex(LastOnDisk) = db.applied
    BY <1>2 DEF SnapshotIndex
  <2>3. CASE n = 0
    BY <2>1, <2>2, <2>3
  <2>4. CASE n # 0
    <3>1. PICK o \in disk : n <= o.applied
      BY <2>4 DEF Covered
    <3>2. o.applied \in Nat
      BY IsSnapshotFacts DEF DiskOk
    <3>3. o.applied <= db.applied
      BY <1>2
    <3>4. QED
      BY <2>1, <2>2, <3>1, <3>2, <3>3
  <2>5. QED
    BY <2>3, <2>4
<1>3. QED
  BY <1>1, <1>2, LastFacts

\* RaftStoreInner::open: the node shows the log up to the last snapshot on disk, and tells
\* openraft of no other.
LEMMA RestartMap ==
    ASSUME LogOk, DiskOk, Restart
    PROVE  MapOk' /\ raftSnap' \in Nat /\ Covered(raftSnap')
<1>1. UNCHANGED clusterVars /\ log' = log /\ history' = history
  BY DEF Restart, clusterVars
<1>2. CASE disk = {} /\ LastOnDisk = <<>>
  <2>1. PICK w : w = EmptyLevel
    OBVIOUS
  <2>2. PICK e : e = <<>>
    OBVIOUS
  <2>3. /\ w \in LevelType /\ w.applied = 0
        /\ Append(e \o e, w) = <<w>>
        /\ Sound(<<w>>)
        /\ View(<<w>>) = FlatEmpty
    BY <2>1, <2>2, NoLevels
  <2>4. persisted' = e /\ immutable' = e /\ writable' = w
    BY <1>2, <2>1, <2>2 DEF Restart
  <2>5. e \in Seq(LevelType) /\ Len(e) = 0
    BY <2>2, EmptySeq
  <2>6. Levels' = <<w>>
    BY <2>3, <2>4 DEF Levels
  <2>7. Sound(Levels') /\ View(Levels') = FlatEmpty
    BY <2>3, <2>6
  <2>8. applied' = 0 /\ 0 \in 0 .. Len(log)
    BY <2>3, <2>4, LenProperties DEF applied, LogOk
  <2>9. history'[0 + 1] = FlatEmpty
    BY <1>1 DEF LogOk
  <2>10. immutable' = <<>>
    BY <2>2, <2>4
  <2>11. MapOk'
    BY <1>1, <2>3, <2>4, <2>5, <2>7, <2>8, <2>9, <2>10 DEF MapOk
  <2>12. raftSnap' = 0
    BY <1>2 DEF Restart, SnapshotIndex
  <2>13. QED
    BY <2>11, <2>12 DEF Covered
<1>3. ASSUME NEW db \in disk, LastOnDisk = <<db>>, IsSnapshot(db)
      PROVE  MapOk' /\ raftSnap' \in Nat /\ Covered(raftSnap')
  <2>1. <<db>> # <<>> /\ <<db>>[1] = db
    OBVIOUS
  <2>2. persisted' = <<db>> /\ immutable' = <<>> /\ writable' = NewLevel(db)
    BY <1>3, <2>1 DEF Restart
  <2>3. MapOk'
    BY <1>1, <1>3, <2>2, MapFromSnapshot
  <2>4. raftSnap' = db.applied
    BY <1>3, <2>1 DEF Restart, SnapshotIndex
  <2>5. db.applied \in Nat
    BY <1>3, IsSnapshotFacts
  <2>6. Covered(db.applied)
    BY <2>5 DEF Covered
  <2>7. QED
    BY <2>3, <2>4, <2>5, <2>6
<1>4. QED
  BY <1>2, <1>3, LastFacts

\* As long as no file is moved or removed the snapshot directory is in order.
LEMMA DiskUnchanged ==
    ASSUME LogOk, DiskOk, disk' = disk, Commit \/ UNCHANGED clusterVars
    PROVE  DiskOk' /\ \A n : Covered(n) => Covered(n)'
<1>1. \A db : IsSnapshot(db) => IsSnapshot(db)'
  BY LogStep
<1>2. \A db \in disk' : IsSnapshot(db)'
  BY <1>1 DEF DiskOk
<1>3. DiskOk'
  BY <1>2 DEF DiskOk
<1>4. QED
  BY <1>3 DEF Covered

\* A snapshot moved to its final path, received or built, is in order with the others.
LEMMA DiskGrows ==
    ASSUME LogOk, DiskOk, UNCHANGED clusterVars, NEW db, IsSnapshot(db),
           disk' = disk \union {db}
    PROVE  /\ DiskOk'
           /\ \A n : Covered(n) => Covered(n)'
           /\ Covered(db.applied)'
<1>1. \A o : IsSnapshot(o) => IsSnapshot(o)'
  BY LogStep
<1>2. \A o \in disk' : IsSnapshot(o)'
  BY <1>1 DEF DiskOk
<1>3. db.applied \in Nat /\ \A o \in disk : o.applied \in Nat
  BY IsSnapshotFacts DEF DiskOk
<1>4. \E m \in disk' : \A o \in disk' : o.applied <= m.applied
  <2>1. CASE disk = {}
    BY <1>3, <2>1
  <2>2. CASE disk # {}
    <3>1. PICK m \in disk : \A o \in disk : o.applied <= m.applied
      BY <2>2 DEF DiskOk
    <3>2. m.applied \in Nat
      BY <1>3
    <3>3. CASE db.applied <= m.applied
      BY <3>1, <3>3
    <3>4. CASE m.applied < db.applied
      BY <1>3, <3>1, <3>2, <3>4
    <3>5. QED
      BY <1>3, <3>2, <3>3, <3>4
  <2>3. QED
    BY <2>1, <2>2
<1>5. DiskOk'
  BY <1>2, <1>4 DEF DiskOk
<1>6. Covered(db.applied)'
  BY <1>3 DEF Covered
<1>7. QED
  BY <1>5, <1>6 DEF Covered

\* clean_old_snapshots, finished or not, keeps the last snapshot: nothing that some snapshot
\* reached is out of reach.
LEMMA DiskShrinks ==
    ASSUME LogOk, DiskOk, UNCHANGED clusterVars, BuildClean \/ BuildCleanFail
    PROVE  DiskOk' /\ \A n \in Nat : Covered(n) => Covered(n)'
<1>1. \A o : IsSnapshot(o) => IsSnapshot(o)'
  BY LogStep
<1>2. disk' \subseteq disk
  BY DEF BuildClean, BuildCleanFail
<1>3. \A o \in disk' : IsSnapshot(o)'
  BY <1>1, <1>2 DEF DiskOk
<1>4. \A o \in disk : o.applied \in Nat
  BY IsSnapshotFacts DEF DiskOk
<1>5. CASE disk = {}
  <2>1. disk' = {}
    BY <1>2, <1>5
  <2>2. DiskOk'
    BY <2>1 DEF DiskOk
  <2>3. QED
    BY <1>5, <2>2 DEF Covered
<1>6. CASE disk # {}
  <2>1. PICK m \in disk : \A o \in disk : o.applied <= m.applied
    BY <1>6 DEF DiskOk
  <2>2. m.applied \in Nat
    BY <1>4
  <2>3. {o \in disk : o.applied > m.applied} = {}
    BY <1>4, <2>1, <2>2
  <2>4. Cardinality({o \in disk : o.applied > m.applied}) = 0
    BY <2>3, NoneNewer, Zenon
  <2>5. m \notin OldSnapshots
    BY <2>4, MetaStoreAssumption DEF OldSnapshots
  <2>6. m \in disk'
    <3>1. CASE BuildClean
      BY <2>5, <3>1 DEF BuildClean
    <3>2. CASE BuildCleanFail
      <4>1. PICK db \in OldSnapshots : disk' = {o \in disk : o.applied >= db.applied}
        BY <3>2 DEF BuildCleanFail
      <4>2. db \in disk
        BY DEF OldSnapshots
      <4>3. m.applied >= db.applied
        BY <1>4, <2>1, <2>2, <4>2
      <4>4. QED
        BY <4>1, <4>3
    <3>3. QED
      BY <3>1, <3>2
  <2>7. DiskOk'
    BY <1>2, <1>3, <2>1, <2>6 DEF DiskOk
  <2>8. ASSUME NEW n \in Nat, Covered(n)
        PROVE  Covered(n)'
    <3>1. CASE n = 0
      BY <3>1 DEF Covered
    <3>2. CASE n # 0
      <4>1. PICK o \in disk : n <= o.applied
        BY <2>8, <3>2 DEF Covered
      <4>2. n <= m.applied
        BY <1>4, <2>1, <2>2, <4>1
      <4>3. QED
        BY <2>6, <4>2 DEF Covered
    <3>3. QED
      BY <3>1, <3>2
  <2>9. QED
    BY <2>7, <2>8
<1>7. QED
  BY <1>5, <1>6

-----------------------------------------------------------------------------
(* Steps that leave a task alone *)

\* What the builder has taken stays a snapshot, and stays what the map has, while others
\* commit, apply, install or export.
LEMMA BuildUnchanged ==
    ASSUME LogOk, BuildOk, Commit \/ UNCHANGED clusterVars, UNCHANGED buildVars,
           \/ immutable' = immutable /\ persisted' = persisted
           \/ immutable' = <<>> /\ ~lock
    PROVE  BuildOk'
<1>1. build' = build /\ lock' = lock /\ taken' = taken /\ Built' = Built
  BY DEF buildVars, Built
<1>2. PICK b : b = Built
  OBVIOUS
<1>3. IsSnapshot(b) => IsSnapshot(b)'
  BY LogStep
<1>4. b = Built'
  BY <1>1, <1>2
<1>5. IsSnapshot(Built) => IsSnapshot(Built)'
  BY <1>2, <1>3, <1>4
<1>6. QED
  BY <1>1, <1>5 DEF BuildOk

\* A received snapshot stays one while it waits for the state machine's lock.
LEMMA InstallUnchanged ==
    ASSUME LogOk, InstallOk, Commit \/ UNCHANGED clusterVars,
           install' = install \/ install' = <<>>
    PROVE  InstallOk'
<1>1. CASE install' = <<>>
  <2>1. PICK e : e = <<>>
    OBVIOUS
  <2>2. e \in Seq(LevelType) /\ Len(e) = 0 /\ install' = e
    BY <1>1, <2>1, EmptySeq
  <2>3. QED
    BY <2>2 DEF InstallOk
<1>2. CASE install' = install
  <2>1. ASSUME NEW i \in 1 .. Len(install')
        PROVE  IsSnapshot(install[i])'
    <3>1. PICK db : db = install[i]
      OBVIOUS
    <3>2. IsSnapshot(db)
      BY <1>2, <3>1 DEF InstallOk
    <3>3. IsSnapshot(db)'
      BY <3>2, LogStep
    <3>4. db = install'[i]
      BY <1>2, <3>1
    <3>5. QED
      BY <3>3, <3>4
  <2>2. install' \in Seq(LevelType) /\ Len(install') <= 1
    BY <1>2 DEF InstallOk
  <2>3. QED
    BY <2>1, <2>2 DEF InstallOk
<1>3. QED
  BY <1>1, <1>2

\* The Compactor's holder is the same as long as neither task moves.
LEMMA ExportUnchanged ==
    ASSUME ExportOk, build' = build, compactor' = compactor, UNCHANGED exportVars
    PROVE  ExportOk'
BY DEF ExportOk, ExportStates, exportVars

\* What has to be on disk is on disk when openraft is told of a snapshot that is.
LEMMA CoverStep ==
    ASSUME LogOk, BuildOk, InstallOk, CoverOk,
           \A n \in Nat : Covered(n) => Covered(n)',
           purged' = purged, raftSnap' \in Nat, Covered(raftSnap)', boot' = boot,
           install' = install \/ install' = <<>>,
           \/ build' = build /\ taken' = taken
           \/ build' \notin {"replace", "clean"}
    PROVE  CoverOk'
<1>1. purged' \in Nat /\ raftSnap' \in Nat /\ Covered(purged)' /\ Covered(raftSnap)'
  <2>1. purged \in Nat /\ Covered(purged)
    BY DEF CoverOk
  <2>2. PICK p : p = purged
    OBVIOUS
  <2>3. Covered(p)' /\ p = purged'
    BY <2>1, <2>2
  <2>4. Covered(purged)'
    BY <2>3
  <2>5. QED
    BY <2>1, <2>4
<1>2. ASSUME install' # <<>>
      PROVE  Covered(install[1].applied)'
  <2>1. install' = install
    BY <1>2
  <2>2. PICK n : n = install[1].applied
    OBVIOUS
  <2>3. IsSnapshot(install[1])
    <3>1. Len(install) \in Nat /\ Len(install) # 0
      BY <1>2, <2>1, EmptySeq, LenProperties DEF InstallOk
    <3>2. QED
      BY <3>1 DEF InstallOk
  <2>4. n \in Nat
    BY <2>2, <2>3, IsSnapshotFacts
  <2>5. Covered(n)
    BY <1>2, <2>1, <2>2 DEF CoverOk
  <2>6. Covered(n)'
    BY <2>4, <2>5
  <2>7. n = install'[1].applied
    BY <2>1, <2>2
  <2>8. QED
    BY <2>6, <2>7
<1>3. ASSUME build' \in {"replace", "clean"}
      PROVE  Covered(Built.applied)'
  <2>1. build' = build /\ taken' = taken
    BY <1>3
  <2>2. PICK n : n = Built.applied
    OBVIOUS
  <2>3. IsSnapshot(Built)
    BY <1>3, <2>1 DEF BuildOk
  <2>4. n \in Nat
    BY <2>2, <2>3, IsSnapshotFacts
  <2>5. Covered(n)
    BY <1>3, <2>1, <2>2 DEF CoverOk
  <2>6. Covered(n)'
    BY <2>4, <2>5
  <2>7. n = Built'.applied
    BY <2>1, <2>2 DEF Built
  <2>8. QED
    BY <2>6, <2>7
<1>4. boot' \in BOOLEAN
  BY DEF CoverOk
<1>5. QED
  BY <1>1, <1>2, <1>3, <1>4 DEF CoverOk

\* What has to be on disk is on disk when no more has to be.
LEMMA CoverUnchanged ==
    ASSUME LogOk, BuildOk, InstallOk, CoverOk,
           \A n \in Nat : Covered(n) => Covered(n)',
           purged' = purged, raftSnap' = raftSnap, boot' = boot,
           install' = install \/ install' = <<>>,
           \/ build' = build /\ taken' = taken
           \/ build' \notin {"replace", "clean"}
    PROVE  CoverOk'
<1>1. raftSnap \in Nat /\ Covered(raftSnap)
  BY DEF CoverOk
<1>2. PICK r : r = raftSnap
  OBVIOUS
<1>3. Covered(r)' /\ r = raftSnap'
  BY <1>1, <1>2
<1>4. Covered(raftSnap)' /\ raftSnap' \in Nat
  BY <1>1, <1>3
<1>5. QED
  BY <1>4, CoverStep

\* The snapshot being installed is one, and its last_log_id is an index of the log.
LEMMA TheInstall ==
    ASSUME LogOk, InstallOk, install # <<>>
    PROVE  /\ install = <<install[1]>>
           /\ IsSnapshot(install[1])
           /\ install[1].applied \in Nat
<1>1. Len(install) = 1 /\ install \in Seq(LevelType)
  <2>1. install \in Seq(LevelType) /\ Len(install) <= 1
    BY DEF InstallOk
  <2>2. Len(install) \in Nat /\ Len(install) # 0
    BY <2>1, EmptySeq, LenProperties
  <2>3. QED
    BY <2>1, <2>2
<1>2. IsSnapshot(install[1])
  BY <1>1 DEF InstallOk
<1>3. install[1].applied \in Nat
  BY <1>2, IsSnapshotFacts
<1>4. PICK db : db = install[1]
  OBVIOUS
<1>5. install = <<db>>
  <2>1. PICK s : s = <<db>>
    BY Zenon
  <2>2. s \in Seq(LevelType) /\ Len(s) = 1 /\ s[1] = db
    BY <1>2, <1>4, <2>1, IsSnapshotFacts, OneIsSound
  <2>3. \A i \in 1 .. Len(install) : install[i] = s[i]
    BY <1>1, <1>4, <2>2
  <2>4. install = s
    BY <1>1, <2>2, <2>3, SeqEqual
  <2>5. QED
    BY <2>1, <2>4
<1>6. QED
  BY <1>2, <1>3, <1>4, <1>5

-----------------------------------------------------------------------------
(* One lemma per action *)

\* When the levels stay, and the builder keeps what it has taken or stops, then the log, the
\* map, the builder and the installation are in order.
LEMMA StillOk ==
    ASSUME Inv, Commit \/ UNCHANGED clusterVars, UNCHANGED mapVars,
           install' = install \/ install' = <<>>,
           UNCHANGED buildVars \/ (build' = "idle" /\ lock' = FALSE)
    PROVE  LogOk' /\ MapOk' /\ BuildOk' /\ InstallOk'
<1>0. LogOk /\ MapOk /\ BuildOk /\ InstallOk
  BY DEF Inv
<1>1. immutable' = immutable /\ persisted' = persisted
  BY DEF mapVars
<1>2. LogOk'
  BY <1>0, LogStep
<1>3. MapOk'
  BY <1>0, MapUnchanged
<1>4. BuildOk'
  <2>1. CASE UNCHANGED buildVars
    BY <1>0, <1>1, <2>1, BuildUnchanged
  <2>2. CASE build' = "idle" /\ lock' = FALSE
    BY <2>2, Zenon DEF BuildOk, BuildStates
  <2>3. QED
    BY <2>1, <2>2, Zenon
<1>5. InstallOk'
  BY <1>0, InstallUnchanged
<1>6. QED
  BY <1>2, <1>3, <1>4, <1>5

\* A step preserves the invariant: the cluster commits an entry, a received file cannot be
\* opened, or nothing happens.
LEMMA QuietStep ==
    ASSUME Inv, Commit \/ InstallFail \/ UNCHANGED vars
    PROVE  Inv'
<1>0. LogOk /\ MapOk /\ BuildOk /\ InstallOk /\ ExportOk /\ DiskOk /\ CoverOk
  BY DEF Inv
<1>1. /\ Commit \/ UNCHANGED clusterVars
      /\ UNCHANGED mapVars /\ UNCHANGED buildVars /\ UNCHANGED exportVars
      /\ build' = build /\ taken' = taken /\ compactor' = compactor /\ disk' = disk
      /\ install' = install \/ install' = <<>>
      /\ purged' = purged /\ raftSnap' = raftSnap /\ boot' = boot
  BY DEF Commit, InstallFail, vars, buildVars
<1>2. LogOk' /\ MapOk' /\ BuildOk' /\ InstallOk'
  BY <1>1, StillOk
<1>3. ExportOk'
  BY <1>0, <1>1, ExportUnchanged
<1>4. DiskOk' /\ \A n : Covered(n) => Covered(n)'
  BY <1>0, <1>1, DiskUnchanged
<1>5. CoverOk'
  BY <1>0, <1>1, <1>4, CoverUnchanged
<1>6. QED
  BY <1>2, <1>3, <1>4, <1>5 DEF Inv

\* A step preserves the invariant: openraft purges entries that a snapshot it was told of
\* covers.
LEMMA PurgeStep ==
    ASSUME Inv, Purge
    PROVE  Inv'
<1>0. LogOk /\ MapOk /\ BuildOk /\ InstallOk /\ ExportOk /\ DiskOk /\ CoverOk
  BY DEF Inv
<1>1. /\ UNCHANGED clusterVars
      /\ UNCHANGED mapVars /\ UNCHANGED buildVars /\ UNCHANGED exportVars
      /\ build' = build /\ taken' = taken /\ compactor' = compactor /\ disk' = disk
      /\ install' = install /\ raftSnap' = raftSnap /\ boot' = boot
  BY DEF Purge, buildVars
<1>2. LogOk' /\ MapOk' /\ BuildOk' /\ InstallOk'
  BY <1>1, StillOk
<1>3. ExportOk'
  BY <1>0, <1>1, ExportUnchanged
<1>4. DiskOk'
  BY <1>0, <1>1, DiskUnchanged
<1>5. purged' \in Nat /\ purged' <= raftSnap /\ raftSnap \in Nat /\ Covered(raftSnap)
  BY <1>0 DEF Purge, CoverOk
<1>6. Covered(purged)'
  <2>1. CASE raftSnap = 0
    <3>1. purged' = 0
      BY <1>5, <2>1
    <3>2. QED
      BY <3>1 DEF Covered
  <2>2. CASE raftSnap # 0
    <3>1. PICK db \in disk : raftSnap <= db.applied
      BY <1>5, <2>2 DEF Covered
    <3>2. db.applied \in Nat
      BY <1>0, IsSnapshotFacts DEF DiskOk
    <3>3. purged' <= db.applied /\ db \in disk'
      BY <1>1, <1>5, <3>1, <3>2
    <3>4. QED
      BY <3>3 DEF Covered
  <2>3. QED
    BY <2>1, <2>2
<1>7. CoverOk'
  BY <1>0, <1>1, <1>5, <1>6 DEF CoverOk, Covered, Built
<1>8. QED
  BY <1>2, <1>3, <1>4, <1>7 DEF Inv

\* A step preserves the invariant: an entry is applied.
LEMMA ApplyStep ==
    ASSUME Inv, Apply
    PROVE  Inv'
<1>0. LogOk /\ MapOk /\ BuildOk /\ InstallOk /\ ExportOk /\ DiskOk /\ CoverOk
  BY DEF Inv
<1>1. /\ UNCHANGED buildVars /\ UNCHANGED exportVars /\ UNCHANGED clusterVars
      /\ immutable' = immutable /\ persisted' = persisted /\ build' = build /\ taken' = taken
      /\ compactor' = compactor /\ install' = install /\ disk' = disk
      /\ purged' = purged /\ raftSnap' = raftSnap /\ boot' = boot
  BY DEF Apply, buildVars
<1>2. LogOk'
  BY <1>0, <1>1, LogStep
<1>3. MapOk'
  BY <1>0, ApplyMap
<1>4. BuildOk'
  BY <1>0, <1>1, BuildUnchanged
<1>5. InstallOk'
  BY <1>0, <1>1, InstallUnchanged
<1>6. ExportOk'
  BY <1>0, <1>1, ExportUnchanged
<1>7. DiskOk' /\ \A n : Covered(n) => Covered(n)'
  BY <1>0, <1>1, DiskUnchanged
<1>8. CoverOk'
  BY <1>0, <1>1, <1>7, CoverUnchanged
<1>9. QED
  BY <1>2, <1>3, <1>4, <1>5, <1>6, <1>7, <1>8 DEF Inv

\* A step preserves the invariant: a received snapshot is moved to its final path.
LEMMA InstallMoveStep ==
    ASSUME Inv, InstallMove
    PROVE  Inv'
<1>0. LogOk /\ MapOk /\ BuildOk /\ InstallOk /\ ExportOk /\ DiskOk /\ CoverOk
  BY DEF Inv
<1>1. /\ UNCHANGED mapVars /\ UNCHANGED buildVars /\ UNCHANGED exportVars
      /\ UNCHANGED clusterVars
      /\ immutable' = immutable /\ persisted' = persisted /\ build' = build /\ taken' = taken
      /\ compactor' = compactor
      /\ purged' = purged /\ raftSnap' = raftSnap /\ boot' = boot
  BY DEF InstallMove, mapVars, buildVars
<1>2. LogOk'
  BY <1>0, <1>1, LogStep
<1>3. MapOk'
  BY <1>0, <1>1, MapUnchanged
<1>4. BuildOk'
  BY <1>0, <1>1, BuildUnchanged
<1>5. PICK i \in 0 .. Len(log) :
          install' = <<Snapshot(i)>> /\ disk' = disk \union {Snapshot(i)}
  BY DEF InstallMove
<1>6. PICK db : db = Snapshot(i)
  OBVIOUS
<1>7. db \in LevelType /\ IsSnapshot(db)
  BY <1>0, <1>6, SnapshotFacts
<1>8. IsSnapshot(db)'
  BY <1>0, <1>1, <1>7, LogStep
<1>9. PICK o : o = <<db>>
  BY Zenon
<1>10. o \in Seq(LevelType) /\ Len(o) = 1 /\ o[1] = db
  BY <1>7, <1>9, OneIsSound
<1>11. install' = o
  BY <1>5, <1>6, <1>9
<1>12. InstallOk'
  <2>1. ASSUME NEW j \in 1 .. Len(install')
        PROVE  IsSnapshot(install[j])'
    <3>1. \A k \in 1 .. Len(o) : o[k] = db
      BY <1>10
    <3>2. install'[j] = db
      BY <1>11, <3>1
    <3>3. QED
      BY <1>8, <3>2
  <2>2. o \in Seq(LevelType) /\ Len(o) <= 1
    BY <1>10
  <2>3. install' \in Seq(LevelType) /\ Len(install') <= 1
    BY <1>11, <2>2
  <2>4. QED
    BY <2>1, <2>3 DEF InstallOk
<1>13. ExportOk'
  BY <1>0, <1>1, ExportUnchanged
<1>14. disk' = disk \union {db}
  BY <1>5, <1>6
<1>15. DiskOk' /\ (\A n : Covered(n) => Covered(n)') /\ Covered(db.applied)'
  BY <1>0, <1>1, <1>7, <1>14, DiskGrows
<1>16. CoverOk'
  <2>1. PICK m : m = db.applied
    OBVIOUS
  <2>2. m = install'[1].applied
    BY <1>10, <1>11, <2>1
  <2>3. Covered(install[1].applied)'
    BY <1>15, <2>1, <2>2
  <2>4. Covered(purged)' /\ Covered(raftSnap)'
    BY <1>0, <1>1, <1>15 DEF CoverOk, Covered
  <2>5. build' \in {"replace", "clean"} => Covered(Built.applied)'
    <3>1. PICK b : b = Built.applied
      OBVIOUS
    <3>2. b = Built'.applied
      BY <1>1, <3>1 DEF Built
    <3>3. Covered(b) => Covered(b)'
      BY <1>15
    <3>4. QED
      BY <1>0, <1>1, <3>1, <3>2, <3>3 DEF CoverOk
  <2>6. QED
    BY <1>0, <1>1, <2>3, <2>4, <2>5 DEF CoverOk
<1>17. QED
  BY <1>2, <1>3, <1>4, <1>12, <1>13, <1>15, <1>16 DEF Inv

\* A step preserves the invariant: install_snapshot_v003 replaces the data.
LEMMA InstallNewerStep ==
    ASSUME Inv, InstallNewer
    PROVE  Inv'
<1>0. LogOk /\ MapOk /\ BuildOk /\ InstallOk /\ ExportOk /\ DiskOk /\ CoverOk
  BY DEF Inv
<1>1. /\ UNCHANGED buildVars /\ UNCHANGED exportVars /\ UNCHANGED clusterVars
      /\ immutable' = <<>> /\ ~lock /\ build' = build /\ taken' = taken
      /\ compactor' = compactor /\ install' = <<>> /\ disk' = disk
      /\ purged' = purged /\ boot' = boot
  BY DEF InstallNewer, buildVars
<1>2. PICK db : db = install[1]
  OBVIOUS
<1>3. /\ install # <<>> /\ install = <<db>> /\ IsSnapshot(db) /\ db.applied \in Nat
  BY <1>0, <1>2, TheInstall DEF InstallNewer
<1>4. persisted' = <<db>> /\ writable' = NewLevel(db) /\ raftSnap' = db.applied
  BY <1>2, <1>3 DEF InstallNewer
<1>5. LogOk'
  BY <1>0, <1>1, LogStep
<1>6. MapOk'
  BY <1>0, <1>1, <1>3, <1>4, MapFromSnapshot
<1>7. BuildOk'
  BY <1>0, <1>1, BuildUnchanged
<1>8. InstallOk'
  BY <1>0, <1>1, InstallUnchanged
<1>9. ExportOk'
  BY <1>0, <1>1, ExportUnchanged
<1>10. DiskOk' /\ \A n : Covered(n) => Covered(n)'
  BY <1>0, <1>1, DiskUnchanged
<1>11. Covered(db.applied)
  BY <1>0, <1>2, <1>3 DEF CoverOk
<1>12. raftSnap' \in Nat /\ Covered(raftSnap)'
  BY <1>3, <1>4, <1>10, <1>11
<1>13. CoverOk'
  BY <1>0, <1>1, <1>10, <1>12, CoverStep
<1>14. QED
  BY <1>5, <1>6, <1>7, <1>8, <1>9, <1>10, <1>13 DEF Inv

\* A step preserves the invariant: install_snapshot_v003 finds that as much is applied.
LEMMA InstallOlderStep ==
    ASSUME Inv, InstallOlder
    PROVE  Inv'
<1>0. LogOk /\ MapOk /\ BuildOk /\ InstallOk /\ ExportOk /\ DiskOk /\ CoverOk
  BY DEF Inv
<1>1. /\ UNCHANGED clusterVars
      /\ UNCHANGED mapVars /\ UNCHANGED buildVars /\ UNCHANGED exportVars
      /\ build' = build /\ taken' = taken /\ compactor' = compactor /\ disk' = disk
      /\ install' = <<>> /\ purged' = purged /\ boot' = boot
  BY DEF InstallOlder, buildVars
<1>2. LogOk' /\ MapOk' /\ BuildOk' /\ InstallOk'
  BY <1>1, StillOk
<1>3. ExportOk'
  BY <1>0, <1>1, ExportUnchanged
<1>4. DiskOk' /\ \A n : Covered(n) => Covered(n)'
  BY <1>0, <1>1, DiskUnchanged
<1>5. PICK m : m = install[1].applied
  OBVIOUS
<1>6. m \in Nat /\ Covered(m) /\ raftSnap' = m
  BY <1>0, <1>5, TheInstall DEF InstallOlder, CoverOk
<1>7. raftSnap' \in Nat /\ Covered(raftSnap)'
  BY <1>4, <1>6
<1>8. CoverOk'
  BY <1>0, <1>1, <1>4, <1>7, CoverStep
<1>9. QED
  BY <1>2, <1>3, <1>4, <1>8 DEF Inv

\* A step preserves the invariant: the builder freezes the writable level and waits for the
\* Compactor.
LEMMA BuildFreezeStep ==
    ASSUME Inv, BuildFreeze
    PROVE  Inv'
<1>0. LogOk /\ MapOk /\ BuildOk /\ InstallOk /\ ExportOk /\ DiskOk /\ CoverOk
  BY DEF Inv
<1>1. /\ UNCHANGED exportVars /\ UNCHANGED clusterVars
      /\ build = "idle" /\ build' = "wait" /\ lock' = TRUE
      /\ compactor' = compactor /\ install' = install /\ disk' = disk
      /\ purged' = purged /\ raftSnap' = raftSnap /\ boot' = boot
  BY DEF BuildFreeze
<1>2. LogOk'
  BY <1>0, <1>1, LogStep
<1>3. MapOk' /\ immutable' # <<>>
  BY <1>0, FreezeMap
<1>4. BuildOk'
  BY <1>1, <1>3 DEF BuildOk, BuildStates
<1>5. InstallOk'
  BY <1>0, <1>1, InstallUnchanged
<1>6. ExportOk'
  BY <1>0, <1>1 DEF ExportOk, ExportStates, exportVars
<1>7. DiskOk' /\ \A n : Covered(n) => Covered(n)'
  BY <1>0, <1>1, DiskUnchanged
<1>8. CoverOk'
  BY <1>0, <1>1, <1>7, CoverUnchanged
<1>9. QED
  BY <1>2, <1>3, <1>4, <1>5, <1>6, <1>7, <1>8 DEF Inv

\* A step preserves the invariant: the builder gets the Compactor and copies the levels.
LEMMA BuildAcquireStep ==
    ASSUME Inv, BuildAcquire
    PROVE  Inv'
<1>0. LogOk /\ MapOk /\ BuildOk /\ InstallOk /\ ExportOk /\ DiskOk /\ CoverOk
  BY DEF Inv
<1>1. /\ UNCHANGED mapVars /\ UNCHANGED exportVars /\ UNCHANGED clusterVars
      /\ immutable' = immutable /\ persisted' = persisted
      /\ build = "wait" /\ build' = "compact" /\ lock' = FALSE
      /\ compactor = "none" /\ compactor' = "build"
      /\ taken' = [levels |-> immutable, db |-> persisted]
      /\ install' = install /\ disk' = disk
      /\ purged' = purged /\ raftSnap' = raftSnap /\ boot' = boot
  BY DEF BuildAcquire, mapVars
<1>2. LogOk'
  BY <1>0, <1>1, LogStep
<1>3. MapOk'
  BY <1>0, <1>1, MapUnchanged
<1>4. immutable # <<>> /\ immutable \in Seq(LevelType)
  BY <1>0, <1>1 DEF BuildOk, MapOk
<1>5. taken'.levels = immutable /\ taken'.db = persisted
  BY <1>1
<1>6. PICK t : t = compact(immutable, persisted)
  OBVIOUS
<1>7. IsSnapshot(t)
  BY <1>0, <1>4, <1>6, CompactionOf
<1>8. IsSnapshot(t)'
  BY <1>0, <1>1, <1>7, LogStep
<1>9. t = Built'
  BY <1>5, <1>6 DEF Built
<1>10. IsSnapshot(Built)'
  BY <1>8, <1>9
<1>11. BuildOk'
  BY <1>1, <1>4, <1>5, <1>10, Zenon DEF BuildOk, BuildStates
<1>12. InstallOk'
  BY <1>0, <1>1, InstallUnchanged
<1>13. ExportOk'
  BY <1>0, <1>1 DEF ExportOk, ExportStates, exportVars
<1>14. DiskOk' /\ \A n : Covered(n) => Covered(n)'
  BY <1>0, <1>1, DiskUnchanged
<1>15. CoverOk'
  BY <1>0, <1>1, <1>14, CoverUnchanged
<1>16. QED
  BY <1>2, <1>3, <1>11, <1>12, <1>13, <1>14, <1>15 DEF Inv

\* A step preserves the invariant: the builder moves what it compacted to its final path.
LEMMA BuildWriteStep ==
    ASSUME Inv, BuildWrite
    PROVE  Inv'
<1>0. LogOk /\ MapOk /\ BuildOk /\ InstallOk /\ ExportOk /\ DiskOk /\ CoverOk
  BY DEF Inv
<1>1. /\ UNCHANGED mapVars /\ UNCHANGED exportVars /\ UNCHANGED clusterVars
      /\ immutable' = immutable /\ persisted' = persisted
      /\ build = "compact" /\ build' = "replace" /\ lock' = lock /\ taken' = taken
      /\ Built' = Built /\ disk' = disk \union {Built}
      /\ compactor' = compactor /\ install' = install
      /\ purged' = purged /\ raftSnap' = raftSnap /\ boot' = boot
  BY DEF BuildWrite, mapVars, Built
<1>2. LogOk'
  BY <1>0, <1>1, LogStep
<1>3. MapOk'
  BY <1>0, <1>1, MapUnchanged
<1>4. PICK t : t = Built
  OBVIOUS
<1>5. IsSnapshot(t)
  BY <1>0, <1>1, <1>4 DEF BuildOk
<1>6. IsSnapshot(t)'
  BY <1>0, <1>1, <1>5, LogStep
<1>7. IsSnapshot(Built)'
  BY <1>1, <1>4, <1>6
<1>8. BuildOk'
  BY <1>0, <1>1, <1>7 DEF BuildOk, BuildStates
<1>9. InstallOk'
  BY <1>0, <1>1, InstallUnchanged
<1>10. ExportOk'
  BY <1>0, <1>1 DEF ExportOk, ExportStates, exportVars
<1>11. disk' = disk \union {t}
  BY <1>1, <1>4
<1>12. DiskOk' /\ (\A n : Covered(n) => Covered(n)') /\ Covered(t.applied)'
  BY <1>0, <1>1, <1>5, <1>11, DiskGrows
<1>13. Covered(Built.applied)'
  <2>1. PICK m : m = t.applied
    OBVIOUS
  <2>2. m = Built'.applied
    BY <1>1, <1>4, <2>1
  <2>3. QED
    BY <1>12, <2>1, <2>2
<1>14. Covered(purged)' /\ Covered(raftSnap)'
  BY <1>0, <1>1, <1>12 DEF CoverOk, Covered
<1>15. install' # <<>> => Covered(install[1].applied)'
  <2>1. PICK m : m = install[1].applied
    OBVIOUS
  <2>2. m = install'[1].applied
    BY <1>1, <2>1
  <2>3. Covered(m) => Covered(m)'
    BY <1>12
  <2>4. QED
    BY <1>0, <1>1, <2>1, <2>2, <2>3 DEF CoverOk
<1>16. CoverOk'
  BY <1>0, <1>1, <1>13, <1>14, <1>15 DEF CoverOk
<1>17. QED
  BY <1>2, <1>3, <1>8, <1>9, <1>10, <1>12, <1>16 DEF Inv

\* A step preserves the invariant: the compacted levels are replaced.
LEMMA BuildReplaceStep ==
    ASSUME Inv, BuildReplace
    PROVE  Inv'
<1>0. LogOk /\ MapOk /\ BuildOk /\ InstallOk /\ ExportOk /\ DiskOk /\ CoverOk
  BY DEF Inv
<1>1. /\ UNCHANGED exportVars /\ UNCHANGED clusterVars
      /\ build = "replace" /\ build' = "clean" /\ lock' = lock /\ taken' = taken
      /\ Built' = Built /\ compactor' = "none" /\ install' = install /\ disk' = disk
      /\ purged' = purged /\ raftSnap' = raftSnap /\ boot' = boot
  BY DEF BuildReplace, Built
<1>2. LogOk'
  BY <1>0, <1>1, LogStep
<1>3. MapOk' /\ immutable' = <<>>
  BY <1>0, ReplaceMap
<1>4. PICK t : t = Built
  OBVIOUS
<1>5. IsSnapshot(t)
  BY <1>0, <1>1, <1>4 DEF BuildOk
<1>6. IsSnapshot(t)'
  BY <1>0, <1>1, <1>5, LogStep
<1>7. IsSnapshot(Built)'
  BY <1>1, <1>4, <1>6
<1>8. BuildOk'
  BY <1>0, <1>1, <1>7 DEF BuildOk, BuildStates
<1>9. InstallOk'
  BY <1>0, <1>1, InstallUnchanged
<1>10. ExportOk'
  BY <1>0, <1>1 DEF ExportOk, ExportStates, exportVars
<1>11. DiskOk' /\ \A n : Covered(n) => Covered(n)'
  BY <1>0, <1>1, DiskUnchanged
<1>12. CoverOk'
  BY <1>0, <1>1 DEF CoverOk, Covered
<1>13. QED
  BY <1>2, <1>3, <1>8, <1>9, <1>10, <1>11, <1>12 DEF Inv

\* A step preserves the invariant: the builder panics, the levels being gone, or fails.
LEMMA BuildFailStep ==
    ASSUME Inv, BuildPanic \/ BuildFail
    PROVE  Inv'
<1>0. LogOk /\ MapOk /\ BuildOk /\ InstallOk /\ ExportOk /\ DiskOk /\ CoverOk
  BY DEF Inv
<1>1. /\ UNCHANGED clusterVars /\ UNCHANGED mapVars /\ UNCHANGED exportVars
      /\ build \in {"compact", "replace"} /\ build' = "idle" /\ lock' = lock
      /\ compactor' = "none" /\ install' = install /\ disk' = disk
      /\ purged' = purged /\ raftSnap' = raftSnap /\ boot' = boot
  BY DEF BuildPanic, BuildFail, BuildEnds
<1>2. lock' = FALSE
  BY <1>0, <1>1 DEF BuildOk
<1>3. LogOk' /\ MapOk' /\ BuildOk' /\ InstallOk'
  BY <1>1, <1>2, StillOk, Zenon
<1>4. ExportOk'
  BY <1>0, <1>1 DEF ExportOk, ExportStates, exportVars
<1>5. DiskOk' /\ \A n : Covered(n) => Covered(n)'
  BY <1>0, <1>1, DiskUnchanged
<1>6. CoverOk'
  BY <1>0, <1>1, <1>5, CoverUnchanged
<1>7. QED
  BY <1>3, <1>4, <1>5, <1>6 DEF Inv

\* A step preserves the invariant: clean_old_snapshots removes all old files, and openraft is
\* told of the snapshot, or it stops at a file that it cannot remove.
LEMMA BuildCleanStep ==
    ASSUME Inv, BuildClean \/ BuildCleanFail
    PROVE  Inv'
<1>0. LogOk /\ MapOk /\ BuildOk /\ InstallOk /\ ExportOk /\ DiskOk /\ CoverOk
  BY DEF Inv
<1>1. /\ UNCHANGED clusterVars /\ UNCHANGED mapVars /\ UNCHANGED exportVars
      /\ build = "clean" /\ build' = "idle" /\ lock' = lock
      /\ compactor' = compactor /\ install' = install
      /\ purged' = purged /\ boot' = boot
      /\ raftSnap' = raftSnap \/ raftSnap' = Built.applied
  BY DEF BuildClean, BuildCleanFail, BuildEnds
<1>2. lock' = FALSE
  BY <1>0, <1>1 DEF BuildOk
<1>3. LogOk' /\ MapOk' /\ BuildOk' /\ InstallOk'
  BY <1>1, <1>2, StillOk, Zenon
<1>4. ExportOk'
  BY <1>0, <1>1 DEF ExportOk, ExportStates, exportVars
<1>5. DiskOk' /\ \A n \in Nat : Covered(n) => Covered(n)'
  BY <1>0, <1>1, DiskShrinks
<1>6. raftSnap' \in Nat /\ Covered(raftSnap)'
  <2>1. PICK m : m = raftSnap'
    OBVIOUS
  <2>2. raftSnap \in Nat /\ Covered(raftSnap) /\ Covered(Built.applied)
    BY <1>0, <1>1 DEF CoverOk
  <2>3. Built.applied \in Nat
    BY <1>0, <1>1, IsSnapshotFacts DEF BuildOk
  <2>4. m \in Nat /\ Covered(m)
    BY <1>1, <2>1, <2>2, <2>3
  <2>5. Covered(m)'
    BY <1>5, <2>4
  <2>6. QED
    BY <2>1, <2>4, <2>5
<1>7. CoverOk'
  BY <1>0, <1>1, <1>5, <1>6, CoverStep
<1>8. QED
  BY <1>3, <1>4, <1>5, <1>7 DEF Inv

\* A step preserves the invariant: the exporter gets the Compactor, reads, or lets it go.
LEMMA ExportStep ==
    ASSUME Inv, ExportTry \/ ExportDump \/ ExportRelease
    PROVE  Inv'
<1>0. LogOk /\ MapOk /\ BuildOk /\ InstallOk /\ ExportOk /\ DiskOk /\ CoverOk
  BY DEF Inv
<1>1. /\ UNCHANGED mapVars /\ UNCHANGED buildVars /\ UNCHANGED clusterVars
      /\ immutable' = immutable /\ persisted' = persisted /\ build' = build /\ taken' = taken
      /\ install' = install /\ disk' = disk
      /\ purged' = purged /\ raftSnap' = raftSnap /\ boot' = boot
  BY DEF ExportTry, ExportDump, ExportRelease, mapVars, buildVars
<1>2. LogOk' /\ MapOk' /\ BuildOk' /\ InstallOk'
  BY <1>1, StillOk
<1>3. ExportOk'
  <2>1. CASE ExportTry
    <3>1. SnapshotIndex(persisted) \in Nat
      <4>1. CASE persisted = <<>>
        BY <4>1 DEF SnapshotIndex
      <4>2. CASE persisted # <<>>
        <5>1. persisted \in Seq(LevelType) /\ \A i \in 1 .. Len(persisted) : IsSnapshot(persisted[i])
          BY <1>0 DEF MapOk
        <5>2. Len(persisted) \in Nat /\ Len(persisted) # 0
          BY <4>2, <5>1, EmptySeq, LenProperties
        <5>3. IsSnapshot(persisted[1])
          BY <5>1, <5>2
        <5>4. persisted[1].applied \in Nat
          BY <1>0, <5>3, IsSnapshotFacts
        <5>5. QED
          BY <4>2, <5>4 DEF SnapshotIndex
      <4>3. QED
        BY <4>1, <4>2
    <3>2. dump' \in [snap : Nat, from : Nat]
      BY <2>1, <3>1 DEF ExportTry
    <3>3. export' = "dump" /\ compactor' = "export" /\ compactor = "none"
      BY <2>1 DEF ExportTry
    <3>4. QED
      BY <1>0, <1>1, <3>2, <3>3 DEF ExportOk, ExportStates
  <2>2. CASE ExportDump
    <3>1. dump' \in [snap : Nat, from : Nat]
      BY <1>0, <2>2 DEF ExportDump, ExportOk, CoverOk
    <3>2. export = "dump" /\ export' = "release" /\ compactor' = compactor
      BY <2>2 DEF ExportDump
    <3>3. QED
      BY <1>0, <1>1, <3>1, <3>2 DEF ExportOk, ExportStates
  <2>3. CASE ExportRelease
    <3>1. dump' \in [snap : Nat, from : Nat]
      BY <2>3 DEF ExportRelease
    <3>2. export = "release" /\ export' = "idle" /\ compactor' = "none"
      BY <2>3 DEF ExportRelease
    <3>3. build \notin {"compact", "replace"}
      BY <1>0, <3>2 DEF ExportOk
    <3>4. QED
      BY <1>0, <1>1, <3>1, <3>2, <3>3 DEF ExportOk, ExportStates
  <2>4. QED
    BY <2>1, <2>2, <2>3
<1>4. DiskOk' /\ \A n : Covered(n) => Covered(n)'
  BY <1>0, <1>1, DiskUnchanged
<1>5. CoverOk'
  BY <1>0, <1>1, <1>4, CoverUnchanged
<1>6. QED
  BY <1>2, <1>3, <1>4, <1>5 DEF Inv

\* A step preserves the invariant: a crash, and RaftStoreInner::open.
LEMMA RestartStep ==
    ASSUME Inv, Restart
    PROVE  Inv'
<1>0. LogOk /\ MapOk /\ BuildOk /\ InstallOk /\ ExportOk /\ DiskOk /\ CoverOk
  BY DEF Inv
<1>1. /\ UNCHANGED clusterVars /\ disk' = disk /\ immutable' = <<>>
      /\ build' = "idle" /\ lock' = FALSE /\ compactor' = "none" /\ install' = <<>>
      /\ export' = "idle" /\ dump' = [snap |-> 0, from |-> 0]
      /\ purged' \in 0 .. purged /\ boot' = ~boot
  BY DEF Restart
<1>2. LogOk'
  BY <1>0, <1>1, LogStep
<1>3. MapOk' /\ raftSnap' \in Nat /\ Covered(raftSnap')
  BY <1>0, RestartMap
<1>4. BuildOk'
  BY <1>1, Zenon DEF BuildOk, BuildStates
<1>5. InstallOk'
  BY <1>0, <1>1, InstallUnchanged
<1>6. ExportOk'
  BY <1>1 DEF ExportOk, ExportStates
<1>7. DiskOk' /\ \A n : Covered(n) => Covered(n)'
  BY <1>0, <1>1, DiskUnchanged
<1>8. purged \in Nat /\ Covered(purged)
  BY <1>0 DEF CoverOk
<1>9. purged' \in Nat /\ Covered(purged)'
  <2>1. purged' \in Nat /\ purged' <= purged
    BY <1>1, <1>8
  <2>2. CASE purged = 0
    <3>1. purged' = 0
      BY <2>1, <2>2
    <3>2. QED
      BY <3>1 DEF Covered
  <2>3. CASE purged # 0
    <3>1. PICK db \in disk : purged <= db.applied
      BY <1>8, <2>3 DEF Covered
    <3>2. db.applied \in Nat
      BY <1>0, IsSnapshotFacts DEF DiskOk
    <3>3. purged' <= db.applied /\ db \in disk'
      BY <1>1, <1>8, <2>1, <3>1, <3>2
    <3>4. QED
      BY <2>1, <3>3 DEF Covered
  <2>4. QED
    BY <2>2, <2>3
<1>10. Covered(raftSnap)'
  BY <1>1, <1>3 DEF Covered
<1>11. CoverOk'
  BY <1>0, <1>1, <1>3, <1>9, <1>10 DEF CoverOk
<1>12. QED
  BY <1>2, <1>3, <1>4, <1>5, <1>6, <1>7, <1>11 DEF Inv

-----------------------------------------------------------------------------
(* The theorems *)

\* A new node satisfies the invariant.
LEMMA InvInit ==
    ASSUME Init
    PROVE  Inv
<1>1. PICK e : e = <<>>
  OBVIOUS
<1>2. /\ log = e /\ immutable = e /\ persisted = e /\ install = e
      /\ history = <<FlatEmpty>> /\ disk = {} /\ purged = 0 /\ raftSnap = 0
      /\ writable = EmptyLevel /\ boot = FALSE /\ build = "idle" /\ lock = FALSE
      /\ compactor = "none" /\ export = "idle" /\ dump = [snap |-> 0, from |-> 0]
  BY <1>1 DEF Init
<1>3. /\ e \in Seq(LevelType) /\ e \in Seq(Cmds) /\ Len(e) = 0
  BY <1>1, EmptySeq
<1>4. LogOk
  <2>1. PICK f : f = FlatEmpty
    OBVIOUS
  <2>2. Flat(f)
    BY <2>1, FlatFacts
  <2>3. f \in FlatType
    BY <2>2 DEF Flat, FlatType
  <2>4. PICK h : h = <<f>>
    BY Zenon
  <2>5. h \in Seq(FlatType) /\ Len(h) = 1 /\ h[1] = f
    BY <2>3, <2>4
  <2>6. history = h
    BY <1>2, <2>1, <2>4
  <2>7. \A i \in 1 .. Len(h) : Flat(h[i])
    BY <2>2, <2>5
  <2>8. 1 .. Len(log) = {}
    BY <1>2, <1>3
  <2>9. QED
    BY <1>2, <1>3, <2>1, <2>5, <2>6, <2>7, <2>8 DEF LogOk
<1>5. MapOk
  <2>1. PICK w : w = EmptyLevel
    OBVIOUS
  <2>2. /\ w \in LevelType /\ w.applied = 0
        /\ Append(e \o e, w) = <<w>>
        /\ Sound(<<w>>)
        /\ View(<<w>>) = FlatEmpty
    BY <1>1, <2>1, NoLevels
  <2>3. Levels = <<w>>
    BY <1>2, <2>1, <2>2 DEF Levels
  <2>4. Sound(Levels) /\ View(Levels) = FlatEmpty
    BY <2>2, <2>3
  <2>5. applied = 0 /\ 0 \in 0 .. Len(log)
    BY <1>2, <1>3, <2>1, <2>2 DEF applied
  <2>6. history[0 + 1] = FlatEmpty
    BY <1>4 DEF LogOk
  <2>7. immutable = <<>> /\ writable = w
    BY <1>1, <1>2, <2>1
  <2>8. QED
    BY <1>2, <1>3, <2>2, <2>4, <2>5, <2>6, <2>7 DEF MapOk
<1>6. BuildOk
  BY <1>2, Zenon DEF BuildOk, BuildStates
<1>7. InstallOk
  BY <1>2, <1>3 DEF InstallOk
<1>8. ExportOk
  BY <1>2 DEF ExportOk, ExportStates
<1>9. DiskOk
  BY <1>2 DEF DiskOk
<1>10. install = <<>>
  BY <1>1, <1>2
<1>11. CoverOk
  BY <1>2, <1>10, Zenon DEF CoverOk, Covered
<1>12. QED
  BY <1>4, <1>5, <1>6, <1>7, <1>8, <1>9, <1>11 DEF Inv

\* Every reachable state of a node satisfies the inductive invariant.
THEOREM InvCorrect == Spec => []Inv
<1>1. Init => Inv
  BY InvInit
<1>2. Inv /\ [Next]_vars => Inv'
  <2>1. SUFFICES ASSUME Inv, [Next]_vars PROVE Inv'
    OBVIOUS
  <2>2. QED
    BY <2>1, QuietStep, PurgeStep, ApplyStep, InstallMoveStep, InstallNewerStep,
       InstallOlderStep, BuildFreezeStep, BuildAcquireStep, BuildWriteStep, BuildReplaceStep,
       BuildFailStep, BuildCleanStep, ExportStep, RestartStep DEF Next
<1>3. QED
  BY <1>1, <1>2, PTL DEF Spec

\* Tasks are in a known place, the builder keeps the lock only while it waits for the
\* Compactor, and acquire_compactor has let exactly the task that uses the Compactor in.
THEOREM TypeCorrect == Spec => []TypeOK
<1>1. Inv => TypeOK
  BY Zenon DEF Inv, LogOk, MapOk, BuildOk, InstallOk, ExportOk, CoverOk, TypeOK
<1>2. QED
  BY <1>1, InvCorrect, PTL

\* Whatever was frozen, compacted, replaced, installed or lost in a restart, a reader of all
\* levels of a LeveledMap sees exactly the map that the first last_applied entries produce.
THEOREM ViewCorrect == Spec => []ViewIsHistory
<1>1. Inv => ViewIsHistory
  <2>1. SUFFICES ASSUME Inv PROVE ViewIsHistory
    OBVIOUS
  <2>2. MapOk
    BY <2>1 DEF Inv
  <2>3. Stack = Levels
    BY <2>2, LevelsFacts
  <2>4. View(Levels) = history[applied + 1]
    BY <2>2 DEF MapOk
  <2>5. QED
    BY <2>3, <2>4 DEF ViewIsHistory, View0
<1>2. QED
  BY <1>1, InvCorrect, PTL

\* MapApiRO::range and get() agree on every key of every LeveledMap that a node reaches, and
\* the assertion in by_key_seq never fails.
THEOREM RangeCorrect == Spec => []RangeIsGet
<1>1. Inv => RangeIsGet
  <2>1. SUFFICES ASSUME Inv PROVE RangeIsGet
    OBVIOUS
  <2>2. MapOk
    BY <2>1 DEF Inv
  <2>3. PICK st : st = Stack
    OBVIOUS
  <2>4. st = Levels /\ Levels \in Seq(LevelType)
    BY <2>2, <2>3, LevelsFacts
  <2>5. Sound(Levels)
    BY <2>2 DEF MapOk
  <2>6. Ordered(st)
    BY <2>4, <2>5 DEF Sound
  <2>7. st \in Seq(LevelType)
    BY <2>4
  <2>8. /\ compacted_range(st) = [k \in Keys(st) |-> compacted_get(st, k)]
        /\ MergeOrderOk(st)
    BY <2>6, <2>7, MergeIsGet
  <2>9. \A k \in Keys(st) : compacted_range(st)[k] = compacted_get(st, k)
    BY <2>8
  <2>10. QED
    BY <2>3, <2>8, <2>9 DEF RangeIsGet
<1>2. QED
  BY <1>1, InvCorrect, PTL

\* do_build_snapshot and install_snapshot: a snapshot in the snapshot directory, or that serves
\* as the persisted level, holds the map of its last_log_id.
THEOREM SnapshotsCorrect == Spec => []SnapshotsAreHistory
<1>1. Inv => SnapshotsAreHistory
  <2>1. SUFFICES ASSUME Inv,
                        NEW db \in disk \cup {persisted[i] : i \in DOMAIN persisted}
                 PROVE  db = Snapshot(db.applied)
    BY DEF SnapshotsAreHistory
  <2>2. MapOk /\ DiskOk
    BY <2>1 DEF Inv
  <2>3. DOMAIN persisted = 1 .. Len(persisted)
    BY <2>2, LenProperties DEF MapOk
  <2>4. IsSnapshot(db)
    BY <2>2, <2>3 DEF MapOk, DiskOk
  <2>5. QED
    BY <2>4 DEF IsSnapshot
<1>2. QED
  BY <1>1, InvCorrect, PTL

\* RaftStoreInner::open after a crash at any point: the last snapshot on disk reaches
\* everything that was purged from the log, so that the node can catch up.
THEOREM RestartCorrect == Spec => []RestartCanCatchUp
<1>1. Inv => RestartCanCatchUp
  <2>1. SUFFICES ASSUME Inv PROVE RestartCanCatchUp
    OBVIOUS
  <2>2. LogOk /\ DiskOk /\ purged \in Nat /\ Covered(purged)
    BY <2>1 DEF Inv, CoverOk
  <2>3. purged <= SnapshotIndex(LastOnDisk)
    BY <2>2, LastCovers
  <2>4. QED
    BY <2>3 DEF RestartCanCatchUp
<1>2. QED
  BY <1>1, InvCorrect, PTL

-----------------------------------------------------------------------------
(* The promise *)

\* The abstract node's reference map is the one that the log is applied to here.
LEMMA SameReference ==
    /\ Promised!FlatEmpty = FlatEmpty
    /\ Promised!Cmds = Cmds
    /\ \A f, cmd : Promised!FlatApply(f, cmd) = FlatApply(f, cmd)
<1>1. Promised!FlatEmpty = FlatEmpty
  BY Zenon DEF FlatEmpty, NoData, NotFound, Tombstone,
     Promised!FlatEmpty, Promised!NoData, Promised!NotFound, Promised!Tombstone
<1>2. Promised!Cmds = Cmds
  BY Zenon DEF Cmds, Promised!Cmds
<1>3. \A f, cmd : Promised!FlatApply(f, cmd) = FlatApply(f, cmd)
  BY Zenon DEF FlatApply, ExpireKeys, Normal,
     Promised!FlatApply, Promised!ExpireKeys, Promised!Normal
<1>4. QED
  BY <1>1, <1>2, <1>3

\* the node shows the map that the applied prefix of the log produces
Shown ==
    /\ View0 = history[applied + 1]
    /\ applied \in 0 .. Len(log)
    /\ applied \in Nat
    /\ Len(log) \in Nat

\* The inductive invariant says what a node shows after each of its steps.
LEMMA ShownIs == Inv => Shown
<1>1. SUFFICES ASSUME Inv PROVE Shown
  OBVIOUS
<1>2. LogOk /\ MapOk
  BY <1>1 DEF Inv
<1>3. Stack = Levels
  BY <1>2, LevelsFacts
<1>4. View0 = history[applied + 1] /\ applied \in 0 .. Len(log)
  BY <1>2, <1>3 DEF MapOk, View0
<1>5. Len(log) \in Nat
  BY <1>2, LenProperties DEF LogOk
<1>6. QED
  BY <1>4, <1>5 DEF Shown

\* A new node shows the empty map, as the abstract one does.
LEMMA PromiseInit ==
    ASSUME Init
    PROVE  Promised!AbsInit
<1>1. applied = 0
  BY NoLevels DEF Init, applied
<1>2. PICK e : e = <<>>
  OBVIOUS
<1>3. PICK w : w = EmptyLevel
  OBVIOUS
<1>4. immutable = e /\ persisted = e /\ writable = w
  BY <1>2, <1>3 DEF Init
<1>5. Inv
  BY InvInit
<1>6. View0 = history[applied + 1] /\ LogOk
  BY <1>5, ShownIs DEF Inv, Shown
<1>7. View0 = FlatEmpty
  BY <1>1, <1>6 DEF LogOk
<1>8. QED
  BY <1>1, <1>7, SameReference DEF Init, Promised!AbsInit

\* Every step of a node is a step of the abstract one or does not show: apply is an
\* application, install_snapshot_v003 a jump forward, open a restart that lands where the
\* stored log still begins, and freezing, compacting, replacing and exporting do not show.
LEMMA PromiseStep ==
    ASSUME Inv, Shown, Shown', [Next]_vars
    PROVE  [Promised!AbsNext]_Promised!absVars
<1>1. /\ View0 = history[applied + 1] /\ applied \in 0 .. Len(log)
      /\ applied \in Nat /\ Len(log) \in Nat
  BY DEF Shown
<1>2. /\ View0' = history'[applied' + 1] /\ applied' \in 0 .. Len(log') /\ applied' \in Nat
  BY DEF Shown
<1>3. LogOk /\ MapOk /\ DiskOk /\ CoverOk /\ InstallOk
  BY DEF Inv
<1>4. CASE Commit
  <2>1. View0' = View0 /\ applied' = applied
    BY <1>4 DEF Commit, mapVars, View0, Stack, applied
  <2>2. Promised!AbsCommit
    BY <1>4, <2>1, SameReference DEF Commit, Promised!AbsCommit
  <2>3. QED
    BY <2>2 DEF Promised!AbsNext
<1>5. CASE Purge
  <2>1. View0' = View0 /\ applied' = applied
    BY <1>5 DEF Purge, mapVars, View0, Stack, applied
  <2>2. raftSnap \in Nat /\ Covered(raftSnap)
    BY <1>3 DEF CoverOk
  <2>3. raftSnap <= Len(log)
    <3>1. CASE raftSnap = 0
      BY <1>1, <3>1
    <3>2. CASE raftSnap # 0
      <4>1. PICK db \in disk : raftSnap <= db.applied
        BY <2>2, <3>2 DEF Covered
      <4>2. db.applied \in 0 .. Len(log)
        BY <1>3, IsSnapshotFacts DEF DiskOk
      <4>3. QED
        BY <1>1, <2>2, <4>1, <4>2
    <3>3. QED
      BY <3>1, <3>2
  <2>4. PICK i \in purged + 1 .. raftSnap : purged' = i
    BY <1>5 DEF Purge
  <2>5. i \in purged + 1 .. Len(log)
    BY <1>1, <1>3, <2>2, <2>3, <2>4 DEF CoverOk
  <2>6. UNCHANGED <<log, history, boot>>
    BY <1>5 DEF Purge, clusterVars
  <2>7. Promised!AbsPurge
    BY <2>1, <2>4, <2>5, <2>6 DEF Promised!AbsPurge
  <2>8. QED
    BY <2>7 DEF Promised!AbsNext
<1>6. CASE Apply
  <2>1. PICK a : a = applied
    OBVIOUS
  <2>2. a \in Nat /\ a < Len(log) /\ a + 1 \in 1 .. Len(log) /\ purged <= a
    BY <1>1, <1>6, <2>1 DEF Apply
  <2>3. applied' = a + 1
    BY <1>6, <2>1 DEF Apply, Level, applied
  <2>4. log' = log /\ history' = history /\ purged' = purged /\ boot' = boot
    BY <1>6 DEF Apply, clusterVars
  <2>5. history[(a + 1) + 1] = FlatApply(history[a + 1], log[a + 1])
    BY <1>3, <2>2 DEF LogOk
  <2>6. View0' = FlatApply(View0, log[a + 1])
    BY <1>1, <1>2, <2>1, <2>3, <2>4, <2>5
  <2>7. View0' = Promised!FlatApply(View0, log[a + 1])
    BY <2>6, SameReference
  <2>8. Promised!AbsApply
    BY <2>1, <2>2, <2>3, <2>4, <2>7 DEF Promised!AbsApply
  <2>9. QED
    BY <2>8 DEF Promised!AbsNext
<1>7. CASE InstallNewer
  <2>1. applied < install[1].applied /\ writable' = NewLevel(install[1])
    BY <1>7 DEF InstallNewer
  <2>2. applied' = install[1].applied
    BY <2>1 DEF NewLevel, Level, applied
  <2>3. log' = log /\ history' = history /\ purged' = purged /\ boot' = boot
    BY <1>7 DEF InstallNewer, clusterVars
  <2>4. applied' \in applied + 1 .. Len(log)
    BY <1>1, <1>2, <2>1, <2>2, <2>3
  <2>5. View0' = history[applied' + 1]
    BY <1>2, <2>3
  <2>6. Promised!AbsInstall
    BY <2>3, <2>4, <2>5 DEF Promised!AbsInstall
  <2>7. QED
    BY <2>6 DEF Promised!AbsNext
<1>8. CASE Restart
  <2>1. log' = log /\ history' = history /\ purged' \in 0 .. purged /\ boot' = ~boot
    BY <1>8 DEF Restart, clusterVars
  <2>2. purged \in Nat /\ purged <= SnapshotIndex(LastOnDisk)
    BY <1>3, LastCovers DEF CoverOk
  <2>3. applied' = SnapshotIndex(LastOnDisk)
    <3>1. writable' = IF LastOnDisk = <<>> THEN EmptyLevel ELSE NewLevel(LastOnDisk[1])
      BY <1>8 DEF Restart
    <3>2. CASE LastOnDisk = <<>>
      BY <3>1, <3>2, NoLevels DEF applied, SnapshotIndex
    <3>3. CASE LastOnDisk # <<>>
      BY <3>1, <3>3 DEF applied, SnapshotIndex, NewLevel, Level
    <3>4. QED
      BY <3>2, <3>3
  <2>4. applied' \in purged .. Len(log)
    BY <1>1, <1>2, <2>1, <2>2, <2>3
  <2>5. View0' = history[applied' + 1]
    BY <1>2, <2>1
  <2>6. Promised!AbsRestart
    BY <2>1, <2>4, <2>5 DEF Promised!AbsRestart
  <2>7. QED
    BY <2>6 DEF Promised!AbsNext
<1>9. CASE UNCHANGED <<log, history, purged, boot, applied>>
  <2>1. View0' = View0
    BY <1>1, <1>2, <1>9
  <2>2. QED
    BY <1>9, <2>1 DEF Promised!absVars
<1>10. CASE \/ InstallMove \/ InstallOlder \/ InstallFail
            \/ BuildAcquire \/ BuildWrite \/ BuildPanic \/ BuildFail \/ BuildClean
            \/ BuildCleanFail \/ ExportTry \/ ExportDump \/ ExportRelease
            \/ UNCHANGED vars
  <2>1. UNCHANGED <<clusterVars, purged, boot, mapVars>>
    BY <1>10, Zenon DEF InstallMove, InstallOlder, InstallFail, BuildAcquire, BuildWrite, BuildPanic,
       BuildFail, BuildClean, BuildCleanFail, ExportTry, ExportDump, ExportRelease, vars
  <2>2. UNCHANGED <<log, history, purged, boot, applied>>
    BY <2>1 DEF clusterVars, mapVars, applied
  <2>3. QED
    BY <1>9, <2>2
<1>11. CASE BuildFreeze \/ BuildReplace
  <2>1. applied' = applied
    <3>1. writable' = NewLevel(writable) \/ writable' = writable
      BY <1>11, Zenon DEF BuildFreeze, BuildReplace
    <3>2. QED
      BY <3>1 DEF NewLevel, Level, applied
  <2>2. UNCHANGED <<log, history, purged, boot>>
    BY <1>11, Zenon DEF BuildFreeze, BuildReplace, clusterVars
  <2>3. QED
    BY <1>9, <2>1, <2>2
<1>12. QED
  BY <1>4, <1>5, <1>6, <1>7, <1>8, <1>10, <1>11 DEF Next

\* A meta-service node, with its levels, snapshots, compactions and crashes, implements the
\* abstract ReplicatedMap.
THEOREM PromiseKept == Spec => KeepsPromise
<1>1. Init => Promised!AbsInit
  BY PromiseInit
<1>2. Inv /\ Shown /\ Shown' /\ [Next]_vars => [Promised!AbsNext]_Promised!absVars
  BY PromiseStep
<1>3. Inv => Shown
  BY ShownIs
<1>4. QED
  BY <1>1, <1>2, <1>3, InvCorrect, PTL DEF Spec, KeepsPromise, Promised!AbsSpec
=============================================================================
