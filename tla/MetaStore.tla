----------------------------- MODULE MetaStore -----------------------------
(***************************************************************************)
(* One meta-service node: the state machine `SMV003` over its LeveledMap,  *)
(* the snapshot builder, the installation of a snapshot received from the  *)
(* leader, the export of a node's data, the log purge, and restarts.       *)
(*                                                                         *)
(* openraft is external.  It commits entries, calls apply and              *)
(* install_snapshot one at a time from one worker, builds at most one      *)
(* snapshot at a time in a task of its own, and purges log entries that a  *)
(* snapshot it was told of covers.  The entries committed by the cluster   *)
(* and the maps the other nodes compute from them are `log` and `history`. *)
(*                                                                         *)
(* A step holds the state machine's write lock from its beginning to its   *)
(* end, except the snapshot builder, which keeps it while it waits for the *)
(* compactor.                                                              *)
(***************************************************************************)
EXTENDS LeveledMap

CONSTANTS
    MaxLog,         \* bound on the committed log
    MaxLevels,      \* no build is started with this many immutable levels
    KeepSnapshots,  \* snapshots clean_old_snapshots keeps, 3 in the code
    Follower,       \* the leader may send this node a snapshot
    MayExport       \* someone may export this node's data

ASSUME MetaStoreAssumption ==
    /\ MaxLog \in Nat
    /\ MaxLevels \in Nat
    /\ KeepSnapshots \in Nat \ {0}
    /\ Follower \in BOOLEAN
    /\ MayExport \in BOOLEAN

VARIABLES
    \* the cluster
    log,         \* committed commands
    history,     \* history[i + 1]: the map after the first i commands
    \* durable state of the node
    purged,      \* the log is stored from here on
    disk,        \* snapshots at their final path
    boot,        \* flips on every restart
    raftSnap,    \* last_log_id of the last snapshot openraft was told of
    \* the LeveledMap
    writable,
    immutable,
    persisted,   \* <<>> or <<db>>
    compactor,   \* who holds the singleton Compactor
    \* the install worker, the snapshot builder and one exporter
    install,     \* <<>> or <<db>>: received and moved to its final path
    build,       \* where the builder is
    lock,        \* the builder keeps the state machine's lock
    taken,       \* the Compactor's own copy: [levels, db]
    export,      \* where the exporter is
    dump         \* what it exported: the snapshot's index and the log's start

clusterVars == <<log, history>>
mapVars     == <<writable, immutable, persisted>>
buildVars   == <<build, lock, taken>>
exportVars  == <<export, dump>>
vars == <<clusterVars, purged, disk, boot, raftSnap, mapVars, compactor, install,
          buildVars, exportVars>>

BuildStates  == {"idle", "wait", "compact", "replace", "clean"}
ExportStates == {"idle", "dump", "release"}

NoCompaction == [levels |-> <<>>, db |-> <<>>]
EmptyLevel   == Level(0, 0, NoData)

Stack   == persisted \o Append(immutable, writable)
View0   == View(Stack)
applied == writable.applied

Snapshot(i) == Level(history[i + 1].seq, i, history[i + 1].data)

\* the snapshot load_last_snapshot would open, <<>> when there is none
LastOnDisk ==
    IF disk = {} THEN <<>>
    ELSE <<CHOOSE db \in disk : \A o \in disk : o.applied <= db.applied>>

SnapshotIndex(db) == IF db = <<>> THEN 0 ELSE db[1].applied

Init ==
    /\ log = <<>> /\ history = <<FlatEmpty>>
    /\ purged = 0 /\ disk = {} /\ boot = FALSE /\ raftSnap = 0
    /\ writable = EmptyLevel /\ immutable = <<>> /\ persisted = <<>>
    /\ compactor = "none"
    /\ install = <<>>
    /\ build = "idle" /\ lock = FALSE /\ taken = NoCompaction
    /\ export = "idle" /\ dump = [snap |-> 0, from |-> 0]

-----------------------------------------------------------------------------
(* openraft *)

Commit ==
    /\ Len(log) < MaxLog
    /\ \E cmd \in Cmds :
          /\ log' = Append(log, cmd)
          /\ history' = Append(history, FlatApply(history[Len(history)], cmd))
    /\ UNCHANGED <<boot, purged, disk, raftSnap, mapVars, compactor, install, buildVars,
                   exportVars>>

\* RaftLogStorage::purge, up to a snapshot openraft knows of
Purge ==
    /\ \E i \in purged + 1 .. raftSnap : purged' = i
    /\ UNCHANGED <<boot, clusterVars, disk, raftSnap, mapVars, compactor, install, buildVars,
                   exportVars>>

-----------------------------------------------------------------------------
(* The state-machine worker *)

\* RaftStateMachine::apply of one entry
Apply ==
    /\ ~lock
    /\ install = <<>>
    /\ purged <= applied
    /\ applied < Len(log)
    /\ LET w == Upsert(persisted \o immutable, writable, log[applied + 1])
       IN  writable' = Level(w.seq, applied + 1, w.data)
    /\ UNCHANGED <<boot, clusterVars, purged, disk, raftSnap, immutable, persisted, compactor,
                   install, buildVars, exportVars>>

\* install_snapshot: the received file is moved to its final path ...
InstallMove ==
    /\ Follower
    /\ install = <<>>
    /\ \E i \in 0 .. Len(log) :
          /\ i > raftSnap
          /\ install' = <<Snapshot(i)>>
          /\ disk' = disk \cup {Snapshot(i)}
    /\ UNCHANGED <<boot, clusterVars, purged, raftSnap, mapVars, compactor, buildVars, exportVars>>

\* Mutant of InstallNewer: last_applied is not compared.
InstallAny ==
    /\ install # <<>>
    /\ ~lock
    /\ writable' = NewLevel(install[1])
    /\ immutable' = <<>>
    /\ persisted' = install
    /\ raftSnap' = install[1].applied
    /\ install' = <<>>
    /\ UNCHANGED <<boot, clusterVars, purged, disk, compactor, buildVars, exportVars>>

\* ... then install_snapshot_v003 replaces the state machine's data ...
InstallNewer ==
    /\ install # <<>>
    /\ ~lock
    /\ applied < install[1].applied
    /\ writable' = NewLevel(install[1])
    /\ immutable' = <<>>
    /\ persisted' = install
    /\ raftSnap' = install[1].applied
    /\ install' = <<>>
    /\ UNCHANGED <<boot, clusterVars, purged, disk, compactor, buildVars, exportVars>>

\* ... unless it has already applied as much
InstallOlder ==
    /\ install # <<>>
    /\ ~lock
    /\ applied >= install[1].applied
    /\ raftSnap' = install[1].applied
    /\ install' = <<>>
    /\ UNCHANGED <<boot, clusterVars, purged, disk, mapVars, compactor, buildVars, exportVars>>

\* the moved file cannot be opened
InstallFail ==
    /\ install # <<>>
    /\ install' = <<>>
    /\ UNCHANGED <<boot, clusterVars, purged, disk, raftSnap, mapVars, compactor, buildVars,
                   exportVars>>

-----------------------------------------------------------------------------
(* The snapshot builder: do_build_snapshot *)

Built == compact(taken.levels, taken.db)

\* freeze_writable, then acquire_compactor, which waits with the lock held
BuildFreeze ==
    /\ build = "idle"
    /\ ~lock
    /\ Len(immutable) < MaxLevels
    /\ immutable' = Append(immutable, writable)
    /\ writable' = NewLevel(writable)
    /\ build' = "wait"
    /\ lock' = TRUE
    /\ UNCHANGED <<boot, clusterVars, purged, disk, raftSnap, persisted, compactor, install,
                   taken, exportVars>>

\* Mutant of BuildAcquire: the lock guard outlives the block it is taken in.
BuildAcquireKeepsLock ==
    /\ build = "wait"
    /\ compactor = "none"
    /\ compactor' = "build"
    /\ taken' = [levels |-> immutable, db |-> persisted]
    /\ build' = "compact"
    /\ UNCHANGED <<boot, clusterVars, purged, disk, raftSnap, mapVars, install, lock,
                   exportVars>>

\* new_compactor, once the previous Compactor is dropped
BuildAcquire ==
    /\ build = "wait"
    /\ compactor = "none"
    /\ compactor' = "build"
    /\ taken' = [levels |-> immutable, db |-> persisted]
    /\ build' = "compact"
    /\ lock' = FALSE
    /\ UNCHANGED <<boot, clusterVars, purged, disk, raftSnap, mapVars, install, exportVars>>

\* compact into a temporary file and move it to its final path
BuildWrite ==
    /\ build = "compact"
    /\ disk' = disk \cup {Built}
    /\ build' = "replace"
    /\ UNCHANGED <<boot, clusterVars, purged, raftSnap, mapVars, compactor, install, lock, taken,
                   exportVars>>

\* replace_with_compacted
BuildReplace ==
    /\ build = "replace"
    /\ ~lock
    /\ Len(taken.levels) <= Len(immutable)
    /\ immutable' = SubSeq(immutable, Len(taken.levels) + 1, Len(immutable))
    /\ persisted' = <<Built>>
    /\ compactor' = "none"
    /\ build' = "clean"
    /\ UNCHANGED <<boot, clusterVars, purged, disk, raftSnap, writable, install, lock, taken,
                   exportVars>>

BuildEnds == build' = "idle" /\ taken' = NoCompaction

\* Vec::split_off panics: the levels were replaced by an installed snapshot
BuildPanic ==
    /\ build = "replace"
    /\ ~lock
    /\ Len(taken.levels) > Len(immutable)
    /\ compactor' = "none"
    /\ BuildEnds
    /\ UNCHANGED <<boot, clusterVars, purged, disk, raftSnap, mapVars, install, lock, exportVars>>

\* an I/O error, while writing or when the moved file is opened, drops the Compactor
BuildFail ==
    /\ build \in {"compact", "replace"}
    /\ compactor' = "none"
    /\ BuildEnds
    /\ UNCHANGED <<boot, clusterVars, purged, disk, raftSnap, mapVars, install, lock, exportVars>>

\* Mutant of BuildClean: the newest snapshots are removed instead of the oldest.
BuildCleanNewest ==
    /\ build = "clean"
    /\ disk' = {db \in disk :
                  Cardinality({o \in disk : o.applied < db.applied}) < KeepSnapshots}
    /\ raftSnap' = IF raftSnap < Built.applied THEN Built.applied ELSE raftSnap
    /\ BuildEnds
    /\ UNCHANGED <<boot, clusterVars, purged, mapVars, compactor, install, lock, exportVars>>

OldSnapshots ==
    {db \in disk : Cardinality({o \in disk : o.applied > db.applied}) >= KeepSnapshots}

\* clean_old_snapshots, and the snapshot is reported to openraft
BuildClean ==
    /\ build = "clean"
    /\ disk' = disk \ OldSnapshots
    /\ raftSnap' = IF raftSnap < Built.applied THEN Built.applied ELSE raftSnap
    /\ BuildEnds
    /\ UNCHANGED <<boot, clusterVars, purged, mapVars, compactor, install, lock, exportVars>>

\* ... which fails when one of the old files, oldest first, cannot be removed
BuildCleanFail ==
    /\ build = "clean"
    /\ \E db \in OldSnapshots : disk' = {o \in disk : o.applied >= db.applied}
    /\ BuildEnds
    /\ UNCHANGED <<boot, clusterVars, purged, raftSnap, mapVars, compactor, install, lock,
                   exportVars>>

-----------------------------------------------------------------------------
(* One exporter: RaftStoreInner::export *)

\* Mutant of ExportTry: it does not look whether the Compactor is in use.
ExportTryAnyway ==
    /\ MayExport
    /\ export = "idle"
    /\ ~lock
    /\ compactor' = "export"
    /\ export' = "dump"
    /\ dump' = [snap |-> SnapshotIndex(persisted), from |-> 0]
    /\ UNCHANGED <<boot, clusterVars, purged, disk, raftSnap, mapVars, install, buildVars>>

\* Mutant of ExportTry: acquire_compactor, which waits with the lock held.
ExportTryBlocks ==
    /\ MayExport
    /\ \/ /\ export = "idle" /\ ~lock /\ compactor # "none"
          /\ export' = "blocked" /\ lock' = TRUE
          /\ UNCHANGED <<compactor, dump>>
       \/ /\ compactor = "none"
          /\ export = "blocked" \/ (export = "idle" /\ ~lock)
          /\ export' = "dump" /\ lock' = FALSE
          /\ compactor' = "export"
          /\ dump' = [snap |-> SnapshotIndex(persisted), from |-> 0]
    /\ UNCHANGED <<boot, clusterVars, purged, disk, raftSnap, mapVars, install, build, taken>>

\* try_acquire_compactor under the lock, retried after a sleep
ExportTry ==
    /\ MayExport
    /\ export = "idle"
    /\ ~lock
    /\ compactor = "none"
    /\ compactor' = "export"
    /\ export' = "dump"
    /\ dump' = [snap |-> SnapshotIndex(persisted), from |-> 0]
    /\ UNCHANGED <<boot, clusterVars, purged, disk, raftSnap, mapVars, install, buildVars>>

ExportDump ==
    /\ export = "dump"
    /\ export' = "release"
    /\ dump' = [snap |-> dump.snap, from |-> purged]
    /\ UNCHANGED <<boot, clusterVars, purged, disk, raftSnap, mapVars, compactor, install, buildVars>>

ExportRelease ==
    /\ export = "release"
    /\ compactor' = "none"
    /\ export' = "idle"
    /\ dump' = [snap |-> 0, from |-> 0]
    /\ UNCHANGED <<boot, clusterVars, purged, disk, raftSnap, mapVars, install, buildVars>>

-----------------------------------------------------------------------------
(* RaftStoreInner::open after a crash; a purge was perhaps not flushed *)

Restart ==
    /\ persisted' = LastOnDisk
    /\ writable' = IF LastOnDisk = <<>> THEN EmptyLevel ELSE NewLevel(LastOnDisk[1])
    /\ immutable' = <<>>
    /\ raftSnap' = SnapshotIndex(LastOnDisk)
    /\ purged' \in 0 .. purged
    /\ boot' = ~boot
    /\ compactor' = "none"
    /\ install' = <<>>
    /\ build' = "idle" /\ lock' = FALSE /\ taken' = NoCompaction
    /\ export' = "idle" /\ dump' = [snap |-> 0, from |-> 0]
    /\ UNCHANGED <<clusterVars, disk>>

-----------------------------------------------------------------------------

Next ==
    \/ Commit \/ Purge
    \/ Apply \/ InstallMove \/ InstallNewer \/ InstallOlder \/ InstallFail
    \/ BuildFreeze \/ BuildAcquire \/ BuildWrite \/ BuildReplace \/ BuildPanic
    \/ BuildFail \/ BuildClean \/ BuildCleanFail
    \/ ExportTry \/ ExportDump \/ ExportRelease
    \/ Restart

Spec == Init /\ [][Next]_vars

\* A task that can run is run, file operations end, and the lock is handed out
\* in the order it was asked for (tokio's RwLock): whoever waits for it while it
\* is free again and again gets it.
Fairness ==
    /\ WF_vars(BuildAcquire)
    /\ WF_vars(BuildWrite)
    /\ SF_vars(BuildReplace \/ BuildPanic)
    /\ WF_vars(BuildClean)
    /\ SF_vars(InstallNewer \/ InstallOlder)
    /\ WF_vars(ExportDump)
    /\ WF_vars(ExportRelease)

FairSpec == Spec /\ Fairness

-----------------------------------------------------------------------------
(* Properties *)

\* Every component of the state is of its kind: tasks are in a known place, the
\* builder keeps the state machine's lock only while it waits for the Compactor,
\* and the Compactor is held by the task that is using it.
TypeOK ==
    /\ log \in Seq(Cmds) /\ Len(history) = Len(log) + 1
    /\ purged \in Nat /\ raftSnap \in Nat /\ boot \in BOOLEAN
    /\ Len(persisted) <= 1 /\ Len(install) <= 1
    /\ build \in BuildStates /\ export \in ExportStates
    /\ lock \in BOOLEAN /\ (lock <=> build = "wait")
    /\ compactor = IF build \in {"compact", "replace"} THEN "build"
                   ELSE IF export \in {"dump", "release"} THEN "export" ELSE "none"
    /\ dump \in [snap : Nat, from : Nat]

\* LeveledMap: whatever was frozen, compacted, replaced, installed or lost in a
\* restart, a reader of all the levels sees exactly the map that the first
\* `last_applied` log entries produce, with the same seq counter.
ViewIsHistory == View0 = history[applied + 1]

\* MapApiRO::range merges the levels by (key, internal_seq) and get() takes the
\* newest level: both find the same entry, and by_key_seq's assertion, that two
\* entries of a key are ordered unless both are tombstones, never fails.
RangeIsGet ==
    /\ MergeOrderOk(Stack)
    /\ \A k \in Keys(Stack) : compacted_range(Stack)[k] = compacted_get(Stack, k)

\* do_build_snapshot: a snapshot that is visible in the snapshot directory, or
\* that serves as the persisted level, holds the map of its last_log_id, though
\* log entries were applied and snapshots installed while it was written.
SnapshotsAreHistory ==
    \A db \in disk \cup {persisted[i] : i \in DOMAIN persisted} :
        db = Snapshot(db.applied)

\* RaftStoreInner::open: after a crash at any point the last snapshot on disk,
\* with the log entries not purged, leads back to every committed entry.
RestartCanCatchUp == purged <= SnapshotIndex(LastOnDisk)

\* The builder waits for the Compactor with the lock held, the exporter holds
\* the Compactor, an installation waits for the lock: all of them come to an end.
BuildSettles == build # "idle" ~> build = "idle"

InstallSettles == install # <<>> ~> install = <<>>
=============================================================================
