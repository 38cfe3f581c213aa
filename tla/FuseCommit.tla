---------------------------- MODULE FuseCommit -----------------------------
(***************************************************************************)
(* How statements commit to one fuse table: optimistic concurrency control *)
(* over the version of the table in the meta service, immutable snapshot   *)
(* and segment files in object storage, the commit sink that generates a   *)
(* snapshot, writes it, swaps it in and retries on a conflict, the segment *)
(* compaction's own commit loop, the record of the files COPY has loaded,  *)
(* and the purge of historical data that follows a commit.                 *)
(*                                                                         *)
(* A statement is a transaction `t` running one program on the table.  It  *)
(* writes at most one segment, named after it, before it commits.          *)
(***************************************************************************)
EXTENDS Naturals, FiniteSets, Bags, SequencesExt

CONSTANTS
    Txn,         \* the statements
    Programs,    \* what a statement may be
    MaxNow,      \* the clocks of the nodes show 1 .. MaxNow
    Delta,       \* how long a transaction may last: stream_block timestamp - snapshot timestamp
    MaxRetries,  \* bound on the retries of a commit
    Transient,   \* the table is transient: every commit purges
    Lossy        \* calls to the meta service may fail

AllPrograms == {"append", "copy", "overwrite", "modify", "replace", "remove", "compact",
                "segcompact", "delete_all", "truncate", "truncate_purge"}

ASSUME FuseCommitAssumption ==
    /\ {"initial", "a", "b"} \intersect Txn = {}
    /\ Programs \subseteq AllPrograms
    /\ MaxNow \in Nat \ {0}
    /\ Delta \in Nat
    /\ MaxRetries \in Nat
    /\ Transient \in BOOLEAN
    /\ Lossy \in BOOLEAN

VARIABLES
    tbl,      \* the table in the meta service: seq, snapshot, schema, change tracking
    copied,   \* the seq of the record of the one file COPY loads, 0: no record
    snaps,    \* the snapshot files in storage
    segs,     \* the segment files in storage, by their writers
    tx,       \* the statements
    chain,    \* history: the snapshots committed
    echoed,   \* history: statements whose applied commit was not acknowledged
    swept     \* history: statements of which a purge removed an uncommitted attempt

vars == <<tbl, copied, snaps, segs, tx, chain, echoed, swept>>

NoId == <<>>
NoSnapshot == [id |-> NoId, ts |-> 0, prev |-> NoId, segs |-> <<>>, summary |-> EmptyBag]
NoTable == [seq |-> 0, snap |-> NoId, schema |-> 0, tracking |-> FALSE]

Segment(by, rows, schema) == [by |-> by, rows |-> rows, schema |-> schema]

RowsOf(segments) == FoldLeft(LAMBDA acc, s : acc (+) s.rows, EmptyBag, segments)

Loaded == [id |-> <<"initial", 0>>, ts |-> 1, prev |-> NoId,
           segs |-> <<Segment("a", SetToBag({"a"}), 0), Segment("b", SetToBag({"b"}), 0)>>,
           summary |-> SetToBag({"a", "b"})]

Idle(p) == [pc |-> "start", prog |-> p, view |-> NoTable, base |-> NoSnapshot, ts |-> 0,
            work |-> FALSE, schema |-> 0, tracking |-> FALSE, snap |-> NoSnapshot, files |-> {},
            record |-> 0, retries |-> 0, resent |-> FALSE, out |-> "none"]

Init ==
    /\ \E s \in {NoSnapshot, Loaded} :
          /\ tbl = [NoTable EXCEPT !.seq = 1, !.snap = s.id]
          /\ snaps = {s} \ {NoSnapshot}
          /\ segs = {seg.by : seg \in Range(s.segs)}
          /\ chain = <<s>>
    /\ copied = 0
    /\ tx \in [Txn -> {Idle(p) : p \in Programs}]
    /\ echoed = {} /\ swept = {}

-----------------------------------------------------------------------------
(* The statements' programs *)

\* do_truncate, do_purge, is_append_only_txn, prev_snapshot_id of CommitSink
IsTruncate(x) == x.prog \in {"truncate", "truncate_purge"}
Purges(x) == x.prog # "segcompact" /\ (Transient \/ x.prog = "truncate_purge")
IsAppend(x) == x.prog \in {"append", "copy", "overwrite", "modify"}
PinsSnapshot(x) == x.base.id # NoId /\ (IsTruncate(x) \/ x.prog = "modify")

Writes(x) == x.prog \in {"append", "copy", "overwrite", "modify", "replace", "compact",
                         "segcompact"}

\* a statement that finds nothing to do commits nothing
HasWork(p, base) ==
    CASE p = "copy" -> copied = 0
      [] p \in {"truncate", "truncate_purge", "delete_all"} -> base.id # NoId
      [] p \in {"replace", "remove", "modify"} -> Len(base.segs) >= 1
      [] p \in {"compact", "segcompact"} -> Len(base.segs) >= 2
      [] OTHER -> TRUE

\* positions of the base snapshot a mutation replaces by its segment, and removes
Replaced(x) == IF x.prog \in {"replace", "compact"} THEN {1} ELSE {}
Removed(x) == CASE x.prog = "remove" -> {1} [] x.prog = "compact" -> {2} [] OTHER -> {}

\* the segment the statement writes before the commit begins
NewRows(t, x) ==
    CASE x.prog = "compact" -> RowsOf(SubSeq(x.base.segs, 1, 2))
      [] x.prog \in {"segcompact", "modify"} -> x.base.summary
      [] OTHER -> SetToBag({t})
NewSegment(t, x) == Segment(t, NewRows(t, x), x.schema)

-----------------------------------------------------------------------------
(* Reading the table *)

\* read_table_snapshot: {} when the file is gone
ReadSnapshot(id) == IF id = NoId THEN {NoSnapshot} ELSE {s \in snaps : s.id = id}

Readable(s) == \A seg \in Range(s.segs) : seg.by \in segs

\* Mutant of After: a snapshot may have the timestamp of the one before.
AfterOrAt(ts, previous) == IF previous.ts > ts THEN previous.ts ELSE ts

\* monotonically_increased_timestamp
After(ts, previous) == IF previous.ts >= ts THEN previous.ts + 1 ELSE ts

-----------------------------------------------------------------------------
(* Generating a snapshot from the latest one, `previous` *)

Position(latest, seg) == SelectLastInSeq(latest, LAMBDA s : s = seg)

\* ConflictResolveContext::is_modified_segments_exists_in_latest
ModifiedExist(x, latest) ==
    \A i \in Replaced(x) \union Removed(x) : Position(latest, x.base.segs[i]) # 0

\* Mutant of MergeSegments: the removed segments stay.
MergeKeepingRemoved(latest, new, replaced, removed) ==
    [i \in DOMAIN latest |-> IF i \in replaced THEN new ELSE latest[i]]

\* ConflictResolveContext::merge_segments
MergeSegments(latest, new, replaced, removed) ==
    LET put  == [i \in DOMAIN latest |-> IF i \in replaced THEN new ELSE latest[i]]
        kept == SetToSortSeq(DOMAIN latest \ removed, <)
    IN  [i \in DOMAIN kept |-> put[kept[i]]]

\* Mutant of AppendOnly: as many segments are taken for the same ones.
LongerIsAppendOnly(base, latest) == Len(latest.segs) >= Len(base.segs)

\* ConflictResolveContext::is_latest_snapshot_append_only
AppendOnly(base, latest) == IsSuffix(base.segs, latest.segs)


Conflicts(x, view, previous) ==
    CASE IsAppend(x) -> view.schema # x.schema
      [] x.prog \in {"replace", "remove", "compact"} -> ~ModifiedExist(x, previous.segs)
      [] x.prog = "segcompact" -> ~AppendOnly(x.base, previous)
      [] OTHER -> FALSE

Segments(t, x, previous) ==
    LET at(positions) == {Position(previous.segs, x.base.segs[i]) : i \in positions}
        new == NewSegment(t, x)
    IN  CASE x.prog \in {"append", "copy"} -> <<new>> \o previous.segs
          [] x.prog \in {"overwrite", "modify"} -> <<new>>
          [] x.prog \in {"replace", "remove", "compact"} ->
                MergeSegments(previous.segs, new, at(Replaced(x)), at(Removed(x)))
          [] x.prog = "segcompact" ->
                SubSeq(previous.segs, 1, Len(previous.segs) - Len(x.base.segs)) \o <<new>>
          [] OTHER -> <<>>

\* the rows of the base snapshot a mutation takes away: removed_statistics
Touched(x) == RowsOf(SubSeq(x.base.segs, 1, Cardinality(Replaced(x) \union Removed(x))))

\* the summary is not computed from the segments: merge_statistics, deduct_statistics
Summary(t, x, previous) ==
    CASE x.prog \in {"append", "copy"} -> NewRows(t, x) (+) previous.summary
      [] x.prog \in {"overwrite", "modify"} -> NewRows(t, x)
      [] x.prog \in {"replace", "compact"} -> (previous.summary (+) NewRows(t, x)) (-) Touched(x)
      [] x.prog = "remove" -> previous.summary (-) Touched(x)
      [] x.prog = "segcompact" ->
            RowsOf(SubSeq(previous.segs, 1, Len(previous.segs) - Len(x.base.segs)))
            (+) x.base.summary
      [] OTHER -> EmptyBag

\* the statement ends; what it no longer needs is forgotten
Ended(x, out) == [Idle(x.prog) EXCEPT !.pc = "done", !.base = x.base, !.work = x.work,
                                            !.out = out]
\* ... once it has noticed
Ends(x, out) == [Ended(x, out) EXCEPT !.pc = "finish"]

\* Mutant of GenerateSnapshot: change tracking is not compared.
GenerateUntracked(t, x, view, previous) ==
    LET ts == After(x.ts, previous)
    IN  IF ts > x.ts + Delta \/ Conflicts(x, view, previous) THEN Ended(x, "aborted")
        ELSE [x EXCEPT !.pc = "write", !.view = view,
                       !.snap = [id |-> <<t, x.retries>>, ts |-> ts, prev |-> previous.id,
                                 segs |-> Segments(t, x, previous),
                                 summary |-> Summary(t, x, previous)]]

\* State::GenerateSnapshot of the sink, an iteration of commit_mutation
GenerateSnapshot(t, x, view, previous) ==
    LET ts       == After(x.ts, previous)
        tracked  == x.prog # "segcompact" /\ ~IsAppend(x) /\ ~x.tracking /\ view.tracking
        too_late == ts > x.ts + Delta
    IN  IF tracked \/ too_late \/ Conflicts(x, view, previous) THEN Ended(x, "aborted")
        ELSE [x EXCEPT !.pc = "write", !.view = view,
                       !.snap = [id |-> <<t, x.retries>>, ts |-> ts, prev |-> previous.id,
                                 segs |-> Segments(t, x, previous),
                                 summary |-> Summary(t, x, previous)]]

-----------------------------------------------------------------------------
(* The steps of a statement *)

Become(t, x) == tx' = [tx EXCEPT ![t] = x]

\* It reads the table, or fails if it cannot, fixes its timestamps and writes its segment.
Begin(t, now, base) ==
    LET view == IF tx[t].prog = "modify" THEN [tbl EXCEPT !.schema = @ + 1] ELSE tbl
        x == [tx[t] EXCEPT !.pc = "fill", !.view = view, !.base = base, !.ts = After(now, base),
                           !.schema = view.schema, !.tracking = tbl.tracking,
                           !.work = HasWork(tx[t].prog, base)]
    IN  /\ x.prog = "modify" => x.work
        /\ Become(t, IF x.work THEN x ELSE Ends(x, "ok"))
        /\ segs' = IF x.work /\ Writes(x) THEN segs \union {t} ELSE segs

Start(t) ==
    /\ tx[t].pc = "start"
    /\ LET bases == {base \in ReadSnapshot(tbl.snap) : Readable(base)}
       IN  IF bases # {} THEN \E now \in 1 .. MaxNow, base \in bases : Begin(t, now, base)
           ELSE /\ Become(t, [Ended(tx[t], "error") EXCEPT !.pc = "failed"])
                /\ UNCHANGED segs
    /\ UNCHANGED <<tbl, copied, snaps, chain, echoed, swept>>

\* State::FillDefault, then State::GenerateSnapshot: the sink reads the snapshot it started from
FillDefault(t) ==
    /\ tx[t].pc = "fill" /\ tx[t].prog # "segcompact"
    /\ LET x == tx[t]
           previous == ReadSnapshot(x.view.snap)
       IN  Become(t, IF previous = {} THEN Ended(x, "error")
                     ELSE IF PinsSnapshot(x) /\ previous # {x.base} THEN Ended(x, "aborted")
                     ELSE GenerateSnapshot(t, x, x.view, CHOOSE s \in previous : TRUE))
    /\ UNCHANGED <<tbl, copied, snaps, segs, chain, echoed, swept>>

\* commit_mutation starts from the snapshot the compaction has read
CommitMutation(t) ==
    /\ tx[t].pc = "fill" /\ tx[t].prog = "segcompact"
    /\ Become(t, GenerateSnapshot(t, tx[t], tx[t].view, tx[t].base))
    /\ UNCHANGED <<tbl, copied, snaps, segs, chain, echoed, swept>>

\* State::TryCommit, commit_to_meta_server: the snapshot file is written first
WriteSnapshot(t) ==
    /\ tx[t].pc = "write"
    /\ snaps' = snaps \union {tx[t].snap}
    /\ Become(t, [tx[t] EXCEPT !.pc = "meta"])
    /\ UNCHANGED <<tbl, copied, segs, chain, echoed, swept>>

-----------------------------------------------------------------------------
(* update_multi_table_meta: the table's seq must still be the one the statement read, *)
(* and a file COPY loads must have no record yet.                                     *)

SeqMatches(x) == tbl.seq = x.view.seq

\* Mutant of FileIsNew: the transaction has no condition on the files.
FileMayExist(x) == TRUE

FileIsNew(x) == x.prog = "copy" => copied = 0

Swap(t) ==
    LET x == tx[t]
        seq == tbl.seq + 1
    IN  /\ SeqMatches(x) /\ FileIsNew(x)
        /\ tbl' = [x.view EXCEPT !.seq = seq, !.snap = x.snap.id]
        /\ copied' = IF x.prog = "copy" THEN seq ELSE copied
        /\ chain' = Append(chain, x.snap)

\* the sink's steps after a commit: truncate_table, the purge, State::Finish
Committed(x) ==
    CASE IsTruncate(x) -> [x EXCEPT !.pc = "list", !.snap = NoSnapshot]
      [] ~IsTruncate(x) /\ Purges(x) -> [x EXCEPT !.pc = "latest", !.snap = NoSnapshot]
      [] OTHER -> Ends(x, "ok")

CommitAcknowledged(t) ==
    /\ tx[t].pc = "meta"
    /\ Swap(t)
    /\ Become(t, Committed(tx[t]))
    /\ UNCHANGED <<snaps, segs, echoed, swept>>

\* MetaGrpcClient::transaction: a call that failed with a retryable status is sent once more;
\* any other failure reaches the statement, which aborts nothing
CallFailed(t) ==
    \/ ~tx[t].resent /\ Become(t, [tx[t] EXCEPT !.resent = TRUE])
    \/ Become(t, Ends(tx[t], "error"))

CommitNotAcknowledged(t) ==
    /\ Lossy /\ tx[t].pc = "meta"
    /\ Swap(t)
    /\ CallFailed(t)
    /\ echoed' = echoed \union {t}
    /\ UNCHANGED <<snaps, segs, swept>>

RequestLost(t) ==
    /\ Lossy /\ tx[t].pc = "meta"
    /\ CallFailed(t)
    /\ UNCHANGED <<tbl, copied, snaps, segs, chain, echoed, swept>>

\* TableVersionMismatched: recoverable unless the statement is bound to the snapshot it read;
\* the backoff may be exhausted
Refused(t) ==
    /\ tx[t].pc = "meta"
    /\ ~SeqMatches(tx[t])
    /\ LET x == tx[t]
       IN  \/ PinsSnapshot(x) /\ Become(t, Ended(x, "error"))
           \/ ~PinsSnapshot(x) /\ Become(t, Ended(x, "aborted"))
           \/ /\ ~PinsSnapshot(x) /\ x.retries < MaxRetries
              /\ Become(t, [x EXCEPT !.pc = "refresh", !.retries = @ + 1, !.resent = FALSE,
                                     !.snap = NoSnapshot])
    /\ UNCHANGED <<tbl, copied, snaps, segs, chain, echoed, swept>>

\* MultiStmtTxnCommitFailed
FileAlreadyLoaded(t) ==
    /\ tx[t].pc = "meta"
    /\ SeqMatches(tx[t]) /\ ~FileIsNew(tx[t])
    /\ Become(t, Ended(tx[t], "error"))
    /\ UNCHANGED <<tbl, copied, snaps, segs, chain, echoed, swept>>

\* State::RefreshTable and the next State::GenerateSnapshot, or commit_mutation's
RefreshTable(t) ==
    /\ tx[t].pc = "refresh"
    /\ LET previous == ReadSnapshot(tbl.snap)
       IN  Become(t, IF previous = {} THEN Ended(tx[t], "error")
                     ELSE GenerateSnapshot(t, tx[t], tbl, CHOOSE s \in previous : TRUE))
    /\ UNCHANGED <<tbl, copied, snaps, segs, chain, echoed, swept>>

-----------------------------------------------------------------------------
(* truncate_table: the records of the copied files are listed, then deleted by their seq *)

TruncateList(t) ==
    /\ tx[t].pc = "list"
    /\ Become(t, [tx[t] EXCEPT !.pc = "unlist", !.record = copied])
    /\ UNCHANGED <<tbl, copied, snaps, segs, chain, echoed, swept>>

TruncateDelete(t) ==
    /\ tx[t].pc = "unlist"
    /\ copied' = IF copied = tx[t].record THEN 0 ELSE copied
    /\ Become(t, IF Purges(tx[t]) THEN [tx[t] EXCEPT !.pc = "latest", !.record = 0]
                 ELSE Ends(tx[t], "ok"))
    /\ UNCHANGED <<tbl, snaps, segs, chain, echoed, swept>>

-----------------------------------------------------------------------------
(* The purge of historical data *)

PurgeRefresh(t) ==
    /\ tx[t].pc = "latest"
    /\ Become(t, [tx[t] EXCEPT !.pc = "files", !.view = tbl])
    /\ UNCHANGED <<tbl, copied, snaps, segs, chain, echoed, swept>>

\* list_snapshot_files
PurgeList(t) ==
    /\ tx[t].pc = "files"
    /\ Become(t, [tx[t] EXCEPT !.pc = "purge", !.files = {s.id : s \in snaps}])
    /\ UNCHANGED <<tbl, copied, snaps, segs, chain, echoed, swept>>

\* Mutant of Historical: the timestamp of the root is not compared.
HistoricalOrNewer(x, root) == {s \in snaps : s.id \in x.files /\ s # root}

\* the listed snapshots older than the root, as far as they still exist
Historical(x, root) == {s \in snaps : s.id \in x.files /\ s.ts < root.ts}

SegmentsOf(ss) == UNION {Range(s.segs) : s \in ss}

\* do_purge, keeping the last snapshot: historical snapshots go, and with them the segments the
\* root does not use.  A root that cannot be read ends the purge; its errors are ignored.
Purge(t) ==
    /\ tx[t].pc = "purge"
    /\ LET roots == {s \in ReadSnapshot(tx[t].view.snap) : Readable(s)}
           old   == UNION {Historical(tx[t], root) : root \in roots}
           used  == SegmentsOf(roots)
       IN  /\ segs' = segs \ {seg.by : seg \in SegmentsOf(old) \ used}
           /\ snaps' = snaps \ old
           /\ swept' = swept \union {s.id[1] : s \in old \ Range(chain)}
    /\ Become(t, Ends(tx[t], "ok"))
    /\ UNCHANGED <<tbl, copied, chain, echoed>>

-----------------------------------------------------------------------------

Finish(t) ==
    /\ tx[t].pc = "finish"
    /\ Become(t, [tx[t] EXCEPT !.pc = "done"])
    /\ UNCHANGED <<tbl, copied, snaps, segs, chain, echoed, swept>>

\* ALTER TABLE ... SET OPTIONS(change_tracking), CREATE STREAM: upsert_table_option
EnableTracking ==
    /\ ~tbl.tracking
    /\ tbl' = [tbl EXCEPT !.tracking = TRUE, !.seq = @ + 1]
    /\ UNCHANGED <<copied, snaps, segs, tx, chain, echoed, swept>>

Statement(t) ==
    \/ Start(t) \/ FillDefault(t) \/ CommitMutation(t) \/ WriteSnapshot(t)
    \/ CommitAcknowledged(t) \/ CommitNotAcknowledged(t) \/ RequestLost(t) \/ Refused(t)
    \/ FileAlreadyLoaded(t) \/ RefreshTable(t) \/ TruncateList(t) \/ TruncateDelete(t)
    \/ PurgeRefresh(t) \/ PurgeList(t) \/ Purge(t) \/ Finish(t)

Next == EnableTracking \/ \E t \in Txn : Statement(t)

Spec == Init /\ [][Next]_vars

-----------------------------------------------------------------------------
(* Properties *)

Current == chain[Len(chain)]

PCs == {"start", "failed", "fill", "write", "meta", "refresh", "list", "unlist", "latest",
        "files", "purge", "finish", "done"}

\* Shapes of the variables; the table's snapshot is the last one committed.
TypeOK ==
    /\ tbl.seq \in Nat /\ tbl.tracking \in BOOLEAN /\ tbl.snap = Current.id
    /\ copied \in 0 .. tbl.seq
    /\ segs \subseteq Txn \union {"a", "b"}
    /\ echoed \subseteq Txn /\ swept \subseteq Txn \union {"initial"}
    /\ \A t \in Txn : /\ tx[t].pc \in PCs
                      /\ tx[t].retries \in 0 .. MaxRetries
                      /\ tx[t].out \in {"none", "ok", "aborted", "error"}
                      /\ tx[t].pc \in {"finish", "done", "failed"} <=> tx[t].out # "none"

Commits(t) == Cardinality({i \in DOMAIN chain : chain[i].id \in {t} \X Nat})

\* The statistics of a snapshot, merged and deducted along with the segments by the generators
\* and recomputed by merge_with_base, count exactly the rows of its segments, whatever the
\* statement was merged with (but for a table a resent commit has duplicated a segment in).
SummaryMatchesSegments ==
    (\A t \in Txn : Commits(t) <= 1) => Current.summary = RowsOf(Current.segs)

\* The commits form one history: each snapshot names the one it was built on as its predecessor
\* and has a later timestamp (TableSnapshot::try_new), although the clocks of the nodes that
\* stamp them need not agree.  Time travel and the purge walk this history by its timestamps.
HistoryIsAChain ==
    \A i \in 2 .. Len(chain) : /\ chain[i].prev = chain[i - 1].id
                               /\ chain[i].ts > chain[i - 1].ts

\* The table can be read: its snapshot file is in storage, and its segments are, but for those of
\* a statement whose earlier attempt a purge has collected or whose commit went unacknowledged.
CurrentIsReadable ==
    /\ TypeOK
    /\ tbl.snap # NoId => Current \in snaps
    /\ \A seg \in Range(Current.segs) : seg.by \in segs \union swept \union echoed


\* A statement that rewrites or deletes rows and that started before change tracking was enabled
\* does not commit after it: the stream columns of its blocks would be missing.
TrackedFromTheStart ==
    [][\A t \in Txn : /\ tbl'.snap # tbl.snap /\ tbl'.snap \in {t} \X Nat
                      /\ ~IsAppend(tx[t]) /\ tx[t].prog # "segcompact"
                      => (tbl'.tracking => tx[t].tracking)]_vars

Live(t) == BagIn(t, Current.summary)

\* Two COPY statements that race for one file do not both load it (the condition on the record of
\* the file in update_multi_table_meta), as long as no TRUNCATE, which deletes the records in a
\* call of its own, runs beside them.
LoadedOnceWithoutTruncate ==
    (\A t \in Txn : ~IsTruncate(tx[t])) =>
        \A t, u \in Txn :
            t # u /\ tx[t].prog = "copy" /\ tx[u].prog = "copy" => ~(Live(t) /\ Live(u))
=============================================================================
