----------------------------- MODULE TableLock -----------------------------
(***************************************************************************)
(* Distributed table locks of the query service: `LockManager::try_lock`,  *)
(* `LockHolder::try_acquire_lock`, the background extender spawned by      *)
(* `LockHolder::start`, and the four lock operations of the schema API     *)
(* that keep one key per requested revision in the meta service.           *)
(*                                                                         *)
(* A session asks for one lock and is identified with the LockHolder it    *)
(* creates.  Time is abstracted: sleeping, timing out and the expiry of a  *)
(* key are steps that may happen whenever the code allows them.            *)
(***************************************************************************)
EXTENDS Naturals, FiniteSets

CONSTANTS
    Sessions,     \* lock requests, one LockHolder each
    Tables,       \* lockable tables
    TableOf,      \* the table every session wants to lock
    ExtendBound,  \* no extension is started once the meta seq is this large
    MaxRetry      \* failed extensions an extender tolerates (max_retry_elapsed)

ASSUME TableLockAssumption ==
    /\ TableOf \in [Sessions -> Tables]
    /\ ExtendBound \in Nat
    /\ MaxRetry \in Nat

VARIABLES
    \* the meta service
    locks,     \* lock keys present: [table, rev, seq]
    idSeq,     \* seq of the key IdGenerator::table_lock_id(), 0 when absent
    seq,       \* the meta service's global seq counter
    \* the task running try_lock, one per session
    pc,        \* where it is
    read,      \* the seq read by the read-then-transact loop it is in, else 0
    rev,       \* the revision obtained, 0 before that
    prev,      \* prev_revision it queues behind
    fired,     \* a delete event for prev is in its watch stream
    \* the background extender, one per session
    bg,        \* where it is
    bgRead,    \* seq read by the extension in progress, else 0
    bgTry,     \* failed attempts of the extension in progress
    shutdown,  \* LockHolder::shutdown_flag
    killed,    \* the query was force-killed by its extender
    \* LockManager
    active,    \* revisions in active_locks
    unlocks    \* revisions sent to the unlock channel, not yet received

metaVars == <<locks, idSeq, seq>>
taskVars == <<pc, read, rev, prev>>
bgVars   == <<bg, bgRead, bgTry, killed>>
mgrVars  == <<active, unlocks>>
vars     == <<metaVars, taskVars, fired, bgVars, shutdown, mgrVars>>

LockRecord == [table : Tables, rev : Nat, seq : Nat]

PcStates == {"createGet", "createTxn", "list", "acqGet", "acqCas", "watch",
             "get", "wait", "held", "released", "failed", "crashed"}

BgStates == {"none", "sleep", "extGet", "extCas", "backoff", "delete", "ended"}

Init ==
    /\ locks = {}
    /\ idSeq = 0
    /\ seq = 0
    /\ pc = [s \in Sessions |-> "createGet"]
    /\ read = [s \in Sessions |-> 0]
    /\ rev = [s \in Sessions |-> 0]
    /\ prev = [s \in Sessions |-> 0]
    /\ fired = [s \in Sessions |-> FALSE]
    /\ bg = [s \in Sessions |-> "none"]
    /\ bgRead = [s \in Sessions |-> 0]
    /\ bgTry = [s \in Sessions |-> 0]
    /\ shutdown = [s \in Sessions |-> FALSE]
    /\ killed = [s \in Sessions |-> FALSE]
    /\ active = {}
    /\ unlocks = {}

----------------------------------------------------------------------------
(* The lock keys as the meta service sees them.                            *)

\* list_lock_revisions: the revisions under the table's prefix.
Revisions(t) == {l.rev : l \in {k \in locks : k.table = t}}

\* The key of a session's revision (one element, or none when it is gone).
KeyOf(s) == {l \in locks : l.table = TableOf[s] /\ l.rev = rev[s]}

\* The key a session watches.
PrevKey(s) == {l \in locks : l.table = TableOf[s] /\ l.rev = prev[s]}

\* Mutant of PutNew: the id generator is not rewritten.
PutNewNoId(s) ==
    /\ seq' = seq + 1
    /\ locks' = locks \cup {[table |-> TableOf[s], rev |-> read[s] + 1, seq |-> seq + 1]}
    /\ UNCHANGED idSeq

\* The put of the lock key, and of the id generator, by create_lock_revision:
\* every put takes the next global seq.
PutNew(s) ==
    /\ idSeq' = seq + 1
    /\ seq' = seq + 2
    /\ locks' = locks \cup {[table |-> TableOf[s], rev |-> read[s] + 1, seq |-> seq + 2]}

\* Mutant of CreateCond: the id generator's seq is not compared.
CreateCondStale(s) ==
    \A l \in locks : ~(l.table = TableOf[s] /\ l.rev = read[s] + 1)

\* The conditions of create_lock_revision's transaction.
CreateCond(s) ==
    /\ idSeq = read[s]
    /\ \A l \in locks : ~(l.table = TableOf[s] /\ l.rev = read[s] + 1)

\* crud_update_existing: the key must still have the seq that was read.
SeqMatches(s, found) == \E l \in KeyOf(s) : l.seq = found

\* crud_update_existing: rewrite the key with a new TTL, under a new seq.
PutExisting(s) ==
    /\ seq' = seq + 1
    /\ locks' = (locks \ KeyOf(s))
                   \cup {[table |-> l.table, rev |-> l.rev, seq |-> seq + 1] : l \in KeyOf(s)}
    /\ UNCHANGED idSeq

\* Mutant of Remove: deletions send no event to the watchers.
RemoveSilently(gone) ==
    /\ locks' = locks \ gone
    /\ UNCHANGED <<idSeq, seq, fired>>

\* Deleting keys, by request or by expiry, puts a delete event into the
\* stream of every watcher of one of them.
Remove(gone) ==
    /\ locks' = locks \ gone
    /\ fired' = [s \in Sessions |->
                    \/ fired[s]
                    \/ pc[s] \in {"get", "wait"} /\ PrevKey(s) \cap gone # {}]
    /\ UNCHANGED <<idSeq, seq>>

----------------------------------------------------------------------------
(* The task running try_lock.                                              *)

Goto(s, where) == pc' = [pc EXCEPT ![s] = where]

\* Go on with the locals of the loop iteration (the seq read, the revision
\* watched, the watch stream) out of scope.
Leave(s, where) ==
    /\ Goto(s, where)
    /\ read' = [read EXCEPT ![s] = 0]
    /\ prev' = [prev EXCEPT ![s] = 0]
    /\ fired' = [fired EXCEPT ![s] = FALSE]

\* Mutant of Fail: the error path forgets to shut the holder down.
FailNoShutdown(s) == Leave(s, "failed") /\ UNCHANGED shutdown

\* try_lock: the error path shuts the holder down.
Fail(s) ==
    /\ Leave(s, "failed")
    /\ shutdown' = [shutdown EXCEPT ![s] = TRUE]

\* create_lock_revision, first half of the loop: read the id generator's seq.
CreateGet(s) ==
    /\ pc[s] = "createGet"
    /\ read' = [read EXCEPT ![s] = idSeq]
    /\ Goto(s, "createTxn")
    /\ UNCHANGED <<metaVars, rev, prev, fired, bgVars, shutdown, mgrVars>>

\* create_lock_revision, second half: the transaction; on success `start`
\* spawns the extender, otherwise the loop retries.
CreateTxn(s) ==
    /\ pc[s] = "createTxn"
    /\ CreateCond(s)
    /\ PutNew(s)
    /\ rev' = [rev EXCEPT ![s] = read[s] + 1]
    /\ bg' = [bg EXCEPT ![s] = "sleep"]
    /\ Leave(s, "list")
    /\ UNCHANGED <<bgRead, bgTry, killed, shutdown, mgrVars>>

CreateConflict(s) ==
    /\ pc[s] = "createTxn"
    /\ ~CreateCond(s)
    /\ Leave(s, "createGet")
    /\ UNCHANGED <<metaVars, rev, bgVars, shutdown, mgrVars>>

\* The reply of a successful transaction is lost: the key exists, but nobody
\* knows its revision and no extender runs.
CreateLost(s) ==
    /\ pc[s] = "createTxn"
    /\ CreateCond(s)
    /\ PutNew(s)
    /\ Fail(s)
    /\ UNCHANGED <<rev, bgVars, mgrVars>>

\* A call to the meta service that changes nothing returns an error.
RpcError(s) ==
    /\ pc[s] \in {"createGet", "createTxn", "list", "acqGet", "acqCas", "watch", "get"}
    /\ Fail(s)
    /\ UNCHANGED <<metaVars, rev, bgVars, mgrVars>>

\* Listing the revisions and deciding on the position of the own one.  It is
\* missing: TableLockExpired.
ListExpired(s) ==
    /\ pc[s] = "list"
    /\ rev[s] \notin Revisions(TableOf[s])
    /\ Fail(s)
    /\ UNCHANGED <<metaVars, rev, bgVars, mgrVars>>

\* It is at position 0: go on to acquire the lock.
ListFirst(s) ==
    /\ pc[s] = "list"
    /\ rev[s] \in Revisions(TableOf[s])
    /\ \A r \in Revisions(TableOf[s]) : rev[s] <= r
    /\ Leave(s, "acqGet")
    /\ UNCHANGED <<metaVars, rev, bgVars, shutdown, mgrVars>>

\* It is behind p, its predecessor in the sorted list.
Behind(s, p) ==
    LET revs == Revisions(TableOf[s])
    IN  /\ {p, rev[s]} \subseteq revs
        /\ p < rev[s]
        /\ \A r \in revs : r <= p \/ rev[s] <= r

\* The caller does not want to wait (!should_retry), or waited long enough.
ListGiveUp(s) ==
    /\ pc[s] = "list"
    /\ \E p \in Revisions(TableOf[s]) : Behind(s, p)
    /\ Fail(s)
    /\ UNCHANGED <<metaVars, rev, bgVars, mgrVars>>

ListQueue(s) ==
    /\ pc[s] = "list"
    /\ \E p \in Revisions(TableOf[s]) :
          Behind(s, p) /\ prev' = [prev EXCEPT ![s] = p]
    /\ Goto(s, "watch")
    /\ UNCHANGED <<metaVars, read, rev, fired, bgVars, shutdown, mgrVars>>

\* The watch is registered before the watched key is read.
WatchPrev(s) ==
    /\ pc[s] = "watch"
    /\ Goto(s, "get")
    /\ UNCHANGED <<metaVars, read, rev, prev, fired, bgVars, shutdown, mgrVars>>

\* Mutant of GetPrev: wait without looking whether the key still exists.
GetPrevUnchecked(s) ==
    /\ pc[s] = "get"
    /\ Goto(s, "wait")
    /\ UNCHANGED <<metaVars, read, rev, prev, fired, bgVars, shutdown, mgrVars>>

\* The watched key is read: gone already, or to be waited for.
GetPrevGone(s) ==
    /\ pc[s] = "get"
    /\ PrevKey(s) = {}
    /\ Leave(s, "list")
    /\ UNCHANGED <<metaVars, rev, bgVars, shutdown, mgrVars>>

GetPrev(s) ==
    /\ pc[s] = "get"
    /\ PrevKey(s) # {}
    /\ Goto(s, "wait")
    /\ UNCHANGED <<metaVars, read, rev, prev, fired, bgVars, shutdown, mgrVars>>

\* The delete event arrives.
Wake(s) ==
    /\ pc[s] = "wait"
    /\ fired[s]
    /\ Leave(s, "list")
    /\ UNCHANGED <<metaVars, rev, bgVars, shutdown, mgrVars>>

\* The watch stream ends or fails: `while let Some(Ok(_))` leaves the loop too.
StreamEnd(s) ==
    /\ pc[s] = "wait"
    /\ Leave(s, "list")
    /\ UNCHANGED <<metaVars, rev, bgVars, shutdown, mgrVars>>

WatchTimeout(s) ==
    /\ pc[s] = "wait"
    /\ Fail(s)
    /\ UNCHANGED <<metaVars, rev, bgVars, mgrVars>>

\* extend_lock_revision(acquire_lock = true): read the key ...
AcquireGet(s) ==
    /\ pc[s] = "acqGet"
    /\ \E l \in KeyOf(s) : read' = [read EXCEPT ![s] = l.seq]
    /\ Goto(s, "acqCas")
    /\ UNCHANGED <<metaVars, rev, prev, fired, bgVars, shutdown, mgrVars>>

AcquireExpired(s) ==
    /\ pc[s] = "acqGet"
    /\ KeyOf(s) = {}
    /\ Fail(s)
    /\ UNCHANGED <<metaVars, rev, bgVars, mgrVars>>

\* ... and write it back if it is unchanged; then insert_lock.
AcquireCas(s) ==
    /\ pc[s] = "acqCas"
    /\ SeqMatches(s, read[s])
    /\ PutExisting(s)
    /\ active' = active \cup {rev[s]}
    /\ Leave(s, "held")
    /\ UNCHANGED <<rev, bgVars, shutdown, unlocks>>

AcquireConflict(s) ==
    /\ pc[s] = "acqCas"
    /\ ~SeqMatches(s, read[s])
    /\ Leave(s, "acqGet")
    /\ UNCHANGED <<metaVars, rev, bgVars, shutdown, mgrVars>>

\* The write is applied but its reply is lost: try_lock fails.
AcquireLost(s) ==
    /\ pc[s] = "acqCas"
    /\ SeqMatches(s, read[s])
    /\ PutExisting(s)
    /\ Fail(s)
    /\ UNCHANGED <<rev, bgVars, mgrVars>>

----------------------------------------------------------------------------
(* LockGuard::drop and the task of LockManager::init.                      *)

Release(s) ==
    /\ pc[s] = "held"
    /\ Goto(s, "released")
    /\ unlocks' = unlocks \cup {rev[s]}
    /\ UNCHANGED <<metaVars, read, rev, prev, fired, bgVars, shutdown, active>>

ReceiveUnlock(r) ==
    /\ r \in unlocks
    /\ unlocks' = unlocks \ {r}
    /\ active' = active \ {r}
    /\ shutdown' = [s \in Sessions |-> shutdown[s] \/ (r \in active /\ rev[s] = r)]
    /\ UNCHANGED <<metaVars, taskVars, fired, bgVars>>

----------------------------------------------------------------------------
(* The background extender spawned by `start`.                             *)

\* The sleep ends, or the shutdown notification interrupts it; either way the
\* flag decides: extend once more, or leave both loops and delete the key.
BgWake(s) ==
    /\ bg[s] \in {"sleep", "backoff"}
    /\ ~shutdown[s]
    /\ seq < ExtendBound \/ KeyOf(s) = {} \/ bg[s] = "backoff"
    /\ bg' = [bg EXCEPT ![s] = "extGet"]
    /\ UNCHANGED <<metaVars, taskVars, fired, bgRead, bgTry, killed, shutdown, mgrVars>>

BgShutdown(s) ==
    /\ bg[s] \in {"sleep", "backoff"}
    /\ shutdown[s]
    /\ bg' = [bg EXCEPT ![s] = "delete"]
    /\ UNCHANGED <<metaVars, taskVars, fired, bgRead, bgTry, killed, shutdown, mgrVars>>

\* extend_lock_revision(acquire_lock = false): read the key ...
BgExtendGet(s) ==
    /\ bg[s] = "extGet"
    /\ \E l \in KeyOf(s) : bgRead' = [bgRead EXCEPT ![s] = l.seq]
    /\ bg' = [bg EXCEPT ![s] = "extCas"]
    /\ UNCHANGED <<metaVars, taskVars, fired, bgTry, killed, shutdown, mgrVars>>

\* Mutant of BgExtendCas: a blind put instead of a conditional one.
BgExtendBlind(s) ==
    /\ bg[s] = "extCas"
    /\ seq' = seq + 1
    /\ locks' = (locks \ KeyOf(s))
                   \cup {[table |-> TableOf[s], rev |-> rev[s], seq |-> seq + 1]}
    /\ bg' = [bg EXCEPT ![s] = "sleep"]
    /\ bgRead' = [bgRead EXCEPT ![s] = 0]
    /\ bgTry' = [bgTry EXCEPT ![s] = 0]
    /\ UNCHANGED <<idSeq, taskVars, fired, killed, shutdown, mgrVars>>

\* ... and write it back if it is unchanged, or read it again.
BgExtendCas(s) ==
    /\ bg[s] = "extCas"
    /\ SeqMatches(s, bgRead[s])
    /\ PutExisting(s)
    /\ bg' = [bg EXCEPT ![s] = "sleep"]
    /\ bgRead' = [bgRead EXCEPT ![s] = 0]
    /\ bgTry' = [bgTry EXCEPT ![s] = 0]
    /\ UNCHANGED <<taskVars, fired, killed, shutdown, mgrVars>>

BgExtendConflict(s) ==
    /\ bg[s] = "extCas"
    /\ ~SeqMatches(s, bgRead[s])
    /\ bg' = [bg EXCEPT ![s] = "extGet"]
    /\ bgRead' = [bgRead EXCEPT ![s] = 0]
    /\ UNCHANGED <<metaVars, taskVars, fired, bgTry, killed, shutdown, mgrVars>>

\* The extension failed for good: kill the query and stop, without deleting.
BgKill(s) ==
    /\ killed' = [killed EXCEPT ![s] = TRUE]
    /\ bg' = [bg EXCEPT ![s] = "ended"]
    /\ bgRead' = [bgRead EXCEPT ![s] = 0]
    /\ bgTry' = [bgTry EXCEPT ![s] = 0]


\* The key is missing: TableLockExpired, which is not retried.
BgExtendExpired(s) ==
    /\ bg[s] = "extGet"
    /\ KeyOf(s) = {}
    /\ BgKill(s)
    /\ UNCHANGED <<metaVars, taskVars, fired, shutdown, mgrVars>>

\* A call fails with some other error; its write may have been applied.
BgRpcError(s) ==
    \/ bg[s] \in {"extGet", "extCas"} /\ UNCHANGED metaVars
    \/ bg[s] = "extCas" /\ SeqMatches(s, bgRead[s]) /\ PutExisting(s)

BgExtendRetry(s) ==
    /\ BgRpcError(s)
    /\ bgTry[s] < MaxRetry
    /\ bgTry' = [bgTry EXCEPT ![s] = @ + 1]
    /\ bgRead' = [bgRead EXCEPT ![s] = 0]
    /\ bg' = [bg EXCEPT ![s] = "backoff"]
    /\ UNCHANGED <<taskVars, fired, killed, shutdown, mgrVars>>

\* max_retry_elapsed is used up: OCCRetryFailure.
BgExtendGiveUp(s) ==
    /\ BgRpcError(s)
    /\ bgTry[s] = MaxRetry
    /\ BgKill(s)
    /\ UNCHANGED <<taskVars, fired, shutdown, mgrVars>>

\* try_delete_lock: delete the key; the reply may be lost, which repeats it.
BgDelete(s) ==
    /\ bg[s] = "delete"
    /\ Remove(KeyOf(s))
    /\ \E after \in {"delete", "ended"} : bg' = [bg EXCEPT ![s] = after]
    /\ UNCHANGED <<taskVars, bgRead, bgTry, killed, shutdown, mgrVars>>

\* try_delete_lock gives up after its retries: the key is left to its TTL.
BgDeleteGiveUp(s) ==
    /\ bg[s] = "delete"
    /\ bg' = [bg EXCEPT ![s] = "ended"]
    /\ UNCHANGED <<metaVars, taskVars, fired, bgRead, bgTry, killed, shutdown, mgrVars>>

----------------------------------------------------------------------------
(* The environment: expiry of keys, and crashes of query servers.          *)

\* Some extender still keeps the key alive.
Extended(l) ==
    \E s \in Sessions : l \in KeyOf(s) /\ bg[s] \notin {"none", "ended"}

\* The TTL of a key passes: sooner or later when nobody extends it, and also
\* when its extender, or the meta service, is slower than the TTL.
Expire(l) ==
    /\ l \in locks
    /\ Remove({l})
    /\ UNCHANGED <<taskVars, bgVars, shutdown, mgrVars>>

ExpireOrphan(l) == ~Extended(l) /\ Expire(l)

ExpireLate(l) == Extended(l) /\ Expire(l)

\* The server running the session dies, with its tasks and its active_locks.
Crash(s) ==
    /\ pc[s] # "crashed"
    /\ Leave(s, "crashed")
    /\ bg' = [bg EXCEPT ![s] = "ended"]
    /\ bgRead' = [bgRead EXCEPT ![s] = 0]
    /\ bgTry' = [bgTry EXCEPT ![s] = 0]
    /\ active' = active \ {rev[s]}
    /\ unlocks' = unlocks \ {rev[s]}
    /\ UNCHANGED <<metaVars, rev, killed, shutdown>>

----------------------------------------------------------------------------
TaskStep(s) ==
    \/ CreateGet(s) \/ CreateTxn(s) \/ CreateConflict(s)
    \/ ListExpired(s) \/ ListFirst(s) \/ ListQueue(s)
    \/ WatchPrev(s) \/ GetPrevGone(s) \/ GetPrev(s) \/ Wake(s)
    \/ AcquireGet(s) \/ AcquireExpired(s) \/ AcquireCas(s) \/ AcquireConflict(s)

BgStep(s) ==
    \/ BgWake(s) \/ BgShutdown(s)
    \/ BgExtendGet(s) \/ BgExtendCas(s) \/ BgExtendConflict(s) \/ BgExtendExpired(s)
    \/ BgDelete(s)

Fault(s) ==
    \/ CreateLost(s) \/ RpcError(s) \/ ListGiveUp(s) \/ StreamEnd(s)
    \/ WatchTimeout(s) \/ AcquireLost(s) \/ BgExtendRetry(s) \/ BgExtendGiveUp(s)
    \/ BgDeleteGiveUp(s) \/ Crash(s)

Next ==
    \/ \E s \in Sessions : TaskStep(s) \/ Release(s) \/ BgStep(s) \/ Fault(s)
    \/ \E r \in unlocks : ReceiveUnlock(r)
    \/ \E l \in locks : ExpireOrphan(l) \/ ExpireLate(l)

\* The tasks run on a runtime that polls every ready task, the unlock channel
\* is drained and TTLs pass; a killed query ends and drops its guard.  Nothing
\* is assumed of the steps in Fault, timeouts included.
Fairness ==
    /\ \A s \in Sessions :
          WF_vars(TaskStep(s)) /\ WF_vars(BgStep(s)) /\ WF_vars(killed[s] /\ Release(s))
    /\ WF_vars(\E r \in unlocks : ReceiveUnlock(r))
    /\ WF_vars(\E l \in locks : ExpireOrphan(l))

\* Every statement that holds a lock ends: a premise of the properties below
\* that need it, which LockGuard's owner must see to.
HoldersFinish == \A s \in Sessions : WF_vars(Release(s))

Spec == Init /\ [][Next]_vars
FairSpec == Spec /\ Fairness
----------------------------------------------------------------------------
\* Every variable has its type.
TypeOK ==
    /\ locks \subseteq LockRecord
    /\ idSeq \in Nat /\ seq \in Nat
    /\ pc \in [Sessions -> PcStates]
    /\ read \in [Sessions -> Nat]
    /\ rev \in [Sessions -> Nat]
    /\ prev \in [Sessions -> Nat]
    /\ fired \in [Sessions -> BOOLEAN]
    /\ bg \in [Sessions -> BgStates]
    /\ bgRead \in [Sessions -> Nat]
    /\ bgTry \in [Sessions -> Nat]
    /\ shutdown \in [Sessions -> BOOLEAN]
    /\ killed \in [Sessions -> BOOLEAN]
    /\ active \subseteq Nat
    /\ unlocks \subseteq Nat

\* The revisions issued so far, to keys and to sessions, are bounded by the
\* seq of the id generator, from which the next one is computed.
RevisionsIssued ==
    /\ idSeq <= seq
    /\ \A l \in locks : l.rev <= idSeq
    /\ \A s \in Sessions : rev[s] <= idSeq

\* Who has a revision, and that no two requests share one.
RevisionsUnique ==
    /\ \A s \in Sessions : pc[s] \in {"createGet", "createTxn"} => rev[s] = 0
    /\ \A s \in Sessions :
          pc[s] \notin {"createGet", "createTxn", "failed", "crashed"} => rev[s] > 0
    /\ \A s, t \in Sessions : rev[s] = rev[t] /\ rev[s] > 0 => s = t

\* A session that found itself first in the list stays in front: no key of its
\* table has a smaller revision, not even one that comes later.
FrontOfQueue ==
    \A s \in Sessions :
        pc[s] \in {"acqGet", "acqCas", "held"} =>
            \A l \in locks : l.table = TableOf[s] => rev[s] <= l.rev

\* active_locks only holds revisions of sessions that got their guard.
ActiveIsGranted ==
    \A r \in active :
        \E s \in Sessions : rev[s] = r /\ pc[s] \in {"held", "released"}

\* The order of the queue of revisions, which try_lock's rule "the smallest
\* revision has the lock" rests on: revisions are issued in increasing order,
\* to one request each, and who was once first stays first.
QueueOrder ==
    RevisionsIssued /\ RevisionsUnique /\ FrontOfQueue /\ ActiveIsGranted

\* try_lock returned a guard to s, and the key that backs it still exists.
Holds(s) == pc[s] = "held" /\ KeyOf(s) # {}

\* Mutual exclusion as far as the meta service can promise it: two sessions
\* that both hold a guard for a table never both still have their lock key,
\* whatever expired, was extended, lost or retried before.
MutualExclusion ==
    \A s, t \in Sessions :
        (Holds(s) /\ Holds(t) /\ TableOf[s] = TableOf[t]) => s = t

\* No wakeup is lost: a session waiting on its watch stream waits for a key
\* that still exists, or has the delete event already in its stream.  This is
\* why try_acquire_lock registers the watch before it reads the key.
NoLostWakeup ==
    \A s \in Sessions : pc[s] = "wait" => PrevKey(s) # {} \/ fired[s]

\* `assert!(prev.is_none())` in insert_lock never fires: no other holder is
\* registered in active_locks under the revision about to be inserted,
\* although the map is shared by the locks of all tables.
InsertLockIsFresh ==
    \A s \in Sessions : pc[s] = "acqCas" => rev[s] \notin active

\* A lock key that disappeared (deleted or expired) never comes back: a key
\* that is new in a step has a revision above everything issued before, so an
\* extension in flight cannot resurrect an expired lock.
NoResurrection ==
    [][\A l \in locks' :
          \/ \E k \in locks : k.table = l.table /\ k.rev = l.rev
          \/ l.rev > idSeq]_vars

\* Every request is settled: try_lock returns a guard or an error (or its
\* server crashes) even if no timeout ever fires, because holders release.
RequestSettles ==
    HoldersFinish =>
        \A s \in Sessions :
            pc[s] = "createGet" ~> pc[s] \in {"held", "released", "failed", "crashed"}


\* No lock key outlives its request for ever: released, failed, crashed and
\* lost requests all end with their key gone, so nobody is locked out.
LocksAreReclaimed == HoldersFinish => <>[](locks = {})
=============================================================================
