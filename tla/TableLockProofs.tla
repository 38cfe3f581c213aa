-------------------------- MODULE TableLockProofs --------------------------
(* Proofs about TableLock, for any sets of sessions and tables and any     *)
(* bounds.                                                                 *)
EXTENDS TableLock, TLAPS

\* Every variable keeps its type through every step of the lock protocol.
THEOREM TypeCorrect == Spec => []TypeOK
<1> USE TableLockAssumption DEF LockRecord, PcStates, BgStates
<1>1. Init => TypeOK
  BY DEF Init, TypeOK
<1>2. TypeOK /\ [Next]_vars => TypeOK'
  <2> SUFFICES ASSUME TypeOK, [Next]_vars PROVE TypeOK'
    OBVIOUS
  <2> USE DEF TypeOK, metaVars, taskVars, bgVars, mgrVars, Goto, Leave, Fail
  <2>1. ASSUME NEW s \in Sessions, CreateGet(s) PROVE TypeOK'
    BY <2>1 DEF CreateGet
  <2>2. ASSUME NEW s \in Sessions, CreateTxn(s) PROVE TypeOK'
    BY <2>2 DEF CreateTxn, PutNew
  <2>3. ASSUME NEW s \in Sessions, CreateConflict(s) PROVE TypeOK'
    BY <2>3 DEF CreateConflict
  <2>4. ASSUME NEW s \in Sessions, ListExpired(s) PROVE TypeOK'
    BY <2>4 DEF ListExpired
  <2>5. ASSUME NEW s \in Sessions, ListFirst(s) PROVE TypeOK'
    BY <2>5 DEF ListFirst
  <2>6. ASSUME NEW s \in Sessions, ListQueue(s) PROVE TypeOK'
    BY <2>6 DEF ListQueue, Revisions
  <2>7. ASSUME NEW s \in Sessions, WatchPrev(s) PROVE TypeOK'
    BY <2>7 DEF WatchPrev
  <2>8. ASSUME NEW s \in Sessions, GetPrevGone(s) PROVE TypeOK'
    BY <2>8 DEF GetPrevGone
  <2>9. ASSUME NEW s \in Sessions, GetPrev(s) PROVE TypeOK'
    BY <2>9 DEF GetPrev
  <2>10. ASSUME NEW s \in Sessions, Wake(s) PROVE TypeOK'
    BY <2>10 DEF Wake
  <2>11. ASSUME NEW s \in Sessions, AcquireGet(s) PROVE TypeOK'
    BY <2>11 DEF AcquireGet, KeyOf
  <2>12. ASSUME NEW s \in Sessions, AcquireExpired(s) PROVE TypeOK'
    BY <2>12 DEF AcquireExpired
  <2>13. ASSUME NEW s \in Sessions, AcquireCas(s) PROVE TypeOK'
    <3>1. active' \subseteq Nat
      BY <2>13, Zenon DEF AcquireCas
    <3>2. locks' \subseteq LockRecord /\ seq' \in Nat /\ idSeq' \in Nat
      BY <2>13 DEF AcquireCas, PutExisting, KeyOf
    <3> QED
      BY <2>13, <3>1, <3>2 DEF AcquireCas
  <2>14. ASSUME NEW s \in Sessions, AcquireConflict(s) PROVE TypeOK'
    BY <2>14 DEF AcquireConflict
  <2>15. ASSUME NEW s \in Sessions, Release(s) PROVE TypeOK'
    BY <2>15, Zenon DEF Release
  <2>16. ASSUME NEW s \in Sessions, BgWake(s) PROVE TypeOK'
    BY <2>16 DEF BgWake
  <2>17. ASSUME NEW s \in Sessions, BgShutdown(s) PROVE TypeOK'
    BY <2>17 DEF BgShutdown
  <2>18. ASSUME NEW s \in Sessions, BgExtendGet(s) PROVE TypeOK'
    BY <2>18 DEF BgExtendGet, KeyOf
  <2>19. ASSUME NEW s \in Sessions, BgExtendCas(s) PROVE TypeOK'
    BY <2>19 DEF BgExtendCas, PutExisting, KeyOf
  <2>20. ASSUME NEW s \in Sessions, BgExtendConflict(s) PROVE TypeOK'
    BY <2>20 DEF BgExtendConflict
  <2>21. ASSUME NEW s \in Sessions, BgExtendExpired(s) PROVE TypeOK'
    BY <2>21 DEF BgExtendExpired, BgKill
  <2>22. ASSUME NEW s \in Sessions, BgDelete(s) PROVE TypeOK'
    BY <2>22 DEF BgDelete, Remove
  <2>23. ASSUME NEW s \in Sessions, CreateLost(s) PROVE TypeOK'
    BY <2>23 DEF CreateLost, PutNew
  <2>24. ASSUME NEW s \in Sessions, RpcError(s) PROVE TypeOK'
    BY <2>24 DEF RpcError
  <2>25. ASSUME NEW s \in Sessions, ListGiveUp(s) PROVE TypeOK'
    BY <2>25 DEF ListGiveUp
  <2>26. ASSUME NEW s \in Sessions, StreamEnd(s) PROVE TypeOK'
    BY <2>26 DEF StreamEnd
  <2>27. ASSUME NEW s \in Sessions, WatchTimeout(s) PROVE TypeOK'
    BY <2>27 DEF WatchTimeout
  <2>28. ASSUME NEW s \in Sessions, AcquireLost(s) PROVE TypeOK'
    BY <2>28 DEF AcquireLost, PutExisting, KeyOf
  <2>29. ASSUME NEW s \in Sessions, BgExtendRetry(s) PROVE TypeOK'
    BY <2>29 DEF BgExtendRetry, BgRpcError, PutExisting, KeyOf
  <2>30. ASSUME NEW s \in Sessions, BgExtendGiveUp(s) PROVE TypeOK'
    BY <2>30 DEF BgExtendGiveUp, BgRpcError, PutExisting, KeyOf, BgKill
  <2>31. ASSUME NEW s \in Sessions, BgDeleteGiveUp(s) PROVE TypeOK'
    BY <2>31 DEF BgDeleteGiveUp
  <2>32. ASSUME NEW s \in Sessions, Crash(s) PROVE TypeOK'
    BY <2>32, Zenon DEF Crash
  <2>33. ASSUME NEW r \in unlocks, ReceiveUnlock(r) PROVE TypeOK'
    BY <2>33 DEF ReceiveUnlock
  <2>34. ASSUME NEW l \in locks, Expire(l) PROVE TypeOK'
    BY <2>34 DEF Expire, Remove
  <2>35. CASE UNCHANGED vars
    BY <2>35 DEF vars
  <2> QED
    BY <2>1, <2>2, <2>3, <2>4, <2>5, <2>6, <2>7, <2>8, <2>9, <2>10, <2>11, <2>12, <2>13, <2>14, <2>15, <2>16, <2>17, <2>18, <2>19, <2>20, <2>21, <2>22, <2>23, <2>24, <2>25, <2>26, <2>27, <2>28, <2>29, <2>30, <2>31, <2>32, <2>33, <2>34, <2>35, Zenon
       DEF Next, TaskStep, BgStep, Fault, ExpireOrphan, ExpireLate
<1> QED
  BY <1>1, <1>2, PTL DEF Spec

\* The queue order is inductive: it holds initially and every step keeps it.
THEOREM QueueOrderCorrect == Spec => []QueueOrder
<1> USE TableLockAssumption DEF LockRecord, PcStates, BgStates
<1>1. Init => QueueOrder
  BY DEF Init, QueueOrder, RevisionsIssued, RevisionsUnique, FrontOfQueue, ActiveIsGranted
<1>2. TypeOK /\ QueueOrder /\ [Next]_vars => QueueOrder'
  <2> SUFFICES ASSUME TypeOK, QueueOrder, [Next]_vars PROVE QueueOrder'
    OBVIOUS
  <2> USE DEF TypeOK, QueueOrder, RevisionsIssued, RevisionsUnique, FrontOfQueue,
              ActiveIsGranted, metaVars, taskVars, bgVars, mgrVars, Goto, Leave, Fail
  <2>1. ASSUME NEW s \in Sessions, CreateGet(s) PROVE QueueOrder'
    BY <2>1 DEF CreateGet
  <2>2. ASSUME NEW s \in Sessions, CreateTxn(s) PROVE QueueOrder'
    BY <2>2 DEF CreateTxn, PutNew, CreateCond
  <2>3. ASSUME NEW s \in Sessions, CreateConflict(s) PROVE QueueOrder'
    BY <2>3 DEF CreateConflict
  <2>4. ASSUME NEW s \in Sessions, ListExpired(s) PROVE QueueOrder'
    BY <2>4 DEF ListExpired
  <2>5. ASSUME NEW s \in Sessions, ListFirst(s) PROVE QueueOrder'
    BY <2>5 DEF ListFirst, Revisions
  <2>6. ASSUME NEW s \in Sessions, ListQueue(s) PROVE QueueOrder'
    BY <2>6 DEF ListQueue, Revisions
  <2>7. ASSUME NEW s \in Sessions, WatchPrev(s) PROVE QueueOrder'
    BY <2>7 DEF WatchPrev
  <2>8. ASSUME NEW s \in Sessions, GetPrevGone(s) PROVE QueueOrder'
    BY <2>8 DEF GetPrevGone
  <2>9. ASSUME NEW s \in Sessions, GetPrev(s) PROVE QueueOrder'
    BY <2>9 DEF GetPrev
  <2>10. ASSUME NEW s \in Sessions, Wake(s) PROVE QueueOrder'
    BY <2>10 DEF Wake
  <2>11. ASSUME NEW s \in Sessions, AcquireGet(s) PROVE QueueOrder'
    BY <2>11 DEF AcquireGet, KeyOf
  <2>12. ASSUME NEW s \in Sessions, AcquireExpired(s) PROVE QueueOrder'
    BY <2>12 DEF AcquireExpired
  <2>13. ASSUME NEW s \in Sessions, AcquireCas(s) PROVE QueueOrder'
    BY <2>13 DEF AcquireCas, PutExisting, KeyOf
  <2>14. ASSUME NEW s \in Sessions, AcquireConflict(s) PROVE QueueOrder'
    BY <2>14 DEF AcquireConflict
  <2>15. ASSUME NEW s \in Sessions, Release(s) PROVE QueueOrder'
    BY <2>15 DEF Release
  <2>16. ASSUME NEW s \in Sessions, BgWake(s) PROVE QueueOrder'
    BY <2>16 DEF BgWake
  <2>17. ASSUME NEW s \in Sessions, BgShutdown(s) PROVE QueueOrder'
    BY <2>17 DEF BgShutdown
  <2>18. ASSUME NEW s \in Sessions, BgExtendGet(s) PROVE QueueOrder'
    BY <2>18 DEF BgExtendGet, KeyOf
  <2>19. ASSUME NEW s \in Sessions, BgExtendCas(s) PROVE QueueOrder'
    BY <2>19 DEF BgExtendCas, PutExisting, KeyOf
  <2>20. ASSUME NEW s \in Sessions, BgExtendConflict(s) PROVE QueueOrder'
    BY <2>20 DEF BgExtendConflict
  <2>21. ASSUME NEW s \in Sessions, BgExtendExpired(s) PROVE QueueOrder'
    BY <2>21 DEF BgExtendExpired, BgKill
  <2>22. ASSUME NEW s \in Sessions, BgDelete(s) PROVE QueueOrder'
    BY <2>22 DEF BgDelete, Remove
  <2>23. ASSUME NEW s \in Sessions, CreateLost(s) PROVE QueueOrder'
    BY <2>23 DEF CreateLost, PutNew, CreateCond
  <2>24. ASSUME NEW s \in Sessions, RpcError(s) PROVE QueueOrder'
    BY <2>24 DEF RpcError
  <2>25. ASSUME NEW s \in Sessions, ListGiveUp(s) PROVE QueueOrder'
    BY <2>25 DEF ListGiveUp
  <2>26. ASSUME NEW s \in Sessions, StreamEnd(s) PROVE QueueOrder'
    BY <2>26 DEF StreamEnd
  <2>27. ASSUME NEW s \in Sessions, WatchTimeout(s) PROVE QueueOrder'
    BY <2>27 DEF WatchTimeout
  <2>28. ASSUME NEW s \in Sessions, AcquireLost(s) PROVE QueueOrder'
    BY <2>28 DEF AcquireLost, PutExisting, KeyOf
  <2>29. ASSUME NEW s \in Sessions, BgExtendRetry(s) PROVE QueueOrder'
    BY <2>29 DEF BgExtendRetry, BgRpcError, PutExisting, KeyOf
  <2>30. ASSUME NEW s \in Sessions, BgExtendGiveUp(s) PROVE QueueOrder'
    BY <2>30 DEF BgExtendGiveUp, BgRpcError, PutExisting, KeyOf, BgKill
  <2>31. ASSUME NEW s \in Sessions, BgDeleteGiveUp(s) PROVE QueueOrder'
    BY <2>31 DEF BgDeleteGiveUp
  <2>32. ASSUME NEW s \in Sessions, Crash(s) PROVE QueueOrder'
    BY <2>32 DEF Crash
  <2>33. ASSUME NEW r \in unlocks, ReceiveUnlock(r) PROVE QueueOrder'
    BY <2>33 DEF ReceiveUnlock
  <2>34. ASSUME NEW l \in locks, Expire(l) PROVE QueueOrder'
    BY <2>34 DEF Expire, Remove
  <2>35. CASE UNCHANGED vars
    BY <2>35 DEF vars
  <2> QED
    BY <2>1, <2>2, <2>3, <2>4, <2>5, <2>6, <2>7, <2>8, <2>9, <2>10, <2>11, <2>12, <2>13, <2>14, <2>15, <2>16, <2>17, <2>18, <2>19, <2>20, <2>21, <2>22, <2>23, <2>24, <2>25, <2>26, <2>27, <2>28, <2>29, <2>30, <2>31, <2>32, <2>33, <2>34, <2>35, Zenon
       DEF Next, TaskStep, BgStep, Fault, ExpireOrphan, ExpireLate
<1> QED
  BY <1>1, <1>2, TypeCorrect, PTL DEF Spec

\* Two sessions whose guards are both still backed by a lock key never hold the
\* same table: each would be in front of the other.
THEOREM MutualExclusionCorrect == Spec => []MutualExclusion
<1>1. TypeOK /\ QueueOrder => MutualExclusion
  <2> SUFFICES ASSUME TypeOK, QueueOrder,
                      NEW s \in Sessions, NEW t \in Sessions,
                      Holds(s), Holds(t), TableOf[s] = TableOf[t]
               PROVE  s = t
    BY DEF MutualExclusion
  <2> USE DEF TypeOK, LockRecord, Holds, KeyOf, QueueOrder
  <2>1. PICK l \in locks : l.table = TableOf[s] /\ l.rev = rev[s]
    OBVIOUS
  <2>2. PICK k \in locks : k.table = TableOf[t] /\ k.rev = rev[t]
    OBVIOUS
  <2>3. rev[s] <= rev[t] /\ rev[t] <= rev[s]
    BY <2>1, <2>2 DEF FrontOfQueue
  <2>4. rev[s] = rev[t] /\ rev[s] > 0
    BY <2>3 DEF RevisionsUnique
  <2> QED
    BY <2>4 DEF RevisionsUnique
<1> QED
  BY <1>1, TypeCorrect, QueueOrderCorrect, PTL

\* insert_lock's assertion that the revision is not yet in active_locks holds.
THEOREM InsertLockCorrect == Spec => []InsertLockIsFresh
<1>1. TypeOK /\ QueueOrder => InsertLockIsFresh
  BY DEF TypeOK, QueueOrder, RevisionsUnique, ActiveIsGranted, InsertLockIsFresh
<1> QED
  BY <1>1, TypeCorrect, QueueOrderCorrect, PTL

\* A lock key that is gone stays gone: only create_lock_revision adds a key, and
\* its revision is larger than any issued before.
THEOREM NoResurrectionCorrect == Spec => NoResurrection
<1> DEFINE Step == \A l \in locks' :
                      \/ \E k \in locks : k.table = l.table /\ k.rev = l.rev
                      \/ l.rev > idSeq
<1>1. TypeOK /\ QueueOrder /\ [Next]_vars => [Step]_vars
  <2> SUFFICES ASSUME TypeOK, QueueOrder, Next PROVE Step
    OBVIOUS
  <2> USE DEF TypeOK, LockRecord, metaVars
  <2>1. ASSUME UNCHANGED locks PROVE Step
    BY <2>1
  <2>2. ASSUME NEW s \in Sessions, CreateTxn(s) \/ CreateLost(s) PROVE Step
    BY <2>2 DEF CreateTxn, CreateLost, CreateCond, PutNew
  <2>3. ASSUME NEW s \in Sessions, PutExisting(s) PROVE Step
    BY <2>3 DEF PutExisting, KeyOf
  <2>4. ASSUME NEW gone, Remove(gone) PROVE Step
    BY <2>4 DEF Remove
  <2>5. ASSUME NEW s \in Sessions, TaskStep(s) \/ Release(s) PROVE Step
    BY <2>1, <2>2, <2>3, <2>5
       DEF TaskStep, CreateGet, CreateConflict, ListExpired, ListFirst, ListQueue,
           WatchPrev, GetPrevGone, GetPrev, Wake, AcquireGet, AcquireExpired,
           AcquireCas, AcquireConflict, Release
  <2>6. ASSUME NEW s \in Sessions, BgStep(s) PROVE Step
    BY <2>1, <2>3, <2>4, <2>6
       DEF BgStep, BgWake, BgShutdown, BgExtendGet, BgExtendCas, BgExtendConflict,
           BgExtendExpired, BgDelete
  <2>7. ASSUME NEW s \in Sessions, Fault(s) PROVE Step
    BY <2>1, <2>2, <2>3, <2>7
       DEF Fault, RpcError, ListGiveUp, StreamEnd, WatchTimeout, AcquireLost,
           BgRpcError, BgExtendRetry, BgExtendGiveUp, BgDeleteGiveUp, Crash
  <2>8. ASSUME NEW r \in unlocks, ReceiveUnlock(r) PROVE Step
    BY <2>1, <2>8 DEF ReceiveUnlock
  <2>9. ASSUME NEW l \in locks, ExpireOrphan(l) \/ ExpireLate(l) PROVE Step
    BY <2>4, <2>9 DEF ExpireOrphan, ExpireLate, Expire
  <2> QED
    BY <2>5, <2>6, <2>7, <2>8, <2>9 DEF Next
<1> QED
  BY <1>1, TypeCorrect, QueueOrderCorrect, PTL DEF Spec, NoResurrection

\* An extension rewrites a key but removes none.
LEMMA ExtendKeepsKeys ==
    ASSUME NEW s \in Sessions, NEW t \in Sessions, TypeOK,
           PutExisting(s), prev'[t] = prev[t], PrevKey(t) # {}
    PROVE  PrevKey(t)' # {}
<1> USE DEF TypeOK, LockRecord, PrevKey, PutExisting, KeyOf
<1>1. PICK l \in locks : l.table = TableOf[t] /\ l.rev = prev[t]
  OBVIOUS
<1>2. CASE l \in KeyOf(s)
  <2>1. [table |-> l.table, rev |-> l.rev, seq |-> seq + 1] \in locks'
    BY <1>2
  <2> QED
    BY <1>1, <2>1
<1>3. CASE l \notin KeyOf(s)
  BY <1>1, <1>3
<1> QED
  BY <1>2, <1>3

\* A waiting session never misses the deletion it waits for.
THEOREM NoLostWakeupCorrect == Spec => []NoLostWakeup
<1> USE TableLockAssumption DEF LockRecord, PcStates, BgStates
<1>1. Init => NoLostWakeup
  BY DEF Init, NoLostWakeup
<1>2. TypeOK /\ QueueOrder /\ NoLostWakeup /\ [Next]_vars => NoLostWakeup'
  <2> SUFFICES ASSUME TypeOK, QueueOrder, NoLostWakeup, [Next]_vars PROVE NoLostWakeup'
    OBVIOUS
  <2> USE DEF NoLostWakeup, metaVars, taskVars, bgVars, mgrVars,
              Goto, Leave, Fail
  <2>0. ASSUME NEW s \in Sessions, PutExisting(s) \/ UNCHANGED locks,
               \A t \in Sessions : pc'[t] = "wait" =>
                   pc[t] = "wait" /\ prev'[t] = prev[t] /\ fired'[t] = fired[t]
        PROVE  NoLostWakeup'
    <3>1. CASE UNCHANGED locks
      BY <2>0, <3>1 DEF PrevKey
    <3>2. CASE PutExisting(s)
      BY <2>0, <3>2, ExtendKeepsKeys, Zenon
    <3> QED
      BY <2>0, <3>1, <3>2
  <2>1. ASSUME NEW s \in Sessions, CreateGet(s) PROVE NoLostWakeup'
    BY <2>1 DEF CreateGet, TypeOK, PrevKey
  <2>2. ASSUME NEW s \in Sessions, CreateTxn(s) PROVE NoLostWakeup'
    BY <2>2 DEF CreateTxn, PutNew, CreateCond, TypeOK, PrevKey
  <2>3. ASSUME NEW s \in Sessions, CreateConflict(s) PROVE NoLostWakeup'
    BY <2>3 DEF CreateConflict, TypeOK, PrevKey
  <2>4. ASSUME NEW s \in Sessions, ListExpired(s) PROVE NoLostWakeup'
    BY <2>4 DEF ListExpired, TypeOK, PrevKey
  <2>5. ASSUME NEW s \in Sessions, ListFirst(s) PROVE NoLostWakeup'
    BY <2>5 DEF ListFirst, Revisions, TypeOK, PrevKey
  <2>6. ASSUME NEW s \in Sessions, ListQueue(s) PROVE NoLostWakeup'
    BY <2>6 DEF ListQueue, Revisions, TypeOK, PrevKey
  <2>7. ASSUME NEW s \in Sessions, WatchPrev(s) PROVE NoLostWakeup'
    BY <2>7 DEF WatchPrev, TypeOK, PrevKey
  <2>8. ASSUME NEW s \in Sessions, GetPrevGone(s) PROVE NoLostWakeup'
    BY <2>8 DEF GetPrevGone, TypeOK, PrevKey
  <2>9. ASSUME NEW s \in Sessions, GetPrev(s) PROVE NoLostWakeup'
    BY <2>9 DEF GetPrev, TypeOK, PrevKey
  <2>10. ASSUME NEW s \in Sessions, Wake(s) PROVE NoLostWakeup'
    BY <2>10 DEF Wake, TypeOK, PrevKey
  <2>11. ASSUME NEW s \in Sessions, AcquireGet(s) PROVE NoLostWakeup'
    BY <2>11 DEF AcquireGet, KeyOf, TypeOK, PrevKey
  <2>12. ASSUME NEW s \in Sessions, AcquireExpired(s) PROVE NoLostWakeup'
    BY <2>12 DEF AcquireExpired, TypeOK, PrevKey
  <2>13. ASSUME NEW s \in Sessions, AcquireCas(s) PROVE NoLostWakeup'
    <3>1. \A t \in Sessions : pc'[t] = "wait" =>
             pc[t] = "wait" /\ prev'[t] = prev[t] /\ fired'[t] = fired[t]
      BY <2>13, Zenon DEF TypeOK, AcquireCas, TypeOK, PrevKey
    <3> QED
      BY <2>13, <3>1, <2>0, Zenon DEF AcquireCas, TypeOK, PrevKey
  <2>14. ASSUME NEW s \in Sessions, AcquireConflict(s) PROVE NoLostWakeup'
    BY <2>14 DEF AcquireConflict, TypeOK, PrevKey
  <2>15. ASSUME NEW s \in Sessions, Release(s) PROVE NoLostWakeup'
    BY <2>15 DEF Release, TypeOK, PrevKey
  <2>16. ASSUME NEW s \in Sessions, BgWake(s) PROVE NoLostWakeup'
    BY <2>16 DEF BgWake, TypeOK, PrevKey
  <2>17. ASSUME NEW s \in Sessions, BgShutdown(s) PROVE NoLostWakeup'
    BY <2>17 DEF BgShutdown, TypeOK, PrevKey
  <2>18. ASSUME NEW s \in Sessions, BgExtendGet(s) PROVE NoLostWakeup'
    BY <2>18 DEF BgExtendGet, KeyOf, TypeOK, PrevKey
  <2>19. ASSUME NEW s \in Sessions, BgExtendCas(s) PROVE NoLostWakeup'
    <3>1. \A t \in Sessions : pc'[t] = "wait" =>
             pc[t] = "wait" /\ prev'[t] = prev[t] /\ fired'[t] = fired[t]
      BY <2>19 DEF TypeOK, BgExtendCas, TypeOK, PrevKey
    <3> QED
      BY <2>19, <3>1, <2>0 DEF BgExtendCas, TypeOK, PrevKey
  <2>20. ASSUME NEW s \in Sessions, BgExtendConflict(s) PROVE NoLostWakeup'
    BY <2>20 DEF BgExtendConflict, TypeOK, PrevKey
  <2>21. ASSUME NEW s \in Sessions, BgExtendExpired(s) PROVE NoLostWakeup'
    BY <2>21 DEF BgExtendExpired, BgKill, TypeOK, PrevKey
  <2>22. ASSUME NEW s \in Sessions, BgDelete(s) PROVE NoLostWakeup'
    BY <2>22 DEF BgDelete, Remove, TypeOK, PrevKey
  <2>23. ASSUME NEW s \in Sessions, CreateLost(s) PROVE NoLostWakeup'
    BY <2>23 DEF CreateLost, PutNew, CreateCond, TypeOK, PrevKey
  <2>24. ASSUME NEW s \in Sessions, RpcError(s) PROVE NoLostWakeup'
    BY <2>24 DEF RpcError, TypeOK, PrevKey
  <2>25. ASSUME NEW s \in Sessions, ListGiveUp(s) PROVE NoLostWakeup'
    BY <2>25 DEF ListGiveUp, TypeOK, PrevKey
  <2>26. ASSUME NEW s \in Sessions, StreamEnd(s) PROVE NoLostWakeup'
    BY <2>26 DEF StreamEnd, TypeOK, PrevKey
  <2>27. ASSUME NEW s \in Sessions, WatchTimeout(s) PROVE NoLostWakeup'
    BY <2>27 DEF WatchTimeout, TypeOK, PrevKey
  <2>28. ASSUME NEW s \in Sessions, AcquireLost(s) PROVE NoLostWakeup'
    <3>1. \A t \in Sessions : pc'[t] = "wait" =>
             pc[t] = "wait" /\ prev'[t] = prev[t] /\ fired'[t] = fired[t]
      BY <2>28, Zenon DEF TypeOK, AcquireLost, TypeOK, PrevKey
    <3> QED
      BY <2>28, <3>1, <2>0, Zenon DEF AcquireLost, TypeOK, PrevKey
  <2>29. ASSUME NEW s \in Sessions, BgExtendRetry(s) PROVE NoLostWakeup'
    <3>1. \A t \in Sessions : pc'[t] = "wait" =>
             pc[t] = "wait" /\ prev'[t] = prev[t] /\ fired'[t] = fired[t]
      BY <2>29 DEF TypeOK, BgExtendRetry, TypeOK, PrevKey
    <3> QED
      BY <2>29, <3>1, <2>0 DEF BgExtendRetry, BgRpcError, TypeOK, PrevKey
  <2>30. ASSUME NEW s \in Sessions, BgExtendGiveUp(s) PROVE NoLostWakeup'
    <3>1. \A t \in Sessions : pc'[t] = "wait" =>
             pc[t] = "wait" /\ prev'[t] = prev[t] /\ fired'[t] = fired[t]
      BY <2>30 DEF TypeOK, BgExtendGiveUp, BgKill, TypeOK, PrevKey
    <3> QED
      BY <2>30, <3>1, <2>0 DEF BgExtendGiveUp, BgRpcError, BgKill, TypeOK, PrevKey
  <2>31. ASSUME NEW s \in Sessions, BgDeleteGiveUp(s) PROVE NoLostWakeup'
    BY <2>31 DEF BgDeleteGiveUp, TypeOK, PrevKey
  <2>32. ASSUME NEW s \in Sessions, Crash(s) PROVE NoLostWakeup'
    BY <2>32 DEF Crash, TypeOK, PrevKey
  <2>33. ASSUME NEW r \in unlocks, ReceiveUnlock(r) PROVE NoLostWakeup'
    BY <2>33 DEF ReceiveUnlock, TypeOK, PrevKey
  <2>34. ASSUME NEW l \in locks, Expire(l) PROVE NoLostWakeup'
    BY <2>34 DEF Expire, Remove, TypeOK, PrevKey
  <2>35. CASE UNCHANGED vars
    BY <2>35 DEF vars, TypeOK, PrevKey
  <2> QED
    BY <2>1, <2>2, <2>3, <2>4, <2>5, <2>6, <2>7, <2>8, <2>9, <2>10, <2>11, <2>12, <2>13, <2>14, <2>15, <2>16, <2>17, <2>18, <2>19, <2>20, <2>21, <2>22, <2>23, <2>24, <2>25, <2>26, <2>27, <2>28, <2>29, <2>30, <2>31, <2>32, <2>33, <2>34, <2>35, Zenon
       DEF Next, TaskStep, BgStep, Fault, ExpireOrphan, ExpireLate
<1> QED
  BY <1>1, <1>2, TypeCorrect, QueueOrderCorrect, PTL DEF Spec
=============================================================================
