--------------------------- MODULE HolderSchedule ---------------------------
(***************************************************************************)
(* What schedule_queue does, the steps of event() and the hand-out of the  *)
(* tasks they ask for, and so every step of the executor, leaves each      *)
(* processor in one place.                                                 *)
(***************************************************************************)
EXTENDS HolderSteps

-----------------------------------------------------------------------------
(* The tasks schedule_queue has found *)

\* The updates of an event go before those that are left, and 0 stands for no node.
LEMMA ListFacts ==
    /\ \A s, t \in Seq(Touched) : s \o t \in Seq(Touched)
    /\ <<>> \in Seq(Touched) /\ <<>> \in Seq(Edge)
    /\ 0 \notin Node
<1>1. \A s, t \in Seq(Touched) : s \o t \in Seq(Touched)
  OBVIOUS
<1>2. 0 \notin Node
  BY ExecutorAssumption DEF Node
<1> QED
  BY <1>1, <1>2

\* Asynchronous work goes from the worker's list to the runtime.
LEMMA SpawnKeeps ==
    ASSUME Grounds, HInv, Shapes, NEW w \in Worker, Spawn(w)
    PROVE  HInv'
<1>1. w \in Actor
  BY WorkersAct
<1>2. PICK c, s, t, n, y : /\ c = ctx[w] /\ s = c.toasync /\ t = Tail(s) /\ n = Head(s)
                           /\ y = [c EXCEPT !.toasync = t]
  BY Zenon
<1>3. /\ c.pc = "edges" /\ s # <<>> /\ IsContext(c) /\ ContextOk(c) /\ WorkerOk(c) /\ s \in Seq(Node)
      /\ Distinct(s)
  <2>1. ContextOk(c) /\ WorkerOk(c) /\ IsContext(c) /\ Distinct(s)
    BY <1>1, <1>2, Zenon DEF HInv, ActorsOk, NoRepetition, Shapes
  <2>2. c.pc = "edges" /\ s # <<>>
    BY <1>2 DEF Spawn, At
  <2> QED
    BY <1>2, <2>1, <2>2 DEF ContextOk
<1>4. /\ n \in Node /\ t \in Seq(Node) /\ Distinct(t) /\ ~In(n, t)
      /\ \A m : In(m, s) <=> m = n \/ In(m, t)
  <2>1. s \in Seq(Node) /\ s # <<>> /\ Distinct(s)
    BY <1>3
  <2>2. /\ Head(s) \in Node /\ Tail(s) \in Seq(Node) /\ Distinct(Tail(s)) /\ ~In(Head(s), Tail(s))
        /\ \A m : In(m, s) <=> m = Head(s) \/ In(m, Tail(s))
    BY <2>1, TailFacts
  <2>3. n = Head(s) /\ t = Tail(s)
    BY <1>2
  <2> QED
    BY <2>2, <2>3, Zenon
<1>5. /\ UNCHANGED <<async, port, proc, state, lock, sync, completed, finished, error, consumed>>
      /\ waitingAsync' = waitingAsync + 1 /\ running' = running \union {<<n, w>>}
  BY <1>2 DEF Spawn, graphVars, queueVars
<1>6. Goto(w, y)
  <2>1. y = [c EXCEPT !.toasync = Tail(@)]
    BY <1>2, <1>3, Zenon DEF IsContext
  <2> QED
    BY <1>2, <2>1, Zenon DEF Spawn
<1>7. /\ IsContext(y) /\ y.toasync = t /\ y.pc = c.pc /\ y.task = c.task /\ y.node = c.node
      /\ y.tosync = c.tosync /\ y.then = c.then /\ y.cause = c.cause /\ y.rest = c.rest
      /\ y.edges = c.edges /\ y.upd = c.upd
  BY <1>2, <1>3, Zenon DEF IsContext
<1>8. ctx'[w] = y /\ \A b \in Actor \ {w} : ctx'[b] = ctx[b]
  BY <1>1, <1>6, <1>7, GoesThere
<1>9. ContextOk(y) /\ WorkerOk(y)
  <2>1. ContextOk(y)
    BY <1>3, <1>4, <1>7 DEF ContextOk
  <2>2. WorkerOk(y)
    BY <1>3, <1>7 DEF WorkerOk
  <2> QED
    BY <2>1, <2>2
<1>10. Has(w, "toasync", n) /\ "runtime" \in Place /\ "toasync" \in Place
  <2>1. In(n, ctx[w].toasync)
    BY <1>2, <1>4
  <2> QED
    BY <1>4, <2>1, HasFacts, Zenon DEF Place
<1>11. \A v \in Worker, q \in Place : Has(v, q, n) <=> v = w /\ q = "toasync"
  BY <1>4, <1>10, OnePlace DEF HInv
<1>12. QueuesOk'
  <2>1. <<n, w>> \notin running
    <3>1. ~Has(w, "runtime", n)
      BY <1>10, <1>11
    <3> QED
      BY <1>4, <3>1, HasFacts, Zenon
  <2>2. IsFiniteSet(running) /\ Cardinality(running) <= waitingAsync /\ waitingAsync \in Nat
    BY DEF HInv, QueuesOk
  <2>3. /\ IsFiniteSet(running') /\ Cardinality(running') = Cardinality(running) + 1
        /\ Cardinality(running) \in Nat
    BY <1>5, <2>1, <2>2, CountFacts, Zenon
  <2>4. waitingAsync' \in Nat /\ Cardinality(running') <= waitingAsync'
    BY <1>5, <2>2, <2>3
  <2>5. running' \subseteq Node \X Worker
    BY <1>4, <1>5 DEF HInv, QueuesOk
  <2> QED
    BY <1>5, <2>3, <2>4, <2>5 DEF HInv, QueuesOk
<1>13. PortsOk' /\ ActorsOk'
  <2>1. PortsOk'
    BY <1>5 DEF HInv, PortsOk
  <2>2. ActorsOk'
    BY <1>1, <1>6, <1>7, <1>9, ActorsStep DEF HInv
  <2> QED
    BY <2>1, <2>2
<1>14. NoRepetition'
  <2>1. \A v \in Worker : v \in Actor
    BY WorkersAct
  <2>2. Distinct(y.tosync) /\ Distinct(y.toasync)
    BY <1>2, <1>4, <1>7 DEF HInv, NoRepetition
  <2> QED
    BY <1>5, <1>8, <2>1, <2>2 DEF HInv, NoRepetition
<1>15. ASSUME NEW v \in Worker \ {w}, NEW p \in Place, NEW m \in Node
       PROVE  Has(v, p, m)' <=> Has(v, p, m)
  <2>1. ctx'[v] = ctx[v] /\ (<<m, v>> \in running' <=> <<m, v>> \in running)
    BY <1>5, <1>8, WorkersAct
  <2> QED
    BY <1>5, <2>1, OtherPlaces, Zenon
<1>16. ASSUME NEW m \in Node
       PROVE  /\ \A p \in Place \ {"toasync", "runtime"} : Has(w, p, m)' <=> Has(w, p, m)
              /\ Has(w, "runtime", m)' <=> m = n \/ Has(w, "runtime", m)
              /\ Has(w, "toasync", m)' <=> m # n /\ Has(w, "toasync", m)
  <2>1. <<m, w>> \in running' <=> m = n \/ <<m, w>> \in running
    BY <1>5
  <2>2. In(m, ctx'[w].toasync) <=> m # n /\ In(m, ctx[w].toasync)
    BY <1>2, <1>4, <1>7, <1>8
  <2>3. /\ Has(w, "runtime", m)' <=> m = n \/ Has(w, "runtime", m)
        /\ Has(w, "toasync", m)' <=> m # n /\ Has(w, "toasync", m)
    BY <2>1, <2>2, HasFacts, HasNextFacts, Zenon
  <2>4. /\ ctx'[w].tosync = ctx[w].tosync /\ ctx'[w].task = ctx[w].task /\ ctx'[w].node = ctx[w].node
        /\ sync'[w] = sync[w] /\ completed'[w] = completed[w]
    BY <1>2, <1>5, <1>7, <1>8
  <2>5. /\ Has(w, "tosync", m)' <=> Has(w, "tosync", m)
        /\ Has(w, "task", m)' <=> Has(w, "task", m)
        /\ Has(w, "node", m)' <=> Has(w, "node", m)
        /\ Has(w, "sync", m)' <=> Has(w, "sync", m)
        /\ Has(w, "done", m)' <=> Has(w, "done", m)
    BY <2>4, FieldFacts, Zenon
  <2> QED
    BY <2>3, <2>5 DEF Place
<1>17. \A m \in Node : Stays(m) \/ Dropped(m) \/ Moved(m)
  <2>1. ASSUME NEW m \in Node \ {n} PROVE Stays(m)
    BY <1>15, <1>16 DEF Stays, Place
  <2>2. Moved(n)
    <3>1. ASSUME NEW v \in Worker, NEW p \in Place PROVE Has(v, p, n)' <=> v = w /\ p = "runtime"
      <4>1. CASE v # w
        BY <1>4, <1>11, <1>15, <4>1
      <4>2. CASE v = w
        BY <1>4, <1>11, <1>16, <4>2 DEF Place
      <4> QED
        BY <4>1, <4>2
    <3> QED
      BY <1>10, <3>1, Zenon DEF Moved
  <2> QED
    BY <2>1, <2>2
<1>18. \A v \in Worker : /\ At(v, "event") \/ At(v, "event")' => ctx'[v] = ctx[v]
                         /\ At(v, "schedule")' => ctx'[v] = ctx[v]
  <2>1. \A v \in Worker \ {w} : ctx'[v] = ctx[v]
    BY <1>8, WorkersAct
  <2>2. ctx[w].pc = "edges" /\ ctx'[w].pc = "edges"
    BY <1>2, <1>3, <1>7, <1>8
  <2> QED
    BY <2>1, <2>2 DEF At
<1>19. EventsOk' /\ Apart' /\ StatesOk' /\ Held'
  BY <1>5, <1>17, <1>18, PlacesStep
<1> QED
  BY <1>12, <1>13, <1>14, <1>19 DEF HInv

\* The first of the nodes to be processed stays with the worker, the others go to its queue.
LEMMA DispatchKeeps ==
    ASSUME HInv, Shapes, NEW w \in Worker, Dispatch(w)
    PROVE  HInv'
<1>1. w \in Actor
  BY WorkersAct
<1>2. PICK c, q, t, n : c = ctx[w] /\ q = c.tosync /\ t = Tail(q) /\ n = Head(q)
  BY Zenon
<1>3. /\ c.pc = "edges" /\ c.toasync = <<>> /\ c.task = NoTask /\ c.node = 0
      /\ q \in Seq(Node) /\ Distinct(q)
  <2>1. ContextOk(c) /\ WorkerOk(c) /\ Distinct(q)
    BY <1>1, <1>2, Zenon DEF HInv, ActorsOk, NoRepetition
  <2>2. c.pc = "edges" /\ c.toasync = <<>>
    BY <1>2 DEF Dispatch, At
  <2> QED
    BY <1>2, <2>1, <2>2 DEF ContextOk, WorkerOk
<1>4. UNCHANGED <<async, port, proc, state, lock, completed, running, waitingAsync, finished, error, consumed>>
  BY DEF Dispatch, graphVars
<1>5. PICK f : f = Fresh
  BY Zenon
<1>6. EmptyHands(f) /\ ContextOk(f) /\ WorkerOk(f) /\ IsContext(f) /\ f.pc = "loop"
  BY <1>5, FreshOk
<1>7. CASE q = <<>>
  <2>1. Goto(w, f) /\ UNCHANGED sync
    BY <1>2, <1>5, <1>7 DEF Dispatch
  <2>2. SameHands(ctx[w], f)
    BY <1>2, <1>3, <1>6, <1>7, Zenon DEF SameHands, EmptyHands
  <2>3. finished \in BOOLEAN /\ error \in {"none", "killed", "failed"}
    BY DEF HInv, QueuesOk
  <2>4. ctx[w].pc = "edges"
    BY <1>2, <1>3
  <2>5. Unmoved
    BY <1>4, <2>1 DEF Unmoved
  <2> QED
    BY <1>1, <1>4, <1>6, <2>1, <2>2, <2>3, <2>4, <2>5, QuietStep, Zenon
<1>8. CASE q # <<>>
  <2>1. /\ n \in Node /\ t \in Seq(Node) /\ Distinct(t) /\ ~In(n, t)
        /\ \A m : In(m, q) <=> m = n \/ In(m, t)
    BY <1>2, <1>3, <1>8, TailFacts, Zenon
  <2>2. PICK sync1, us, z : /\ sync1 = [sync EXCEPT ![w] = @ \o Tail(q)]
                            /\ us = IF Len(q) > 1 THEN WakeFor(w, sync1, completed) ELSE {}
                            /\ z = [f EXCEPT !.task = <<"sync", Head(q)>>]
    BY Zenon
  <2>3. /\ sync' = IF Len(q) > 1 THEN sync1 ELSE sync
        /\ AndWake(w, us, z)
    BY <1>2, <1>5, <1>8, <2>2, Zenon DEF Dispatch
  <2>4. us \subseteq waiting
    BY <2>2 DEF WakeFor
  <2>5. /\ z.task = <<"sync", n>> /\ z.pc = "loop" /\ z.node = 0 /\ z.tosync = <<>> /\ z.toasync = <<>>
        /\ z.then = f.then /\ z.cause = f.cause /\ z.rest = f.rest /\ z.edges = f.edges /\ z.upd = f.upd
        /\ IsContext(z)
    BY <1>2, <1>6, <2>2, Zenon DEF EmptyHands, IsContext
  <2>6. z.task \in Task /\ z.task # NoTask /\ z.task[2] = n
    BY <2>1, <2>5 DEF Task, NoTask
  <2>7. ContextOk(z) /\ WorkerOk(z)
    <3>1. ContextOk(z)
      BY <1>6, <2>5, <2>6 DEF ContextOk, Pc
    <3>2. WorkerOk(z)
      BY <2>5, <2>6 DEF WorkerOk
    <3> QED
      BY <3>1, <3>2
  <2>8. PICK y : /\ Goto(w, y) /\ IsContext(y) /\ ContextOk(y) /\ WorkerOk(y) /\ SameHands(z, y)
                 /\ y.pc \in {"loop", "wake"}
    BY <2>3, <2>4, <2>5, <2>7, AndWakeFacts, Zenon
  <2>9. /\ y.task # NoTask /\ y.task[2] = n /\ y.node = 0 /\ y.tosync = <<>> /\ y.toasync = <<>>
    BY <2>5, <2>6, <2>8, Zenon DEF SameHands
  <2>10. ctx'[w] = y /\ \A b \in Actor \ {w} : ctx'[b] = ctx[b]
    BY <1>1, <2>8, GoesThere
  <2>11. /\ Has(w, "tosync", n) /\ "tosync" \in Place /\ "sync" \in Place /\ "task" \in Place
         /\ \A m \in Node : In(m, t) => Has(w, "tosync", m)
    BY <1>2, <2>1, HasFacts, Zenon DEF Place
  <2>12. /\ sync' \in [Worker -> Seq(Node)] /\ \A v \in Worker \ {w} : sync'[v] = sync[v]
         /\ \A m : In(m, sync'[w]) <=> In(m, sync[w]) \/ In(m, t)
         /\ Distinct(sync'[w])
    <3>1. sync \in [Worker -> Seq(Node)] /\ sync[w] \in Seq(Node) /\ Distinct(sync[w])
      BY DEF HInv, QueuesOk, NoRepetition
    <3>2. CASE Len(q) > 1
      <4>1. sync' = [sync EXCEPT ![w] = sync[w] \o t]
        BY <1>2, <2>2, <2>3, <3>1, <3>2
      <4>2. \A m : In(m, sync[w]) => ~In(m, t)
        <5>1. ASSUME NEW m, In(m, sync[w]), In(m, t) PROVE FALSE
          <6>1. m \in Node
            BY <2>1, <5>1 DEF In
          <6>2. Has(w, "tosync", m) /\ Has(w, "sync", m)
            BY <2>11, <5>1, <6>1, HasFacts, Zenon
          <6>3. "tosync" # "sync"
            OBVIOUS
          <6> QED
            BY <2>11, <6>1, <6>2, <6>3 DEF HInv, Apart
        <5> QED
          BY <5>1
      <4>3. PICK u : u = sync[w] \o t
        BY Zenon
      <4>4. u \in Seq(Node) /\ Distinct(u) /\ \A m : In(m, u) <=> In(m, sync[w]) \/ In(m, t)
        BY <2>1, <3>1, <4>2, <4>3, ConcatFacts
      <4>5. /\ sync'[w] = u /\ \A v \in Worker \ {w} : sync'[v] = sync[v]
            /\ sync' \in [Worker -> Seq(Node)]
        BY <3>1, <4>1, <4>3, <4>4
      <4> QED
        BY <4>4, <4>5
    <3>3. CASE ~(Len(q) > 1)
      <4>1. sync' = sync
        BY <2>3, <3>3, Zenon
      <4>2. \A m : ~In(m, t)
        <5>1. DOMAIN t = 1 .. Len(q) - 1 /\ Len(q) \in Nat
          BY <1>2, <1>3, <1>8
        <5> QED
          BY <3>3, <5>1 DEF In
      <4> QED
        BY <3>1, <4>1, <4>2
    <3> QED
      BY <3>2, <3>3
  <2>13. PortsOk' /\ ActorsOk' /\ QueuesOk'
    <3>1. PortsOk'
      BY <1>4 DEF HInv, PortsOk
    <3>2. ActorsOk'
      BY <1>1, <2>8, ActorsStep DEF HInv
    <3>3. QueuesOk'
      BY <1>4, <2>12 DEF HInv, QueuesOk
    <3> QED
      BY <3>1, <3>2, <3>3
  <2>14. NoRepetition'
    <3>1. Distinct(<<>>)
      BY DEF Distinct
    <3>2. \A v \in Worker : v \in Actor
      BY WorkersAct
    <3>3. \A v \in Worker : Distinct(ctx'[v].tosync) /\ Distinct(ctx'[v].toasync)
      BY <2>9, <2>10, <3>1, <3>2, Zenon DEF HInv, NoRepetition
    <3>4. \A v \in Worker : Distinct(sync'[v]) /\ DistinctTasks(completed'[v])
      BY <1>4, <2>12 DEF HInv, NoRepetition
    <3> QED
      BY <3>3, <3>4 DEF NoRepetition
  <2>15. ASSUME NEW v \in Worker \ {w}, NEW p \in Place, NEW m \in Node
         PROVE  Has(v, p, m)' <=> Has(v, p, m)
    <3>1. ctx'[v] = ctx[v]
      BY <2>10, WorkersAct
    <3> QED
      BY <1>4, <2>12, <3>1, OtherPlaces, Zenon
  <2>16. ASSUME NEW m \in Node
         PROVE  /\ \A p \in Place \ {"task", "tosync", "sync"} : Has(w, p, m)' <=> Has(w, p, m)
                /\ Has(w, "task", m)' <=> m = n
                /\ ~Has(w, "task", m)
                /\ ~Has(w, "tosync", m)'
                /\ Has(w, "sync", m)' <=> Has(w, "sync", m) \/ In(m, t)
                /\ Has(w, "tosync", m) <=> m = n \/ In(m, t)
    <3>1. /\ ctx'[w].node = ctx[w].node /\ ctx'[w].toasync = ctx[w].toasync
          /\ completed'[w] = completed[w] /\ running' = running
      BY <1>2, <1>3, <1>4, <2>9, <2>10, Zenon
    <3>2. /\ Has(w, "node", m)' <=> Has(w, "node", m)
          /\ Has(w, "toasync", m)' <=> Has(w, "toasync", m)
          /\ Has(w, "done", m)' <=> Has(w, "done", m)
          /\ Has(w, "runtime", m)' <=> Has(w, "runtime", m)
      BY <3>1, FieldFacts, Zenon
    <3>3. /\ Has(w, "task", m)' <=> ctx'[w].task # NoTask /\ ctx'[w].task[2] = m
          /\ Has(w, "tosync", m)' <=> In(m, ctx'[w].tosync)
          /\ Has(w, "sync", m)' <=> In(m, sync'[w])
      BY HasNextFacts, Zenon
    <3>4. /\ Has(w, "task", m) <=> ctx[w].task # NoTask /\ ctx[w].task[2] = m
          /\ Has(w, "tosync", m) <=> In(m, ctx[w].tosync)
          /\ Has(w, "sync", m) <=> In(m, sync[w])
      BY HasFacts, Zenon
    <3>5. \A i : ~In(i, <<>>)
      BY DEF In
    <3>6. /\ Has(w, "task", m)' <=> m = n
          /\ ~Has(w, "tosync", m)'
      BY <2>9, <2>10, <3>3, <3>5, Zenon
    <3>7. /\ ~Has(w, "task", m)
          /\ Has(w, "tosync", m) <=> m = n \/ In(m, t)
      BY <1>2, <1>3, <2>1, <3>4, Zenon
    <3>8. Has(w, "sync", m)' <=> Has(w, "sync", m) \/ In(m, t)
      BY <2>12, <3>3, <3>4, Zenon
    <3> QED
      BY <3>2, <3>6, <3>7, <3>8 DEF Place
  <2>17. \A m \in Node : Stays(m) \/ Dropped(m) \/ Moved(m)
    <3>1. ASSUME NEW m \in Node, m # n, ~In(m, t) PROVE Stays(m)
      BY <2>15, <2>16, <3>1 DEF Stays, Place
    <3>2. ASSUME NEW m \in Node, NEW to, to \in {"task", "sync"}, Has(w, "tosync", m),
                 Has(w, "task", m)' <=> to = "task", Has(w, "sync", m)' <=> to = "sync" \/ Has(w, "sync", m)
          PROVE Moved(m)
      <4>1. \A v \in Worker, p \in Place : Has(v, p, m) <=> v = w /\ p = "tosync"
        BY <2>11, <3>2, OnePlace DEF HInv
      <4>2. ASSUME NEW v \in Worker, NEW p \in Place PROVE Has(v, p, m)' <=> v = w /\ p = to
        <5>1. CASE v # w
          BY <2>15, <4>1, <5>1
        <5>2. CASE v = w
          BY <2>16, <3>2, <4>1, <5>2 DEF Place
        <5> QED
          BY <5>1, <5>2
      <4>3. to \in Place /\ "tosync" \in Place \ {"node"} /\ Has(w, "tosync", m)
        BY <3>2 DEF Place
      <4> QED
        BY <4>2, <4>3, Zenon DEF Moved
    <3>3. Moved(n)
      BY <2>1, <2>11, <2>16, <3>2
    <3>4. ASSUME NEW m \in Node, In(m, t) PROVE Moved(m)
      BY <2>1, <2>11, <2>16, <3>2, <3>4
    <3> QED
      BY <3>1, <3>3, <3>4
  <2>18. \A v \in Worker : /\ At(v, "event") \/ At(v, "event")' => ctx'[v] = ctx[v]
                           /\ At(v, "schedule")' => ctx'[v] = ctx[v]
    <3>1. \A v \in Worker \ {w} : ctx'[v] = ctx[v]
      BY <2>10, WorkersAct
    <3>2. ctx[w].pc = "edges" /\ ctx'[w].pc \in {"loop", "wake"}
      BY <1>2, <1>3, <2>8, <2>10, Zenon
    <3> QED
      BY <3>1, <3>2 DEF At
  <2>19. EventsOk' /\ Apart' /\ StatesOk' /\ Held'
    BY <1>4, <2>17, <2>18, PlacesStep
  <2> QED
    BY <2>13, <2>14, <2>19 DEF HInv
<1> QED
  BY <1>7, <1>8

-----------------------------------------------------------------------------
(* The steps of an event *)

\* A worker that has a node to itself goes on with its event, in place "node", puts it on one of
\* its lists, or lets it go, in no place.
EventStepped(w, n, place) ==
    /\ UNCHANGED <<finished, error>>
    /\ \A v \in Worker, p \in Place : Has(v, p, n) => v = w /\ p = "node"
    /\ \A v \in Worker, p \in Place : Has(v, p, n)' <=> v = w /\ p = place
    /\ \A m \in Node \ {n} : Stays(m)
    /\ \A v \in Worker \ {w} : ctx'[v] = ctx[v]
    /\ ctx[w].node \in {n, 0} /\ ctx'[w].node \in {n, 0}
    /\ ctx'[w].pc = IF place = "node" THEN "event" ELSE "edges"
    /\ lock' = [lock EXCEPT ![n] = IF place = "node" THEN w ELSE Nobody]
    /\ state' \in [Node -> {"idle", "processing", "finished"}]
    /\ \A m \in Node \ {n} : state'[m] = state[m]
    /\ place = "node" => state'[n] = state[n]
    /\ place # "node" => (state'[n] = "processing" <=> place # "none")
    /\ Resize(n) => place \in {"node", "none"}
    /\ \A m \in Node \ {n} : proc'[m] = proc[m]
    /\ place = "node" => StepOk(n, ctx'[w].step, ctx'[w].cause, ctx'[w].rest, proc'[n])

\* A step of an event leaves every processor in one place.
LEMMA NodeStep ==
    ASSUME HInv, NEW w \in Worker, NEW n \in Node,
           NEW place \in {"node", "tosync", "toasync", "none"}, EventStepped(w, n, place)
    PROVE  EventsOk' /\ Apart' /\ StatesOk' /\ Held'
<1> USE DEF EventStepped
<1>1. /\ n # 0 /\ 0 \notin Node /\ Nobody \notin Worker
  BY ExecutorAssumption DEF Node, Worker, Nobody
<1>2. "node" \in Place /\ "tosync" \in Place /\ "toasync" \in Place
  BY DEF Place
<1>3. ASSUME NEW v \in Worker, NEW m \in Node
      PROVE  /\ Has(v, "node", m) <=> ctx[v].node = m
             /\ Has(v, "node", m)' <=> ctx'[v].node = m
  BY HasFacts, HasNextFacts, Zenon
<1>4. ASSUME NEW v \in Worker \ {w} PROVE ctx[v].node # n /\ ctx'[v].node # n
  BY <1>2, <1>3
<1>5. EventsOk'
  <2>1. SUFFICES ASSUME NEW v \in Worker, At(v, "event")'
                 PROVE  StepOk(ctx'[v].node, ctx'[v].step, ctx'[v].cause, ctx'[v].rest,
                               proc'[ctx'[v].node])
    BY DEF EventsOk
  <2>2. CASE v = w
    <3>1. place = "node"
      BY <2>1, <2>2 DEF At
    <3>2. ctx'[w].node = n
      BY <1>2, <1>3, <3>1
    <3> QED
      BY <2>2, <3>1, <3>2
  <2>3. CASE v # w
    <3>1. ctx'[v] = ctx[v] /\ v \in Actor
      BY <2>3, WorkersAct
    <3>2. At(v, "event")
      BY <2>1, <3>1 DEF At
    <3>3. StepOk(ctx[v].node, ctx[v].step, ctx[v].cause, ctx[v].rest, proc[ctx[v].node])
      BY <3>2 DEF HInv, EventsOk
    <3>4. ctx[v].node \in Node \ {n}
      <4>1. ctx[v].node \in Node \union {0} /\ ctx[v].node # 0
        BY <3>1, <3>2 DEF HInv, ActorsOk, ContextOk, WorkerOk, At
      <4> QED
        BY <1>4, <2>3, <4>1
    <3> QED
      BY <3>1, <3>3, <3>4
  <2> QED
    BY <2>2, <2>3
<1>6. Apart'
  <2>1. ASSUME NEW m \in Node, NEW u \in Worker, NEW v \in Worker, NEW p \in Place, NEW q \in Place,
               Has(u, p, m)', Has(v, q, m)'
        PROVE  u = v /\ p = q
    <3>1. CASE m = n
      BY <2>1, <3>1, Zenon
    <3>2. CASE m # n
      <4>1. Has(u, p, m) /\ Has(v, q, m)
        BY <2>1, <3>2, Zenon DEF Stays
      <4> QED
        BY <4>1, Zenon DEF HInv, Apart
    <3> QED
      BY <3>1, <3>2
  <2> QED
    BY <2>1, Zenon DEF Apart
<1>7. StatesOk'
  <2>1. /\ lock \in [Node -> Worker \union {Nobody}]
        /\ \A m \in Node : state[m] = "processing" => ~Resize(m)
    BY DEF HInv, StatesOk
  <2>2. ASSUME NEW v \in Worker, NEW m \in Node
        PROVE  /\ \A p \in Place : Has(v, p, m) /\ p # "node" => state[m] = "processing"
               /\ ctx[v].node = m /\ ctx[v].pc = "schedule" => state[m] = "processing"
               /\ ctx[v].node = m /\ ctx[v].pc = "event" => lock[m] = v
               /\ lock[m] = v => ctx[v].node = m /\ ctx[v].pc = "event"
    <3>1. /\ \A p \in Place : Has(v, p, m) /\ p # "node" => state[m] = "processing"
          /\ Has(v, "node", m) /\ ctx[v].pc = "schedule" => state[m] = "processing"
          /\ Has(v, "node", m) /\ ctx[v].pc = "event" => lock[m] = v
          /\ lock[m] = v => Has(v, "node", m) /\ ctx[v].pc = "event"
      BY <1>2, Zenon DEF HInv, StatesOk
    <3>2. Has(v, "node", m) <=> ctx[v].node = m
      BY <1>3
    <3> QED
      BY <3>1, <3>2
  <2>3. lock' \in [Node -> Worker \union {Nobody}]
    BY <2>1
  <2>4. ASSUME NEW m \in Node, state'[m] = "processing" PROVE ~Resize(m)
    <3>1. CASE m = n /\ place = "node"
      BY <2>1, <2>4, <3>1
    <3>2. CASE m = n /\ place # "node"
      BY <2>4, <3>2
    <3>3. CASE m # n
      BY <2>1, <2>4, <3>3
    <3> QED
      BY <3>1, <3>2, <3>3
  <2>5. ASSUME NEW v \in Worker, NEW m \in Node, NEW p \in Place, Has(v, p, m)', p # "node"
        PROVE  state'[m] = "processing"
    <3>1. CASE m = n
      <4>1. p = place
        BY <2>5, <3>1
      <4>2. place # "node" /\ place # "none"
        BY <2>5, <4>1 DEF Place
      <4> QED
        BY <3>1, <4>2
    <3>2. CASE m # n
      <4>1. Has(v, p, m)
        BY <2>5, <3>2, Zenon DEF Stays
      <4> QED
        BY <2>2, <2>5, <3>2, <4>1
    <3> QED
      BY <3>1, <3>2
  <2>6. ASSUME NEW v \in Worker, NEW m \in Node, ctx'[v].node = m, ctx'[v].pc = "schedule"
        PROVE  state'[m] = "processing"
    <3>1. v # w
      BY <2>6
    <3>2. m # n /\ ctx'[v] = ctx[v]
      BY <1>4, <2>6, <3>1
    <3> QED
      BY <2>2, <2>6, <3>2
  <2>7. ASSUME NEW v \in Worker, NEW m \in Node
        PROVE  /\ ctx'[v].node = m /\ ctx'[v].pc = "event" => lock'[m] = v
               /\ lock'[m] = v => ctx'[v].node = m /\ ctx'[v].pc = "event"
    <3>1. CASE v = w /\ m = n
      <4>1. ctx'[w].node = n <=> place = "node"
        BY <1>2, <1>3
      <4>2. lock'[n] = IF place = "node" THEN w ELSE Nobody
        BY <2>1
      <4> QED
        BY <1>1, <3>1, <4>1, <4>2
    <3>2. CASE v = w /\ m # n
      <4>1. ctx'[w].node # m /\ ctx[w].node # m
        BY <1>1, <3>2
      <4>2. lock'[m] = lock[m]
        BY <2>1, <3>2
      <4> QED
        BY <2>2, <3>2, <4>1, <4>2
    <3>3. CASE v # w /\ m = n
      <4>1. ctx'[v].node # n
        BY <1>4, <3>3
      <4>2. lock'[n] \in {w, Nobody}
        BY <2>1
      <4> QED
        BY <1>1, <3>3, <4>1, <4>2
    <3>4. CASE v # w /\ m # n
      <4>1. ctx'[v] = ctx[v]
        BY <3>4
      <4>2. lock'[m] = lock[m]
        BY <2>1, <3>4
      <4> QED
        BY <2>2, <4>1, <4>2
    <3> QED
      BY <3>1, <3>2, <3>3, <3>4
  <2>8. ASSUME NEW v \in Worker, NEW m \in Node, NEW p \in Place
        PROVE  /\ Has(v, p, m)' /\ p # "node" => state'[m] = "processing"
               /\ Has(v, "node", m)' /\ ctx'[v].pc = "schedule" => state'[m] = "processing"
               /\ Has(v, "node", m)' /\ ctx'[v].pc = "event" => lock'[m] = v
               /\ lock'[m] = v => Has(v, "node", m)' /\ ctx'[v].pc = "event"
    <3>1. Has(v, "node", m)' <=> ctx'[v].node = m
      BY <1>3
    <3> QED
      BY <2>5, <2>6, <2>7, <3>1
  <2> QED
    BY <2>3, <2>4, <2>8, Zenon DEF StatesOk
<1>8. Held'
  <2>1. ASSUME error' = "none", ~finished', NEW m \in Node, state'[m] = "processing"
        PROVE  \E v \in Worker, p \in Place : Has(v, p, m)'
    <3>1. CASE m = n
      <4>1. place \in Place
        BY <1>2, <2>1, <3>1
      <4> QED
        BY <3>1, <4>1, Zenon
    <3>2. CASE m # n
      <4>1. PICK v \in Worker, p \in Place : Has(v, p, m)
        BY <2>1, <3>2 DEF HInv, Held
      <4> QED
        BY <3>2, <4>1, Zenon DEF Stays
    <3> QED
      BY <3>1, <3>2
  <2> QED
    BY <2>1, Zenon DEF Held
<1> QED
  BY <1>5, <1>6, <1>7, <1>8

\* A step of the event of a node that the worker has to itself.
LEMMA EventOfKeeps ==
    ASSUME Grounds, HInv, Shapes, NEW w \in Worker, NEW c, IsContext(c), ContextOk(c), NEW n \in Node,
           c.node = n, c.task = NoTask, c.tosync = ctx[w].tosync, c.toasync = ctx[w].toasync,
           StepOk(n, c.step, c.cause, c.rest, proc[n]),
           ctx[w].task = NoTask, ctx[w].node \in {n, 0},
           \A v \in Worker, p \in Place : Has(v, p, n) => v = w /\ p = "node",
           EventOf(w, c),
           UNCHANGED <<async, sync, completed, running, waitingAsync, finished, error, consumed>>
    PROVE  HInv'
<1>1. w \in Actor /\ n # 0 /\ 0 \notin Node
  BY WorkersAct, ExecutorAssumption DEF Node
<1>2. PICK x0 : x0 = [port |-> port, p |-> proc[n], upd |-> c.upd, cause |-> c.cause, step |-> c.step,
                      rest |-> c.rest, event |-> "-"]
  BY Zenon
<1>3. PICK x : x = EventStep(n, x0)
  BY Zenon
<1>4. Outcome(n, x0, x) /\ x0.cause = c.cause
  <2>1. /\ x0.port = port /\ x0.p = proc[n] /\ x0.upd = c.upd /\ x0.cause = c.cause
        /\ x0.step = c.step /\ x0.rest = c.rest /\ x0.event = "-"
        /\ x0 = [port |-> x0.port, p |-> x0.p, upd |-> x0.upd, cause |-> x0.cause, step |-> x0.step,
                 rest |-> x0.rest, event |-> x0.event]
    BY <1>2, Zenon
  <2>2. port \in [Edge -> Port] /\ proc[n] \in Processor(n)
    BY DEF HInv, PortsOk
  <2>3. c.upd \in Seq(Touched) /\ c.cause \in Cause /\ c.rest \in Seq(Edge)
    BY DEF ContextOk
  <2>4. IsView(n, x0)
    BY <2>1, <2>2, <2>3, Zenon DEF IsView
  <2>5. StepOk(n, x0.step, x0.cause, x0.rest, x0.p)
    BY <2>1
  <2> QED
    BY <1>3, <2>1, <2>4, <2>5, EventOutcome
<1>5. /\ x.port \in [Edge -> Port] /\ x.p \in Processor(n) /\ x.upd \in Seq(Touched)
      /\ x.rest \in Seq(Edge) /\ x.event \in {"-", "idle", "work", "finished"}
      /\ x.event = "-" => StepOk(n, x.step, c.cause, x.rest, x.p)
      /\ Resize(n) => x.event # "work"
  BY <1>4 DEF Outcome, IsView
<1>6. PICK q, r : /\ q = IF x.event = "work" /\ async[n] = FALSE THEN Append(c.tosync, n) ELSE c.tosync
                  /\ r = IF x.event = "work" /\ async[n] = TRUE THEN Append(c.toasync, n) ELSE c.toasync
  BY Zenon
<1>7. PICK yes, no : /\ yes = [c EXCEPT !.pc = "event", !.upd = x.upd, !.step = x.step, !.rest = x.rest]
                     /\ no = [c EXCEPT !.pc = "edges", !.node = 0, !.cause = Fresh.cause, !.step = "-",
                                       !.rest = <<>>, !.upd = <<>>, !.edges = x.upd \o c.edges,
                                       !.tosync = q, !.toasync = r]
  BY Zenon
<1>8. no = [c EXCEPT !.pc = "edges", !.node = 0, !.cause = Fresh.cause, !.step = "-",
                     !.rest = <<>>, !.upd = <<>>, !.edges = x.upd \o @,
                     !.tosync = IF x.event = "work" /\ async[n] = FALSE THEN Append(@, n) ELSE @,
                     !.toasync = IF x.event = "work" /\ async[n] = TRUE THEN Append(@, n) ELSE @]
  BY <1>6, <1>7, Zenon DEF IsContext
<1>9. /\ port' = x.port /\ proc' = [proc EXCEPT ![n] = x.p]
      /\ \/ /\ x.event = "-" /\ lock' = [lock EXCEPT ![n] = w] /\ Goto(w, yes) /\ UNCHANGED state
         \/ /\ x.event # "-" /\ state' = [state EXCEPT ![n] = NextState(x.event)]
            /\ lock' = [lock EXCEPT ![n] = Nobody] /\ Goto(w, no)
  BY <1>2, <1>3, <1>7, <1>8, Zenon DEF EventOf
<1>10. PortsOk' /\ \A m \in Node \ {n} : proc'[m] = proc[m]
  <2>1. proc = [m \in Node |-> proc[m]] /\ \A m \in Node : proc[m] \in Processor(m)
    BY DEF HInv, PortsOk
  <2>2. /\ proc' = [m \in Node |-> proc'[m]] /\ proc'[n] = x.p /\ \A m \in Node \ {n} : proc'[m] = proc[m]
    BY <1>9, <2>1, Zenon
  <2>3. \A m \in Node : proc'[m] \in Processor(m)
    BY <1>5, <2>1, <2>2, Zenon
  <2>4. port' \in [Edge -> Port]
    BY <1>5, <1>9, Zenon
  <2>5. async' \in [Node -> BOOLEAN] /\ consumed' \in [SinkNode -> Seq(Block)]
    BY DEF HInv, PortsOk
  <2> QED
    BY <2>2, <2>3, <2>4, <2>5, Zenon DEF PortsOk
<1>11. proc'[n] = x.p
  <2>1. proc = [m \in Node |-> proc[m]]
    BY DEF HInv, PortsOk
  <2> QED
    BY <1>9, <2>1, Zenon
<1>12. /\ ~In(n, c.tosync) /\ ~In(n, c.toasync) /\ Distinct(c.tosync) /\ Distinct(c.toasync)
       /\ c.tosync \in Seq(Node) /\ c.toasync \in Seq(Node)
  <2>1. ~Has(w, "tosync", n) /\ ~Has(w, "toasync", n)
    BY Zenon DEF Place
  <2>2. ~In(n, ctx[w].tosync) /\ ~In(n, ctx[w].toasync)
    BY <2>1, HasFacts, Zenon
  <2> QED
    BY <2>2, Zenon DEF HInv, NoRepetition, ContextOk
<1>13. PICK place \in {"node", "tosync", "toasync", "none"} :
          /\ place = "node" <=> x.event = "-"
          /\ place = "tosync" <=> x.event = "work" /\ async[n] = FALSE
          /\ place = "toasync" <=> x.event = "work" /\ async[n] = TRUE
  <2>1. async[n] \in BOOLEAN
    BY DEF HInv, PortsOk
  <2> QED
    BY <1>5, <2>1, Zenon
<1>14. /\ q \in Seq(Node) /\ Distinct(q) /\ r \in Seq(Node) /\ Distinct(r)
       /\ \A m : In(m, q) <=> In(m, c.tosync) \/ (m = n /\ place = "tosync")
       /\ \A m : In(m, r) <=> In(m, c.toasync) \/ (m = n /\ place = "toasync")
  <2>1. /\ Append(c.tosync, n) \in Seq(Node) /\ Distinct(Append(c.tosync, n))
        /\ \A m : In(m, Append(c.tosync, n)) <=> m = n \/ In(m, c.tosync)
    BY <1>12, AppendFacts, Zenon
  <2>2. /\ Append(c.toasync, n) \in Seq(Node) /\ Distinct(Append(c.toasync, n))
        /\ \A m : In(m, Append(c.toasync, n)) <=> m = n \/ In(m, c.toasync)
    BY <1>12, AppendFacts, Zenon
  <2>3. q = IF place = "tosync" THEN Append(c.tosync, n) ELSE c.tosync
    BY <1>6, <1>13, Zenon
  <2>4. r = IF place = "toasync" THEN Append(c.toasync, n) ELSE c.toasync
    BY <1>6, <1>13, Zenon
  <2>5. q \in Seq(Node) /\ Distinct(q) /\ \A m : In(m, q) <=> In(m, c.tosync) \/ (m = n /\ place = "tosync")
    <3>1. CASE place = "tosync"
      BY <2>1, <2>3, <3>1, Zenon
    <3>2. CASE place # "tosync"
      BY <1>12, <2>3, <3>2, Zenon
    <3> QED
      BY <3>1, <3>2, Zenon
  <2>6. r \in Seq(Node) /\ Distinct(r) /\ \A m : In(m, r) <=> In(m, c.toasync) \/ (m = n /\ place = "toasync")
    <3>1. CASE place = "toasync"
      BY <2>2, <2>4, <3>1
    <3>2. CASE place # "toasync"
      BY <1>12, <2>4, <3>2
    <3> QED
      BY <3>1, <3>2
  <2> QED
    BY <2>5, <2>6, Zenon
<1>15. /\ IsContext(yes) /\ yes.pc = "event" /\ yes.upd = x.upd /\ yes.step = x.step /\ yes.rest = x.rest
       /\ yes.task = NoTask /\ yes.node = n /\ yes.cause = c.cause /\ yes.edges = c.edges
       /\ yes.tosync = c.tosync /\ yes.toasync = c.toasync /\ yes.then = c.then
  BY <1>7, Zenon DEF IsContext
<1>16. /\ IsContext(no) /\ no.pc = "edges" /\ no.upd = <<>> /\ no.rest = <<>>
       /\ no.task = NoTask /\ no.node = 0 /\ no.cause = Fresh.cause /\ no.edges = x.upd \o c.edges
       /\ no.tosync = q /\ no.toasync = r /\ no.then = c.then
  BY <1>7, Zenon DEF IsContext
<1>17. ContextOk(yes) /\ WorkerOk(yes)
  <2>1. ContextOk(yes)
    BY <1>5, <1>15, Zenon DEF ContextOk, Pc
  <2>2. WorkerOk(yes)
    BY <1>1, <1>15, Zenon DEF WorkerOk
  <2> QED
    BY <2>1, <2>2
<1>18. ContextOk(no) /\ WorkerOk(no)
  <2>1. Fresh.cause \in Cause
    BY Zenon DEF Fresh, Cause
  <2>2. x.upd \o c.edges \in Seq(Touched) /\ <<>> \in Seq(Touched) /\ <<>> \in Seq(Edge)
    BY <1>5, ListFacts, Zenon DEF ContextOk
  <2>3. ContextOk(no)
    BY <1>14, <1>16, <2>1, <2>2, Zenon DEF ContextOk, Pc
  <2>4. WorkerOk(no)
    BY <1>16, Zenon DEF WorkerOk
  <2> QED
    BY <2>3, <2>4
<1>19. PICK y : /\ Goto(w, y) /\ IsContext(y) /\ ContextOk(y) /\ WorkerOk(y) /\ y.task = NoTask
                /\ y.node = IF place = "node" THEN n ELSE 0
                /\ y.pc = IF place = "node" THEN "event" ELSE "edges"
                /\ Distinct(y.tosync) /\ Distinct(y.toasync)
                /\ \A m : In(m, y.tosync) <=> In(m, c.tosync) \/ (m = n /\ place = "tosync")
                /\ \A m : In(m, y.toasync) <=> In(m, c.toasync) \/ (m = n /\ place = "toasync")
                /\ place = "node" => StepOk(n, y.step, y.cause, y.rest, x.p)
  <2>1. CASE x.event = "-"
    <3>1. place = "node" /\ Goto(w, yes)
      BY <1>9, <1>13, <2>1, Zenon
    <3>2. StepOk(n, yes.step, yes.cause, yes.rest, x.p)
      BY <1>5, <1>15, <2>1, Zenon
    <3> QED
      BY <1>12, <1>15, <1>17, <3>1, <3>2, Zenon
  <2>2. CASE x.event # "-"
    <3>1. place # "node" /\ Goto(w, no)
      BY <1>9, <1>13, <2>2, Zenon
    <3> QED
      BY <1>14, <1>16, <1>18, <3>1, Zenon
  <2> QED
    BY <2>1, <2>2, Zenon
<1>20. /\ lock' = [lock EXCEPT ![n] = IF place = "node" THEN w ELSE Nobody]
       /\ state' \in [Node -> {"idle", "processing", "finished"}]
       /\ \A m \in Node \ {n} : state'[m] = state[m]
       /\ place = "node" => state'[n] = state[n]
       /\ place # "node" => (state'[n] = "processing" <=> place # "none")
  <2>1. state \in [Node -> {"idle", "processing", "finished"}]
    BY Zenon DEF HInv, StatesOk
  <2>2. CASE x.event = "-"
    BY <1>9, <1>13, <2>1, <2>2, Zenon
  <2>3. CASE x.event # "-"
    <3>1. PICK s : s = NextState(x.event)
      BY Zenon
    <3>2. s \in {"idle", "processing", "finished"} /\ (s = "processing" <=> x.event = "work")
      BY <1>5, <2>3, <3>1, Zenon DEF NextState
    <3>3. place # "node" /\ (place # "none" <=> x.event = "work")
      <4>1. async[n] \in BOOLEAN
        BY DEF HInv, PortsOk
      <4> QED
        BY <1>13, <2>3, <4>1, Zenon
    <3>4. state' = [state EXCEPT ![n] = s] /\ lock' = [lock EXCEPT ![n] = Nobody]
      BY <1>9, <2>3, <3>1, Zenon
    <3> QED
      BY <2>1, <3>2, <3>3, <3>4, Zenon
  <2> QED
    BY <2>2, <2>3, Zenon
<1>21. ctx'[w] = y /\ \A b \in Actor \ {w} : ctx'[b] = ctx[b]
  BY <1>1, <1>19, GoesThere
<1>22. \A v \in Worker \ {w} : ctx'[v] = ctx[v]
  BY <1>21, WorkersAct, Zenon
<1>23. ASSUME NEW v \in Worker \ {w}, NEW p \in Place, NEW m \in Node
       PROVE  Has(v, p, m)' <=> Has(v, p, m)
  BY <1>22, OtherPlaces, Zenon
<1>24. ASSUME NEW m \in Node
       PROVE  /\ ~Has(w, "task", m)' /\ ~Has(w, "task", m)
              /\ Has(w, "node", m)' <=> m = n /\ place = "node"
              /\ Has(w, "node", m) => m = n
              /\ Has(w, "tosync", m)' <=> Has(w, "tosync", m) \/ (m = n /\ place = "tosync")
              /\ Has(w, "toasync", m)' <=> Has(w, "toasync", m) \/ (m = n /\ place = "toasync")
              /\ Has(w, "sync", m)' <=> Has(w, "sync", m)
              /\ Has(w, "done", m)' <=> Has(w, "done", m)
              /\ Has(w, "runtime", m)' <=> Has(w, "runtime", m)
  <2>1. /\ Has(w, "task", m)' <=> ctx'[w].task # NoTask /\ ctx'[w].task[2] = m
        /\ Has(w, "node", m)' <=> ctx'[w].node = m
        /\ Has(w, "tosync", m)' <=> In(m, ctx'[w].tosync)
        /\ Has(w, "toasync", m)' <=> In(m, ctx'[w].toasync)
    BY HasNextFacts, Zenon
  <2>2. /\ Has(w, "task", m) <=> ctx[w].task # NoTask /\ ctx[w].task[2] = m
        /\ Has(w, "node", m) <=> ctx[w].node = m
        /\ Has(w, "tosync", m) <=> In(m, ctx[w].tosync)
        /\ Has(w, "toasync", m) <=> In(m, ctx[w].toasync)
    BY HasFacts, Zenon
  <2>3. /\ Has(w, "sync", m)' <=> Has(w, "sync", m)
        /\ Has(w, "done", m)' <=> Has(w, "done", m)
        /\ Has(w, "runtime", m)' <=> Has(w, "runtime", m)
    BY FieldFacts, Zenon
  <2>4. m # 0
    BY <1>1, Zenon
  <2>5. /\ ~Has(w, "task", m)' /\ ~Has(w, "task", m)
        /\ Has(w, "node", m)' <=> m = n /\ place = "node"
        /\ Has(w, "node", m) => m = n
    BY <1>19, <1>21, <2>1, <2>2, <2>4, Zenon
  <2>6. /\ Has(w, "tosync", m)' <=> Has(w, "tosync", m) \/ (m = n /\ place = "tosync")
        /\ Has(w, "toasync", m)' <=> Has(w, "toasync", m) \/ (m = n /\ place = "toasync")
    BY <1>19, <1>21, <2>1, <2>2, Zenon
  <2> QED
    BY <2>3, <2>5, <2>6, Zenon
<1>25. \A m \in Node \ {n} : Stays(m)
  <2>1. ASSUME NEW m \in Node \ {n}, NEW v \in Worker, NEW p \in Place
        PROVE  Has(v, p, m)' <=> Has(v, p, m)
    <3>1. CASE v # w
      BY <1>23, <3>1, Zenon
    <3>2. CASE v = w
      BY <1>24, <2>1, <3>2, Zenon DEF Place
    <3> QED
      BY <3>1, <3>2, Zenon
  <2> QED
    BY <2>1, Zenon DEF Stays
<1>26. ASSUME NEW v \in Worker, NEW p \in Place PROVE Has(v, p, n)' <=> v = w /\ p = place
  <2>1. CASE v # w
    BY <1>23, <2>1
  <2>2. CASE v = w
    BY <1>24, <2>2, Zenon DEF Place
  <2> QED
    BY <2>1, <2>2
<1>27. EventsOk' /\ Apart' /\ StatesOk' /\ Held'
  <2>1. ctx'[w].node \in {n, 0} /\ ctx'[w].pc = IF place = "node" THEN "event" ELSE "edges"
    BY <1>19, <1>21, Zenon
  <2>2. Resize(n) => place \in {"node", "none"}
    BY <1>5, <1>13
  <2>3. place = "node" => StepOk(n, ctx'[w].step, ctx'[w].cause, ctx'[w].rest, proc'[n])
    BY <1>11, <1>19, <1>21, Zenon
  <2>4. UNCHANGED <<finished, error>> /\ \A v \in Worker, p \in Place : Has(v, p, n)' <=> v = w /\ p = place
    BY <1>26, Zenon
  <2>5. \A m \in Node \ {n} : proc'[m] = proc[m]
    BY <1>10, Zenon
  <2>6. EventStepped(w, n, place)
    BY <1>20, <1>22, <1>25, <2>1, <2>2, <2>3, <2>4, <2>5, Zenon DEF EventStepped
  <2> QED
    BY <2>6, NodeStep
<1>28. ActorsOk' /\ QueuesOk' /\ NoRepetition'
  <2>1. ActorsOk'
    BY <1>1, <1>19, ActorsStep, Zenon DEF HInv
  <2>2. QueuesOk'
    BY Zenon DEF HInv, QueuesOk
  <2>3. NoRepetition'
    BY <1>19, <1>21, <1>22, Zenon DEF HInv, NoRepetition
  <2> QED
    BY <2>1, <2>2, <2>3
<1> QED
  BY <1>10, <1>27, <1>28 DEF HInv

\* An event may begin at every node.
LEMMA BeginOk ==
    ASSUME NEW n \in Node, NEW cause, NEW rest, NEW p
    PROVE  StepOk(n, "begin", cause, rest, p)
<1>1. Graph.kind[n] \in {"source", "transform", "resize", "sink"}
  BY ExecutorAssumption DEF Node
<1>2. "begin" \in {"begin", "can_push", "push"}
  OBVIOUS
<1> QED
  BY <1>1, <1>2, Zenon DEF StepOk

\* schedule_queue after a task: the event of the node that was executed.
LEMMA ScheduleNodeKeeps ==
    ASSUME Grounds, HInv, Shapes, NEW w \in Worker, ScheduleNode(w)
    PROVE  HInv'
<1>1. w \in Actor
  BY WorkersAct
<1>2. PICK b, n, c : b = ctx[w] /\ n = b.node /\ c = [b EXCEPT !.step = "begin"]
  BY Zenon
<1>3. /\ b.pc = "schedule" /\ IsContext(b) /\ ContextOk(b) /\ WorkerOk(b)
  BY <1>1, <1>2, Zenon DEF ScheduleNode, At, HInv, ActorsOk, Shapes
<1>4. n \in Node /\ b.task = NoTask
  <2>1. n \in Node \union {0} /\ n # 0 /\ b.task = NoTask
    BY <1>2, <1>3 DEF ContextOk, WorkerOk
  <2> QED
    BY <2>1
<1>5. /\ IsContext(c) /\ c.pc = b.pc /\ c.node = n /\ c.task = b.task /\ c.tosync = b.tosync
      /\ c.toasync = b.toasync /\ c.then = b.then /\ c.cause = b.cause /\ c.rest = b.rest
      /\ c.edges = b.edges /\ c.upd = b.upd /\ c.step = "begin"
  BY <1>2, <1>3, Zenon DEF IsContext
<1>6. ContextOk(c)
  BY <1>2, <1>3, <1>5 DEF ContextOk
<1>7. StepOk(n, c.step, c.cause, c.rest, proc[n])
  BY <1>4, <1>5, BeginOk
<1>8. \A v \in Worker, p \in Place : Has(v, p, n) => v = w /\ p = "node"
  <2>1. Has(w, "node", n) /\ "node" \in Place
    BY <1>2, <1>4, HasFacts, Zenon DEF Place
  <2> QED
    BY <1>4, <2>1, OnePlace DEF HInv
<1>9. EventOf(w, c)
  BY <1>2, Zenon DEF ScheduleNode
<1>10. /\ UNCHANGED <<async, sync, completed, running, waitingAsync, finished, error, consumed>>
       /\ c.tosync = ctx[w].tosync /\ c.toasync = ctx[w].toasync /\ c.task = NoTask
       /\ ctx[w].task = NoTask /\ ctx[w].node \in {n, 0}
  BY <1>2, <1>4, <1>5 DEF ScheduleNode, queueVars
<1> QED
  BY <1>4, <1>5, <1>6, <1>7, <1>8, <1>9, <1>10, EventOfKeeps, Zenon

\* The next step of the event under way.
LEMMA EventKeeps ==
    ASSUME Grounds, HInv, Shapes, NEW w \in Worker, Event(w)
    PROVE  HInv'
<1>1. w \in Actor
  BY WorkersAct
<1>2. PICK c, n : c = ctx[w] /\ n = c.node
  BY Zenon
<1>3. /\ c.pc = "event" /\ IsContext(c) /\ ContextOk(c) /\ WorkerOk(c)
  BY <1>1, <1>2, Zenon DEF Event, At, HInv, ActorsOk, Shapes
<1>4. n \in Node /\ c.task = NoTask
  <2>1. n \in Node \union {0} /\ n # 0 /\ c.task = NoTask
    BY <1>2, <1>3 DEF ContextOk, WorkerOk
  <2> QED
    BY <2>1
<1>5. StepOk(n, c.step, c.cause, c.rest, proc[n])
  BY <1>2, Zenon DEF Event, HInv, EventsOk
<1>6. \A v \in Worker, p \in Place : Has(v, p, n) => v = w /\ p = "node"
  <2>1. Has(w, "node", n) /\ "node" \in Place
    BY <1>2, <1>4, HasFacts, Zenon DEF Place
  <2> QED
    BY <1>4, <2>1, OnePlace DEF HInv
<1>7. EventOf(w, c)
  BY <1>2, Zenon DEF Event
<1>8. /\ UNCHANGED <<async, sync, completed, running, waitingAsync, finished, error, consumed>>
      /\ c.tosync = ctx[w].tosync /\ c.toasync = ctx[w].toasync /\ c.node = n
      /\ ctx[w].task = NoTask /\ ctx[w].node \in {n, 0}
  BY <1>2, <1>4 DEF Event, queueVars
<1> QED
  BY <1>3, <1>4, <1>5, <1>6, <1>7, <1>8, EventOfKeeps, Zenon

\* schedule_queue after an event: the node at the end of an updated edge, when it is idle.
LEMMA ScheduleEdgeKeeps ==
    ASSUME Grounds, HInv, Shapes, NEW w \in Worker, ScheduleEdge(w)
    PROVE  HInv'
<1>1. w \in Actor /\ Nobody \notin Worker
  BY WorkersAct, ExecutorAssumption DEF Worker, Nobody
<1>2. PICK b, e, t, n : b = ctx[w] /\ e = Head(b.edges) /\ t = Tail(b.edges) /\ n = Target(e)
  BY Zenon
<1>3. /\ b.pc = "edges" /\ IsContext(b) /\ ContextOk(b) /\ WorkerOk(b) /\ b.edges # <<>>
  <2>1. b.pc = "edges" /\ b.edges # <<>>
    BY <1>2 DEF ScheduleEdge, At
  <2> QED
    BY <1>1, <1>2, <2>1, Zenon DEF HInv, ActorsOk, Shapes
<1>4. b.task = NoTask /\ b.node = 0
  BY <1>3 DEF WorkerOk
<1>5. e \in Touched /\ t \in Seq(Touched)
  <2>1. b.edges \in Seq(Touched)
    BY <1>3 DEF ContextOk
  <2> QED
    BY <1>2, <1>3, <2>1
<1>6. n \in Node
  <2>1. e[2] \in Edge
    BY <1>5 DEF Touched
  <2> QED
    BY <1>2, <2>1, ExecutorAssumption DEF Target, Edge
<1>7. PICK y, c : /\ y = [b EXCEPT !.edges = t]
                  /\ c = [y EXCEPT !.node = n, !.cause = e, !.step = "begin"]
  BY Zenon
<1>8. y = [b EXCEPT !.edges = Tail(@)]
  BY <1>2, <1>3, <1>7, Zenon DEF IsContext
<1>9. /\ IsContext(y) /\ y.pc = b.pc /\ y.node = b.node /\ y.task = b.task /\ y.tosync = b.tosync
      /\ y.toasync = b.toasync /\ y.then = b.then /\ y.cause = b.cause /\ y.rest = b.rest
      /\ y.edges = t /\ y.upd = b.upd
  BY <1>3, <1>7, Zenon DEF IsContext
<1>10. ContextOk(y) /\ WorkerOk(y)
  <2>1. ContextOk(y)
    BY <1>3, <1>5, <1>9 DEF ContextOk
  <2>2. WorkerOk(y)
    BY <1>3, <1>9 DEF WorkerOk
  <2> QED
    BY <2>1, <2>2
<1>11. UNCHANGED <<async, sync, completed, running, waitingAsync, finished, error, consumed>>
  BY DEF ScheduleEdge, queueVars
<1>12. /\ lock[n] = Nobody
       /\ \/ state[n] = "idle" /\ EventOf(w, c)
          \/ Goto(w, y) /\ UNCHANGED <<port, proc, state, lock>>
  BY <1>2, <1>7, <1>8, Zenon DEF ScheduleEdge
<1>13. CASE Goto(w, y) /\ UNCHANGED <<port, proc, state, lock>>
  <2>1. SameHands(ctx[w], y) /\ Unmoved
    BY <1>2, <1>9, <1>11, <1>13 DEF SameHands, Unmoved
  <2>2. finished \in BOOLEAN /\ error \in {"none", "killed", "failed"}
    BY DEF HInv, QueuesOk
  <2>3. ctx[w].pc = "edges" /\ y.pc = "edges"
    BY <1>2, <1>3, <1>9
  <2> QED
    BY <1>1, <1>9, <1>10, <1>11, <1>13, <2>1, <2>2, <2>3, QuietStep
<1>14. CASE state[n] = "idle" /\ EventOf(w, c)
  <2>1. /\ IsContext(c) /\ c.pc = y.pc /\ c.node = n /\ c.task = y.task /\ c.tosync = y.tosync
        /\ c.toasync = y.toasync /\ c.then = y.then /\ c.cause = e /\ c.rest = y.rest
        /\ c.edges = y.edges /\ c.upd = y.upd /\ c.step = "begin"
    BY <1>7, <1>9, Zenon DEF IsContext
  <2>2. ContextOk(c)
    <3>1. e \in Cause
      BY <1>5 DEF Cause
    <3> QED
      BY <1>6, <1>10, <2>1, <3>1 DEF ContextOk
  <2>3. StepOk(n, c.step, c.cause, c.rest, proc[n])
    BY <1>6, <2>1, BeginOk
  <2>4. ASSUME NEW v \in Worker, NEW p \in Place, Has(v, p, n) PROVE FALSE
    <3>1. CASE p # "node"
      BY <1>6, <1>14, <2>4, <3>1, Zenon DEF HInv, StatesOk
    <3>2. CASE p = "node"
      <4>1. ctx[v].node = n /\ n # 0
        <5>1. ctx[v].node = n
          BY <1>6, <2>4, <3>2, HasFacts, Zenon
        <5>2. n # 0
          BY <1>6, ListFacts, Zenon
        <5> QED
          BY <5>1, <5>2
      <4>2. ctx[v].pc \in {"schedule", "event"}
        BY <4>1, Zenon DEF HInv, ActorsOk, WorkerOk
      <4>3. ctx[v].pc = "schedule" => state[n] = "processing"
        BY <1>6, <2>4, <3>2, Zenon DEF HInv, StatesOk
      <4>4. ctx[v].pc = "event" => lock[n] = v
        BY <1>6, <2>4, <3>2 DEF HInv, StatesOk
      <4> QED
        BY <1>1, <1>12, <1>14, <4>2, <4>3, <4>4, Zenon
    <3> QED
      BY <3>1, <3>2
  <2>5. /\ c.tosync = ctx[w].tosync /\ c.toasync = ctx[w].toasync /\ c.task = NoTask
        /\ ctx[w].task = NoTask /\ ctx[w].node \in {n, 0}
        /\ \A v \in Worker, p \in Place : Has(v, p, n) => v = w /\ p = "node"
    BY <1>2, <1>4, <1>9, <2>1, <2>4, Zenon
  <2> QED
    BY <1>6, <1>11, <1>14, <2>1, <2>2, <2>3, <2>5, EventOfKeeps, Zenon
<1> QED
  BY <1>12, <1>13, <1>14

-----------------------------------------------------------------------------
(* A step *)

\* Every step of a worker, of the runtime or of the thread that kills the query keeps HInv.
LEMMA NextHolds ==
    ASSUME Grounds, HInv, Shapes, [Next]_vars
    PROVE  HInv'
<1>1. ASSUME NEW w \in Worker, Work(w) PROVE HInv'
  <2>1. CASE Loop(w) \/ StealFinishes(w) \/ StealWaits(w) \/ Wait(w) \/ Awake(w)
    BY <2>1, SleepKeeps
  <2>2. CASE Steal(w)
    BY <2>2, StealKeeps
  <2>3. CASE Execute(w)
    BY <2>3, ExecuteKeeps
  <2>4. CASE ExecuteFails(w)
    BY <2>4, FailKeeps
  <2>5. CASE ScheduleNode(w)
    BY <2>5, ScheduleNodeKeeps
  <2>6. CASE ScheduleEdge(w)
    BY <2>6, ScheduleEdgeKeeps
  <2>7. CASE Event(w)
    BY <2>7, EventKeeps
  <2>8. CASE Spawn(w)
    BY <2>8, SpawnKeeps
  <2>9. CASE Dispatch(w)
    BY <2>9, DispatchKeeps
  <2> QED
    BY <1>1, <2>1, <2>2, <2>3, <2>4, <2>5, <2>6, <2>7, <2>8, <2>9 DEF Work
<1>2. ASSUME NEW a \in Actor, EndQuery(a) PROVE HInv'
  BY <1>2, EndKeeps DEF EndQuery
<1>3. ASSUME NEW n \in Node, NEW w \in Worker, Async(n, w) PROVE HInv'
  <2>1. CASE AsyncDone(n, w)
    BY <2>1, CompletedKeeps DEF AsyncDone
  <2>2. CASE AsyncFails(n, w)
    BY <2>2, CompletedKeeps DEF AsyncFails
  <2>3. CASE AsyncDropped(n, w)
    BY <2>3, DroppedKeeps
  <2> QED
    BY <1>3, <2>1, <2>2, <2>3 DEF Async
<1>4. ASSUME NEW w \in Worker, RuntimeWakes(w) PROVE HInv'
  <2>1. UNCHANGED <<async, port, proc, state, lock, ctx, sync, completed, running, waitingAsync,
                    finished, error, consumed>>
    BY <1>4 DEF RuntimeWakes, graphVars, queueVars
  <2> QED
    BY <2>1, NothingMoves
<1>5. CASE Kill
  BY <1>5, FailKeeps
<1>6. CASE UNCHANGED vars
  <2>1. UNCHANGED <<async, port, proc, state, lock, ctx, sync, completed, running, waitingAsync,
                    finished, error, consumed>>
    BY <1>6 DEF vars, graphVars, queueVars
  <2> QED
    BY <2>1, NothingMoves
<1> QED
  BY <1>1, <1>2, <1>3, <1>4, <1>5, <1>6 DEF Next, Running, Terminating
=============================================================================
