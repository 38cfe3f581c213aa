--------------------------- MODULE ExecutorProofs ---------------------------
(***************************************************************************)
(* Two parts.  The assertion of wait_worker, for any graph and any number  *)
(* of workers: a worker that starts to wait is not in the waiting status,  *)
(* for nobody calls a worker that is not asleep, and nobody calls it       *)
(* twice.  And what a step of event() does to its view of the node: it     *)
(* keeps the ports, the processor and what the event has to go on with in  *)
(* order, for each of the four kinds of processors.                        *)
(***************************************************************************)
EXTENDS ExecutorInvariants, TLAPS

-----------------------------------------------------------------------------
(* Contexts *)

\* The workers are actors, and the thread that kills the query is not one of them.
LEMMA ActorFacts == Worker \subseteq Actor /\ Killer \in Actor /\ Killer \notin Worker
BY ExecutorAssumption DEF Worker, Actor, Killer

\* Fresh and what is made of it calls nobody.
LEMMA FreshFacts ==
    ASSUME NEW c, NEW y, NEW pc, NEW v
    PROVE  /\ y = Fresh => Follows(c, y)
           /\ y = [Fresh EXCEPT !.pc = pc] => Follows(c, y)
           /\ y = [Fresh EXCEPT !.pc = pc, !.node = v] => Follows(c, y)
           /\ y = [Fresh EXCEPT !.pc = pc, !.then = v] => Follows(c, y)
           /\ y = [Fresh EXCEPT !.task = v] => Follows(c, y)
<1>1. PICK f : f = Fresh
  OBVIOUS
<1>2. f = [pc |-> "loop", task |-> NoTask, node |-> 0, cause |-> <<"other", 0>>, step |-> "-",
           rest |-> <<>>, upd |-> <<>>, edges |-> <<>>, tosync |-> <<>>, toasync |-> <<>>,
           wake |-> {}, then |-> "-"]
  BY <1>1 DEF Fresh
<1>3. y = f => Follows(c, y)
  BY <1>2 DEF Follows, IsContext
<1>4. y = [f EXCEPT !.pc = pc] => Follows(c, y)
  BY <1>2, Zenon DEF Follows, IsContext
<1>5. y = [f EXCEPT !.pc = pc, !.node = v] => Follows(c, y)
  BY <1>2, Zenon DEF Follows, IsContext
<1>6. y = [f EXCEPT !.pc = pc, !.then = v] => Follows(c, y)
  BY <1>2, Zenon DEF Follows, IsContext
<1>7. y = [f EXCEPT !.task = v] => Follows(c, y)
  BY <1>2, Zenon DEF Follows, IsContext
<1> QED
  BY <1>1, <1>3, <1>4, <1>5, <1>6, <1>7

\* An actor that only moves on calls whom it has called before.
LEMMA PcFacts ==
    ASSUME NEW c, IsContext(c), NEW pc, NEW y, y = [c EXCEPT !.pc = pc]
    PROVE  Follows(c, y) /\ y.pc = pc
BY DEF Follows, IsContext

\* The other fields of a context may change.
LEMMA ContextFacts ==
    ASSUME NEW c, IsContext(c), NEW y, NEW pc, NEW v, NEW v2, NEW v3
    PROVE  /\ y = [c EXCEPT !.step = v] => Follows(c, y)
           /\ y = [c EXCEPT !.edges = v] => Follows(c, y)
           /\ y = [c EXCEPT !.toasync = v] => Follows(c, y)
           /\ y = [c EXCEPT !.pc = pc, !.task = v] => Follows(c, y)
           /\ y = [c EXCEPT !.pc = pc, !.then = v] => Follows(c, y)
           /\ y = [c EXCEPT !.node = v, !.cause = v2, !.step = v3] => Follows(c, y)
<1>1. y = [c EXCEPT !.step = v] => Follows(c, y)
  BY DEF Follows, IsContext
<1>2. y = [c EXCEPT !.edges = v] => Follows(c, y)
  BY DEF Follows, IsContext
<1>3. y = [c EXCEPT !.toasync = v] => Follows(c, y)
  BY DEF Follows, IsContext
<1>4. y = [c EXCEPT !.pc = pc, !.task = v] => Follows(c, y)
  BY Zenon DEF Follows, IsContext
<1>5. y = [c EXCEPT !.pc = pc, !.then = v] => Follows(c, y)
  BY Zenon DEF Follows, IsContext
<1>6. y = [c EXCEPT !.node = v, !.cause = v2, !.step = v3] => Follows(c, y)
  BY Zenon DEF Follows, IsContext
<1> QED
  BY <1>1, <1>2, <1>3, <1>4, <1>5, <1>6

\* Goto changes one context.
LEMMA GotoFacts ==
    ASSUME Shapes, NEW a \in Actor, NEW y, Goto(a, y), IsContext(y)
    PROVE  /\ ctx'[a] = y /\ \A b \in Actor \ {a} : ctx'[b] = ctx[b]
           /\ ctx' = [b \in Actor |-> ctx'[b]] /\ \A b \in Actor : IsContext(ctx'[b])
<1>1. ctx = [b \in Actor |-> ctx[b]] /\ \A b \in Actor : IsContext(ctx[b])
  BY DEF Shapes
<1>2. /\ ctx'[a] = y /\ \A b \in Actor \ {a} : ctx'[b] = ctx[b]
      /\ ctx' = [b \in Actor |-> ctx'[b]]
  BY <1>1 DEF Goto
<1> QED
  BY <1>1, <1>2

-----------------------------------------------------------------------------
(* What a step keeps *)

\* An actor that does not sleep goes on.
LEMMA OrdinaryStep ==
    ASSUME Called, NEW a \in Actor, NEW y, Goto(a, y), Follows(ctx[a], y), ~Sleeps(a),
           UNCHANGED <<waiting, flag, ringing>>, finished => finished'
    PROVE  Called'
<1>1. /\ ctx'[a] = y /\ \A b \in Actor \ {a} : ctx'[b] = ctx[b]
      /\ ctx' = [b \in Actor |-> ctx'[b]] /\ \A b \in Actor : IsContext(ctx'[b])
  BY GotoFacts DEF Called, Follows
<1>2. Shapes'
  BY <1>1 DEF Called, Shapes
<1>3. ASSUME ~finished', NEW w \in Worker PROVE CalledOnce(w)'
  <2>1. CalledOnce(w) /\ w \in Actor
    BY <1>3, ActorFacts DEF Called
  <2>2. \A b \in Actor : ctx'[b].wake \subseteq ctx[b].wake
    BY <1>1 DEF Follows
  <2>3. Sleeps(w) => Sleeps(w)'
    BY <1>1, <2>1 DEF Sleeps
  <2> QED
    BY <2>1, <2>2, <2>3 DEF CalledOnce
<1> QED
  BY <1>2, <1>3 DEF Called

\* An actor takes a worker from the waiting ones, to wake it up.
LEMMA CallStep ==
    ASSUME Called, NEW a \in Actor, NEW c, NEW us, us \subseteq waiting,
           Follows(ctx[a], c), AndWake(a, us, c), ~Sleeps(a),
           UNCHANGED <<flag, ringing, finished>>
    PROVE  Called'
<1>1. CASE Goto(a, c) /\ UNCHANGED waiting
  BY <1>1, OrdinaryStep
<1>2. ASSUME NEW u \in us, Goto(a, [c EXCEPT !.pc = "wake", !.wake = {u}, !.then = c.pc]),
             waiting' = waiting \ {u}
      PROVE  Called'
  <2>1. PICK y : y = [c EXCEPT !.pc = "wake", !.wake = {u}, !.then = c.pc]
    OBVIOUS
  <2>2. u \in Worker /\ u \in waiting
    BY <1>2 DEF Called, Shapes
  <2>3. IsContext(y) /\ y.wake = {u}
    BY <2>1, <2>2, Zenon DEF Follows, IsContext
  <2>4. /\ ctx'[a] = y /\ \A b \in Actor \ {a} : ctx'[b] = ctx[b]
        /\ ctx' = [b \in Actor |-> ctx'[b]] /\ \A b \in Actor : IsContext(ctx'[b])
    BY <1>2, <2>1, <2>3, GotoFacts DEF Called
  <2>5. Shapes'
    BY <1>2, <2>4 DEF Called, Shapes
  <2>6. ASSUME ~finished', NEW w \in Worker PROVE CalledOnce(w)'
    <3>1. CalledOnce(w) /\ w \in Actor
      BY <2>6, ActorFacts DEF Called
    <3>2. Sleeps(w) => Sleeps(w)'
      BY <2>4, <3>1 DEF Sleeps
    <3>3. CASE w = u
      BY <1>2, <2>2, <2>3, <2>4, <3>1, <3>2, <3>3 DEF CalledOnce
    <3>4. CASE w # u
      <4>1. \A b \in Actor : w \in ctx'[b].wake => w \in ctx[b].wake
        BY <2>3, <2>4, <3>4
      <4> QED
        BY <1>2, <3>1, <3>2, <3>4, <4>1 DEF CalledOnce
    <3> QED
      BY <3>3, <3>4
  <2> QED
    BY <2>5, <2>6 DEF Called
<1> QED
  BY <1>1, <1>2, Zenon DEF AndWake

-----------------------------------------------------------------------------
(* The actions *)

\* Nobody is called before the workers start.
LEMMA InitCalled == Init => Called
<1> SUFFICES ASSUME Init PROVE Called
  OBVIOUS
<1>1. /\ ctx = [a \in Actor |-> IF a = Killer THEN [Fresh EXCEPT !.pc = "alive"] ELSE Fresh]
      /\ flag = [w \in Worker |-> FALSE] /\ waiting = {} /\ ringing = {}
  BY DEF Init
<1>2. PICK k : k = [Fresh EXCEPT !.pc = "alive"]
  BY Zenon
<1>3. PICK f : f = Fresh
  OBVIOUS
<1>4. Follows(Fresh, k) /\ Follows(Fresh, f)
  BY <1>2, <1>3, FreshFacts, Zenon
<1>5. Fresh.wake = {}
  BY DEF Fresh
<1>6. /\ IsContext(k) /\ IsContext(f) /\ k.wake = {} /\ f.wake = {}
  BY <1>4, <1>5 DEF Follows
<1>7. /\ ctx = [a \in Actor |-> ctx[a]]
      /\ \A a \in Actor : IsContext(ctx[a]) /\ ctx[a].wake = {}
  <2>1. ctx = [a \in Actor |-> IF a = Killer THEN k ELSE f]
    BY <1>1, <1>2, <1>3
  <2> QED
    BY <1>6, <2>1
<1> QED
  BY <1>1, <1>7 DEF Called, Shapes, CalledOnce

\* A worker that takes a task passes the rest on to at most one waiting worker.
LEMMA StealKeepsCalled ==
    ASSUME Called, NEW w \in Worker, Steal(w) \/ Dispatch(w)
    PROVE  Called'
<1>1. w \in Actor /\ IsContext(ctx[w])
  BY ActorFacts DEF Called, Shapes
<1>2. UNCHANGED <<flag, ringing, finished>> /\ ~Sleeps(w)
  BY Zenon DEF Steal, Dispatch, At, Sleeps
<1>3. \A v, q, c : WakeFor(v, q, c) \subseteq waiting
  BY DEF WakeFor
<1>4. CASE Steal(w)
  <2>1. PICK task, us : /\ us \subseteq waiting
                        /\ AndWake(w, us, [ctx[w] EXCEPT !.pc = "loop", !.task = task])
    <3>1. \E task, q, c : AndWake(w, IF Busy(q, c) = {} THEN {} ELSE WakeFor(w, q, c),
                                  [ctx[w] EXCEPT !.pc = "loop", !.task = task])
      BY <1>4, Zenon DEF Steal
    <3> QED
      BY <1>3, <3>1, Zenon
  <2>2. PICK y : y = [ctx[w] EXCEPT !.pc = "loop", !.task = task]
    OBVIOUS
  <2>3. Follows(ctx[w], y) /\ AndWake(w, us, y)
    BY <1>1, <2>1, <2>2, ContextFacts, Zenon
  <2> QED
    BY <1>1, <1>2, <2>1, <2>3, CallStep
<1>5. CASE Dispatch(w)
  <2>1. CASE Goto(w, Fresh) /\ UNCHANGED waiting
    <3>1. PICK y : y = Fresh
      OBVIOUS
    <3>2. Follows(ctx[w], y) /\ Goto(w, y)
      BY <2>1, <3>1, FreshFacts, Zenon
    <3> QED
      BY <1>1, <1>2, <2>1, <3>2, OrdinaryStep
  <2>2. ASSUME NEW task, NEW us, us \subseteq waiting, AndWake(w, us, [Fresh EXCEPT !.task = task])
        PROVE  Called'
    <3>1. PICK y : y = [Fresh EXCEPT !.task = task]
      BY Zenon
    <3>2. Follows(ctx[w], y) /\ AndWake(w, us, y)
      BY <2>2, <3>1, FreshFacts, Zenon
    <3> QED
      BY <1>1, <1>2, <2>2, <3>2, CallStep
  <2>3. \/ Goto(w, Fresh) /\ UNCHANGED waiting
        \/ \E task, us : us \subseteq waiting /\ AndWake(w, us, [Fresh EXCEPT !.task = task])
    <3>1. PICK q : q = ctx[w].tosync
      OBVIOUS
    <3>2. PICK sync1 : sync1 = [sync EXCEPT ![w] = @ \o Tail(q)]
      BY Zenon
    <3>3. PICK us : us = IF Len(q) > 1 THEN WakeFor(w, sync1, completed) ELSE {}
      BY Zenon
    <3>4. us \subseteq waiting
      BY <1>3, <3>3
    <3>5. PICK task : task = <<"sync", Head(q)>>
      BY Zenon
    <3>6. \/ Goto(w, Fresh) /\ UNCHANGED waiting
          \/ AndWake(w, us, [Fresh EXCEPT !.task = task])
      BY <1>5, <3>1, <3>2, <3>3, <3>5, Zenon DEF Dispatch
    <3> QED
      BY <3>4, <3>6, Zenon
  <2> QED
    BY <2>1, <2>2, <2>3, Zenon
<1> QED
  BY <1>4, <1>5

\* A worker enters the waiting status and goes to sleep in one step: both under the queue's mutex.
LEMMA StealWaitsKeepsCalled ==
    ASSUME Called, NEW w \in Worker, StealWaits(w)
    PROVE  Called'
<1>1. w \in Actor /\ IsContext(ctx[w])
  BY ActorFacts DEF Called, Shapes
<1>2. PICK y : y = [ctx[w] EXCEPT !.pc = "wait"]
  BY Zenon
<1>3. Follows(ctx[w], y) /\ y.pc = "wait"
  BY <1>1, <1>2, PcFacts
<1>4. /\ Goto(w, y) /\ waiting' = waiting \union {w} /\ ~Sleeps(w)
      /\ UNCHANGED <<flag, ringing, finished>>
  BY <1>2 DEF StealWaits, At, Sleeps
<1>5. /\ ctx'[w] = y /\ \A b \in Actor \ {w} : ctx'[b] = ctx[b]
      /\ ctx' = [b \in Actor |-> ctx'[b]] /\ \A b \in Actor : IsContext(ctx'[b])
  BY <1>1, <1>3, <1>4, GotoFacts DEF Called, Follows
<1>6. Shapes'
  BY <1>4, <1>5 DEF Called, Shapes
<1>7. ASSUME ~finished', NEW v \in Worker PROVE CalledOnce(v)'
  <2>1. CalledOnce(v) /\ v \in Actor
    BY <1>4, <1>7, ActorFacts DEF Called
  <2>2. \A b \in Actor : ctx'[b].wake \subseteq ctx[b].wake
    BY <1>3, <1>5 DEF Follows
  <2>3. Sleeps(v) => Sleeps(v)'
    BY <1>4, <1>5, <2>1 DEF Sleeps
  <2>4. CASE v = w
    <3>1. Sleeps(v)'
      BY <1>3, <1>5, <2>4 DEF Sleeps
    <3> QED
      BY <1>4, <2>1, <2>2, <2>4, <3>1 DEF CalledOnce
  <2>5. CASE v # w
    BY <1>4, <2>1, <2>2, <2>3, <2>5 DEF CalledOnce
  <2> QED
    BY <2>4, <2>5
<1> QED
  BY <1>6, <1>7 DEF Called

\* A worker that falls asleep sleeps; one that leaves was called, and nobody calls it any more.
LEMMA WaitKeepsCalled ==
    ASSUME Called, NEW w \in Worker, Wait(w) \/ Awake(w)
    PROVE  Called'
<1>1. w \in Actor /\ IsContext(ctx[w])
  BY ActorFacts DEF Called, Shapes
<1>2. UNCHANGED <<waiting, ringing, finished>>
  BY DEF Wait, Awake, queueVars
<1>3. PICK y : /\ \/ y = [ctx[w] EXCEPT !.pc = "loop"] \/ y = [ctx[w] EXCEPT !.pc = "asleep"]
               /\ Goto(w, y)
               /\ \/ y = [ctx[w] EXCEPT !.pc = "asleep"] /\ UNCHANGED flag
                  \/ (flag[w] \/ finished) /\ flag' = [flag EXCEPT ![w] = FALSE]
  <2>1. CASE Goto(w, [ctx[w] EXCEPT !.pc = "asleep"]) /\ UNCHANGED flag
    BY <2>1
  <2>2. CASE /\ Goto(w, [ctx[w] EXCEPT !.pc = "loop"])
             /\ (flag[w] \/ finished) /\ flag' = [flag EXCEPT ![w] = FALSE]
    BY <2>2
  <2> QED
    BY <2>1, <2>2 DEF Wait, Awake
<1>4. Follows(ctx[w], y) /\ y.pc \in {"loop", "asleep"}
  BY <1>1, <1>3, PcFacts, Zenon
<1>5. /\ ctx'[w] = y /\ \A b \in Actor \ {w} : ctx'[b] = ctx[b]
      /\ ctx' = [b \in Actor |-> ctx'[b]] /\ \A b \in Actor : IsContext(ctx'[b])
  BY <1>1, <1>3, <1>4, GotoFacts DEF Called, Follows
<1>6. flag \in [Worker -> BOOLEAN] /\ flag' \in [Worker -> BOOLEAN]
  BY <1>3, Zenon DEF Called, Shapes
<1>7. Shapes'
  BY <1>2, <1>5, <1>6 DEF Called, Shapes
<1>8. ASSUME ~finished', NEW v \in Worker PROVE CalledOnce(v)'
  <2>1. CalledOnce(v) /\ v \in Actor
    BY <1>2, <1>8, ActorFacts DEF Called
  <2>2. \A b \in Actor : ctx'[b].wake \subseteq ctx[b].wake
    BY <1>4, <1>5 DEF Follows
  <2>3. CASE v # w
    <3>1. flag'[v] = flag[v]
      BY <1>3, <1>6, <2>3
    <3>2. Sleeps(v) => Sleeps(v)'
      BY <1>5, <2>1, <2>3 DEF Sleeps
    <3> QED
      BY <1>2, <2>1, <2>2, <3>1, <3>2 DEF CalledOnce
  <2>4. CASE v = w /\ flag[w] /\ flag' = [flag EXCEPT ![w] = FALSE]
    <3>1. ~flag'[v] /\ flag[v]
      BY <1>6, <2>4
    <3> QED
      BY <1>2, <2>1, <2>2, <3>1 DEF CalledOnce
  <2>5. CASE v = w /\ y = [ctx[w] EXCEPT !.pc = "asleep"] /\ UNCHANGED flag
    <3>1. y.pc = "asleep"
      BY <1>1, <2>5, PcFacts
    <3>2. Sleeps(v)'
      BY <1>5, <2>5, <3>1, Zenon DEF Sleeps
    <3> QED
      BY <1>2, <2>1, <2>2, <2>5, <3>2 DEF CalledOnce
  <2> QED
    BY <1>2, <1>3, <1>8, <2>3, <2>4, <2>5
<1> QED
  BY <1>7, <1>8 DEF Called

\* wakeup sets the flag of a worker somebody had to call.
LEMMA WakeKeepsCalled ==
    ASSUME Called, NEW a \in Actor, Wake(a)
    PROVE  Called'
<1>1. IsContext(ctx[a])
  BY DEF Called, Shapes
<1>2. PICK u \in ctx[a].wake :
         /\ flag' = [flag EXCEPT ![u] = TRUE]
         /\ Goto(a, IF ctx[a].wake = {u}
                      THEN [ctx[a] EXCEPT !.pc = ctx[a].then, !.wake = {}, !.then = "-"]
                      ELSE [ctx[a] EXCEPT !.wake = @ \ {u}])
  BY Zenon DEF Wake
<1>3. UNCHANGED <<waiting, ringing, finished>> /\ ~Sleeps(a)
  BY DEF Wake, queueVars, At, Sleeps
<1>4. PICK y : /\ \/ ctx[a].wake = {u} /\ y = [ctx[a] EXCEPT !.pc = ctx[a].then, !.wake = {}, !.then = "-"]
                  \/ y = [ctx[a] EXCEPT !.wake = ctx[a].wake \ {u}]
               /\ Goto(a, y)
  BY <1>2
<1>5. PICK c : c = ctx[a]
  OBVIOUS
<1>6. IsContext(y) /\ y.wake = c.wake \ {u}
  <2>1. CASE c.wake = {u} /\ y = [c EXCEPT !.pc = c.then, !.wake = {}, !.then = "-"]
    BY <1>1, <1>5, <2>1, Zenon DEF IsContext
  <2>2. CASE y = [c EXCEPT !.wake = c.wake \ {u}]
    BY <1>1, <1>5, <2>2 DEF IsContext
  <2> QED
    BY <1>4, <1>5, <2>1, <2>2
<1>7. /\ ctx'[a] = y /\ \A b \in Actor \ {a} : ctx'[b] = ctx[b]
      /\ ctx' = [b \in Actor |-> ctx'[b]] /\ \A b \in Actor : IsContext(ctx'[b])
  BY <1>4, <1>6, GotoFacts DEF Called
<1>8. /\ flag \in [Worker -> BOOLEAN] /\ u \in Worker
      /\ flag' \in [Worker -> BOOLEAN]
  BY <1>1, <1>2 DEF Called, Shapes, IsContext
<1>9. Shapes'
  BY <1>3, <1>7, <1>8 DEF Called, Shapes
<1>10. ASSUME ~finished', NEW w \in Worker PROVE CalledOnce(w)'
  <2>1. CalledOnce(w) /\ w \in Actor
    BY <1>3, <1>10, ActorFacts DEF Called
  <2>2. \A b \in Actor : ctx'[b].wake \subseteq ctx[b].wake
    BY <1>5, <1>6, <1>7
  <2>3. Sleeps(w) => Sleeps(w)'
    BY <1>3, <1>7, <2>1 DEF Sleeps
  <2>4. CASE w # u
    <3>1. flag'[w] = flag[w]
      BY <1>2, <1>8, <2>4
    <3> QED
      BY <1>3, <2>1, <2>2, <2>3, <3>1 DEF CalledOnce
  <2>5. CASE w = u
    <3>1. \A b \in Actor : w \notin ctx'[b].wake
      BY <1>2, <1>5, <1>6, <1>7, <2>1, <2>5 DEF CalledOnce
    <3>2. Sleeps(w) /\ w \notin waiting /\ w \notin ringing
      BY <1>2, <2>1, <2>5 DEF CalledOnce
    <3> QED
      BY <1>3, <2>3, <3>1, <3>2 DEF CalledOnce
  <2> QED
    BY <2>4, <2>5
<1> QED
  BY <1>9, <1>10 DEF Called

\* The runtime takes a worker from the waiting ones, or sets the flag of one it has taken.
LEMMA RuntimeKeepsCalled ==
    ASSUME Called, NEW w \in Worker,
           RuntimeWakes(w) \/ \E n \in Node : Async(n, w)
    PROVE  Called'
<1>1. UNCHANGED <<ctx, finished>>
  BY Zenon DEF RuntimeWakes, Async, AsyncDone, AsyncFails, AsyncDropped, CompletedAsyncTask
<1>2. CASE RuntimeWakes(w)
  <2>1. /\ w \in ringing /\ ringing' = ringing \ {w} /\ flag' = [flag EXCEPT ![w] = TRUE]
        /\ UNCHANGED waiting
    BY <1>2 DEF RuntimeWakes, queueVars
  <2>2. flag \in [Worker -> BOOLEAN] /\ flag' \in [Worker -> BOOLEAN]
    BY <2>1 DEF Called, Shapes
  <2>3. Shapes'
    BY <1>1, <2>1, <2>2 DEF Called, Shapes
  <2>4. ASSUME ~finished', NEW v \in Worker PROVE CalledOnce(v)'
    <3>1. CalledOnce(v) /\ Sleeps(v)' = Sleeps(v)
      BY <1>1, <2>4 DEF Called, Sleeps
    <3>2. CASE v = w
      BY <1>1, <2>1, <3>1, <3>2, Zenon DEF CalledOnce
    <3>3. CASE v # w
      <4>1. flag'[v] = flag[v]
        BY <2>1, <2>2, <3>3
      <4> QED
        BY <1>1, <2>1, <3>1, <3>3, <4>1 DEF CalledOnce
    <3> QED
      BY <3>2, <3>3
  <2> QED
    BY <2>3, <2>4 DEF Called
<1>3. CASE UNCHANGED <<waiting, ringing, flag>>
  BY <1>1, <1>3, Zenon DEF Called, Shapes, CalledOnce, Sleeps
<1>4. ASSUME NEW u \in waiting, waiting' = waiting \ {u}, ringing' = ringing \union {u},
             UNCHANGED flag
      PROVE  Called'
  <2>1. Shapes'
    BY <1>1, <1>4 DEF Called, Shapes
  <2>2. ASSUME ~finished', NEW v \in Worker PROVE CalledOnce(v)'
    <3>1. CalledOnce(v) /\ Sleeps(v)' = Sleeps(v)
      BY <1>1, <2>2 DEF Called, Sleeps
    <3> QED
      BY <1>1, <1>4, <3>1 DEF CalledOnce
  <2> QED
    BY <2>1, <2>2 DEF Called
<1>5. ASSUME NEW n \in Node, Async(n, w) PROVE Called'
  <2>1. CASE AsyncDropped(n, w)
    BY <1>3, <2>1 DEF AsyncDropped, queueVars
  <2>2. ASSUME NEW result, CompletedAsyncTask(n, w, result) PROVE Called'
    <3>1. UNCHANGED flag
      BY <2>2 DEF CompletedAsyncTask
    <3>2. \/ UNCHANGED <<waiting, ringing>>
          \/ \E u \in waiting : waiting' = waiting \ {u} /\ ringing' = ringing \union {u}
      BY <2>2 DEF CompletedAsyncTask
    <3> QED
      BY <1>3, <1>4, <3>1, <3>2
  <2> QED
    BY <1>5, <2>1, <2>2 DEF Async, AsyncDone, AsyncFails
<1> QED
  BY <1>2, <1>5

\* The end of the query: from finish on, the workers are let go whatever they wait for.
LEMMA EndKeepsCalled ==
    ASSUME Called, NEW a \in Actor, Finish(a) \/ WakeAll(a)
    PROVE  Called'
<1>1. IsContext(ctx[a]) /\ ~Sleeps(a)
  BY Zenon DEF Called, Shapes, Finish, WakeAll, At, Sleeps
<1>2. CASE Finish(a)
  <2>1. PICK y : y = [ctx[a] EXCEPT !.pc = "wake_all"]
    BY Zenon
  <2>2. Follows(ctx[a], y)
    BY <1>1, <2>1, PcFacts, Zenon
  <2>3. Goto(a, y) /\ UNCHANGED <<waiting, flag, ringing>> /\ finished'
    BY <1>2, <2>1, Zenon DEF Finish, queueVars
  <2> QED
    BY <1>1, <2>2, <2>3, OrdinaryStep
<1>3. CASE WakeAll(a)
  <2>1. UNCHANGED <<flag, ringing, finished>> /\ waiting' = {}
    BY <1>3, Zenon DEF WakeAll
  <2>2. CASE waiting = {} /\ Goto(a, [ctx[a] EXCEPT !.pc = ctx[a].then, !.then = "-"])
    <3>1. PICK y : y = [ctx[a] EXCEPT !.pc = ctx[a].then, !.then = "-"]
      OBVIOUS
    <3>2. Follows(ctx[a], y) /\ Goto(a, y)
      BY <1>1, <2>2, <3>1, ContextFacts, Zenon
    <3> QED
      BY <1>1, <2>1, <2>2, <3>2, OrdinaryStep
  <2>3. CASE Goto(a, [ctx[a] EXCEPT !.pc = "wake", !.wake = waiting])
    <3>1. PICK y : y = [ctx[a] EXCEPT !.pc = "wake", !.wake = waiting]
      OBVIOUS
    <3>2. PICK c : c = ctx[a]
      OBVIOUS
    <3>3. waiting \subseteq Worker
      BY DEF Called, Shapes
    <3>4. IsContext(y) /\ y.wake = waiting
      BY <1>1, <3>1, <3>2, <3>3, Zenon DEF IsContext
    <3>5. /\ ctx'[a] = y /\ \A b \in Actor \ {a} : ctx'[b] = ctx[b]
          /\ ctx' = [b \in Actor |-> ctx'[b]] /\ \A b \in Actor : IsContext(ctx'[b])
      BY <2>3, <3>1, <3>4, GotoFacts DEF Called
    <3>6. Shapes'
      BY <2>1, <3>5 DEF Called, Shapes
    <3>7. ASSUME ~finished', NEW w \in Worker PROVE CalledOnce(w)'
      <4>1. CalledOnce(w) /\ w \in Actor
        BY <2>1, <3>7, ActorFacts DEF Called
      <4>2. Sleeps(w) => Sleeps(w)'
        BY <1>1, <3>5, <4>1 DEF Sleeps
      <4>3. CASE w \in waiting
        <5>1. \A b \in Actor : w \in ctx'[b].wake => b = a
          BY <3>5, <4>1, <4>3 DEF CalledOnce
        <5> QED
          BY <2>1, <4>1, <4>2, <4>3, <5>1 DEF CalledOnce
      <4>4. CASE w \notin waiting
        <5>1. \A b \in Actor : w \in ctx'[b].wake => w \in ctx[b].wake
          BY <3>4, <3>5, <4>4
        <5> QED
          BY <2>1, <4>1, <4>2, <5>1 DEF CalledOnce
      <4> QED
        BY <4>3, <4>4
    <3> QED
      BY <3>6, <3>7 DEF Called
  <2> QED
    BY <1>3, <2>2, <2>3, Zenon DEF WakeAll
<1> QED
  BY <1>2, <1>3

\* A step of event() moves the worker on and calls nobody.
LEMMA EventOfFacts ==
    ASSUME NEW w, NEW c, IsContext(c), EventOf(w, c)
    PROVE  \E y : Goto(w, y) /\ Follows(c, y)
<1>1. PICK x : x = EventStep(c.node, [port |-> port, p |-> proc[c.node], upd |-> c.upd,
                                      cause |-> c.cause, step |-> c.step, rest |-> c.rest,
                                      event |-> "-"])
  OBVIOUS
<1> DEFINE add(q, want) == IF x.event = "work" /\ async[c.node] = want THEN Append(q, c.node) ELSE q
<1>2. \/ Goto(w, [c EXCEPT !.pc = "event", !.upd = x.upd, !.step = x.step, !.rest = x.rest])
      \/ Goto(w, [c EXCEPT !.pc = "edges", !.node = 0, !.cause = Fresh.cause, !.step = "-",
                           !.rest = <<>>, !.upd = <<>>, !.edges = x.upd \o @,
                           !.tosync = add(@, FALSE), !.toasync = add(@, TRUE)])
  BY <1>1, Zenon DEF EventOf
<1>3. ASSUME NEW upd, NEW step, NEW rest, NEW y,
             y = [c EXCEPT !.pc = "event", !.upd = upd, !.step = step, !.rest = rest]
      PROVE  Follows(c, y)
  BY <1>3, Zenon DEF Follows, IsContext
<1>4. ASSUME NEW cause, NEW edges, NEW tosync, NEW toasync, NEW y,
             y = [c EXCEPT !.pc = "edges", !.node = 0, !.cause = cause, !.step = "-",
                           !.rest = <<>>, !.upd = <<>>, !.edges = edges,
                           !.tosync = tosync, !.toasync = toasync]
      PROVE  Follows(c, y)
  BY <1>4, Zenon DEF Follows, IsContext
<1>5. CASE Goto(w, [c EXCEPT !.pc = "event", !.upd = x.upd, !.step = x.step, !.rest = x.rest])
  BY <1>3, <1>5, Zenon
<1>6. CASE Goto(w, [c EXCEPT !.pc = "edges", !.node = 0, !.cause = Fresh.cause, !.step = "-",
                             !.rest = <<>>, !.upd = <<>>, !.edges = x.upd \o @,
                             !.tosync = add(@, FALSE), !.toasync = add(@, TRUE)])
  <2>1. PICK cause, edges, tosync, toasync :
           /\ cause = Fresh.cause /\ edges = x.upd \o c.edges
           /\ tosync = add(c.tosync, FALSE) /\ toasync = add(c.toasync, TRUE)
    BY Zenon
  <2>2. Goto(w, [c EXCEPT !.pc = "edges", !.node = 0, !.cause = cause, !.step = "-",
                          !.rest = <<>>, !.upd = <<>>, !.edges = edges,
                          !.tosync = tosync, !.toasync = toasync])
    BY <1>6, <2>1 DEF IsContext
  <2> QED
    BY <1>4, <2>2, Zenon
<1> QED
  BY <1>2, <1>5, <1>6, Zenon

\* Scheduling the graph.
LEMMA ScheduleKeepsCalled ==
    ASSUME Called, NEW w \in Worker, ScheduleNode(w) \/ ScheduleEdge(w) \/ Event(w) \/ Spawn(w)
    PROVE  Called'
<1>1. w \in Actor /\ IsContext(ctx[w])
  BY ActorFacts DEF Called, Shapes
<1>2. UNCHANGED <<waiting, flag, ringing, finished>> /\ ~Sleeps(w)
  BY DEF ScheduleNode, ScheduleEdge, Event, Spawn, queueVars, At, Sleeps
<1>3. ASSUME NEW c, Follows(ctx[w], c), EventOf(w, c) PROVE Called'
  <2>1. PICK y : Goto(w, y) /\ Follows(c, y)
    BY <1>3, EventOfFacts DEF Follows
  <2>2. Follows(ctx[w], y)
    BY <1>3, <2>1 DEF Follows
  <2> QED
    BY <1>1, <1>2, <2>1, <2>2, OrdinaryStep
<1>4. CASE ScheduleNode(w)
  <2>1. PICK c : c = [ctx[w] EXCEPT !.step = "begin"]
    BY Zenon
  <2>2. Follows(ctx[w], c) /\ EventOf(w, c)
    BY <1>1, <1>4, <2>1, ContextFacts, Zenon DEF ScheduleNode
  <2> QED
    BY <1>3, <2>2
<1>5. CASE Event(w)
  <2>1. Follows(ctx[w], ctx[w]) /\ EventOf(w, ctx[w])
    BY <1>1, <1>5 DEF Event, Follows
  <2> QED
    BY <1>3, <2>1
<1>6. CASE ScheduleEdge(w)
  <2>1. PICK edges : edges = Tail(ctx[w].edges)
    BY Zenon
  <2>2. PICK c : c = [ctx[w] EXCEPT !.edges = edges]
    BY Zenon
  <2>3. Follows(ctx[w], c)
    BY <1>1, <2>2, ContextFacts, Zenon
  <2>4. PICK n, cause : n = Target(Head(ctx[w].edges)) /\ cause = Head(ctx[w].edges)
    OBVIOUS
  <2>5. PICK d : d = [c EXCEPT !.node = n, !.cause = cause, !.step = "begin"]
    OBVIOUS
  <2>6. Follows(ctx[w], d)
    <3>1. Follows(c, d)
      BY <2>3, <2>5, ContextFacts, Zenon DEF Follows
    <3> QED
      BY <2>3, <3>1 DEF Follows
  <2>7. c = [ctx[w] EXCEPT !.edges = Tail(@)]
    BY <1>1, <2>1, <2>2 DEF IsContext
  <2>8. EventOf(w, d) \/ Goto(w, c)
    BY <1>6, <2>4, <2>5, <2>7 DEF ScheduleEdge
  <2> QED
    BY <1>1, <1>2, <1>3, <2>3, <2>6, <2>8, OrdinaryStep
<1>7. CASE Spawn(w)
  <2>1. PICK toasync : toasync = Tail(ctx[w].toasync)
    BY Zenon
  <2>2. PICK y : y = [ctx[w] EXCEPT !.toasync = toasync]
    BY Zenon
  <2>3. Goto(w, y)
    BY <1>1, <1>7, <2>1, <2>2 DEF Spawn, IsContext
  <2>4. Follows(ctx[w], y)
    BY <1>1, <2>2, ContextFacts, Zenon
  <2> QED
    BY <1>1, <1>2, <2>3, <2>4, OrdinaryStep
<1> QED
  BY <1>4, <1>5, <1>6, <1>7

\* The loop of a worker, and the thread that kills the query.
LEMMA LoopKeepsCalled ==
    ASSUME Called,
           \/ Kill
           \/ \E w \in Worker : Loop(w) \/ StealFinishes(w) \/ Execute(w) \/ ExecuteFails(w)
    PROVE  Called'
<1>1. UNCHANGED <<waiting, flag, ringing, finished>>
  BY Zenon DEF Kill, Loop, StealFinishes, Execute, ExecuteFails, queueVars
<1>2. ASSUME NEW a \in Actor, ~Sleeps(a), NEW pc, NEW v, NEW y, Goto(a, y),
             \/ y = [ctx[a] EXCEPT !.pc = pc] \/ y = [ctx[a] EXCEPT !.pc = pc, !.then = v]
             \/ y = [Fresh EXCEPT !.pc = pc] \/ y = [Fresh EXCEPT !.pc = pc, !.node = v]
             \/ y = [Fresh EXCEPT !.pc = pc, !.then = v]
      PROVE  Called'
  <2>1. IsContext(ctx[a])
    BY DEF Called, Shapes
  <2>2. Follows(ctx[a], y)
    <3>1. CASE y = [ctx[a] EXCEPT !.pc = pc]
      BY <2>1, <3>1, PcFacts
    <3>2. CASE y = [ctx[a] EXCEPT !.pc = pc, !.then = v]
      BY <2>1, <3>2, ContextFacts, Zenon
    <3> QED
      BY <1>2, <3>1, <3>2, FreshFacts, Zenon
  <2> QED
    BY <1>1, <1>2, <2>2, OrdinaryStep
<1>3. CASE Kill
  <2>1. Goto(Killer, [Fresh EXCEPT !.pc = "finish", !.then = "exit"]) /\ ~Sleeps(Killer)
    BY <1>3 DEF Kill, At, Sleeps
  <2> QED
    BY <1>2, <2>1, ActorFacts, Zenon
<1>4. ASSUME NEW w \in Worker, Loop(w) \/ StealFinishes(w) \/ Execute(w) \/ ExecuteFails(w)
      PROVE  Called'
  <2>1. ~Sleeps(w) /\ w \in Actor
    BY <1>4, ActorFacts, Zenon DEF Loop, StealFinishes, Execute, ExecuteFails, At, Sleeps
  <2>2. CASE Loop(w)
    <3>1. PICK pc : pc = IF ctx[w].task = NoTask THEN "steal" ELSE "exec"
      OBVIOUS
    <3>2. Goto(w, [Fresh EXCEPT !.pc = "exit"]) \/ Goto(w, [ctx[w] EXCEPT !.pc = pc])
      BY <2>2, <3>1 DEF Loop
    <3> QED
      BY <1>2, <2>1, <3>2, Zenon
  <2>3. CASE StealFinishes(w)
    <3>1. Goto(w, [ctx[w] EXCEPT !.pc = "finish", !.then = "loop"])
      BY <2>3, Zenon DEF StealFinishes
    <3> QED
      BY <1>2, <2>1, <3>1, Zenon
  <2>4. CASE Execute(w)
    <3>1. PICK n : n = ctx[w].task[2]
      OBVIOUS
    <3>2. \/ Goto(w, [Fresh EXCEPT !.pc = "exit"])
          \/ Goto(w, [Fresh EXCEPT !.pc = "schedule", !.node = n])
      BY <2>4, <3>1, Zenon DEF Execute
    <3> QED
      BY <1>2, <2>1, <3>2, Zenon
  <2>5. CASE ExecuteFails(w)
    <3>1. Goto(w, [Fresh EXCEPT !.pc = "finish", !.then = "exit"])
      BY <2>5 DEF ExecuteFails
    <3> QED
      BY <1>2, <2>1, <3>1, Zenon
  <2> QED
    BY <1>4, <2>2, <2>3, <2>4, <2>5
<1> QED
  BY <1>3, <1>4

\* Every step is one of those above.
LEMMA NextKeepsCalled == Called /\ [Next]_vars => Called'
<1> SUFFICES ASSUME Called, [Next]_vars PROVE Called'
  OBVIOUS
<1>1. CASE Kill
  BY <1>1, LoopKeepsCalled
<1>2. ASSUME NEW w \in Worker, Work(w) PROVE Called'
  BY <1>2, LoopKeepsCalled, StealKeepsCalled, StealWaitsKeepsCalled, WaitKeepsCalled,
     ScheduleKeepsCalled DEF Work
<1>3. ASSUME NEW a \in Actor, EndQuery(a) PROVE Called'
  BY <1>3, EndKeepsCalled, WakeKeepsCalled DEF EndQuery
<1>4. ASSUME NEW w \in Worker, RuntimeWakes(w) \/ \E n \in Node : Async(n, w) PROVE Called'
  BY <1>4, RuntimeKeepsCalled
<1>5. CASE UNCHANGED vars
  <2>1. UNCHANGED <<ctx, waiting, flag, ringing, finished>>
    BY <1>5 DEF vars, queueVars
  <2> QED
    BY <2>1 DEF Called, Shapes, CalledOnce, Sleeps
<1> QED
  BY <1>1, <1>2, <1>3, <1>4, <1>5 DEF Next, Running, Terminating

\* The assertion of wait_worker never fails: whatever the graph and the number of threads, a
\* worker in the waiting status is in wait() and not called yet, until the queue is finished.
THEOREM WaitingCorrect == Spec => []WaitingIsAsleep
<1>1. Called => WaitingIsAsleep
  BY DEF Called, Shapes, CalledOnce, Sleeps, WaitingIsAsleep
<1> QED
  BY <1>1, InitCalled, NextKeepsCalled, PTL DEF Spec

-----------------------------------------------------------------------------
(* The view of event() *)

\* The view is made of its parts.
LEMMA ViewFacts ==
    ASSUME NEW n, NEW x, IsView(n, x), NEW pt \in [Edge -> Port], NEW p \in Processor(n),
           NEW upd \in Seq(Touched), NEW rest \in Seq(Edge), NEW step, NEW event, NEW y
    PROVE  /\ y = [x EXCEPT !.port = pt] => Accesses(n, x, y) /\ y.port = pt /\ y.p = x.p
           /\ y = [x EXCEPT !.p = p] => Accesses(n, x, y) /\ y.port = x.port /\ y.p = p
           /\ y = [x EXCEPT !.upd = upd] => Accesses(n, x, y) /\ y.port = x.port /\ y.p = x.p
           /\ y = [x EXCEPT !.step = step, !.event = event] =>
                 /\ IsView(n, y) /\ y.cause = x.cause /\ y.rest = x.rest /\ y.p = x.p
                 /\ y.port = x.port /\ y.event = event
           /\ y = [x EXCEPT !.step = step] =>
                 /\ IsView(n, y) /\ y.cause = x.cause /\ y.rest = x.rest /\ y.p = x.p
                 /\ y.port = x.port /\ y.event = x.event /\ y.step = step
           /\ y = [x EXCEPT !.rest = rest] =>
                 /\ IsView(n, y) /\ y.cause = x.cause /\ y.rest = rest /\ y.p = x.p
                 /\ y.port = x.port /\ y.event = x.event /\ y.step = x.step
<1>1. y = [x EXCEPT !.port = pt] => Accesses(n, x, y) /\ y.port = pt /\ y.p = x.p
  BY Zenon DEF IsView, Accesses
<1>2. y = [x EXCEPT !.p = p] => Accesses(n, x, y) /\ y.port = x.port /\ y.p = p
  BY DEF IsView, Accesses
<1>3. y = [x EXCEPT !.upd = upd] => Accesses(n, x, y) /\ y.port = x.port /\ y.p = x.p
  BY DEF IsView, Accesses
<1>4. y = [x EXCEPT !.step = step, !.event = event] =>
         /\ IsView(n, y) /\ y.cause = x.cause /\ y.rest = x.rest /\ y.p = x.p
         /\ y.port = x.port /\ y.event = event
  BY Zenon DEF IsView
<1>5. y = [x EXCEPT !.step = step] =>
         /\ IsView(n, y) /\ y.cause = x.cause /\ y.rest = x.rest /\ y.p = x.p
         /\ y.port = x.port /\ y.event = x.event /\ y.step = step
  BY Zenon DEF IsView
<1>6. y = [x EXCEPT !.rest = rest] =>
         /\ IsView(n, y) /\ y.cause = x.cause /\ y.rest = rest /\ y.p = x.p
         /\ y.port = x.port /\ y.event = x.event /\ y.step = x.step
  BY Zenon DEF IsView
<1> QED
  BY <1>1, <1>2, <1>3, <1>4, <1>5, <1>6

\* Touch adds an edge to those the event has updated.
LEMMA TouchFacts ==
    ASSUME NEW n, NEW x, IsView(n, x), NEW d \in {"up", "down"}, NEW e \in Edge
    PROVE  Accesses(n, x, Touch(x, d, e)) /\ Touch(x, d, e).port = x.port /\ Touch(x, d, e).p = x.p
<1>1. PICK u : u = Append(x.upd, <<d, e>>)
  BY Zenon
<1>2. <<d, e>> \in Touched
  BY DEF Touched
<1>3. u \in Seq(Touched)
  BY <1>1, <1>2 DEF IsView
<1>4. PICK y : y = [x EXCEPT !.upd = u]
  BY Zenon
<1>5. [x EXCEPT !.upd = Append(@, <<d, e>>)] = y
  BY <1>1, <1>4 DEF IsView
<1>6. Touch(x, d, e) = x \/ Touch(x, d, e) = y
  BY <1>5 DEF Touch
<1>7. Accesses(n, x, x)
  BY DEF Accesses
<1>8. Accesses(n, x, y) /\ y.port = x.port /\ y.p = x.p
  BY <1>3, <1>4, ViewFacts, Zenon DEF IsView
<1> QED
  BY <1>6, <1>7, <1>8

\* What an edge's shared status may become.
LEMMA PortFacts ==
    ASSUME NEW pt \in [Edge -> Port], NEW e \in Edge, NEW b \in BOOLEAN, NEW d \in Slot
    PROVE  /\ [pt EXCEPT ![e].fin = b] \in [Edge -> Port]
           /\ [pt EXCEPT ![e].need = b] \in [Edge -> Port]
           /\ [pt EXCEPT ![e].data = d] \in [Edge -> Port]
           /\ pt[e].data \in Slot /\ pt[e].need \in BOOLEAN /\ pt[e].fin \in BOOLEAN
<1>1. PICK r : r = pt[e]
  OBVIOUS
<1>2. r \in Port
  BY <1>1
<1>3. /\ [r EXCEPT !.fin = b] \in Port /\ [r EXCEPT !.need = b] \in Port
      /\ [r EXCEPT !.data = d] \in Port /\ r.data \in Slot /\ r.need \in BOOLEAN /\ r.fin \in BOOLEAN
  BY <1>2 DEF Port
<1> QED
  BY <1>1, <1>3

\* finish(), set_need_data() and set_not_need_data() change the status of one edge.
LEMMA StatusFacts ==
    ASSUME NEW n, NEW x, IsView(n, x), NEW d \in {"up", "down"}, NEW e \in Edge, NEW y,
           y \in {FinishPort(x, d, e), SetNeedData(x, e), SetNotNeedData(x, e)}
    PROVE  Accesses(n, x, y) /\ y.p = x.p
<1>1. ASSUME NEW pt \in [Edge -> Port], NEW z, z = [x EXCEPT !.port = pt], NEW c \in {"up", "down"}
      PROVE  /\ Accesses(n, x, z) /\ z.p = x.p
             /\ Accesses(n, x, Touch(z, c, e)) /\ Touch(z, c, e).p = x.p
  <2>1. Accesses(n, x, z) /\ z.p = x.p
    BY <1>1, ViewFacts, Zenon DEF IsView
  <2>2. Accesses(n, z, Touch(z, c, e)) /\ Touch(z, c, e).p = z.p
    <3>1. IsView(n, z)
      BY <2>1 DEF Accesses
    <3> QED
      BY <3>1, TouchFacts
  <2> QED
    BY <2>1, <2>2 DEF Accesses
<1>2. Accesses(n, x, x)
  BY DEF Accesses
<1>3. CASE y = FinishPort(x, d, e)
  <2>1. PICK pt : pt = [x.port EXCEPT ![e].fin = TRUE]
    BY Zenon
  <2>2. pt \in [Edge -> Port]
    BY <2>1, PortFacts, Zenon DEF IsView, Slot
  <2>3. PICK z : z = [x EXCEPT !.port = pt]
    BY Zenon
  <2>4. [x EXCEPT !.port[e].fin = TRUE] = z
    BY <2>1, <2>3
  <2>5. y = x \/ y = Touch(z, d, e)
    BY <1>3, <2>4, Zenon DEF FinishPort
  <2> QED
    BY <1>1, <1>2, <2>2, <2>3, <2>5
<1>4. CASE y = SetNeedData(x, e)
  <2>1. PICK pt : pt = [x.port EXCEPT ![e].need = TRUE]
    BY Zenon
  <2>2. pt \in [Edge -> Port]
    BY <2>1, PortFacts, Zenon DEF IsView, Slot
  <2>3. PICK z : z = [x EXCEPT !.port = pt]
    BY Zenon
  <2>4. [x EXCEPT !.port[e].need = TRUE] = z
    BY <2>1, <2>3
  <2>5. y = x \/ y = Touch(z, "up", e)
    BY <1>4, <2>4, Zenon DEF SetNeedData
  <2> QED
    BY <1>1, <1>2, <2>2, <2>3, <2>5
<1>5. CASE y = SetNotNeedData(x, e)
  <2>1. PICK pt : pt = [x.port EXCEPT ![e].need = FALSE]
    BY Zenon
  <2>2. pt \in [Edge -> Port]
    BY <2>1, PortFacts, Zenon DEF IsView, Slot
  <2>3. y = [x EXCEPT !.port = pt]
    BY <1>5, <2>1 DEF SetNotNeedData
  <2> QED
    BY <1>1, <2>2, <2>3
<1> QED
  BY <1>3, <1>4, <1>5

\* The fields of a processor.
LEMMA ProcessorFacts ==
    ASSUME NEW n, NEW p \in Processor(n), NEW d \in Slot
    PROVE  /\ p.in \in Slot /\ p.out \in Slot
           /\ [p EXCEPT !.in = d] \in Processor(n) /\ [p EXCEPT !.out = d] \in Processor(n)
           /\ Resize(n) => /\ p.win \in Seq(Edge) /\ p.wout \in Seq(Edge)
                           /\ [p EXCEPT !.in = d].win = p.win /\ [p EXCEPT !.in = d].wout = p.wout
                           /\ [p EXCEPT !.out = d].win = p.win /\ [p EXCEPT !.out = d].wout = p.wout
<1>1. CASE Resize(n)
  BY <1>1, Zenon DEF Processor
<1>2. CASE ~Resize(n)
  BY <1>2 DEF Processor
<1> QED
  BY <1>1, <1>2

\* pull_data() takes the block of an edge, push_data() leaves the processor's there.
LEMMA DataFacts ==
    ASSUME NEW n, NEW x, IsView(n, x), NEW e \in Edge, NEW y, y \in {PullData(x, e), PushData(x, e)}
    PROVE  Accesses(n, x, y) /\ (Resize(n) => y.p.win = x.p.win /\ y.p.wout = x.p.wout)
<1>1. ASSUME NEW pt \in [Edge -> Port], NEW p \in Processor(n), NEW z,
             z = [x EXCEPT !.p = p, !.port = pt], NEW c \in {"up", "down"}
      PROVE  Accesses(n, x, Touch(z, c, e)) /\ Touch(z, c, e).p = p
  <2>1. Accesses(n, x, z) /\ z.p = p
    BY <1>1, Zenon DEF IsView, Accesses
  <2>2. Accesses(n, z, Touch(z, c, e)) /\ Touch(z, c, e).p = z.p
    <3>1. IsView(n, z)
      BY <2>1 DEF Accesses
    <3> QED
      BY <3>1, TouchFacts
  <2> QED
    BY <2>1, <2>2 DEF Accesses
<1>2. x.p \in Processor(n) /\ x.port \in [Edge -> Port] /\ x.p.out \in Slot /\ <<>> \in Slot
  BY ProcessorFacts, Zenon DEF IsView, Slot
<1>3. x.port[e].data \in Slot
  BY <1>2, PortFacts, Zenon
<1>4. CASE y = PullData(x, e)
  <2>1. PICK p : p = [x.p EXCEPT !.in = x.port[e].data]
    BY Zenon
  <2>2. p \in Processor(n) /\ (Resize(n) => p.win = x.p.win /\ p.wout = x.p.wout)
    <3>1. PICK d \in Slot : d = x.port[e].data
      BY <1>3
    <3>2. PICK r \in Processor(n) : r = x.p
      BY <1>2
    <3>3. /\ [r EXCEPT !.in = d] \in Processor(n)
          /\ Resize(n) => /\ [r EXCEPT !.in = d].win = r.win /\ [r EXCEPT !.in = d].wout = r.wout
      BY ProcessorFacts, Zenon
    <3>4. p = [r EXCEPT !.in = d]
      BY <2>1, <3>1, <3>2
    <3> QED
      BY <3>2, <3>3, <3>4
  <2>3. PICK pd : pd = [x.port EXCEPT ![e].data = <<>>]
    BY Zenon
  <2>4. PICK pt : pt = [pd EXCEPT ![e].need = FALSE]
    BY Zenon
  <2>5. pd \in [Edge -> Port]
    BY <1>2, <2>3, PortFacts, Zenon
  <2>6. pt \in [Edge -> Port]
    BY <1>2, <2>4, <2>5, PortFacts, Zenon
  <2>7. PICK z : z = [x EXCEPT !.p = p, !.port = pt]
    OBVIOUS
  <2>8. [x EXCEPT !.p.in = x.port[e].data, !.port[e].data = <<>>, !.port[e].need = FALSE] = z
    BY <2>1, <2>3, <2>4, <2>7, Zenon DEF IsView
  <2>9. y = Touch(z, "up", e)
    BY <1>4, <2>8 DEF PullData
  <2> QED
    BY <1>1, <2>2, <2>6, <2>7, <2>9, Zenon
<1>5. CASE y = PushData(x, e)
  <2>1. PICK p : p = [x.p EXCEPT !.out = <<>>]
    BY Zenon
  <2>2. p \in Processor(n) /\ (Resize(n) => p.win = x.p.win /\ p.wout = x.p.wout)
    <3>1. PICK d \in Slot : d = <<>>
      BY <1>2
    <3>2. PICK r \in Processor(n) : r = x.p
      BY <1>2
    <3>3. /\ [r EXCEPT !.out = d] \in Processor(n)
          /\ Resize(n) => /\ [r EXCEPT !.out = d].win = r.win /\ [r EXCEPT !.out = d].wout = r.wout
      BY ProcessorFacts, Zenon
    <3>4. p = [r EXCEPT !.out = d]
      BY <2>1, <3>1, <3>2
    <3> QED
      BY <3>2, <3>3, <3>4
  <2>3. PICK pt : pt = [x.port EXCEPT ![e].data = x.p.out]
    BY Zenon
  <2>4. pt \in [Edge -> Port]
    BY <1>2, <2>3, PortFacts, Zenon
  <2>5. PICK z : z = [x EXCEPT !.p = p, !.port = pt]
    OBVIOUS
  <2>6. [x EXCEPT !.port[e].data = x.p.out, !.p.out = <<>>] = z
    BY <2>1, <2>3, <2>5, Zenon DEF IsView
  <2>7. y = Touch(z, "down", e)
    BY <1>5, <2>6 DEF PushData
  <2> QED
    BY <1>1, <2>2, <2>4, <2>5, <2>7, Zenon
<1> QED
  BY <1>4, <1>5

\* Every node but a source has an input, every node but a sink an output.
LEMMA EdgeFacts ==
    ASSUME EdgesOk, NEW n \in Node
    PROVE  /\ Inputs[n] \in Seq(Edge) /\ Outputs[n] \in Seq(Edge)
           /\ Graph.kind[n] # "source" => Inputs[n] # <<>> /\ Input(n) \in Edge
           /\ Graph.kind[n] # "sink" => Outputs[n] # <<>> /\ Output(n) \in Edge
BY Zenon DEF EdgesOk

\* The next step of an event, or its end.
LEMMA StepFacts ==
    ASSUME NEW n, NEW x, NEW z, Accesses(n, x, z), x.event = "-", NEW step, NEW event, NEW y
    PROVE  /\ /\ y = Then(z, step)
              /\ StepOk(n, step, z.cause, z.rest, z.p)
              => Outcome(n, x, y)
           /\ /\ y = Return(z, event)
              /\ event \in {"idle", "finished"} \/ (event = "work" /\ ~Resize(n))
              => Outcome(n, x, y)
<1>1. IsView(n, z)
  BY DEF Accesses
<1>2. ASSUME y = Then(z, step), StepOk(n, step, z.cause, z.rest, z.p) PROVE Outcome(n, x, y)
  <2>1. /\ IsView(n, y) /\ y.cause = z.cause /\ y.rest = z.rest /\ y.p = z.p
        /\ y.event = z.event /\ y.step = step
    BY <1>1, <1>2 DEF Then, IsView
  <2> QED
    BY <1>2, <2>1 DEF Accesses, Outcome
<1>3. ASSUME y = Return(z, event),
             event \in {"idle", "finished"} \/ (event = "work" /\ ~Resize(n))
      PROVE  Outcome(n, x, y)
  <2>1. IsView(n, y) /\ y.cause = z.cause /\ y.event = event
    BY <1>1, <1>3, Zenon DEF Return, IsView
  <2> QED
    BY <1>3, <2>1 DEF Accesses, Outcome
<1> QED
  BY <1>2, <1>3

\* event() of a source.
LEMMA SourceOutcome ==
    ASSUME EdgesOk, NEW n \in Node, IsSource(n), NEW x, IsView(n, x), x.event = "-",
           StepOk(n, x.step, x.cause, x.rest, x.p)
    PROVE  Outcome(n, x, SourceEvent(n, x))
<1>1. Output(n) \in Edge /\ ~Resize(n) /\ Accesses(n, x, x)
  BY EdgeFacts DEF IsSource, Resize, Accesses
<1>2. PICK e \in Edge : e = Output(n)
  BY <1>1
<1>3. x.step \in {"begin", "can_push", "push"}
  BY DEF StepOk, IsSource
<1>4. PICK y : y = SourceEvent(n, x)
  BY Zenon
<1>5. ASSUME NEW z, Accesses(n, x, z), NEW event \in {"idle", "finished", "work"}, y = Return(z, event)
      PROVE  Outcome(n, x, y)
  BY <1>1, <1>5, StepFacts
<1>6. ASSUME NEW step \in {"can_push", "push"}, y = Then(x, step) PROVE Outcome(n, x, y)
  BY <1>1, <1>6, StepFacts, Zenon DEF StepOk, IsSource
<1>7. CASE x.step = "begin"
  <2>1. PICK z : z = FinishPort(x, "down", e)
    BY Zenon
  <2>2. Accesses(n, x, z)
    BY <2>1, StatusFacts
  <2>3. PICK p : p = [x.p EXCEPT !.done = TRUE]
    BY Zenon
  <2>4. p \in Processor(n)
    BY <1>1, <2>3, Zenon DEF IsView, Processor
  <2>5. PICK v : v = [x EXCEPT !.p = p]
    BY Zenon
  <2>6. Accesses(n, x, v) /\ v = [x EXCEPT !.p.done = TRUE]
    BY <2>3, <2>4, <2>5, Zenon DEF IsView, Accesses
  <2>7. \/ y = Return(x, "work") \/ y = Return(z, "finished") \/ y = Then(x, "can_push")
        \/ y = Return(v, "work") \/ y = Return(x, "finished")
    BY <1>2, <1>4, <1>7, <2>1, <2>6, Zenon DEF SourceEvent
  <2> QED
    BY <1>1, <1>4, <1>5, <1>6, <2>2, <2>6, <2>7
<1>8. CASE x.step = "can_push"
  <2>1. y = Return(x, "idle") \/ y = Return(x, "work") \/ y = Then(x, "push")
    BY <1>4, <1>8 DEF SourceEvent
  <2> QED
    BY <1>1, <1>4, <1>5, <1>6, <2>1
<1>9. CASE x.step = "push"
  <2>1. PICK z : z = PushData(x, e)
    BY Zenon
  <2>2. Accesses(n, x, z)
    BY <2>1, DataFacts
  <2>3. y = Return(z, "idle")
    BY <1>2, <1>4, <1>9, <2>1 DEF SourceEvent
  <2> QED
    BY <1>4, <1>5, <2>2, <2>3
<1> QED
  BY <1>3, <1>4, <1>7, <1>8, <1>9

\* event() of a transform.
LEMMA TransformOutcome ==
    ASSUME EdgesOk, NEW n \in Node, Graph.kind[n] = "transform", NEW x, IsView(n, x), x.event = "-",
           StepOk(n, x.step, x.cause, x.rest, x.p)
    PROVE  Outcome(n, x, TransformEvent(n, x))
<1> DEFINE Steps == {"begin", "finish_input", "can_push", "not_need_data", "push", "has_data",
                     "pull", "finished", "finish_output", "need_data"}
<1>1. ~Resize(n) /\ Accesses(n, x, x)
  BY DEF Resize, Accesses
<1>2. PICK i, o \in Edge : i = Input(n) /\ o = Output(n)
  BY EdgeFacts
<1>3. x.step \in Steps
  BY DEF StepOk
<1>4. PICK y : y = TransformEvent(n, x)
  BY Zenon
<1>5. ASSUME NEW z, Accesses(n, x, z), NEW event \in {"idle", "finished", "work"}, y = Return(z, event)
      PROVE  Outcome(n, x, y)
  BY <1>1, <1>5, StepFacts
<1>6. ASSUME NEW step \in Steps, y = Then(x, step) PROVE Outcome(n, x, y)
  <2>1. StepOk(n, step, x.cause, x.rest, x.p)
    BY <1>6 DEF StepOk
  <2> QED
    BY <1>1, <1>6, <2>1, StepFacts, Zenon
<1>7. /\ \A z : z \in {FinishPort(x, "up", i), FinishPort(x, "down", o), SetNotNeedData(x, i),
                       SetNeedData(x, i)} => Accesses(n, x, z)
      /\ \A z : z \in {PushData(x, o), PullData(x, i)} => Accesses(n, x, z)
  BY StatusFacts, DataFacts
<1>8. CASE x.step \in {"begin", "can_push", "has_data", "finished"}
  <2>1. \/ y = Return(x, "work") \/ y = Return(x, "idle")
        \/ \E step \in Steps : y = Then(x, step)
    <3>1. CASE x.step = "begin"
      BY <1>4, <3>1 DEF TransformEvent
    <3>2. CASE x.step = "can_push"
      BY <1>4, <3>2 DEF TransformEvent
    <3>3. CASE x.step = "has_data"
      BY <1>4, <3>3 DEF TransformEvent
    <3>4. CASE x.step = "finished"
      BY <1>4, <3>4 DEF TransformEvent
    <3> QED
      BY <1>8, <3>1, <3>2, <3>3, <3>4
  <2> QED
    BY <1>1, <1>4, <1>5, <1>6, <2>1
<1>9. CASE x.step \in {"finish_input", "not_need_data", "push", "pull", "finish_output", "need_data"}
  <2>1. \E z, event : /\ Accesses(n, x, z) /\ event \in {"idle", "finished", "work"}
                      /\ y = Return(z, event)
    <3>1. CASE x.step = "finish_input"
      BY <1>2, <1>4, <1>7, <3>1 DEF TransformEvent
    <3>2. CASE x.step = "not_need_data"
      BY <1>2, <1>4, <1>7, <3>2 DEF TransformEvent
    <3>3. CASE x.step = "push"
      BY <1>2, <1>4, <1>7, <3>3 DEF TransformEvent
    <3>4. CASE x.step = "pull"
      BY <1>2, <1>4, <1>7, <3>4 DEF TransformEvent
    <3>5. CASE x.step = "finish_output"
      BY <1>2, <1>4, <1>7, <3>5 DEF TransformEvent
    <3>6. CASE x.step = "need_data"
      BY <1>2, <1>4, <1>7, <3>6 DEF TransformEvent
    <3> QED
      BY <1>9, <3>1, <3>2, <3>3, <3>4, <3>5, <3>6
  <2> QED
    BY <1>4, <1>5, <2>1
<1> QED
  BY <1>3, <1>8, <1>9

\* event() of a sink.
LEMMA SinkOutcome ==
    ASSUME EdgesOk, NEW n \in Node, IsSink(n), NEW x, IsView(n, x), x.event = "-",
           StepOk(n, x.step, x.cause, x.rest, x.p)
    PROVE  Outcome(n, x, SinkEvent(n, x))
<1> DEFINE Steps == {"begin", "has_data", "pull", "need_more", "need_data"}
<1>1. ~Resize(n) /\ Accesses(n, x, x)
  BY DEF Resize, Accesses, IsSink
<1>2. PICK e \in Edge : e = Input(n)
  BY EdgeFacts DEF IsSink
<1>3. x.step \in Steps
  BY DEF StepOk, IsSink
<1>4. PICK y : y = SinkEvent(n, x)
  BY Zenon
<1>5. ASSUME NEW z, Accesses(n, x, z), NEW event \in {"idle", "finished", "work"}, y = Return(z, event)
      PROVE  Outcome(n, x, y)
  BY <1>1, <1>5, StepFacts
<1>6. ASSUME NEW z, Accesses(n, x, z), NEW step \in Steps, y = Then(z, step) PROVE Outcome(n, x, y)
  <2>1. StepOk(n, step, z.cause, z.rest, z.p)
    BY <1>6 DEF StepOk, IsSink
  <2> QED
    BY <1>1, <1>6, <2>1, StepFacts, Zenon
<1>7. /\ Accesses(n, x, FinishPort(x, "up", e)) /\ Accesses(n, x, SetNeedData(x, e))
      /\ Accesses(n, x, PullData(x, e))
  BY StatusFacts, DataFacts
<1>8. \/ \E z, event : /\ Accesses(n, x, z) /\ event \in {"idle", "finished", "work"}
                       /\ y = Return(z, event)
      \/ \E z : Accesses(n, x, z) /\ \E step \in Steps : y = Then(z, step)
  <2>1. CASE x.step = "begin"
    BY <1>1, <1>2, <1>4, <1>7, <2>1 DEF SinkEvent
  <2>2. CASE x.step = "has_data"
    BY <1>1, <1>2, <1>4, <1>7, <2>2 DEF SinkEvent
  <2>3. CASE x.step = "pull"
    BY <1>1, <1>2, <1>4, <1>7, <2>3 DEF SinkEvent
  <2>4. CASE x.step = "need_more"
    BY <1>1, <1>2, <1>4, <1>7, <2>4 DEF SinkEvent
  <2>5. CASE x.step = "need_data"
    BY <1>1, <1>2, <1>4, <1>7, <2>5 DEF SinkEvent
  <2> QED
    BY <1>3, <2>1, <2>2, <2>3, <2>4, <2>5
<1> QED
  BY <1>4, <1>5, <1>6, <1>8

-----------------------------------------------------------------------------
(* event_with_cause() of a resize processor *)

\* z is a view of the event that began with x, which goes on
Within(n, x, z) == IsView(n, z) /\ z.cause = x.cause /\ z.event = "-"

\* The event goes on with the next step, with the ports of a list, or ends.
LEMMA ResizeGoes ==
    ASSUME NEW n, Resize(n), NEW x, NEW z, Within(n, x, z), NEW step
    PROVE  /\ StepOk(n, step, z.cause, z.rest, z.p) => Outcome(n, x, Then(z, step))
           /\ Outcome(n, x, Return(z, "idle")) /\ Outcome(n, x, Return(z, "finished"))
           /\ \A edges \in Seq(Edge) :
                 /\ edges # <<>>
                 /\ step \in {"need_data", "pulled_finished", "need_more", "finish_inputs",
                              "finish_outputs"}
                 => Outcome(n, x, ForEach(z, step, edges))
<1>1. PICK y : y = Then(z, step)
  BY Zenon
<1>2. IsView(n, y) /\ y.cause = x.cause /\ y.rest = z.rest /\ y.p = z.p /\ y.event = "-" /\ y.step = step
  BY <1>1 DEF Then, Within, IsView
<1>3. StepOk(n, step, z.cause, z.rest, z.p) => Outcome(n, x, y)
  BY <1>2 DEF Outcome, Within
<1>4. ASSUME NEW event \in {"idle", "finished"} PROVE Outcome(n, x, Return(z, event))
  <2>1. PICK r : r = Return(z, event)
    BY Zenon
  <2>2. IsView(n, r) /\ r.cause = x.cause /\ r.event = event
    BY <2>1, Zenon DEF Return, Within, IsView
  <2> QED
    BY <1>4, <2>1, <2>2 DEF Outcome
<1>5. ASSUME NEW edges \in Seq(Edge), edges # <<>>,
             step \in {"need_data", "pulled_finished", "need_more", "finish_inputs",
                       "finish_outputs"}
      PROVE  Outcome(n, x, ForEach(z, step, edges))
  <2>1. PICK r : r = [y EXCEPT !.rest = edges]
    BY Zenon
  <2>2. /\ IsView(n, r) /\ r.cause = x.cause /\ r.event = "-" /\ r.rest = edges /\ r.step = step
    BY <1>2, <2>1 DEF IsView
  <2>3. StepOk(n, r.step, r.cause, r.rest, r.p)
    BY <1>5, <2>2 DEF StepOk, Resize
  <2> QED
    BY <1>1, <2>1, <2>2, <2>3 DEF Outcome, ForEach
<1> QED
  BY <1>1, <1>3, <1>4, <1>5

\* The fields of a resize processor may change.
LEMMA ResizeChanges ==
    ASSUME NEW n, Resize(n), NEW x, NEW z, Within(n, x, z), NEW p \in Processor(n)
    PROVE  Within(n, x, [z EXCEPT !.p = p]) /\ [z EXCEPT !.p = p].p = p
<1>1. PICK y : y = [z EXCEPT !.p = p]
  BY Zenon
<1>2. Within(n, x, y) /\ y.p = p
  BY <1>1 DEF Within, IsView
<1> QED
  BY <1>1, <1>2

\* From the loop over waiting ports to the end of the event.
LEMMA ResizeMoveOutcome ==
    ASSUME EdgesOk, NEW n \in Node, Resize(n), NEW x, NEW z, Within(n, x, z)
    PROVE  Outcome(n, x, ResizeEnd(n, z)) /\ Outcome(n, x, ResizeMove(n, z))
<1>1. /\ Inputs[n] \in Seq(Edge) /\ Inputs[n] # <<>>
      /\ Outputs[n] \in Seq(Edge) /\ Outputs[n] # <<>>
  BY EdgeFacts DEF Resize
<1>2. /\ Outcome(n, x, ForEach(z, "finish_inputs", Inputs[n]))
      /\ Outcome(n, x, ForEach(z, "finish_outputs", Outputs[n]))
      /\ Outcome(n, x, Return(z, "idle"))
  BY <1>1, ResizeGoes, Zenon
<1>3. Outcome(n, x, ResizeEnd(n, z))
  BY <1>2 DEF ResizeEnd
<1>4. z.p.win # <<>> /\ z.p.wout # <<>> => Outcome(n, x, Then(z, "output_finished"))
  <2>1. z.p.win # <<>> /\ z.p.wout # <<>> => StepOk(n, "output_finished", z.cause, z.rest, z.p)
    BY DEF StepOk, Resize
  <2> QED
    BY <2>1, ResizeGoes
<1> QED
  BY <1>3, <1>4 DEF ResizeMove

\* From the looks at the input that caused the event, and from the beginning.
LEMMA ResizeStartOutcome ==
    ASSUME EdgesOk, NEW n \in Node, Resize(n), NEW x, NEW z, Within(n, x, z)
    PROVE  Outcome(n, x, ResizeInput(n, z)) /\ Outcome(n, x, ResizeStart(n, z))
<1>1. Inputs[n] \in Seq(Edge) /\ Inputs[n] # <<>>
  BY EdgeFacts DEF Resize
<1>2. Outcome(n, x, ResizeMove(n, z)) /\ Outcome(n, x, ForEach(z, "finish_inputs", Inputs[n]))
  BY <1>1, ResizeGoes, ResizeMoveOutcome
<1>3. z.cause[1] = "down" => Outcome(n, x, Then(z, "input_finished"))
  <2>1. z.cause[1] = "down" => StepOk(n, "input_finished", z.cause, z.rest, z.p)
    BY DEF StepOk, Resize
  <2> QED
    BY <2>1, ResizeGoes
<1>4. Outcome(n, x, ResizeInput(n, z))
  BY <1>2, <1>3 DEF ResizeInput
<1>5. PICK p : p = [z.p EXCEPT !.initialized = TRUE]
  BY Zenon
<1>6. p \in Processor(n)
  BY <1>5, Zenon DEF Within, IsView, Processor
<1>7. PICK y : y = [z EXCEPT !.p = p]
  BY Zenon
<1>8. Within(n, x, y)
  BY <1>6, <1>7, ResizeChanges
<1>9. [z EXCEPT !.p.initialized = TRUE] = y
  BY <1>5, <1>7
<1>10. Outcome(n, x, ForEach(y, "need_data", Inputs[n]))
  BY <1>1, <1>8, ResizeGoes, Zenon
<1> QED
  BY <1>4, <1>9, <1>10, Zenon DEF ResizeStart

\* What a resize processor may keep of its ports.
LEMMA ResizeFields ==
    ASSUME NEW n, Resize(n), NEW x, NEW z, Within(n, x, z), NEW e \in Edge, NEW p,
           p \in {[z.p EXCEPT !.fi = @ \union {e}], [z.p EXCEPT !.fo = @ \union {e}],
                  [z.p EXCEPT !.win = Enlist(@, e)], [z.p EXCEPT !.wout = Enlist(@, e)]}
    PROVE  Within(n, x, [z EXCEPT !.p = p])
<1>1. PICK r : r = z.p
  BY Zenon
<1>2. r \in [in : Slot, out : Slot, initialized : BOOLEAN, fi : SUBSET Edge, fo : SUBSET Edge,
             win : Seq(Edge), wout : Seq(Edge)]
  BY <1>1 DEF Within, IsView, Processor
<1>3. r.win \in Seq(Edge) /\ r.wout \in Seq(Edge)
  BY <1>2
<1>4. Enlist(r.win, e) \in Seq(Edge) /\ Enlist(r.wout, e) \in Seq(Edge)
  BY <1>3 DEF Enlist
<1>5. PICK u, v : u = Enlist(r.win, e) /\ v = Enlist(r.wout, e)
  BY Zenon
<1>6. p \in {[r EXCEPT !.fi = @ \union {e}], [r EXCEPT !.fo = @ \union {e}],
             [r EXCEPT !.win = u], [r EXCEPT !.wout = v]}
  BY <1>1, <1>5
<1>7. p \in Processor(n)
  <2>1. u \in Seq(Edge) /\ v \in Seq(Edge)
    BY <1>4, <1>5
  <2>2. CASE p = [r EXCEPT !.fi = @ \union {e}]
    BY <1>2, <2>2 DEF Processor
  <2>3. CASE p = [r EXCEPT !.fo = @ \union {e}]
    BY <1>2, <2>3 DEF Processor
  <2>4. CASE p = [r EXCEPT !.win = u]
    BY <1>2, <2>1, <2>4, Zenon DEF Processor
  <2>5. CASE p = [r EXCEPT !.wout = v]
    BY <1>2, <2>1, <2>5, Zenon DEF Processor
  <2> QED
    BY <1>6, <2>2, <2>3, <2>4, <2>5
<1> QED
  BY <1>7, ResizeChanges

\* A step of a resize processor's event.
LEMMA ResizeOutcome ==
    ASSUME EdgesOk, NEW n \in Node, Resize(n), NEW x, IsView(n, x), x.event = "-",
           StepOk(n, x.step, x.cause, x.rest, x.p)
    PROVE  Outcome(n, x, ResizeEvent(n, x))
<1>1. PICK y : y = ResizeEvent(n, x)
  BY Zenon
<1>2. Within(n, x, x) /\ x.rest \in Seq(Edge) /\ x.cause \in Cause
  BY DEF Within, IsView
<1>3. PICK left, next : left = Tail(x.rest) /\ next = [x EXCEPT !.rest = left]
  BY Zenon
<1>4. PICK e : e = x.cause[2]
  BY Zenon
<1>5. x.cause[1] \in {"up", "down"} => e \in Edge
  BY <1>2, <1>4 DEF Cause, Touched
<1>6. x.rest # <<>> => Head(x.rest) \in Edge /\ left \in Seq(Edge) /\ Within(n, x, next)
  <2>1. x.rest # <<>> => Head(x.rest) \in Edge /\ left \in Seq(Edge)
    BY <1>2, <1>3
  <2>2. ASSUME left \in Seq(Edge) PROVE Within(n, x, next)
    BY <1>2, <1>3, <2>2, Zenon DEF Within, IsView
  <2> QED
    BY <2>1, <2>2
<1>7. /\ x.p.win \in Seq(Edge) /\ x.p.wout \in Seq(Edge)
      /\ x.p.win # <<>> => Head(x.p.win) \in Edge /\ Tail(x.p.win) \in Seq(Edge)
      /\ x.p.wout # <<>> => Head(x.p.wout) \in Edge /\ Tail(x.p.wout) \in Seq(Edge)
  <2>1. x.p.win \in Seq(Edge) /\ x.p.wout \in Seq(Edge)
    BY DEF IsView, Processor
  <2> QED
    BY <2>1
<1>8. ASSUME NEW z, Within(n, x, z)
      PROVE  /\ Outcome(n, x, ResizeStart(n, z)) /\ Outcome(n, x, ResizeMove(n, z))
             /\ Outcome(n, x, ResizeInput(n, z))
  BY <1>8, ResizeStartOutcome, ResizeMoveOutcome, Zenon
<1>9. CASE x.step = "begin"
  <2>1. \/ y = ResizeStart(n, x)
        \/ x.cause[1] = "up" /\ y = ResizeStart(n, [x EXCEPT !.p.fo = @ \union {e}])
        \/ x.cause[1] = "up" /\ y = Then(x, "can_push")
    BY <1>1, <1>4, <1>9 DEF ResizeEvent
  <2>2. CASE y = ResizeStart(n, x)
    BY <1>1, <1>2, <1>8, <2>2, Zenon
  <2>3. CASE x.cause[1] = "up" /\ y = ResizeStart(n, [x EXCEPT !.p.fo = @ \union {e}])
    <3>1. PICK p : p = [x.p EXCEPT !.fo = @ \union {e}]
      BY Zenon
    <3>2. PICK z : z = [x EXCEPT !.p = p]
      BY Zenon
    <3>3. Within(n, x, z)
      BY <1>2, <1>5, <2>3, <3>1, <3>2, ResizeFields
    <3>4. [x EXCEPT !.p.fo = @ \union {e}] = z
      BY <3>1, <3>2 DEF IsView
    <3> QED
      BY <1>1, <1>8, <2>3, <3>3, <3>4, Zenon
  <2>4. CASE x.cause[1] = "up" /\ y = Then(x, "can_push")
    <3>1. StepOk(n, "can_push", x.cause, x.rest, x.p)
      BY <2>4 DEF StepOk, Resize
    <3>2. Outcome(n, x, Then(x, "can_push"))
      BY <1>2, <3>1, ResizeGoes
    <3> QED
      BY <1>1, <2>4, <3>2, Zenon
  <2> QED
    BY <2>1, <2>2, <2>3, <2>4, Zenon
<1>10. CASE x.step = "can_push"
  <2>1. x.cause[1] = "up"
    BY <1>10 DEF StepOk, Resize
  <2>2. \/ y = ResizeStart(n, x)
        \/ y = ResizeStart(n, [x EXCEPT !.p.wout = Enlist(@, e)])
    BY <1>1, <1>4, <1>10 DEF ResizeEvent
  <2>3. CASE y = ResizeStart(n, x)
    BY <1>1, <1>2, <1>8, <2>3, Zenon
  <2>4. CASE y = ResizeStart(n, [x EXCEPT !.p.wout = Enlist(@, e)])
    <3>1. PICK p : p = [x.p EXCEPT !.wout = Enlist(@, e)]
      BY Zenon
    <3>2. PICK z : z = [x EXCEPT !.p = p]
      BY Zenon
    <3>3. Within(n, x, z)
      BY <1>2, <1>5, <2>1, <3>1, <3>2, ResizeFields
    <3>4. [x EXCEPT !.p.wout = Enlist(@, e)] = z
      BY <3>1, <3>2 DEF IsView
    <3> QED
      BY <1>1, <1>8, <2>4, <3>3, <3>4, Zenon
  <2> QED
    BY <2>2, <2>3, <2>4, Zenon
<1>11. CASE x.step = "input_finished"
  <2>1. x.cause[1] = "down"
    BY <1>11 DEF StepOk, Resize
  <2>2. \/ y = ResizeMove(n, [x EXCEPT !.p.fi = @ \union {e}])
        \/ y = Then(x, "has_data")
    BY <1>1, <1>4, <1>11 DEF ResizeEvent
  <2>3. CASE y = ResizeMove(n, [x EXCEPT !.p.fi = @ \union {e}])
    <3>1. PICK p : p = [x.p EXCEPT !.fi = @ \union {e}]
      BY Zenon
    <3>2. PICK z : z = [x EXCEPT !.p = p]
      BY Zenon
    <3>3. Within(n, x, z)
      BY <1>2, <1>5, <2>1, <3>1, <3>2, ResizeFields
    <3>4. [x EXCEPT !.p.fi = @ \union {e}] = z
      BY <3>1, <3>2 DEF IsView
    <3> QED
      BY <1>1, <1>8, <2>3, <3>3, <3>4, Zenon
  <2>4. CASE y = Then(x, "has_data")
    <3>1. StepOk(n, "has_data", x.cause, x.rest, x.p)
      BY <2>1 DEF StepOk, Resize
    <3>2. Outcome(n, x, Then(x, "has_data"))
      BY <1>2, <3>1, ResizeGoes
    <3> QED
      BY <1>1, <2>4, <3>2, Zenon
  <2> QED
    BY <2>2, <2>3, <2>4, Zenon
<1>12. CASE x.step = "has_data"
  <2>1. x.cause[1] = "down"
    BY <1>12 DEF StepOk, Resize
  <2>2. \/ y = ResizeMove(n, x)
        \/ y = ResizeMove(n, [x EXCEPT !.p.win = Enlist(@, e)])
    BY <1>1, <1>4, <1>12 DEF ResizeEvent
  <2>3. CASE y = ResizeMove(n, x)
    BY <1>1, <1>2, <1>8, <2>3, Zenon
  <2>4. CASE y = ResizeMove(n, [x EXCEPT !.p.win = Enlist(@, e)])
    <3>1. PICK p : p = [x.p EXCEPT !.win = Enlist(@, e)]
      BY Zenon
    <3>2. PICK z : z = [x EXCEPT !.p = p]
      BY Zenon
    <3>3. Within(n, x, z)
      BY <1>2, <1>5, <2>1, <3>1, <3>2, ResizeFields
    <3>4. [x EXCEPT !.p.win = Enlist(@, e)] = z
      BY <3>1, <3>2 DEF IsView
    <3> QED
      BY <1>1, <1>8, <2>4, <3>3, <3>4, Zenon
  <2> QED
    BY <2>2, <2>3, <2>4, Zenon
<1>13. CASE x.step \in {"need_data", "need_more", "finish_inputs", "finish_outputs"}
  <2>1. x.rest # <<>>
    BY <1>13 DEF StepOk, Resize
  <2>2. PICK z : /\ z \in {SetNeedData(next, Head(x.rest)), FinishPort(next, "up", Head(x.rest)),
                           FinishPort(next, "down", Head(x.rest))}
                 /\ \/ x.step = "need_more" /\ y = ResizeMove(n, z)
                    \/ x.step = "need_data" /\ left = <<>> /\ y = ResizeInput(n, z)
                    \/ x.step # "need_data" /\ left = <<>> /\ y = Return(z, "finished")
                    \/ x.step # "need_more" /\ left # <<>> /\ y = z
    <3>1. \/ x.step = "need_more" /\ y = ResizeMove(n, SetNeedData(next, Head(x.rest)))
          \/ /\ x.step = "need_data"
             /\ y = IF left = <<>> THEN ResizeInput(n, SetNeedData(next, Head(x.rest)))
                    ELSE SetNeedData(next, Head(x.rest))
          \/ /\ x.step = "finish_inputs"
             /\ y = IF left = <<>> THEN Return(FinishPort(next, "up", Head(x.rest)), "finished")
                    ELSE FinishPort(next, "up", Head(x.rest))
          \/ /\ x.step = "finish_outputs"
             /\ y = IF left = <<>> THEN Return(FinishPort(next, "down", Head(x.rest)), "finished")
                    ELSE FinishPort(next, "down", Head(x.rest))
      BY <1>1, <1>3, <1>13, Zenon DEF ResizeEvent
    <3> QED
      BY <1>13, <3>1
  <2>3. Within(n, x, z) /\ z.rest = left /\ z.step = x.step
    <3>1. IsView(n, next) /\ Head(x.rest) \in Edge /\ next.rest = left /\ next.step = x.step
      BY <1>3, <1>6, <2>1 DEF Within, IsView
    <3>2. Accesses(n, next, z)
      BY <2>2, <3>1, StatusFacts
    <3> QED
      BY <1>6, <2>1, <3>1, <3>2 DEF Within, Accesses
  <2>4. Outcome(n, x, ResizeMove(n, z)) /\ Outcome(n, x, ResizeInput(n, z))
    BY <1>8, <2>3, Zenon
  <2>5. Outcome(n, x, Return(z, "finished"))
    BY <2>3, ResizeGoes, Zenon
  <2>6. x.step # "need_more" /\ left # <<>> => Outcome(n, x, z)
    <3>1. x.step # "need_more" /\ left # <<>> => StepOk(n, z.step, z.cause, z.rest, z.p)
      BY <1>13, <2>3 DEF StepOk, Resize
    <3> QED
      BY <2>3, <3>1 DEF Outcome, Within
  <2> QED
    BY <1>1, <2>2, <2>4, <2>5, <2>6, Zenon
<1>14. CASE x.step = "pulled_finished"
  <2>1. x.rest # <<>>
    BY <1>14 DEF StepOk, Resize
  <2>2. PICK i : i = Head(x.rest)
    BY Zenon
  <2>3. \/ y = ResizeMove(n, [next EXCEPT !.p.fi = @ \union {i}])
        \/ y = Then(x, "need_more")
    BY <1>1, <1>3, <1>14, <2>2 DEF ResizeEvent
  <2>4. CASE y = ResizeMove(n, [next EXCEPT !.p.fi = @ \union {i}])
    <3>1. PICK p : p = [next.p EXCEPT !.fi = @ \union {i}]
      BY Zenon
    <3>2. PICK z : z = [next EXCEPT !.p = p]
      BY Zenon
    <3>3. Within(n, x, z)
      BY <1>6, <2>1, <2>2, <3>1, <3>2, ResizeFields, Zenon
    <3>4. [next EXCEPT !.p.fi = @ \union {i}] = z
      BY <1>6, <2>1, <3>1, <3>2 DEF IsView, Within
    <3> QED
      BY <1>1, <1>8, <2>4, <3>3, <3>4, Zenon
  <2>5. CASE y = Then(x, "need_more")
    <3>1. StepOk(n, "need_more", x.cause, x.rest, x.p)
      BY <2>1 DEF StepOk, Resize
    <3>2. Outcome(n, x, Then(x, "need_more"))
      BY <1>2, <3>1, ResizeGoes
    <3> QED
      BY <1>1, <2>5, <3>2, Zenon
  <2> QED
    BY <2>3, <2>4, <2>5, Zenon
<1>15. CASE x.step \in {"output_finished", "pull", "push"}
  <2>1. x.p.win # <<>> /\ x.p.wout # <<>>
    BY <1>15 DEF StepOk, Resize
  <2>2. PICK o, i : o = Head(x.p.wout) /\ i = Head(x.p.win)
    BY Zenon
  <2>3. o \in Edge /\ i \in Edge /\ Tail(x.p.win) \in Seq(Edge) /\ Tail(x.p.wout) \in Seq(Edge)
    BY <1>7, <2>1, <2>2
  <2>4. CASE x.step = "output_finished"
    <3>1. \/ y = ResizeMove(n, [x EXCEPT !.p.fo = @ \union {o}, !.p.wout = Tail(@)])
          \/ y = Then(x, "pull")
      BY <1>1, <2>2, <2>4 DEF ResizeEvent, ResizeOffer
    <3>2. PICK p : p = [x.p EXCEPT !.fo = @ \union {o}, !.wout = Tail(@)]
      BY Zenon
    <3>3. p \in Processor(n)
      BY <2>3, <3>2, Zenon DEF IsView, Processor
    <3>4. PICK z : z = [x EXCEPT !.p = p]
      BY Zenon
    <3>5. Within(n, x, z)
      BY <1>2, <3>3, <3>4, ResizeChanges
    <3>6. [x EXCEPT !.p.fo = @ \union {o}, !.p.wout = Tail(@)] = z
      BY <3>2, <3>4, Zenon DEF IsView
    <3>7. StepOk(n, "pull", x.cause, x.rest, x.p)
      BY <2>1 DEF StepOk, Resize
    <3>8. Outcome(n, x, Then(x, "pull"))
      BY <1>2, <3>7, ResizeGoes
    <3> QED
      BY <1>1, <1>8, <3>1, <3>5, <3>6, <3>8, Zenon
  <2>5. CASE x.step = "pull"
    <3>1. PICK a : a = PullData(x, i)
      BY Zenon
    <3>2. Accesses(n, x, a) /\ a.p.win = x.p.win /\ a.p.wout = x.p.wout
      BY <2>3, <3>1, DataFacts
    <3>3. PICK p : p = [a.p EXCEPT !.out = a.p.in, !.in = <<>>]
      BY Zenon
    <3>4. p \in Processor(n) /\ p.win = x.p.win /\ p.wout = x.p.wout
      BY <3>2, <3>3, Zenon DEF IsView, Accesses, Processor, Slot
    <3>5. PICK z : z = [a EXCEPT !.p = p]
      BY Zenon
    <3>6. Within(n, x, a)
      BY <3>2 DEF Within, Accesses
    <3>7. Within(n, x, z) /\ z.p = p
      BY <3>4, <3>5, <3>6, ResizeChanges
    <3>8. [a EXCEPT !.p.out = a.p.in, !.p.in = <<>>] = z
      BY <3>2, <3>3, <3>5, Zenon DEF IsView, Accesses
    <3>9. y = Then(z, "push")
      BY <1>1, <2>2, <2>5, <3>1, <3>8, Zenon DEF ResizeEvent
    <3>10. StepOk(n, "push", z.cause, z.rest, z.p)
      BY <2>1, <3>4, <3>7 DEF StepOk, Resize
    <3>11. Outcome(n, x, Then(z, "push"))
      BY <3>7, <3>10, ResizeGoes
    <3> QED
      BY <1>1, <3>9, <3>11, Zenon
  <2>6. CASE x.step = "push"
    <3>1. PICK a : a = PushData(x, o)
      BY Zenon
    <3>2. Accesses(n, x, a) /\ a.p.win = x.p.win /\ a.p.wout = x.p.wout
      BY <2>3, <3>1, DataFacts
    <3>3. PICK p : p = [a.p EXCEPT !.win = Tail(@), !.wout = Tail(@)]
      BY Zenon
    <3>4. p \in Processor(n)
      BY <2>3, <3>2, <3>3, Zenon DEF IsView, Accesses, Processor
    <3>5. PICK z : z = [a EXCEPT !.p = p]
      BY Zenon
    <3>6. Within(n, x, a)
      BY <3>2 DEF Within, Accesses
    <3>7. Within(n, x, z)
      BY <3>4, <3>5, <3>6, ResizeChanges
    <3>8. [a EXCEPT !.p.win = Tail(@), !.p.wout = Tail(@)] = z
      BY <3>2, <3>3, <3>5, Zenon DEF IsView, Accesses
    <3>9. y = ForEach(z, "pulled_finished", <<i>>)
      BY <1>1, <2>2, <2>6, <3>1, <3>8, Zenon DEF ResizeEvent
    <3>10. <<i>> \in Seq(Edge) /\ <<i>> # <<>>
      BY <2>3
    <3>11. Outcome(n, x, ForEach(z, "pulled_finished", <<i>>))
      BY <3>7, <3>10, ResizeGoes, Zenon
    <3> QED
      BY <1>1, <3>9, <3>11, Zenon
  <2> QED
    BY <1>15, <2>4, <2>5, <2>6
<1> QED
  <2>1. x.step \in {"begin", "can_push", "input_finished", "has_data", "need_data",
                    "need_more", "finish_inputs", "finish_outputs", "pulled_finished",
                    "output_finished", "pull", "push"}
    BY DEF StepOk, Resize
  <2> QED
    BY <1>9, <1>10, <1>11, <1>12, <1>13, <1>14, <1>15, <2>1

\* A step of an event has an outcome, whatever the processor.
LEMMA EventStepOutcome ==
    ASSUME EdgesOk, NEW n \in Node, NEW x, IsView(n, x), x.event = "-",
           StepOk(n, x.step, x.cause, x.rest, x.p)
    PROVE  Outcome(n, x, EventStep(n, x))
<1>1. Graph.kind[n] \in {"source", "transform", "resize", "sink"}
  BY ExecutorAssumption DEF Node
<1>2. CASE Graph.kind[n] = "source"
  BY <1>2, SourceOutcome DEF EventStep, IsSource
<1>3. CASE Graph.kind[n] = "transform"
  BY <1>3, TransformOutcome DEF EventStep
<1>4. CASE Graph.kind[n] = "resize"
  BY <1>4, ResizeOutcome DEF EventStep, Resize
<1>5. CASE Graph.kind[n] = "sink"
  BY <1>5, SinkOutcome DEF EventStep, IsSink
<1> QED
  BY <1>1, <1>2, <1>3, <1>4, <1>5
=============================================================================
