---------------------------- MODULE HolderSteps -----------------------------
(***************************************************************************)
(* A task that is taken, run, spawned or put on a queue leaves its         *)
(* processor in one place.                                                 *)
(***************************************************************************)
EXTENDS ExecutorInvariants, TLAPS

-----------------------------------------------------------------------------
(* The actors *)

\* A worker is an actor, and Killer, the last actor, is no worker.
LEMMA WorkersAct == Worker \subseteq Actor /\ Killer \in Actor /\ Killer \notin Worker
BY ExecutorAssumption DEF Worker, Actor, Killer

\* An actor's step replaces its own context, and leaves the contexts of the others alone.
LEMMA GoesThere ==
    ASSUME Shapes, NEW a \in Actor, NEW y, Goto(a, y), IsContext(y)
    PROVE  /\ ctx'[a] = y /\ \A b \in Actor \ {a} : ctx'[b] = ctx[b]
           /\ ctx' = [b \in Actor |-> ctx'[b]] /\ \A b \in Actor : IsContext(ctx'[b])
<1>1. ctx = [b \in Actor |-> ctx[b]] /\ \A b \in Actor : IsContext(ctx[b])
  BY DEF Shapes
<1>2. /\ ctx'[a] = y /\ \A b \in Actor \ {a} : ctx'[b] = ctx[b]
      /\ ctx' = [b \in Actor |-> ctx'[b]]
  BY <1>1 DEF Goto
<1> QED
  BY <1>1, <1>2

-----------------------------------------------------------------------------
(* What the steps rest on *)

\* A task more or less on the runtime counts for one.
LEMMA CountFacts ==
    ASSUME Grounds, NEW S, IsFiniteSet(S), NEW x
    PROVE  /\ Cardinality(S) \in Nat /\ IsFiniteSet(S \ {x}) /\ IsFiniteSet(S \union {x})
           /\ x \in S => Cardinality(S \ {x}) = Cardinality(S) - 1
           /\ x \notin S => Cardinality(S \union {x}) = Cardinality(S) + 1
BY Zenon DEF Grounds, Counting

\* pop_task and best_worker_id find one of the workers they look for.
LEMMA FirstFacts ==
    ASSUME Grounds, NEW w \in Worker, NEW ws, ws \subseteq Worker, ws # {}
    PROVE  FirstFrom(w, ws) \in ws
BY Zenon DEF Grounds, FirstOk

\* A step of event() ends the event or leaves it something to go on with.
LEMMA EventOutcome ==
    ASSUME Grounds, NEW n \in Node, NEW x, IsView(n, x), x.event = "-",
           StepOk(n, x.step, x.cause, x.rest, x.p)
    PROVE  Outcome(n, x, EventStep(n, x))
BY Zenon DEF Grounds, EventStepOk

-----------------------------------------------------------------------------
(* Places *)

\* Where a worker may hold a processor.
LEMMA HoldsFacts ==
    ASSUME NEW c, NEW s, NEW d, NEW r, NEW n
    PROVE  /\ Holds(c, s, d, r, "task", n) <=> c.task # NoTask /\ c.task[2] = n
           /\ Holds(c, s, d, r, "node", n) <=> c.node = n
           /\ Holds(c, s, d, r, "tosync", n) <=> In(n, c.tosync)
           /\ Holds(c, s, d, r, "toasync", n) <=> In(n, c.toasync)
           /\ Holds(c, s, d, r, "sync", n) <=> In(n, s)
           /\ Holds(c, s, d, r, "done", n) <=> InTasks(n, d)
           /\ Holds(c, s, d, r, "runtime", n) <=> n \in r
BY DEF Holds

\* What is at the head of a queue is not in its tail.
LEMMA TailFacts ==
    ASSUME NEW S, NEW s \in Seq(S), s # <<>>
    PROVE  /\ Head(s) \in S /\ Tail(s) \in Seq(S)
           /\ Distinct(s) => Distinct(Tail(s)) /\ ~In(Head(s), Tail(s))
           /\ \A n : In(n, s) <=> n = Head(s) \/ In(n, Tail(s))
<1>1. /\ Head(s) \in S /\ Tail(s) \in Seq(S) /\ Head(s) = s[1] /\ Len(s) \in Nat /\ Len(s) > 0
      /\ Len(Tail(s)) = Len(s) - 1 /\ \A i \in 1 .. Len(s) - 1 : Tail(s)[i] = s[i + 1]
      /\ DOMAIN s = 1 .. Len(s) /\ DOMAIN Tail(s) = 1 .. Len(s) - 1
  OBVIOUS
<1>2. Distinct(s) => Distinct(Tail(s)) /\ ~In(Head(s), Tail(s))
  BY <1>1 DEF Distinct, In
<1>3. ASSUME NEW n PROVE In(n, s) <=> n = Head(s) \/ In(n, Tail(s))
  <2>1. ASSUME NEW i \in 1 .. Len(s), s[i] = n PROVE n = Head(s) \/ In(n, Tail(s))
    <3>1. i = 1 \/ i - 1 \in 1 .. Len(s) - 1
      BY <1>1
    <3>2. i # 1 => Tail(s)[i - 1] = n
      BY <1>1, <2>1, <3>1
    <3> QED
      BY <1>1, <2>1, <3>1, <3>2, Zenon DEF In
  <2>2. ASSUME NEW i \in 1 .. Len(s) - 1, Tail(s)[i] = n PROVE In(n, s)
    <3>1. i + 1 \in 1 .. Len(s) /\ s[i + 1] = n
      BY <1>1, <2>2
    <3> QED
      BY <1>1, <3>1 DEF In
  <2>3. n = Head(s) => In(n, s)
    BY <1>1 DEF In
  <2> QED
    BY <1>1, <2>1, <2>2, <2>3 DEF In
<1> QED
  BY <1>1, <1>2, <1>3

\* The same of a queue of tasks.
LEMMA TailTaskFacts ==
    ASSUME NEW S, NEW s \in Seq(S), s # <<>>
    PROVE  /\ Head(s) \in S /\ Tail(s) \in Seq(S)
           /\ DistinctTasks(s) => DistinctTasks(Tail(s)) /\ ~InTasks(Head(s)[2], Tail(s))
           /\ \A n : InTasks(n, s) <=> n = Head(s)[2] \/ InTasks(n, Tail(s))
<1>1. /\ Head(s) \in S /\ Tail(s) \in Seq(S) /\ Head(s) = s[1] /\ Len(s) \in Nat /\ Len(s) > 0
      /\ Len(Tail(s)) = Len(s) - 1 /\ \A i \in 1 .. Len(s) - 1 : Tail(s)[i] = s[i + 1]
      /\ DOMAIN s = 1 .. Len(s) /\ DOMAIN Tail(s) = 1 .. Len(s) - 1
  OBVIOUS
<1>2. DistinctTasks(s) => DistinctTasks(Tail(s)) /\ ~InTasks(Head(s)[2], Tail(s))
  BY <1>1 DEF DistinctTasks, InTasks
<1>3. ASSUME NEW n PROVE InTasks(n, s) <=> n = Head(s)[2] \/ InTasks(n, Tail(s))
  <2>1. ASSUME NEW i \in 1 .. Len(s), s[i][2] = n PROVE n = Head(s)[2] \/ InTasks(n, Tail(s))
    <3>1. i = 1 \/ i - 1 \in 1 .. Len(s) - 1
      BY <1>1
    <3>2. i # 1 => Tail(s)[i - 1][2] = n
      BY <1>1, <2>1, <3>1
    <3> QED
      BY <1>1, <2>1, <3>1, <3>2, Zenon DEF InTasks
  <2>2. ASSUME NEW i \in 1 .. Len(s) - 1, Tail(s)[i][2] = n PROVE InTasks(n, s)
    <3>1. i + 1 \in 1 .. Len(s) /\ s[i + 1][2] = n
      BY <1>1, <2>2
    <3> QED
      BY <1>1, <3>1 DEF InTasks
  <2>3. n = Head(s)[2] => InTasks(n, s)
    BY <1>1 DEF InTasks
  <2> QED
    BY <1>1, <2>1, <2>2, <2>3 DEF InTasks
<1> QED
  BY <1>1, <1>2, <1>3

\* A queue grows at its end, by what is not in it yet.
LEMMA AppendFacts ==
    ASSUME NEW S, NEW s \in Seq(S), NEW v \in S
    PROVE  /\ Append(s, v) \in Seq(S)
           /\ \A n : In(n, Append(s, v)) <=> n = v \/ In(n, s)
           /\ \A n : InTasks(n, Append(s, v)) <=> n = v[2] \/ InTasks(n, s)
           /\ Distinct(s) /\ ~In(v, s) => Distinct(Append(s, v))
           /\ DistinctTasks(s) /\ ~InTasks(v[2], s) => DistinctTasks(Append(s, v))
<1>1. PICK t : t = Append(s, v)
  BY Zenon
<1>2. /\ t \in Seq(S) /\ Len(s) \in Nat /\ Len(t) = Len(s) + 1 /\ t[Len(s) + 1] = v
      /\ \A i \in 1 .. Len(s) : t[i] = s[i]
      /\ DOMAIN s = 1 .. Len(s) /\ DOMAIN t = 1 .. Len(s) + 1
  BY <1>1
<1>3. \A i : i \in DOMAIN t <=> i \in DOMAIN s \/ i = Len(s) + 1
  BY <1>2
<1>4. Len(s) + 1 \notin DOMAIN s
  BY <1>2
<1>5. \A n : In(n, t) <=> n = v \/ In(n, s)
  BY <1>2, <1>3 DEF In
<1>6. \A n : InTasks(n, t) <=> n = v[2] \/ InTasks(n, s)
  BY <1>2, <1>3 DEF InTasks
<1>7. Distinct(s) /\ ~In(v, s) => Distinct(t)
  BY <1>2, <1>3, <1>4 DEF Distinct, In
<1>8. DistinctTasks(s) /\ ~InTasks(v[2], s) => DistinctTasks(t)
  BY <1>2, <1>3, <1>4 DEF DistinctTasks, InTasks
<1> QED
  BY <1>1, <1>2, <1>5, <1>6, <1>7, <1>8

\* A queue grows by another one that shares nothing with it.
LEMMA ConcatFacts ==
    ASSUME NEW S, NEW s \in Seq(S), NEW u \in Seq(S)
    PROVE  /\ s \o u \in Seq(S)
           /\ \A n : In(n, s \o u) <=> In(n, s) \/ In(n, u)
           /\ Distinct(s) /\ Distinct(u) /\ (\A n : In(n, s) => ~In(n, u)) => Distinct(s \o u)
<1>1. PICK t : t = s \o u
  BY Zenon
<1>2. PICK k, l \in Nat : k = Len(s) /\ l = Len(u)
  OBVIOUS
<1>3. /\ t \in Seq(S) /\ DOMAIN s = 1 .. k /\ DOMAIN u = 1 .. l /\ DOMAIN t = 1 .. k + l
      /\ \A i \in 1 .. k : t[i] = s[i]
      /\ \A i \in k + 1 .. k + l : t[i] = u[i - k]
  BY <1>1, <1>2
<1>4. /\ \A i \in 1 .. k + l : i \in 1 .. k \/ (i \in k + 1 .. k + l /\ i - k \in 1 .. l)
      /\ \A i \in 1 .. l : i + k \in k + 1 .. k + l /\ i + k \in 1 .. k + l /\ (i + k) - k = i
      /\ \A i \in 1 .. k : i \in 1 .. k + l
  OBVIOUS
<1>5. ASSUME NEW n PROVE In(n, t) <=> In(n, s) \/ In(n, u)
  <2>1. In(n, t) => In(n, s) \/ In(n, u)
    BY <1>3, <1>4, Zenon DEF In
  <2>2. In(n, s) => In(n, t)
    BY <1>3, <1>4 DEF In
  <2>3. ASSUME NEW i \in 1 .. l, u[i] = n PROVE In(n, t)
    <3>1. i + k \in 1 .. k + l /\ t[i + k] = n
      BY <1>3, <1>4, <2>3
    <3> QED
      BY <1>3, <3>1, Zenon DEF In
  <2> QED
    BY <1>3, <2>1, <2>2, <2>3 DEF In
<1>6. ASSUME Distinct(s), Distinct(u), \A n : In(n, s) => ~In(n, u),
             NEW i \in 1 .. k + l, NEW j \in 1 .. k + l, t[i] = t[j]
      PROVE  i = j
  <2>1. CASE i \in 1 .. k /\ j \in 1 .. k
    BY <1>3, <1>6, <2>1 DEF Distinct
  <2>2. CASE i \in k + 1 .. k + l /\ j \in k + 1 .. k + l
    <3>1. i - k \in 1 .. l /\ j - k \in 1 .. l /\ u[i - k] = u[j - k]
      BY <1>3, <1>6, <2>2
    <3>2. i - k = j - k
      BY <1>3, <1>6, <3>1, Zenon DEF Distinct
    <3> QED
      BY <3>2
  <2>3. ASSUME NEW a \in 1 .. k, NEW b \in k + 1 .. k + l, t[a] = t[b] PROVE FALSE
    <3>1. s[a] = u[b - k] /\ b - k \in 1 .. l
      BY <1>3, <2>3
    <3>2. In(s[a], s) /\ In(s[a], u)
      BY <1>3, <3>1, Zenon DEF In
    <3> QED
      BY <1>6, <3>2
  <2> QED
    BY <1>4, <1>6, <2>1, <2>2, <2>3
<1> QED
  BY <1>1, <1>3, <1>5, <1>6, Zenon DEF Distinct

-----------------------------------------------------------------------------
(* What a step does with a processor *)

\* it stays where it is
Stays(m) == \A v \in Worker, p \in Place : Has(v, p, m)' <=> Has(v, p, m)

\* it is given up, when the query ends
Dropped(m) ==
    /\ finished' \/ error' # "none"
    /\ \A v \in Worker, p \in Place : Has(v, p, m)' => Has(v, p, m)

\* it goes from where it is a task or the result of one to another place
Moved(m) ==
    /\ \E v \in Worker, p \in Place \ {"node"} : Has(v, p, m)
    /\ \E w \in Worker, q \in Place : \A v \in Worker, p \in Place : Has(v, p, m)' <=> v = w /\ p = q

\* What a worker holds is told by the fields that hold it.
LEMMA SamePlaces ==
    ASSUME NEW c, NEW y, NEW s, NEW d, NEW r, NEW p \in Place, NEW m,
           y.task = c.task, y.node = c.node, y.tosync = c.tosync, y.toasync = c.toasync
    PROVE  Holds(y, s, d, r, p, m) <=> Holds(c, s, d, r, p, m)
BY DEF Holds, Place

\* Only a resize processor keeps what its event has to go on with.
LEMMA StepOkFacts ==
    ASSUME NEW n \in Node, ~Resize(n), NEW step, NEW cause, NEW rest, NEW p, NEW q,
           StepOk(n, step, cause, rest, p)
    PROVE  StepOk(n, step, cause, rest, q)
<1>1. Graph.kind[n] \in {"source", "transform", "sink"}
  BY ExecutorAssumption DEF Node, Resize
<1> QED
  BY <1>1, Zenon DEF StepOk

\* A step that takes no event any further keeps every processor in one place, when it moves those
\* it does not leave where they are.
LEMMA PlacesStep ==
    ASSUME HInv, UNCHANGED <<state, lock>>,
           finished => finished', error # "none" => error' # "none",
           \A v \in Worker : At(v, "event") \/ At(v, "event")' => ctx'[v] = ctx[v],
           \A v \in Worker : At(v, "schedule")' =>
                ctx'[v] = ctx[v] \/ state[ctx'[v].node] = "processing",
           \A m \in Node : Resize(m) => proc'[m] = proc[m],
           \A m \in Node : Stays(m) \/ Dropped(m) \/ Moved(m)
    PROVE  EventsOk' /\ Apart' /\ StatesOk' /\ Held'
<1>1. EventsOk'
  <2>1. SUFFICES ASSUME NEW v \in Worker, At(v, "event")'
                 PROVE  StepOk(ctx'[v].node, ctx'[v].step, ctx'[v].cause, ctx'[v].rest,
                               proc'[ctx'[v].node])
    BY DEF EventsOk
  <2>2. PICK c : c = ctx[v]
    BY Zenon
  <2>3. ctx'[v] = c
    BY <2>1, <2>2
  <2>4. At(v, "event")
    BY <2>1, <2>2, <2>3 DEF At
  <2>5. StepOk(c.node, c.step, c.cause, c.rest, proc[c.node])
    BY <2>2, <2>4 DEF HInv, EventsOk
  <2>6. c.node \in Node
    <3>1. v \in Actor
      BY WorkersAct
    <3>2. c.node \in Node \union {0} /\ c.node # 0
      BY <2>1, <2>2, <2>4, <3>1 DEF HInv, ActorsOk, ContextOk, WorkerOk, At
    <3> QED
      BY <3>2
  <2>7. StepOk(c.node, c.step, c.cause, c.rest, proc'[c.node])
    <3>1. CASE Resize(c.node)
      BY <2>5, <2>6, <3>1
    <3>2. CASE ~Resize(c.node)
      BY <2>5, <2>6, <3>2, StepOkFacts, Zenon
    <3> QED
      BY <3>1, <3>2
  <2> QED
    BY <2>3, <2>7
<1>2. Apart'
  <2>1. ASSUME NEW m \in Node, NEW v \in Worker, NEW w \in Worker, NEW p \in Place, NEW q \in Place,
               Has(v, p, m)', Has(w, q, m)'
        PROVE  v = w /\ p = q
    <3>1. CASE Has(v, p, m) /\ Has(w, q, m)
      BY <3>1, Zenon DEF HInv, Apart
    <3>2. CASE Moved(m)
      BY <2>1, <3>2 DEF Moved
    <3> QED
      BY <2>1, <3>1, <3>2, Zenon DEF Stays, Dropped
  <2> QED
    BY <2>1, Zenon DEF Apart
<1>3. StatesOk'
  <2>1. /\ state' \in [Node -> {"idle", "processing", "finished"}]
        /\ lock' \in [Node -> Worker \union {Nobody}]
        /\ \A n \in Node : state'[n] = "processing" => ~Resize(n)
    BY DEF HInv, StatesOk
  <2>2. ASSUME NEW w \in Worker, NEW n \in Node
        PROVE  /\ \A p \in Place : Has(w, p, n) /\ p # "node" => state[n] = "processing"
               /\ Has(w, "node", n) /\ ctx[w].pc = "schedule" => state[n] = "processing"
               /\ Has(w, "node", n) /\ ctx[w].pc = "event" => lock[n] = w
               /\ lock[n] = w => Has(w, "node", n) /\ ctx[w].pc = "event"
    <3>1. "node" \in Place
      BY DEF Place
    <3> QED
      BY <3>1, Zenon DEF HInv, StatesOk
  <2>3. ASSUME NEW w \in Worker, NEW n \in Node
        PROVE  /\ Has(w, "node", n) <=> ctx[w].node = n
               /\ Has(w, "node", n)' <=> ctx'[w].node = n
    BY DEF Has, Holds
  <2>4. ASSUME NEW w \in Worker, NEW n \in Node, NEW p \in Place, Has(w, p, n)', p # "node"
        PROVE  state'[n] = "processing"
    <3>1. CASE Has(w, p, n)
      BY <2>2, <2>4, <3>1
    <3>2. CASE Moved(n)
      BY <2>2, <3>2 DEF Moved
    <3>3. Has(w, p, n) \/ Moved(n)
      BY <2>4, Zenon DEF Stays, Dropped
    <3> QED
      BY <3>1, <3>2, <3>3
  <2>5. ASSUME NEW w \in Worker, NEW n \in Node, Has(w, "node", n)', ctx'[w].pc = "schedule"
        PROVE  state'[n] = "processing"
    <3>1. ctx'[w].node = n
      BY <2>3, <2>5
    <3>2. CASE ctx'[w] = ctx[w]
      BY <2>2, <2>3, <2>5, <3>1, <3>2
    <3> QED
      BY <2>5, <3>1, <3>2 DEF At
  <2>6. ASSUME NEW w \in Worker, NEW n \in Node
        PROVE  /\ Has(w, "node", n)' /\ ctx'[w].pc = "event" => lock'[n] = w
               /\ lock'[n] = w => Has(w, "node", n)' /\ ctx'[w].pc = "event"
    <3>1. ctx[w].pc = "event" \/ ctx'[w].pc = "event" => ctx'[w] = ctx[w]
      BY DEF At
    <3> QED
      BY <2>2, <2>3, <3>1
  <2> QED
    BY <2>1, <2>4, <2>5, <2>6, Zenon DEF StatesOk
<1>4. Held'
  <2>1. ASSUME error' = "none", ~finished', NEW m \in Node, state'[m] = "processing"
        PROVE  \E w \in Worker, p \in Place : Has(w, p, m)'
    <3>1. CASE Stays(m)
      <4>1. PICK w \in Worker, p \in Place : Has(w, p, m)
        BY <2>1 DEF HInv, Held
      <4> QED
        BY <3>1, <4>1, Zenon DEF Stays
    <3>2. CASE Moved(m)
      BY <3>2, Zenon DEF Moved
    <3> QED
      BY <2>1, <3>1, <3>2, Zenon DEF Dropped
  <2> QED
    BY <2>1, Zenon DEF Held
<1> QED
  BY <1>1, <1>2, <1>3, <1>4

\* What the others hold when one worker goes on.
LEMMA OtherPlaces ==
    ASSUME NEW v \in Worker, NEW p \in Place, NEW m \in Node, ctx'[v] = ctx[v], sync'[v] = sync[v],
           completed'[v] = completed[v], <<m, v>> \in running' <=> <<m, v>> \in running
    PROVE  Has(v, p, m)' <=> Has(v, p, m)
<1>1. m \in OnRuntime(v)' <=> m \in OnRuntime(v)
  BY DEF OnRuntime
<1> QED
  BY <1>1 DEF Has, Holds, Place

\* The contexts stay well-formed when the next one of the actor that goes on is.
LEMMA ActorsStep ==
    ASSUME ActorsOk, Shapes, NEW a \in Actor, NEW y, Goto(a, y), IsContext(y),
           ContextOk(y), a \in Worker => WorkerOk(y)
    PROVE  ActorsOk'
<1>1. ctx'[a] = y /\ \A b \in Actor \ {a} : ctx'[b] = ctx[b]
  BY GoesThere
<1>2. ASSUME NEW b \in Actor PROVE ContextOk(ctx'[b]) /\ (b \in Worker => WorkerOk(ctx'[b]))
  <2>1. CASE b = a
    BY <1>1, <2>1
  <2>2. CASE b # a
    <3>1. ContextOk(ctx[b]) /\ (b \in Worker => WorkerOk(ctx[b]))
      BY DEF ActorsOk
    <3>2. ctx'[b] = ctx[b]
      BY <1>1, <2>2
    <3> QED
      BY <3>1, <3>2
  <2> QED
    BY <2>1, <2>2
<1>3. \A w \in Worker : w \in Actor
  BY WorkersAct
<1> QED
  BY <1>2, <1>3, Zenon DEF ActorsOk

\* y holds what c holds
SameHands(c, y) ==
    y.task = c.task /\ y.node = c.node /\ y.tosync = c.tosync /\ y.toasync = c.toasync

\* y holds nothing
EmptyHands(y) == y.task = NoTask /\ y.node = 0 /\ y.tosync = <<>> /\ y.toasync = <<>>

\* what a step that moves no processor leaves alone
Unmoved == UNCHANGED <<async, port, proc, state, lock, sync, completed, waitingAsync, consumed>>

\* An actor that keeps what it holds, or gives it up when the query ends, keeps the invariant.
LEMMA QuietStep ==
    ASSUME HInv, Shapes, NEW a \in Actor, NEW y, Goto(a, y), IsContext(y), ContextOk(y),
           a \in Worker => WorkerOk(y),
           ctx[a].pc \notin {"schedule", "event"}, y.pc \notin {"schedule", "event"},
           Unmoved, UNCHANGED running, finished => finished', finished' \in BOOLEAN,
           error # "none" => error' # "none", error' \in {"none", "killed", "failed"},
           \/ SameHands(ctx[a], y)
           \/ EmptyHands(y) /\ (finished' \/ error' # "none")
           \/ EmptyHands(y) /\ a \notin Worker
    PROVE  HInv'
<1>1. ctx'[a] = y /\ \A b \in Actor \ {a} : ctx'[b] = ctx[b]
  BY GoesThere
<1>2. /\ async' = async /\ port' = port /\ proc' = proc /\ state' = state /\ lock' = lock
      /\ sync' = sync /\ completed' = completed /\ waitingAsync' = waitingAsync
      /\ consumed' = consumed /\ running' = running
  BY DEF Unmoved
<1>3. PortsOk' /\ QueuesOk'
  BY <1>2 DEF HInv, PortsOk, QueuesOk
<1>4. ActorsOk'
  BY ActorsStep DEF HInv
<1>5. \A v \in Worker : v \in Actor
  BY WorkersAct
<1>6. ASSUME NEW v \in Worker, NEW p \in Place, NEW m \in Node, v # a
      PROVE  Has(v, p, m)' <=> Has(v, p, m)
  BY <1>1, <1>2, <1>5, <1>6, OtherPlaces
<1>7. OnRuntime(a)' = OnRuntime(a)
  BY <1>2 DEF OnRuntime
<1>8. ASSUME NEW p \in Place, NEW m \in Node
      PROVE  /\ SameHands(ctx[a], y) => (Has(a, p, m)' <=> Has(a, p, m))
             /\ EmptyHands(y) => (Has(a, p, m)' => Has(a, p, m))
  <2>1. /\ Has(a, p, m)' <=> Holds(y, sync[a], completed[a], OnRuntime(a), p, m)
        /\ Has(a, p, m) <=> Holds(ctx[a], sync[a], completed[a], OnRuntime(a), p, m)
    BY <1>1, <1>2, <1>7 DEF Has
  <2>2. SameHands(ctx[a], y) => (Has(a, p, m)' <=> Has(a, p, m))
    BY <2>1, SamePlaces DEF SameHands
  <2>3. m # 0 /\ ~In(m, <<>>)
    BY ExecutorAssumption DEF Node, In
  <2>4. EmptyHands(y) => (Has(a, p, m)' => Has(a, p, m))
    BY <2>1, <2>3, Zenon DEF EmptyHands, Holds, Place
  <2> QED
    BY <2>2, <2>4
<1>9. \A m \in Node : Stays(m) \/ Dropped(m) \/ Moved(m)
  BY <1>6, <1>8, Zenon DEF Stays, Dropped
<1>10. /\ \A v \in Worker : At(v, "event") \/ At(v, "event")' => ctx'[v] = ctx[v]
       /\ \A v \in Worker : At(v, "schedule")' =>
             ctx'[v] = ctx[v] \/ state[ctx'[v].node] = "processing"
  BY <1>1, <1>5 DEF At
<1>11. EventsOk' /\ Apart' /\ StatesOk' /\ Held'
  BY <1>2, <1>9, <1>10, PlacesStep, Zenon
<1>12. NoRepetition'
  <2>1. ASSUME NEW w \in Worker
        PROVE  Distinct(ctx'[w].tosync) /\ Distinct(ctx'[w].toasync)
    <3>1. Distinct(ctx[w].tosync) /\ Distinct(ctx[w].toasync)
      BY DEF HInv, NoRepetition
    <3>2. Distinct(<<>>)
      BY DEF Distinct
    <3> QED
      BY <1>1, <1>5, <3>1, <3>2 DEF SameHands, EmptyHands
  <2> QED
    BY <1>2, <2>1 DEF HInv, NoRepetition
<1> QED
  BY <1>3, <1>4, <1>11, <1>12 DEF HInv

-----------------------------------------------------------------------------
(* The actions that move no processor *)

\* y differs from c in where the actor is and whom it is to wake up
Alike(c, y) ==
    /\ IsContext(y) /\ SameHands(c, y)
    /\ y.cause = c.cause /\ y.rest = c.rest /\ y.edges = c.edges /\ y.upd = c.upd

\* An actor that goes on has a well-formed context.
LEMMA GoesOn ==
    ASSUME NEW c, ContextOk(c), NEW y, Alike(c, y), y.pc \in Pc, y.then \in Pc \union {"-"},
           y.pc \in {"finish", "wake_all", "wake"} => y.then \in {"loop", "exit"},
           c.pc \notin {"schedule", "event", "edges"}, y.pc \notin {"schedule", "event", "edges"},
           y.pc = "exec" => c.task # NoTask, y.pc \in {"steal", "wait", "asleep"} => c.task = NoTask
    PROVE  ContextOk(y) /\ (WorkerOk(c) => WorkerOk(y))
<1>1. ContextOk(y)
  BY DEF ContextOk, Alike, SameHands
<1>2. WorkerOk(c) => WorkerOk(y)
  BY DEF WorkerOk, Alike, SameHands
<1> QED
  BY <1>1, <1>2

\* A fresh context is well-formed, and holds nothing.
LEMMA FreshOk ==
    ASSUME NEW y, NEW pc \in {"exit", "finish"}, NEW c
    PROVE  /\ y = Fresh => EmptyHands(y) /\ ContextOk(y) /\ WorkerOk(y) /\ IsContext(y) /\ y.pc = "loop"
           /\ y = [Fresh EXCEPT !.pc = "exit"] =>
                 EmptyHands(y) /\ ContextOk(y) /\ WorkerOk(y) /\ IsContext(y) /\ y.pc = "exit"
           /\ y = [Fresh EXCEPT !.pc = "finish", !.then = "exit"] =>
                 EmptyHands(y) /\ ContextOk(y) /\ WorkerOk(y) /\ IsContext(y) /\ y.pc = "finish"
<1>1. PICK f : f = Fresh
  BY Zenon
<1>2. f = [pc |-> "loop", task |-> NoTask, node |-> 0, cause |-> <<"other", 0>>, step |-> "-",
           rest |-> <<>>, upd |-> <<>>, edges |-> <<>>, tosync |-> <<>>, toasync |-> <<>>,
           wake |-> {}, then |-> "-"]
  BY <1>1 DEF Fresh
<1>3. /\ <<>> \in Seq(Edge) /\ <<>> \in Seq(Touched) /\ <<>> \in Seq(Node)
      /\ <<"other", 0>> \in Cause /\ NoTask \in Task
  BY DEF Cause, Task
<1>4. ASSUME y = f PROVE EmptyHands(y) /\ ContextOk(y) /\ WorkerOk(y) /\ y.pc = "loop"
  BY <1>2, <1>3, <1>4 DEF EmptyHands, ContextOk, WorkerOk, Pc
<1>5. ASSUME y = [f EXCEPT !.pc = "exit"]
      PROVE  EmptyHands(y) /\ ContextOk(y) /\ WorkerOk(y) /\ y.pc = "exit"
  BY <1>2, <1>3, <1>5 DEF EmptyHands, ContextOk, WorkerOk, Pc
<1>6. ASSUME y = [f EXCEPT !.pc = "finish", !.then = "exit"]
      PROVE  EmptyHands(y) /\ ContextOk(y) /\ WorkerOk(y) /\ y.pc = "finish"
  BY <1>2, <1>3, <1>6 DEF EmptyHands, ContextOk, WorkerOk, Pc
<1>7. /\ y = f => IsContext(y)
      /\ y = [f EXCEPT !.pc = "exit"] => IsContext(y)
      /\ y = [f EXCEPT !.pc = "finish", !.then = "exit"] => IsContext(y)
  <2>1. y = f => IsContext(y)
    BY <1>2 DEF IsContext
  <2>2. y = [f EXCEPT !.pc = "exit"] => IsContext(y)
    BY <1>2, Zenon DEF IsContext
  <2>3. y = [f EXCEPT !.pc = "finish", !.then = "exit"] => IsContext(y)
    BY <1>2, Zenon DEF IsContext
  <2> QED
    BY <2>1, <2>2, <2>3
<1> QED
  BY <1>1, <1>4, <1>5, <1>6, <1>7

\* An actor that goes on with what it holds.
LEMMA AlikeStep ==
    ASSUME HInv, Shapes, NEW a \in Actor, NEW y, Goto(a, y), Alike(ctx[a], y),
           y.pc \in Pc, y.then \in Pc \union {"-"},
           y.pc \in {"finish", "wake_all", "wake"} => y.then \in {"loop", "exit"},
           ctx[a].pc \notin {"schedule", "event", "edges"}, y.pc \notin {"schedule", "event", "edges"},
           y.pc = "exec" => ctx[a].task # NoTask,
           y.pc \in {"steal", "wait", "asleep"} => ctx[a].task = NoTask,
           Unmoved, UNCHANGED <<running, error>>, finished => finished', finished' \in BOOLEAN
    PROVE  HInv'
<1>1. ContextOk(ctx[a]) /\ (a \in Worker => WorkerOk(ctx[a]))
  BY DEF HInv, ActorsOk
<1>2. ContextOk(y) /\ (a \in Worker => WorkerOk(y))
  BY <1>1, GoesOn
<1>3. IsContext(y) /\ SameHands(ctx[a], y)
  BY DEF Alike
<1>4. error \in {"none", "killed", "failed"} /\ error' = error
  BY DEF HInv, QueuesOk
<1> QED
  BY <1>2, <1>3, <1>4, QuietStep

\* The loop of a worker, and its sleep.
LEMMA SleepKeeps ==
    ASSUME HInv, Shapes, NEW w \in Worker,
           Loop(w) \/ StealFinishes(w) \/ StealWaits(w) \/ Wait(w) \/ Awake(w)
    PROVE  HInv'
<1>1. w \in Actor
  BY WorkersAct
<1>2. PICK c : c = ctx[w]
  BY Zenon
<1>3. IsContext(c) /\ WorkerOk(c) /\ c.then \in Pc \union {"-"}
  BY <1>1, <1>2, Zenon DEF Shapes, HInv, ActorsOk, ContextOk
<1>4. Unmoved /\ UNCHANGED <<running, error, finished>> /\ finished \in BOOLEAN
  BY DEF Loop, StealFinishes, StealWaits, Wait, Awake, Unmoved, graphVars, queueVars, HInv, QueuesOk
<1>5. ASSUME finished, Goto(w, [Fresh EXCEPT !.pc = "exit"]), c.pc = "loop" PROVE HInv'
  <2>1. PICK y : y = [Fresh EXCEPT !.pc = "exit"]
    BY Zenon
  <2>2. EmptyHands(y) /\ ContextOk(y) /\ WorkerOk(y) /\ IsContext(y) /\ y.pc = "exit"
    BY <2>1, FreshOk
  <2>3. error \in {"none", "killed", "failed"} /\ error' = error /\ finished' /\ Goto(w, y)
    BY <1>4, <1>5, <2>1 DEF HInv, QueuesOk
  <2> QED
    BY <1>1, <1>2, <1>4, <1>5, <2>2, <2>3, QuietStep
<1>6. ASSUME NEW pc, Goto(w, [c EXCEPT !.pc = pc]),
             \/ c.pc = "loop" /\ pc = "steal" /\ c.task = NoTask
             \/ c.pc = "loop" /\ pc = "exec" /\ c.task # NoTask
             \/ c.pc = "steal" /\ pc = "wait"
             \/ c.pc = "wait" /\ pc \in {"loop", "asleep"}
             \/ c.pc = "asleep" /\ pc = "loop"
      PROVE  HInv'
  <2>1. PICK y : y = [c EXCEPT !.pc = pc]
    BY Zenon
  <2>2. Alike(c, y) /\ y.pc = pc /\ y.then = c.then /\ Goto(w, y)
    BY <1>3, <1>6, <2>1 DEF Alike, SameHands, IsContext
  <2>3. y.pc \in {"loop", "asleep", "steal", "exec", "wait"} /\ y.pc \in Pc
    BY <1>6, <2>2 DEF Pc
  <2>4. c.pc \notin {"schedule", "event", "edges"}
    BY <1>6
  <2>5. /\ y.pc = "exec" => c.task # NoTask
        /\ y.pc \in {"steal", "wait", "asleep"} => c.task = NoTask
    BY <1>3, <1>6, <2>2 DEF WorkerOk
  <2> QED
    BY <1>1, <1>2, <1>3, <1>4, <2>2, <2>3, <2>4, <2>5, AlikeStep
<1>7. ASSUME Goto(w, [c EXCEPT !.pc = "finish", !.then = "loop"]), c.pc = "steal" PROVE HInv'
  <2>1. PICK y : y = [c EXCEPT !.pc = "finish", !.then = "loop"]
    BY Zenon
  <2>2. Alike(c, y) /\ y.pc = "finish" /\ y.then = "loop"
    BY <1>3, <2>1, Zenon DEF Alike, SameHands, IsContext
  <2>3. Goto(w, y) /\ "finish" \in Pc /\ "loop" \in Pc
    BY <1>7, <2>1 DEF Pc
  <2> QED
    BY <1>1, <1>2, <1>4, <1>7, <2>2, <2>3, AlikeStep
<1>8. CASE Loop(w)
  <2>1. /\ c.pc = "loop"
        /\ \/ finished /\ Goto(w, [Fresh EXCEPT !.pc = "exit"])
           \/ c.task = NoTask /\ Goto(w, [c EXCEPT !.pc = "steal"])
           \/ c.task # NoTask /\ Goto(w, [c EXCEPT !.pc = "exec"])
    BY <1>2, <1>8 DEF Loop, At
  <2> QED
    BY <1>5, <1>6, <2>1
<1>9. CASE StealFinishes(w)
  <2>1. c.pc = "steal" /\ Goto(w, [c EXCEPT !.pc = "finish", !.then = "loop"])
    BY <1>2, <1>9 DEF StealFinishes, At
  <2> QED
    BY <1>7, <2>1
<1>10. CASE StealWaits(w)
  <2>1. c.pc = "steal" /\ Goto(w, [c EXCEPT !.pc = "wait"])
    BY <1>2, <1>10 DEF StealWaits, At
  <2> QED
    BY <1>6, <2>1
<1>11. CASE Wait(w)
  <2>1. c.pc = "wait" /\ (Goto(w, [c EXCEPT !.pc = "loop"]) \/ Goto(w, [c EXCEPT !.pc = "asleep"]))
    BY <1>2, <1>11 DEF Wait, At
  <2> QED
    BY <1>6, <2>1
<1>12. CASE Awake(w)
  <2>1. c.pc = "asleep" /\ Goto(w, [c EXCEPT !.pc = "loop"])
    BY <1>2, <1>12 DEF Awake, At
  <2> QED
    BY <1>6, <2>1
<1> QED
  BY <1>8, <1>9, <1>10, <1>11, <1>12

\* The end of the query, for the actor that brings it about.
LEMMA EndKeeps ==
    ASSUME HInv, Shapes, NEW a \in Actor, Finish(a) \/ WakeAll(a) \/ Wake(a)
    PROVE  HInv'
<1>1. PICK c : c = ctx[a]
  BY Zenon
<1>2. IsContext(c) /\ c.then \in Pc \union {"-"} /\ waiting \subseteq Worker
  BY <1>1 DEF Shapes, HInv, ActorsOk, ContextOk
<1>3. c.pc \in {"finish", "wake_all", "wake"} /\ c.then \in {"loop", "exit"}
  BY <1>1 DEF HInv, ActorsOk, ContextOk, Finish, WakeAll, Wake, At
<1>4. /\ Unmoved /\ UNCHANGED <<running, error>> /\ finished' \in BOOLEAN
      /\ finished => finished'
  BY Zenon DEF Finish, WakeAll, Wake, Unmoved, graphVars, queueVars, HInv, QueuesOk
<1>5. PICK y : /\ Goto(a, y) /\ Alike(c, y)
               /\ \/ y.pc \in {"wake", "wake_all"} /\ y.then = c.then
                  \/ y.pc = c.then /\ y.then = "-"
  <2>1. CASE Finish(a)
    <3>1. PICK y : y = [c EXCEPT !.pc = "wake_all"]
      BY Zenon
    <3>2. Goto(a, y)
      BY <1>1, <2>1, <3>1 DEF Finish
    <3>3. Alike(c, y) /\ y.pc = "wake_all" /\ y.then = c.then
      BY <1>2, <3>1 DEF Alike, SameHands, IsContext
    <3> QED
      BY <3>2, <3>3
  <2>2. CASE WakeAll(a)
    <3>1. PICK y : y = IF waiting = {} THEN [c EXCEPT !.pc = c.then, !.then = "-"]
                       ELSE [c EXCEPT !.pc = "wake", !.wake = waiting]
      BY Zenon
    <3>2. Goto(a, y)
      BY <1>1, <2>2, <3>1 DEF WakeAll
    <3>3. CASE y = [c EXCEPT !.pc = c.then, !.then = "-"]
      <4>1. Alike(c, y) /\ y.pc = c.then /\ y.then = "-"
        BY <1>2, <3>3, Zenon DEF Alike, SameHands, IsContext
      <4> QED
        BY <3>2, <4>1
    <3>4. CASE y = [c EXCEPT !.pc = "wake", !.wake = waiting]
      <4>1. Alike(c, y) /\ y.pc = "wake" /\ y.then = c.then
        BY <1>2, <3>4, Zenon DEF Alike, SameHands, IsContext
      <4> QED
        BY <3>2, <4>1
    <3> QED
      BY <3>1, <3>3, <3>4
  <2>3. CASE Wake(a)
    <3>1. PICK u \in c.wake :
             Goto(a, IF c.wake = {u} THEN [c EXCEPT !.pc = c.then, !.wake = {}, !.then = "-"]
                     ELSE [c EXCEPT !.wake = @ \ {u}])
      BY <1>1, <2>3, Zenon DEF Wake
    <3>2. PICK ws : ws = c.wake \ {u}
      BY Zenon
    <3>3. ws \subseteq Worker
      BY <1>2, <3>2 DEF IsContext
    <3>4. PICK y : y = IF c.wake = {u} THEN [c EXCEPT !.pc = c.then, !.wake = {}, !.then = "-"]
                       ELSE [c EXCEPT !.wake = ws]
      BY Zenon
    <3>5. Goto(a, y)
      BY <3>1, <3>2, <3>4
    <3>6. CASE y = [c EXCEPT !.pc = c.then, !.wake = {}, !.then = "-"]
      <4>1. Alike(c, y) /\ y.pc = c.then /\ y.then = "-"
        BY <1>2, <3>6, Zenon DEF Alike, SameHands, IsContext
      <4> QED
        BY <3>5, <4>1
    <3>7. CASE y = [c EXCEPT !.wake = ws]
      <4>1. Alike(c, y) /\ y.pc = c.pc /\ y.then = c.then
        BY <1>2, <3>3, <3>7 DEF Alike, SameHands, IsContext
      <4>2. c.pc = "wake"
        BY <1>1, <2>3 DEF Wake, At
      <4> QED
        BY <3>5, <4>1, <4>2
    <3> QED
      BY <3>4, <3>6, <3>7
  <2> QED
    BY <2>1, <2>2, <2>3
<1>6. y.pc \in {"wake", "wake_all", "loop", "exit"} /\ y.pc \in Pc /\ y.then \in Pc \union {"-"}
  BY <1>2, <1>3, <1>5 DEF Pc
<1>7. y.pc \in {"finish", "wake_all", "wake"} => y.then \in {"loop", "exit"}
  BY <1>3, <1>5
<1> QED
  BY <1>1, <1>3, <1>4, <1>5, <1>6, <1>7, AlikeStep

\* A worker whose task fails, and the thread that kills the query.
LEMMA FailKeeps ==
    ASSUME HInv, Shapes, (\E w \in Worker : ExecuteFails(w)) \/ Kill
    PROVE  HInv'
<1>1. PICK a \in Actor : /\ Goto(a, [Fresh EXCEPT !.pc = "finish", !.then = "exit"])
                         /\ ctx[a].pc \in {"exec", "alive"}
                         /\ error' # "none" \/ a \notin Worker
  <2>1. ASSUME NEW w \in Worker, ExecuteFails(w)
        PROVE  /\ Goto(w, [Fresh EXCEPT !.pc = "finish", !.then = "exit"])
               /\ ctx[w].pc = "exec" /\ error' # "none" /\ w \in Actor
    BY <2>1, WorkersAct DEF ExecuteFails, At
  <2>2. CASE Kill
    BY <2>2, WorkersAct DEF Kill, At
  <2> QED
    BY <2>1, <2>2
<1>2. /\ Unmoved /\ UNCHANGED <<running, finished>> /\ finished \in BOOLEAN
  BY DEF ExecuteFails, Kill, Unmoved, graphVars, queueVars, HInv, QueuesOk
<1>3. error' \in {"none", "killed", "failed"} /\ (error # "none" => error' # "none")
  <2>1. error \in {"none", "killed", "failed"}
    BY DEF HInv, QueuesOk
  <2> QED
    BY <2>1 DEF ExecuteFails, Kill
<1>4. PICK y : y = [Fresh EXCEPT !.pc = "finish", !.then = "exit"]
  BY Zenon
<1>5. EmptyHands(y) /\ ContextOk(y) /\ WorkerOk(y) /\ IsContext(y) /\ y.pc = "finish" /\ Goto(a, y)
  BY <1>1, <1>4, FreshOk
<1> QED
  BY <1>1, <1>2, <1>3, <1>5, QuietStep

\* Whatever leaves these variables alone keeps the invariant.
LEMMA NothingMoves ==
    ASSUME HInv, UNCHANGED <<async, port, proc, state, lock, ctx, sync, completed, running,
                             waitingAsync, finished, error, consumed>>
    PROVE  HInv'
<1>1. PortsOk' /\ ActorsOk' /\ EventsOk' /\ QueuesOk' /\ NoRepetition'
  BY DEF HInv, PortsOk, ActorsOk, EventsOk, QueuesOk, NoRepetition, At
<1>2. \A v, p, m : Has(v, p, m)' <=> Has(v, p, m)
  BY DEF Has, OnRuntime
<1>3. Apart' /\ StatesOk' /\ Held'
  BY <1>2 DEF HInv, Apart, StatesOk, Held
<1> QED
  BY <1>1, <1>3 DEF HInv

-----------------------------------------------------------------------------
(* The actions that move one *)

\* Where a worker holds a processor, before and after a step.
LEMMA HasFacts ==
    ASSUME NEW w, NEW n \in Node
    PROVE  /\ Has(w, "task", n) <=> ctx[w].task # NoTask /\ ctx[w].task[2] = n
           /\ Has(w, "node", n) <=> ctx[w].node = n
           /\ Has(w, "tosync", n) <=> In(n, ctx[w].tosync)
           /\ Has(w, "toasync", n) <=> In(n, ctx[w].toasync)
           /\ Has(w, "sync", n) <=> In(n, sync[w])
           /\ Has(w, "done", n) <=> InTasks(n, completed[w])
           /\ Has(w, "runtime", n) <=> <<n, w>> \in running
BY DEF Has, Holds, OnRuntime

\* The same after a step.
LEMMA HasNextFacts ==
    ASSUME NEW w, NEW n \in Node
    PROVE  /\ Has(w, "task", n)' <=> ctx'[w].task # NoTask /\ ctx'[w].task[2] = n
           /\ Has(w, "node", n)' <=> ctx'[w].node = n
           /\ Has(w, "tosync", n)' <=> In(n, ctx'[w].tosync)
           /\ Has(w, "toasync", n)' <=> In(n, ctx'[w].toasync)
           /\ Has(w, "sync", n)' <=> In(n, sync'[w])
           /\ Has(w, "done", n)' <=> InTasks(n, completed'[w])
           /\ Has(w, "runtime", n)' <=> <<n, w>> \in running'
BY DEF Has, Holds, OnRuntime

\* A place whose field a step leaves alone.
LEMMA FieldFacts ==
    ASSUME NEW w, NEW n \in Node
    PROVE  /\ ctx'[w].task = ctx[w].task => (Has(w, "task", n)' <=> Has(w, "task", n))
           /\ ctx'[w].node = ctx[w].node => (Has(w, "node", n)' <=> Has(w, "node", n))
           /\ ctx'[w].tosync = ctx[w].tosync => (Has(w, "tosync", n)' <=> Has(w, "tosync", n))
           /\ ctx'[w].toasync = ctx[w].toasync => (Has(w, "toasync", n)' <=> Has(w, "toasync", n))
           /\ sync'[w] = sync[w] => (Has(w, "sync", n)' <=> Has(w, "sync", n))
           /\ completed'[w] = completed[w] => (Has(w, "done", n)' <=> Has(w, "done", n))
           /\ (<<n, w>> \in running' <=> <<n, w>> \in running)
                 => (Has(w, "runtime", n)' <=> Has(w, "runtime", n))
BY DEF Has, Holds, OnRuntime

\* process() of a processor leaves well-formed processors, and the resize processors alone.
LEMMA ProcessFacts ==
    ASSUME PortsOk, NEW n \in Node, ~Resize(n), Process(n), UNCHANGED <<async, port>>
    PROVE  PortsOk' /\ \A m \in Node : Resize(m) => proc'[m] = proc[m]
<1>1. PICK p : p = proc[n]
  BY Zenon
<1>2. p \in [in : Slot, out : Slot, next : 1 .. Blocks + 1, started : BOOLEAN, ended : BOOLEAN,
             done : BOOLEAN]
  BY <1>1 DEF PortsOk, Processor
<1>3. PICK q \in Processed(n) : proc' = [proc EXCEPT ![n] = q]
  BY Zenon DEF Process
<1>4. p.next \in 1 .. Blocks + 1 /\ p.in \in Slot /\ <<>> \in Slot
  BY <1>2 DEF Slot
<1>5. async[n] \in BOOLEAN
  BY DEF PortsOk
<1>6. \/ q = [p EXCEPT !.ended = TRUE]
      \/ q = [p EXCEPT !.done = TRUE]
      \/ q = [p EXCEPT !.started = TRUE]
      \/ IsSource(n) /\ p.next <= Blocks /\ q = [p EXCEPT !.out = <<<<n, p.next>>>>, !.next = @ + 1]
      \/ \E o \in {<<>>, p.in} : q = [p EXCEPT !.out = o, !.in = <<>>]
      \/ \E d \in {FALSE, async[n]} : q = [p EXCEPT !.in = <<>>, !.done = d]
  <2>1. CASE IsSource(n) /\ p.done
    BY <1>1, <1>3, <2>1, Zenon DEF Processed
  <2>2. CASE IsSource(n) /\ ~p.done /\ p.next <= Blocks
    BY <1>1, <1>3, <2>2, Zenon DEF Processed
  <2>3. CASE IsSource(n) /\ ~p.done /\ ~(p.next <= Blocks)
    <3>1. p.next > Blocks
      BY <1>4, <2>3, ExecutorAssumption
    <3> QED
      BY <1>1, <1>3, <2>3, <3>1, Zenon DEF Processed
  <2>4. CASE ~IsSource(n) /\ ~p.started
    BY <1>1, <1>3, <2>4, Zenon DEF Processed
  <2>5. CASE Graph.kind[n] = "transform" /\ p.started /\ p.in # <<>>
    BY <1>1, <1>3, <2>5, Zenon DEF Processed, IsSource, IsSink
  <2>6. CASE IsSink(n) /\ p.started /\ p.in # <<>>
    <3>1. Processed(n) = {[p EXCEPT !.in = <<>>, !.done = d] : d \in {FALSE, async[n]}}
      <4>1. ~IsSource(n) /\ Graph.kind[n] # "transform"
        BY <2>6 DEF IsSource, IsSink
      <4> QED
        BY <1>1, <2>6, <4>1, Zenon DEF Processed
    <3> QED
      BY <1>3, <3>1, Zenon
  <2>7. CASE /\ ~IsSource(n) /\ p.started
             /\ ~(Graph.kind[n] = "transform" /\ p.in # <<>>) /\ ~(IsSink(n) /\ p.in # <<>>)
    BY <1>1, <1>3, <2>7, Zenon DEF Processed
  <2> QED
    BY <2>1, <2>2, <2>3, <2>4, <2>5, <2>6, <2>7, Zenon
<1>7. q \in Processor(n)
  <2>1. CASE q = [p EXCEPT !.ended = TRUE]
    BY <1>2, <2>1, Zenon DEF Processor
  <2>2. CASE q = [p EXCEPT !.done = TRUE]
    BY <1>2, <2>2, Zenon DEF Processor
  <2>3. CASE q = [p EXCEPT !.started = TRUE]
    BY <1>2, <2>3, Zenon DEF Processor
  <2>4. CASE /\ IsSource(n) /\ p.next <= Blocks
             /\ q = [p EXCEPT !.out = <<<<n, p.next>>>>, !.next = @ + 1]
    <3>1. PICK k, b : k = p.next + 1 /\ b = <<<<n, p.next>>>>
      BY Zenon
    <3>2. k \in 1 .. Blocks + 1 /\ p.next \in 1 .. Blocks
      BY <1>4, <2>4, <3>1, ExecutorAssumption
    <3>3. b \in Slot
      BY <2>4, <3>1, <3>2 DEF Slot, Block, SourceNode
    <3>4. q = [p EXCEPT !.out = b, !.next = k]
      BY <2>4, <3>1
    <3> QED
      BY <1>2, <3>2, <3>3, <3>4, Zenon DEF Processor
  <2>5. ASSUME NEW o \in {<<>>, p.in}, q = [p EXCEPT !.out = o, !.in = <<>>] PROVE q \in Processor(n)
    <3>1. o \in Slot
      BY <1>4
    <3> QED
      BY <1>2, <1>4, <2>5, <3>1, Zenon DEF Processor
  <2>6. ASSUME NEW d \in {FALSE, async[n]}, q = [p EXCEPT !.in = <<>>, !.done = d]
        PROVE  q \in Processor(n)
    <3>1. d \in BOOLEAN
      BY <1>5, Zenon
    <3> QED
      BY <1>2, <1>4, <2>6, <3>1, Zenon DEF Processor
  <2> QED
    BY <1>6, <2>1, <2>2, <2>3, <2>4, <2>5, <2>6
<1>8. proc' = [m \in Node |-> proc'[m]] /\ \A m \in Node : proc'[m] = IF m = n THEN q ELSE proc[m]
  <2>1. proc = [m \in Node |-> proc[m]]
    BY DEF PortsOk
  <2> QED
    BY <1>3, <2>1
<1>9. consumed' \in [SinkNode -> Seq(Block)]
  <2>1. consumed \in [SinkNode -> Seq(Block)]
    BY DEF PortsOk
  <2>2. p.in \in Seq(Block)
    <3>1. <<>> \in Seq(Block) /\ \A b \in Block : <<b>> \in Seq(Block)
      OBVIOUS
    <3> QED
      BY <1>4, <3>1, Zenon DEF Slot
  <2>3. CASE consumed' = consumed
    BY <2>1, <2>3
  <2>4. CASE IsSink(n) /\ consumed' = [consumed EXCEPT ![n] = @ \o p.in]
    <3>1. n \in SinkNode
      BY <2>4 DEF SinkNode
    <3>2. consumed[n] \o p.in \in Seq(Block)
      BY <2>1, <2>2, <3>1
    <3> QED
      BY <2>1, <2>4, <3>1, <3>2
  <2> QED
    BY <1>1, <2>3, <2>4, Zenon DEF Process
<1>10. PortsOk'
  BY <1>7, <1>8, <1>9 DEF PortsOk
<1> QED
  BY <1>8, <1>10

\* A processor with a place has no other.
LEMMA OnePlace ==
    ASSUME Apart, NEW n \in Node, NEW w \in Worker, NEW p \in Place, Has(w, p, n)
    PROVE  \A v \in Worker, q \in Place : Has(v, q, n) <=> v = w /\ q = p
BY Zenon DEF Apart

\* A task of the runtime ends, and its result goes to the queue of the worker that spawned it.
LEMMA CompletedKeeps ==
    ASSUME Grounds, HInv, NEW n \in Node, NEW w \in Worker, <<n, w>> \in running, NEW kind \in {"done", "failed"},
           CompletedAsyncTask(n, w, kind), Process(n) \/ UNCHANGED <<proc, consumed>>
    PROVE  HInv'
<1>1. /\ running' = running \ {<<n, w>>} /\ waitingAsync' = waitingAsync - 1
      /\ completed' = [completed EXCEPT ![w] = Append(@, <<kind, n>>)]
      /\ UNCHANGED <<async, port, state, lock, ctx, sync, finished, error>>
  BY DEF CompletedAsyncTask
<1>2. /\ completed \in [Worker -> Seq(Task \ {NoTask})] /\ IsFiniteSet(running)
      /\ Cardinality(running) <= waitingAsync /\ waitingAsync \in Nat
      /\ sync \in [Worker -> Seq(Node)] /\ running \subseteq Node \X Worker
      /\ finished \in BOOLEAN /\ error \in {"none", "killed", "failed"}
  BY DEF HInv, QueuesOk
<1>3. PICK t : t = <<kind, n>>
  BY Zenon
<1>4. t \in Task \ {NoTask} /\ t[2] = n
  BY <1>3 DEF Task, NoTask
<1>5. completed[w] \in Seq(Task \ {NoTask})
  BY <1>2
<1>6. /\ completed'[w] = Append(completed[w], t) /\ \A v \in Worker \ {w} : completed'[v] = completed[v]
      /\ completed' = [v \in Worker |-> completed'[v]]
  BY <1>1, <1>2, <1>3, Zenon
<1>7. /\ Append(completed[w], t) \in Seq(Task \ {NoTask})
      /\ \A m : InTasks(m, Append(completed[w], t)) <=> m = n \/ InTasks(m, completed[w])
      /\ DistinctTasks(completed[w]) /\ ~InTasks(n, completed[w])
            => DistinctTasks(Append(completed[w], t))
  BY <1>4, <1>5, AppendFacts
<1>8. Has(w, "runtime", n) /\ "runtime" \in Place /\ "done" \in Place
  BY HasFacts DEF Place
<1>9. \A v \in Worker, q \in Place : Has(v, q, n) <=> v = w /\ q = "runtime"
  BY <1>8, OnePlace DEF HInv
<1>10. QueuesOk'
  <2>1. completed' \in [Worker -> Seq(Task \ {NoTask})]
    BY <1>2, <1>6, <1>7, Zenon
  <2>2. /\ IsFiniteSet(running') /\ Cardinality(running') = Cardinality(running) - 1
        /\ Cardinality(running) \in Nat /\ Cardinality(running') \in Nat
    BY <1>1, <1>2, CountFacts, Zenon
  <2>3. waitingAsync' \in Nat /\ Cardinality(running') <= waitingAsync'
    BY <1>1, <1>2, <2>2
  <2> QED
    BY <1>1, <1>2, <2>1, <2>2, <2>3 DEF QueuesOk
<1>11. state[n] = "processing" /\ ~Resize(n)
  <2>1. state[n] = "processing"
    BY <1>8 DEF HInv, StatesOk
  <2> QED
    BY <2>1 DEF HInv, StatesOk
<1>12. PortsOk' /\ \A m \in Node : Resize(m) => proc'[m] = proc[m]
  <2>1. CASE Process(n)
    BY <1>1, <1>11, <2>1, ProcessFacts DEF HInv
  <2>2. CASE UNCHANGED <<proc, consumed>>
    BY <1>1, <2>2 DEF HInv, PortsOk
  <2> QED
    BY <2>1, <2>2
<1>13. ActorsOk'
  BY <1>1 DEF HInv, ActorsOk
<1>14. NoRepetition'
  <2>1. ~InTasks(n, completed[w])
    BY <1>8, <1>9, HasFacts
  <2>2. DistinctTasks(completed'[w])
    BY <1>6, <1>7, <2>1 DEF HInv, NoRepetition
  <2> QED
    BY <1>1, <1>6, <2>2, Zenon DEF HInv, NoRepetition
<1>15. ASSUME NEW v \in Worker \ {w}, NEW p \in Place, NEW m \in Node
       PROVE  Has(v, p, m)' <=> Has(v, p, m)
  <2>1. <<m, v>> \in running' <=> <<m, v>> \in running
    BY <1>1
  <2> QED
    BY <1>1, <1>6, <2>1, OtherPlaces
<1>16. ASSUME NEW m \in Node
       PROVE  /\ \A p \in Place \ {"done", "runtime"} : Has(w, p, m)' <=> Has(w, p, m)
              /\ Has(w, "done", m)' <=> m = n \/ Has(w, "done", m)
              /\ Has(w, "runtime", m)' <=> m # n /\ Has(w, "runtime", m)
  <2>1. <<m, w>> \in running' <=> m # n /\ <<m, w>> \in running
    BY <1>1
  <2>2. InTasks(m, completed'[w]) <=> m = n \/ InTasks(m, completed[w])
    BY <1>6, <1>7
  <2> QED
    <3>1. ctx'[w] = ctx[w] /\ sync'[w] = sync[w]
      BY <1>1
    <3>2. /\ Has(w, "task", m)' <=> Has(w, "task", m)
          /\ Has(w, "node", m)' <=> Has(w, "node", m)
          /\ Has(w, "tosync", m)' <=> Has(w, "tosync", m)
          /\ Has(w, "toasync", m)' <=> Has(w, "toasync", m)
          /\ Has(w, "sync", m)' <=> Has(w, "sync", m)
      BY <3>1, FieldFacts, Zenon
    <3>3. \A p \in Place \ {"done", "runtime"} : Has(w, p, m)' <=> Has(w, p, m)
      BY <3>2, Zenon DEF Place
    <3>4. Has(w, "done", m)' <=> m = n \/ Has(w, "done", m)
      BY <2>2, HasFacts, HasNextFacts, Zenon
    <3>5. Has(w, "runtime", m)' <=> m # n /\ Has(w, "runtime", m)
      BY <2>1, HasFacts, HasNextFacts, Zenon
    <3> QED
      BY <3>3, <3>4, <3>5, Zenon
<1>17. \A m \in Node : Stays(m) \/ Dropped(m) \/ Moved(m)
  <2>1. ASSUME NEW m \in Node \ {n} PROVE Stays(m)
    BY <1>15, <1>16 DEF Stays, Place
  <2>2. Moved(n)
    <3>1. ASSUME NEW v \in Worker, NEW p \in Place PROVE Has(v, p, n)' <=> v = w /\ p = "done"
      <4>1. CASE v # w
        BY <1>9, <1>15, <4>1
      <4>2. CASE v = w
        BY <1>9, <1>16, <4>2 DEF Place
      <4> QED
        BY <4>1, <4>2
    <3> QED
      BY <1>8, <3>1, Zenon DEF Moved
  <2> QED
    BY <2>1, <2>2
<1>18. EventsOk' /\ Apart' /\ StatesOk' /\ Held'
  BY <1>1, <1>12, <1>17, PlacesStep, Zenon DEF At
<1> QED
  BY <1>10, <1>12, <1>13, <1>14, <1>18 DEF HInv

\* A task of the runtime is given up when the query has ended.
LEMMA DroppedKeeps ==
    ASSUME Grounds, HInv, NEW n \in Node, NEW w \in Worker, AsyncDropped(n, w)
    PROVE  HInv'
<1>1. /\ <<n, w>> \in running /\ finished /\ running' = running \ {<<n, w>>}
      /\ UNCHANGED <<async, port, proc, state, lock, ctx, sync, completed, waitingAsync, finished,
                     error, consumed>>
  BY DEF AsyncDropped, graphVars, queueVars
<1>2. PortsOk' /\ ActorsOk' /\ NoRepetition'
  BY <1>1 DEF HInv, PortsOk, ActorsOk, NoRepetition
<1>3. QueuesOk'
  <2>1. /\ IsFiniteSet(running) /\ running \subseteq Node \X Worker /\ waitingAsync \in Nat
        /\ Cardinality(running) <= waitingAsync
    BY DEF HInv, QueuesOk
  <2>2. /\ IsFiniteSet(running') /\ Cardinality(running') = Cardinality(running) - 1
        /\ Cardinality(running) \in Nat
    BY <1>1, <2>1, CountFacts, Zenon
  <2>3. Cardinality(running') <= waitingAsync'
    BY <1>1, <2>1, <2>2
  <2> QED
    BY <1>1, <2>1, <2>2, <2>3 DEF HInv, QueuesOk
<1>4. ASSUME NEW m \in Node PROVE Dropped(m)
  <2>1. ASSUME NEW v \in Worker, NEW p \in Place, Has(v, p, m)' PROVE Has(v, p, m)
    <3>1. <<m, v>> \in running' => <<m, v>> \in running
      BY <1>1
    <3>2. ctx'[v] = ctx[v] /\ sync'[v] = sync[v] /\ completed'[v] = completed[v]
      BY <1>1, Zenon
    <3>3. /\ Has(v, "task", m)' => Has(v, "task", m)
          /\ Has(v, "node", m)' => Has(v, "node", m)
          /\ Has(v, "tosync", m)' => Has(v, "tosync", m)
          /\ Has(v, "toasync", m)' => Has(v, "toasync", m)
          /\ Has(v, "sync", m)' => Has(v, "sync", m)
          /\ Has(v, "done", m)' => Has(v, "done", m)
      BY <3>2, FieldFacts, Zenon
    <3>4. Has(v, "runtime", m)' => Has(v, "runtime", m)
      BY <3>1, HasFacts, HasNextFacts, Zenon
    <3> QED
      BY <2>1, <3>3, <3>4, Zenon DEF Place
  <2> QED
    BY <1>1, <2>1 DEF Dropped
<1>5. EventsOk' /\ Apart' /\ StatesOk' /\ Held'
  BY <1>1, <1>4, PlacesStep DEF At
<1> QED
  BY <1>2, <1>3, <1>5 DEF HInv

\* A worker executes its task, and then schedules the node.
LEMMA ExecuteKeeps ==
    ASSUME HInv, Shapes, NEW w \in Worker, Execute(w)
    PROVE  HInv'
<1>1. w \in Actor
  BY WorkersAct
<1>2. PICK c, n : c = ctx[w] /\ n = c.task[2]
  BY Zenon
<1>3. /\ c.pc = "exec" /\ c.task # NoTask /\ c.task \in Task /\ IsContext(c)
      /\ c.tosync = <<>> /\ c.toasync = <<>> /\ c.node = 0
  BY <1>1, <1>2, Zenon DEF Execute, At, HInv, ActorsOk, WorkerOk, ContextOk, Shapes
<1>4. n \in Node
  BY <1>2, <1>3 DEF Task
<1>5. Has(w, "task", n) /\ "task" \in Place /\ "node" \in Place
  BY <1>2, <1>3, <1>4, HasFacts, Zenon DEF Place
<1>6. \A v \in Worker, q \in Place : Has(v, q, n) <=> v = w /\ q = "task"
  BY <1>4, <1>5, OnePlace DEF HInv
<1>7. state[n] = "processing" /\ ~Resize(n)
  <2>1. state[n] = "processing"
    BY <1>4, <1>5 DEF HInv, StatesOk
  <2> QED
    BY <1>4, <2>1 DEF HInv, StatesOk
<1>8. UNCHANGED <<async, port, state, lock, sync, completed, running, waitingAsync, finished, error>>
  BY DEF Execute, queueVars
<1>9. PortsOk' /\ \A m \in Node : Resize(m) => proc'[m] = proc[m]
  <2>1. Process(n) \/ UNCHANGED <<proc, consumed>>
    BY <1>2 DEF Execute
  <2>2. CASE Process(n)
    BY <1>4, <1>7, <1>8, <2>2, ProcessFacts DEF HInv
  <2>3. CASE UNCHANGED <<proc, consumed>>
    BY <1>8, <2>3 DEF HInv, PortsOk
  <2> QED
    BY <2>1, <2>2, <2>3
<1>10. PICK y : /\ Goto(w, y) /\ IsContext(y) /\ ContextOk(y) /\ WorkerOk(y)
                /\ y.task = NoTask /\ y.tosync = <<>> /\ y.toasync = <<>>
                /\ \/ finished /\ y.pc = "exit" /\ y.node = 0
                   \/ y.pc = "schedule" /\ y.node = n
  <2>1. CASE finished
    <3>1. PICK y : y = [Fresh EXCEPT !.pc = "exit"]
      BY Zenon
    <3>2. EmptyHands(y) /\ ContextOk(y) /\ WorkerOk(y) /\ IsContext(y) /\ y.pc = "exit"
      BY <3>1, FreshOk
    <3>3. Goto(w, y)
      BY <2>1, <3>1 DEF Execute
    <3> QED
      BY <2>1, <3>2, <3>3 DEF EmptyHands
  <2>2. CASE ~finished
    <3>1. PICK y : y = [Fresh EXCEPT !.pc = "schedule", !.node = n]
      BY Zenon
    <3>2. Goto(w, y)
      BY <1>2, <2>2, <3>1 DEF Execute
    <3>3. PICK f : f = Fresh
      BY Zenon
    <3>4. EmptyHands(f) /\ ContextOk(f) /\ IsContext(f) /\ f.pc = "loop"
      BY <3>3, FreshOk
    <3>5. y = [f EXCEPT !.pc = "schedule", !.node = n]
      BY <3>1, <3>3
    <3>6. /\ y.pc = "schedule" /\ y.node = n /\ y.task = NoTask /\ y.tosync = <<>> /\ y.toasync = <<>>
          /\ y.then = f.then /\ y.cause = f.cause /\ y.rest = f.rest /\ y.edges = f.edges /\ y.upd = f.upd
          /\ IsContext(y)
      BY <3>4, <3>5, Zenon DEF EmptyHands, IsContext
    <3>7. ContextOk(y)
      <4>1. NoTask \in Task /\ <<>> \in Seq(Node)
        BY DEF Task
      <4> QED
        BY <1>4, <3>4, <3>6, <4>1 DEF ContextOk, Pc
    <3>8. WorkerOk(y)
      <4>1. n # 0
        BY <1>4, ExecutorAssumption DEF Node
      <4> QED
        BY <3>6, <4>1 DEF WorkerOk
    <3> QED
      BY <3>2, <3>6, <3>7, <3>8
  <2> QED
    BY <2>1, <2>2
<1>11. ctx'[w] = y /\ \A b \in Actor \ {w} : ctx'[b] = ctx[b]
  BY <1>1, <1>10, GoesThere
<1>12. ActorsOk'
  BY <1>1, <1>10, ActorsStep DEF HInv
<1>13. QueuesOk'
  BY <1>8 DEF HInv, QueuesOk
<1>14. NoRepetition'
  <2>1. Distinct(<<>>)
    BY DEF Distinct
  <2>2. \A v \in Worker : v \in Actor
    BY WorkersAct
  <2> QED
    BY <1>8, <1>10, <1>11, <2>1, <2>2 DEF HInv, NoRepetition
<1>15. ASSUME NEW v \in Worker \ {w}, NEW p \in Place, NEW m \in Node
       PROVE  Has(v, p, m)' <=> Has(v, p, m)
  <2>1. ctx'[v] = ctx[v]
    BY <1>11, WorkersAct
  <2> QED
    BY <1>8, <2>1, OtherPlaces
<1>16. ASSUME NEW m \in Node
       PROVE  /\ \A p \in Place \ {"task", "node"} : Has(w, p, m)' <=> Has(w, p, m)
              /\ ~Has(w, "task", m)' /\ ~Has(w, "node", m)
              /\ Has(w, "task", m) <=> m = n
              /\ Has(w, "node", m)' <=> m = n /\ y.pc = "schedule"
  <2>1. m # 0 /\ n # 0
    BY <1>4, ExecutorAssumption DEF Node
  <2>2. ctx[w] = c
    BY <1>2
  <2> QED
    <3>1. ~Has(w, "node", m) /\ (Has(w, "task", m) <=> m = n)
      <4>1. /\ Has(w, "task", m) <=> ctx[w].task # NoTask /\ ctx[w].task[2] = m
            /\ Has(w, "node", m) <=> ctx[w].node = m
        BY HasFacts, Zenon
      <4> QED
        BY <1>2, <1>3, <2>1, <2>2, <4>1
    <3>2. ~Has(w, "task", m)' /\ (Has(w, "node", m)' <=> m = n /\ y.pc = "schedule")
      BY <1>10, <1>11, <2>1, HasNextFacts, Zenon
    <3>3. /\ Has(w, "tosync", m)' <=> Has(w, "tosync", m)
          /\ Has(w, "toasync", m)' <=> Has(w, "toasync", m)
          /\ Has(w, "sync", m)' <=> Has(w, "sync", m)
          /\ Has(w, "done", m)' <=> Has(w, "done", m)
          /\ Has(w, "runtime", m)' <=> Has(w, "runtime", m)
      <4>1. /\ ctx'[w].tosync = ctx[w].tosync /\ ctx'[w].toasync = ctx[w].toasync
            /\ sync'[w] = sync[w] /\ completed'[w] = completed[w] /\ running' = running
        BY <1>3, <1>8, <1>10, <1>11, <2>2
      <4> QED
        BY <4>1, FieldFacts, Zenon
    <3> QED
      BY <3>1, <3>2, <3>3 DEF Place
<1>17. \A m \in Node : Stays(m) \/ Dropped(m) \/ Moved(m)
  <2>1. ASSUME NEW m \in Node \ {n} PROVE Stays(m)
    BY <1>15, <1>16 DEF Stays, Place
  <2>2. ASSUME y.pc = "schedule" PROVE Moved(n)
    <3>1. ASSUME NEW v \in Worker, NEW p \in Place PROVE Has(v, p, n)' <=> v = w /\ p = "node"
      <4>1. CASE v # w
        BY <1>4, <1>6, <1>15, <4>1
      <4>2. CASE v = w
        BY <1>4, <1>6, <1>16, <2>2, <4>2 DEF Place
      <4> QED
        BY <4>1, <4>2
    <3> QED
      BY <1>5, <3>1, Zenon DEF Moved
  <2>3. ASSUME finished, y.pc # "schedule" PROVE Dropped(n)
    <3>1. ASSUME NEW v \in Worker, NEW p \in Place PROVE Has(v, p, n)' => Has(v, p, n)
      <4>1. CASE v # w
        BY <1>4, <1>15, <4>1
      <4>2. CASE v = w
        BY <1>4, <1>16, <2>3, <4>2 DEF Place
      <4> QED
        BY <4>1, <4>2
    <3> QED
      BY <1>8, <2>3, <3>1 DEF Dropped
  <2> QED
    BY <1>10, <2>1, <2>2, <2>3
<1>18. /\ \A v \in Worker : At(v, "event") \/ At(v, "event")' => ctx'[v] = ctx[v]
       /\ \A v \in Worker : At(v, "schedule")' =>
             ctx'[v] = ctx[v] \/ state[ctx'[v].node] = "processing"
  <2>1. \A v \in Worker : v \in Actor
    BY WorkersAct
  <2>2. ctx[w].pc = "exec"
    BY <1>2, <1>3
  <2> QED
    BY <1>7, <1>10, <1>11, <2>1, <2>2 DEF At
<1>19. EventsOk' /\ Apart' /\ StatesOk' /\ Held'
  BY <1>8, <1>9, <1>17, <1>18, PlacesStep
<1> QED
  BY <1>9, <1>12, <1>13, <1>14, <1>19, Zenon DEF HInv

\* A worker goes on alone, or wakes up another one first.
LEMMA AndWakeFacts ==
    ASSUME Shapes, NEW w \in Worker, NEW c, IsContext(c), ContextOk(c), WorkerOk(c), c.pc = "loop",
           NEW us, us \subseteq waiting, AndWake(w, us, c)
    PROVE  \E y : /\ Goto(w, y) /\ IsContext(y) /\ ContextOk(y) /\ WorkerOk(y) /\ SameHands(c, y)
                  /\ y.pc \in {"loop", "wake"}
<1>1. CASE Goto(w, c)
  BY <1>1 DEF SameHands
<1>2. ASSUME NEW u \in us, Goto(w, [c EXCEPT !.pc = "wake", !.wake = {u}, !.then = c.pc])
      PROVE  \E y : /\ Goto(w, y) /\ IsContext(y) /\ ContextOk(y) /\ WorkerOk(y) /\ SameHands(c, y)
                    /\ y.pc \in {"loop", "wake"}
  <2>1. PICK y : y = [c EXCEPT !.pc = "wake", !.wake = {u}, !.then = c.pc]
    BY Zenon
  <2>2. u \in Worker
    BY DEF Shapes
  <2>3. Alike(c, y) /\ y.pc = "wake" /\ y.then = "loop"
    BY <2>1, <2>2, Zenon DEF Alike, SameHands, IsContext
  <2>4. ContextOk(y) /\ WorkerOk(y)
    BY <2>3, GoesOn DEF Pc
  <2> QED
    BY <1>2, <2>1, <2>3, <2>4, Zenon DEF Alike
<1> QED
  BY <1>1, <1>2, Zenon DEF AndWake

\* What a step that moves nothing but n, from a queue of v to the hands of w, does.
LEMMA TakeStep ==
    ASSUME HInv, Shapes, NEW w \in Worker, NEW v \in Worker, NEW n \in Node, NEW y,
           NEW place \in {"sync", "done"}, Has(v, place, n),
           ctx[w].pc = "steal", Goto(w, y), IsContext(y), y.pc \in {"loop", "wake"},
           y.task # NoTask, y.task[2] = n, y.node = 0, y.tosync = <<>>, y.toasync = <<>>,
           UNCHANGED <<async, port, proc, state, lock, running, finished, error>>,
           \A u \in Worker, m \in Node : Has(u, place, m)' <=> Has(u, place, m) /\ ~(u = v /\ m = n),
           place = "sync" => completed' = completed, place = "done" => sync' = sync
    PROVE  EventsOk' /\ Apart' /\ StatesOk' /\ Held'
<1>1. ctx'[w] = y /\ \A b \in Actor \ {w} : ctx'[b] = ctx[b]
  BY WorkersAct, GoesThere
<1>2. \A u \in Worker : u \in Actor
  BY WorkersAct
<1>3. /\ ctx[w].task = NoTask /\ ctx[w].node = 0 /\ ctx[w].tosync = <<>> /\ ctx[w].toasync = <<>>
  BY DEF HInv, ActorsOk, WorkerOk
<1>4. ASSUME NEW u \in Worker, NEW m \in Node
      PROVE  \A p \in Place \ {"task", place} : Has(u, p, m)' <=> Has(u, p, m)
  <2>1. /\ ctx'[u].node = ctx[u].node /\ ctx'[u].tosync = ctx[u].tosync
        /\ ctx'[u].toasync = ctx[u].toasync
    BY <1>1, <1>2, <1>3
  <2>2. /\ Has(u, "node", m)' <=> Has(u, "node", m)
        /\ Has(u, "tosync", m)' <=> Has(u, "tosync", m)
        /\ Has(u, "toasync", m)' <=> Has(u, "toasync", m)
        /\ Has(u, "runtime", m)' <=> Has(u, "runtime", m)
        /\ place = "done" => (Has(u, "sync", m)' <=> Has(u, "sync", m))
        /\ place = "sync" => (Has(u, "done", m)' <=> Has(u, "done", m))
    BY <2>1, FieldFacts, Zenon
  <2> QED
    BY <2>2, Zenon DEF Place
<1>5. ASSUME NEW u \in Worker, NEW m \in Node
      PROVE  /\ u # w => (Has(u, "task", m)' <=> Has(u, "task", m))
             /\ Has(w, "task", m)' <=> m = n
             /\ ~Has(w, "task", m)
  <2>1. u # w => ctx'[u] = ctx[u]
    BY <1>1, <1>2
  <2>2. u # w => (Has(u, "task", m)' <=> Has(u, "task", m))
    BY <2>1, FieldFacts, Zenon
  <2>3. /\ Has(w, "task", m) <=> ctx[w].task # NoTask /\ ctx[w].task[2] = m
        /\ Has(w, "task", m)' <=> ctx'[w].task # NoTask /\ ctx'[w].task[2] = m
    BY HasFacts, HasNextFacts, Zenon
  <2> QED
    BY <1>1, <1>3, <2>2, <2>3
<1>6. place \in Place /\ "task" \in Place /\ place # "task" /\ place # "node"
  BY DEF Place
<1>7. \A u \in Worker, q \in Place : Has(u, q, n) <=> u = v /\ q = place
  BY <1>6, OnePlace DEF HInv
<1>8. \A m \in Node : Stays(m) \/ Dropped(m) \/ Moved(m)
  <2>1. ASSUME NEW m \in Node \ {n} PROVE Stays(m)
    <3>1. ASSUME NEW u \in Worker, NEW p \in Place PROVE Has(u, p, m)' <=> Has(u, p, m)
      <4>1. CASE p \notin {"task", place}
        BY <1>4, <4>1
      <4>2. CASE p = "task"
        BY <1>5, <4>2
      <4> QED
        BY <4>1, <4>2
    <3> QED
      BY <3>1, Zenon DEF Stays
  <2>2. Moved(n)
    <3>1. ASSUME NEW u \in Worker, NEW p \in Place PROVE Has(u, p, n)' <=> u = w /\ p = "task"
      <4>1. CASE p \notin {"task", place}
        BY <1>4, <1>7, <4>1
      <4>2. CASE p = "task"
        BY <1>5, <1>6, <1>7, <4>2
      <4>3. CASE p = place
        BY <1>6, <1>7, <4>3
      <4> QED
        BY <4>1, <4>2, <4>3
    <3> QED
      BY <1>6, <3>1, Zenon DEF Moved
  <2> QED
    BY <2>1, <2>2
<1>9. /\ \A u \in Worker : At(u, "event") \/ At(u, "event")' => ctx'[u] = ctx[u]
      /\ \A u \in Worker : At(u, "schedule")' =>
            ctx'[u] = ctx[u] \/ state[ctx'[u].node] = "processing"
  BY <1>1, <1>2 DEF At
<1> QED
  BY <1>8, <1>9, PlacesStep, Zenon

\* A worker takes a task from a queue.
LEMMA StealKeeps ==
    ASSUME Grounds, HInv, Shapes, NEW w \in Worker, Steal(w)
    PROVE  HInv'
<1>1. w \in Actor
  BY WorkersAct
<1>2. PICK c : c = ctx[w]
  BY Zenon
<1>3. /\ c.pc = "steal" /\ IsContext(c) /\ ContextOk(c) /\ WorkerOk(c)
      /\ c.tosync = <<>> /\ c.toasync = <<>> /\ c.node = 0
  BY <1>1, <1>2, Zenon DEF Steal, At, HInv, ActorsOk, WorkerOk, Shapes
<1>4. /\ completed \in [Worker -> Seq(Task \ {NoTask})] /\ sync \in [Worker -> Seq(Node)]
  BY DEF HInv, QueuesOk
<1>5. PICK v : v = FirstFrom(w, Busy(sync, completed))
  BY Zenon
<1>6. v \in Worker /\ (sync[v] # <<>> \/ completed[v] # <<>>)
  <2>1. Busy(sync, completed) \subseteq Worker /\ Busy(sync, completed) # {}
    <3>1. PICK u \in Worker : Tasks(u) # 0
      BY DEF Steal, NoTasks
    <3>2. sync[u] # <<>> \/ completed[u] # <<>>
      <4>1. Len(<<>>) = 0
        OBVIOUS
      <4>2. sync[u] = <<>> /\ completed[u] = <<>> => Tasks(u) = 0 + 0
        BY <4>1, Zenon DEF Tasks
      <4> QED
        BY <3>1, <4>2
    <3> QED
      BY <3>2 DEF Busy
  <2>2. v \in Busy(sync, completed)
    BY <1>5, <2>1, FirstFacts
  <2> QED
    BY <2>2 DEF Busy
<1>7. /\ sync[v] \in Seq(Node) /\ completed[v] \in Seq(Task \ {NoTask})
      /\ Distinct(sync[v]) /\ DistinctTasks(completed[v])
  BY <1>4, <1>6 DEF HInv, NoRepetition
<1>8. PICK task, sync1, comp1 :
         /\ task = IF completed[v] # <<>> THEN Head(completed[v]) ELSE <<"sync", Head(sync[v])>>
         /\ sync1 = IF completed[v] # <<>> THEN sync ELSE [sync EXCEPT ![v] = Tail(@)]
         /\ comp1 = IF completed[v] # <<>> THEN [completed EXCEPT ![v] = Tail(@)] ELSE completed
  BY Zenon
<1>9. PICK us : us = IF Busy(sync1, comp1) = {} THEN {} ELSE WakeFor(w, sync1, comp1)
  BY Zenon
<1>10. PICK z : z = [c EXCEPT !.pc = "loop", !.task = task]
  BY Zenon
<1>11. sync' = sync1 /\ completed' = comp1 /\ AndWake(w, us, z)
  BY <1>2, <1>5, <1>8, <1>9, <1>10, Zenon DEF Steal
<1>12. us \subseteq waiting
  BY <1>9 DEF WakeFor
<1>13. UNCHANGED <<async, port, proc, state, lock, running, waitingAsync, finished, error, consumed>>
  BY DEF Steal, graphVars
<1>14. PICK place \in {"sync", "done"}, n \in Node :
         /\ Has(v, place, n) /\ task \in Task /\ task # NoTask /\ task[2] = n
         /\ \A u \in Worker, m \in Node : Has(u, place, m)' <=> Has(u, place, m) /\ ~(u = v /\ m = n)
         /\ place = "sync" => completed' = completed
         /\ place = "done" => sync' = sync
         /\ sync' \in [Worker -> Seq(Node)] /\ completed' \in [Worker -> Seq(Task \ {NoTask})]
         /\ \A u \in Worker : Distinct(sync'[u]) /\ DistinctTasks(completed'[u])
  <2>1. \A u \in Worker : Distinct(sync[u]) /\ DistinctTasks(completed[u])
    BY DEF HInv, NoRepetition
  <2>2. CASE completed[v] # <<>>
    <3>1. PICK s, t : s = completed[v] /\ t = Tail(s)
      BY Zenon
    <3>2. /\ task \in Task \ {NoTask} /\ t \in Seq(Task \ {NoTask})
          /\ DistinctTasks(t) /\ ~InTasks(task[2], t)
          /\ \A m : InTasks(m, s) <=> m = task[2] \/ InTasks(m, t)
      BY <1>7, <1>8, <2>2, <3>1, TailTaskFacts
    <3>3. PICK n : n = task[2]
      BY Zenon
    <3>4. n \in Node
      BY <3>2, <3>3 DEF Task
    <3>5. /\ sync' = sync /\ completed' = [completed EXCEPT ![v] = t]
      BY <1>8, <1>11, <2>2, <3>1
    <3>6. /\ completed'[v] = t /\ \A u \in Worker \ {v} : completed'[u] = completed[u]
          /\ completed' \in [Worker -> Seq(Task \ {NoTask})]
      BY <1>4, <1>6, <3>2, <3>5
    <3>7. ASSUME NEW u \in Worker, NEW m \in Node
          PROVE  Has(u, "done", m)' <=> Has(u, "done", m) /\ ~(u = v /\ m = n)
      <4>1. /\ Has(u, "done", m) <=> InTasks(m, completed[u])
            /\ Has(u, "done", m)' <=> InTasks(m, completed'[u])
        BY HasFacts, HasNextFacts, Zenon
      <4> QED
        BY <3>1, <3>2, <3>3, <3>6, <4>1
    <3>8. Has(v, "done", n)
      <4>1. Has(v, "done", n) <=> InTasks(n, completed[v])
        BY <1>6, <3>4, HasFacts, Zenon
      <4> QED
        BY <3>1, <3>2, <3>3, <4>1
    <3>9. \A u \in Worker : Distinct(sync'[u]) /\ DistinctTasks(completed'[u])
      BY <2>1, <3>2, <3>5, <3>6
    <3>10. sync' \in [Worker -> Seq(Node)] /\ task \in Task /\ task # NoTask /\ task[2] = n
      BY <1>4, <3>2, <3>3, <3>5
    <3> QED
      BY <3>4, <3>5, <3>6, <3>7, <3>8, <3>9, <3>10
  <2>3. CASE completed[v] = <<>>
    <3>1. PICK s, t, n : s = sync[v] /\ t = Tail(s) /\ n = Head(s)
      BY Zenon
    <3>2. /\ n \in Node /\ t \in Seq(Node) /\ Distinct(t) /\ ~In(n, t)
          /\ \A m : In(m, s) <=> m = n \/ In(m, t)
      BY <1>6, <1>7, <2>3, <3>1, TailFacts
    <3>3. task = <<"sync", n>>
      BY <1>8, <2>3, <3>1
    <3>4. task \in Task /\ task # NoTask /\ task[2] = n
      BY <3>2, <3>3 DEF Task, NoTask
    <3>5. completed' = completed /\ sync' = [sync EXCEPT ![v] = t]
      BY <1>8, <1>11, <2>3, <3>1
    <3>6. /\ sync'[v] = t /\ \A u \in Worker \ {v} : sync'[u] = sync[u]
          /\ sync' \in [Worker -> Seq(Node)]
      BY <1>4, <1>6, <3>2, <3>5
    <3>7. ASSUME NEW u \in Worker, NEW m \in Node
          PROVE  Has(u, "sync", m)' <=> Has(u, "sync", m) /\ ~(u = v /\ m = n)
      <4>1. /\ Has(u, "sync", m) <=> In(m, sync[u])
            /\ Has(u, "sync", m)' <=> In(m, sync'[u])
        BY HasFacts, HasNextFacts, Zenon
      <4> QED
        BY <3>1, <3>2, <3>6, <4>1
    <3>8. Has(v, "sync", n)
      <4>1. Has(v, "sync", n) <=> In(n, sync[v])
        BY <1>6, <3>2, HasFacts, Zenon
      <4> QED
        BY <3>1, <3>2, <4>1
    <3>9. \A u \in Worker : Distinct(sync'[u]) /\ DistinctTasks(completed'[u])
      BY <2>1, <3>2, <3>5, <3>6
    <3> QED
      BY <1>4, <3>2, <3>4, <3>5, <3>6, <3>7, <3>8, <3>9
  <2> QED
    BY <2>2, <2>3
<1>15. /\ IsContext(z) /\ z.pc = "loop" /\ z.task = task /\ z.node = 0 /\ z.tosync = <<>>
       /\ z.toasync = <<>> /\ z.then = c.then /\ z.cause = c.cause /\ z.rest = c.rest
       /\ z.edges = c.edges /\ z.upd = c.upd
  BY <1>3, <1>10, Zenon DEF IsContext
<1>16. ContextOk(z) /\ WorkerOk(z)
  <2>1. ContextOk(z)
    BY <1>3, <1>14, <1>15 DEF ContextOk, Pc
  <2>2. WorkerOk(z)
    BY <1>15 DEF WorkerOk
  <2> QED
    BY <2>1, <2>2
<1>17. PICK y : /\ Goto(w, y) /\ IsContext(y) /\ ContextOk(y) /\ WorkerOk(y) /\ SameHands(z, y)
                /\ y.pc \in {"loop", "wake"}
  BY <1>11, <1>12, <1>15, <1>16, AndWakeFacts, Zenon
<1>18. EventsOk' /\ Apart' /\ StatesOk' /\ Held'
  <2>1. /\ y.task # NoTask /\ y.task[2] = n /\ y.node = 0 /\ y.tosync = <<>> /\ y.toasync = <<>>
    BY <1>14, <1>15, <1>17, Zenon DEF SameHands
  <2>2. ctx[w].pc = "steal"
    BY <1>2, <1>3
  <2> QED
    BY <1>6, <1>13, <1>14, <1>17, <2>1, <2>2, TakeStep, Zenon
<1>19. ActorsOk' /\ PortsOk' /\ QueuesOk' /\ NoRepetition'
  <2>1. ActorsOk'
    BY <1>1, <1>17, ActorsStep DEF HInv
  <2>2. PortsOk'
    BY <1>13 DEF HInv, PortsOk
  <2>3. QueuesOk'
    BY <1>13, <1>14, Zenon DEF HInv, QueuesOk
  <2>4. NoRepetition'
    <3>1. ctx'[w] = y /\ \A b \in Actor \ {w} : ctx'[b] = ctx[b]
      BY <1>1, <1>17, GoesThere
    <3>2. Distinct(<<>>) /\ y.tosync = <<>> /\ y.toasync = <<>>
      BY <1>15, <1>17 DEF SameHands, Distinct
    <3>3. \A u \in Worker : u \in Actor
      BY WorkersAct
    <3>4. \A u \in Worker : Distinct(ctx'[u].tosync) /\ Distinct(ctx'[u].toasync)
      BY <3>1, <3>2, <3>3 DEF HInv, NoRepetition
    <3> QED
      BY <1>14, <3>4, Zenon DEF NoRepetition
  <2> QED
    BY <2>1, <2>2, <2>3, <2>4
<1> QED
  BY <1>18, <1>19 DEF HInv
=============================================================================
