---------------------------- MODULE HolderProofs ----------------------------
(***************************************************************************)
(* A processor is never in two hands, for any graph and any number of      *)
(* workers: schedule_queue takes up a node that another thread has touched *)
(* only when it is idle and nobody has locked it, and then no worker, no   *)
(* queue and no task of the runtime holds its processor.                   *)
(***************************************************************************)
EXTENDS ExecutorProofs, HolderSchedule, FiniteSetTheorems

-----------------------------------------------------------------------------
(* What the steps rest on *)

\* A task more or less counts for one.
LEMMA CountingHolds == Counting
<1> SUFFICES ASSUME NEW S, IsFiniteSet(S), NEW x
             PROVE  /\ Cardinality(S) \in Nat /\ IsFiniteSet(S \ {x}) /\ IsFiniteSet(S \union {x})
                    /\ x \in S => Cardinality(S \ {x}) = Cardinality(S) - 1
                    /\ x \notin S => Cardinality(S \union {x}) = Cardinality(S) + 1
  BY Zenon DEF Counting
<1>1. Cardinality(S) \in Nat
  BY FS_CardinalityType
<1>2. IsFiniteSet(S \ {x}) /\ (x \in S => Cardinality(S \ {x}) = Cardinality(S) - 1)
  BY FS_RemoveElement, Zenon
<1>3. IsFiniteSet(S \union {x}) /\ (x \notin S => Cardinality(S \union {x}) = Cardinality(S) + 1)
  BY FS_AddElement, Zenon
<1> QED
  BY <1>1, <1>2, <1>3

\* pop_task and best_worker_id find one of the workers they look for.
LEMMA FirstIsFound ==
    ASSUME NEW w \in Worker, NEW ws, ws \subseteq Worker, ws # {}
    PROVE  FirstFrom(w, ws) \in ws
<1>1. \A v \in Worker : Distance(w, v) \in Nat
  BY ExecutorAssumption DEF Worker, Distance
<1>2. PICK T : T = {Distance(w, v) : v \in ws}
  BY Zenon
<1>3. T \subseteq Nat /\ T # {}
  BY <1>1, <1>2
<1>4. PICK x \in T : \A y \in T : ~(y < x)
  <2>1. IsWellFoundedOn({ss \in Nat \X Nat : ss[1] < ss[2]}, Nat)
    BY NatLessThanWellFounded DEF OpToRel
  <2>2. PICK R : R = {ss \in Nat \X Nat : ss[1] < ss[2]}
    BY Zenon
  <2>3. \E x \in T : \A y \in T : <<y, x>> \notin R
    BY <1>3, <2>1, <2>2, WFMin, Zenon
  <2> QED
    BY <1>3, <2>2, <2>3, Zenon
<1>5. PICK v \in ws : x = Distance(w, v)
  BY <1>2
<1>6. \A u \in ws : Distance(w, v) <= Distance(w, u)
  <2>1. ASSUME NEW u \in ws PROVE Distance(w, v) <= Distance(w, u)
    <3>1. Distance(w, u) \in T /\ Distance(w, u) \in Nat /\ x \in Nat
      BY <1>1, <1>2, <1>3
    <3> QED
      BY <1>4, <1>5, <3>1
  <2> QED
    BY <2>1
<1> QED
  BY <1>6 DEF FirstFrom

\* The first of the workers is one of them.
LEMMA FirstHolds == FirstOk
BY FirstIsFound DEF FirstOk

\* A node is reached from the edges of the graph it has.
LEMMA SetToSeqFacts ==
    ASSUME NEW S, IsFiniteSet(S)
    PROVE  /\ SetToSeq(S) \in Seq(S) /\ Len(SetToSeq(S)) = Cardinality(S)
           /\ Distinct(SetToSeq(S)) /\ \A v \in S : \E i \in DOMAIN SetToSeq(S) : SetToSeq(S)[i] = v
<1>1. Cardinality(S) \in Nat /\ ExistsBijection(1 .. Cardinality(S), S)
  BY FS_CardinalityType
<1>2. PICK k \in Nat : k = Cardinality(S)
  BY <1>1
<1>3. PICK g \in Bijection(1 .. k, S) : TRUE
  BY <1>1, <1>2 DEF ExistsBijection
<1>4. g \in [1 .. k -> S] /\ IsInjective(g)
  BY <1>3 DEF Bijection, Injection
<1>5. PICK f : f = SetToSeq(S)
  OBVIOUS
<1>6. f \in [1 .. k -> S] /\ IsInjective(f)
  BY <1>2, <1>4, <1>5 DEF SetToSeq
<1>7. f \in Seq(S) /\ Len(f) = k /\ Distinct(f)
  BY <1>6 DEF IsInjective, Distinct
<1>8. f \in Surjection(1 .. k, S)
  <2>1. f \in Injection(1 .. k, S)
    BY <1>6 DEF Injection
  <2>2. IsFiniteSet(1 .. k) /\ Cardinality(1 .. k) = k
    BY FS_Interval
  <2> QED
    BY <1>2, <2>1, <2>2, FS_Injection
<1>9. \A v \in S : \E i \in DOMAIN f : f[i] = v
  BY <1>8 DEF Surjection
<1> QED
  BY <1>2, <1>5, <1>7, <1>9

\* Every node but a source has an input, every node but a sink an output.
LEMMA EdgesAre ==
    ASSUME NEW n \in Node
    PROVE  /\ Inputs[n] \in Seq(Edge) /\ Outputs[n] \in Seq(Edge)
           /\ Graph.kind[n] # "source" => Inputs[n] # <<>> /\ Input(n) \in Edge
           /\ Graph.kind[n] # "sink" => Outputs[n] # <<>> /\ Output(n) \in Edge
<1>1. IsFiniteSet(Edge)
  <2>1. Edge = 1 .. Len(Graph.from) /\ Len(Graph.from) \in Nat
    BY ExecutorAssumption DEF Edge
  <2> QED
    BY <2>1, FS_Interval
<1>2. ASSUME NEW S, S \subseteq Edge, NEW s, s = SetToSeq(S)
      PROVE  s \in Seq(Edge) /\ (S # {} => s # <<>> /\ s[1] \in Edge)
  <2>1. IsFiniteSet(S)
    BY <1>1, <1>2, FS_Subset
  <2>2. s \in Seq(S) /\ \A v \in S : \E i \in DOMAIN s : s[i] = v
    BY <1>2, <2>1, SetToSeqFacts
  <2> QED
    BY <1>2, <2>2
<1>3. Inputs[n] = SetToSeq({e \in Edge : Graph.to[e] = n})
  BY DEF Inputs
<1>4. Outputs[n] = SetToSeq({e \in Edge : Graph.from[e] = n})
  BY DEF Outputs
<1>5. Inputs[n] \in Seq(Edge) /\ Outputs[n] \in Seq(Edge)
  BY <1>2, <1>3, <1>4
<1>6. Graph.kind[n] # "source" => Inputs[n] # <<>> /\ Input(n) \in Edge
  <2>1. PICK S : S = {e \in Edge : Graph.to[e] = n}
    BY Zenon
  <2>2. S \subseteq Edge /\ (Graph.kind[n] # "source" => S # {})
    BY <2>1, ExecutorAssumption
  <2> QED
    BY <1>2, <1>3, <2>1, <2>2, Zenon DEF Input
<1>7. Graph.kind[n] # "sink" => Outputs[n] # <<>> /\ Output(n) \in Edge
  <2>1. PICK S : S = {e \in Edge : Graph.from[e] = n}
    BY Zenon
  <2>2. S \subseteq Edge /\ (Graph.kind[n] # "sink" => S # {})
    BY <2>1, ExecutorAssumption
  <2> QED
    BY <1>2, <1>4, <2>1, <2>2 DEF Output
<1> QED
  BY <1>5, <1>6, <1>7

\* The graph has the edges its nodes need.
LEMMA EdgesHold == EdgesOk
BY EdgesAre, Zenon DEF EdgesOk

\* Counting, the choice of a worker and the steps of event() are as the steps need them.
LEMMA GroundsHold == Grounds
<1>1. EventStepOk
  BY EdgesHold, EventStepOutcome, Zenon DEF EventStepOk
<1> QED
  BY <1>1, CountingHolds, FirstHolds DEF Grounds

-----------------------------------------------------------------------------
(* The first tasks *)

\* A number is made of a quotient and a remainder.
LEMMA DivMod ==
    ASSUME NEW i \in Nat
    PROVE  i \div Workers \in Nat /\ i % Workers \in Worker /\ i = (i \div Workers) * Workers + (i % Workers)
<1>1. PICK W : W = Workers
  BY Zenon
<1>2. W \in Nat \ {0}
  BY <1>1, ExecutorAssumption
<1>3. i \div W \in Nat /\ i % W \in 0 .. W - 1 /\ i = (i \div W) * W + (i % W)
  BY <1>2
<1> QED
  BY <1>1, <1>3 DEF Worker

\* ... in one way.
LEMMA DivModUnique ==
    ASSUME NEW i \in Nat, NEW j \in Nat, NEW v \in Worker, NEW w \in Worker,
           i * Workers + v = j * Workers + w
    PROVE  i = j /\ v = w
<1>1. PICK W : W = Workers
  BY Zenon
<1>2. W \in Nat \ {0} /\ v \in 0 .. W - 1 /\ w \in 0 .. W - 1
  BY <1>1, ExecutorAssumption DEF Worker
<1>3. ASSUME NEW a \in Nat, NEW b \in Nat, a < b PROVE a * W + W <= b * W
  <2>1. (b - (a + 1)) * W >= 0
    BY <1>2, <1>3
  <2> QED
    BY <1>2, <1>3, <2>1
<1>4. i * W + v = j * W + w
  BY <1>1
<1>5. i <= j
  BY <1>2, <1>3, <1>4
<1>6. j <= i
  BY <1>2, <1>3, <1>4
<1> QED
  BY <1>2, <1>4, <1>5, <1>6

\* init_sync_tasks deals every task to one worker, and to it once.
LEMMA TurnsFacts ==
    ASSUME NEW S, NEW s \in Seq(S), Distinct(s)
    PROVE  /\ \A w \in Worker : Turns(w, s) \in Seq(S) /\ Distinct(Turns(w, s))
           /\ \A n : In(n, s) <=> \E w \in Worker : In(n, Turns(w, s))
           /\ \A n, v, w : v \in Worker /\ w \in Worker /\ In(n, Turns(v, s)) /\ In(n, Turns(w, s)) => v = w
<1>1. PICK W, L : W = Workers /\ L = Len(s)
  BY Zenon
<1>2. W \in Nat \ {0} /\ L \in Nat /\ DOMAIN s = 1 .. L /\ Worker = 0 .. W - 1
  BY <1>1, ExecutorAssumption DEF Worker
<1>3. ASSUME NEW w \in Worker, NEW k
      PROVE  k \in DOMAIN Turns(w, s) <=> k \in Nat \ {0} /\ (k - 1) * W + w + 1 \in 1 .. L
  <2>1. PICK q : q = (L + W - 1 - w) \div W
    BY Zenon
  <2>2. DOMAIN Turns(w, s) = 1 .. q
    BY <1>1, <2>1 DEF Turns
  <2>3. L + W - 1 - w \in Nat
    BY <1>2
  <2>4. q \in Nat /\ q * W <= L + W - 1 - w /\ L + W - 1 - w < q * W + W
    <3>1. PICK i : i = L + W - 1 - w
      BY Zenon
    <3>2. i \in Nat
      BY <2>3, <3>1
    <3>3. i \div W \in Nat /\ i % W \in 0 .. W - 1 /\ i = (i \div W) * W + (i % W)
      BY <1>2, <3>2
    <3> QED
      BY <1>2, <2>1, <3>1, <3>2, <3>3
  <2>5. ASSUME k \in 1 .. q PROVE (k - 1) * W + w + 1 \in 1 .. L
    <3>1. (q - k) * W >= 0 /\ (k - 1) * W >= 0
      BY <1>2, <2>4, <2>5
    <3> QED
      BY <1>2, <2>4, <2>5, <3>1
  <2>6. ASSUME k \in Nat \ {0}, (k - 1) * W + w + 1 \in 1 .. L PROVE k \in 1 .. q
    <3>1. SUFFICES ASSUME k > q PROVE FALSE
      BY <2>4, <2>6
    <3>2. (k - 1 - q) * W >= 0
      BY <1>2, <2>4, <2>6, <3>1
    <3>3. (k - 1) * W = (k - 1 - q) * W + q * W
      BY <1>2, <2>4, <2>6
    <3> QED
      BY <1>2, <2>4, <2>6, <3>2, <3>3
  <2>7. k \in 1 .. q => k \in Nat \ {0}
    BY <2>4
  <2> QED
    BY <2>2, <2>5, <2>6, <2>7
<1>4. ASSUME NEW w \in Worker, NEW k \in DOMAIN Turns(w, s)
      PROVE  Turns(w, s)[k] = s[(k - 1) * W + w + 1]
  BY <1>1 DEF Turns
<1>5. ASSUME NEW w \in Worker PROVE Turns(w, s) \in Seq(S)
  <2>1. PICK q : q = (L + W - 1 - w) \div W
    BY Zenon
  <2>2. L + W - 1 - w \in Nat
    BY <1>2
  <2>3. q \in Nat
    BY <1>2, <2>1, <2>2
  <2>4. \A k \in 1 .. q : s[(k - 1) * W + w + 1] \in S
    <3>1. DOMAIN Turns(w, s) = 1 .. q
      BY <1>1, <2>1 DEF Turns
    <3>2. ASSUME NEW k \in 1 .. q PROVE s[(k - 1) * W + w + 1] \in S
      <4>1. (k - 1) * W + w + 1 \in DOMAIN s
        BY <1>2, <1>3, <3>1, Zenon
      <4>2. \A i \in DOMAIN s : s[i] \in S
        OBVIOUS
      <4> QED
        BY <4>1, <4>2, Zenon
    <3> QED
      BY <3>2
  <2>5. Turns(w, s) = [k \in 1 .. q |-> s[(k - 1) * W + w + 1]]
    BY <1>1, <2>1 DEF Turns
  <2> QED
    BY <2>3, <2>4, <2>5
<1>6. ASSUME NEW v \in Worker, NEW w \in Worker, NEW i \in DOMAIN Turns(v, s), NEW j \in DOMAIN Turns(w, s),
             Turns(v, s)[i] = Turns(w, s)[j]
      PROVE  i = j /\ v = w
  <2>1. /\ i \in Nat \ {0} /\ j \in Nat \ {0}
        /\ (i - 1) * W + v + 1 \in DOMAIN s /\ (j - 1) * W + w + 1 \in DOMAIN s
    BY <1>2, <1>3
  <2>2. s[(i - 1) * W + v + 1] = s[(j - 1) * W + w + 1]
    BY <1>4, <1>6
  <2>3. (i - 1) * W + v + 1 = (j - 1) * W + w + 1
    BY <2>1, <2>2, Zenon DEF Distinct
  <2>4. PICK a, b : a = i - 1 /\ b = j - 1
    BY Zenon
  <2>5. a \in Nat /\ b \in Nat /\ a * Workers \in Int /\ b * Workers \in Int /\ v \in Int /\ w \in Int
    BY <1>1, <1>2, <2>1, <2>4
  <2>6. a * Workers + v = b * Workers + w
    BY <1>1, <2>3, <2>4, <2>5
  <2>7. a = b /\ v = w
    BY <2>5, <2>6, DivModUnique
  <2> QED
    BY <2>1, <2>4, <2>7
<1>7. ASSUME NEW n, In(n, s) PROVE \E w \in Worker : In(n, Turns(w, s))
  <2>1. PICK i \in DOMAIN s : s[i] = n
    BY <1>7 DEF In
  <2>2. PICK a : a = i - 1
    BY Zenon
  <2>3. a \in Nat
    BY <1>2, <2>1, <2>2
  <2>4. PICK k, w : k = (a \div W) + 1 /\ w = a % W
    BY Zenon
  <2>5. a \div W \in Nat /\ w \in Worker /\ a = (a \div W) * W + w
    BY <1>1, <2>3, <2>4, DivMod
  <2>6. k \in Nat \ {0} /\ (k - 1) * W + w + 1 = i
    <3>1. k - 1 = a \div W /\ k \in Nat \ {0}
      BY <2>4, <2>5
    <3>2. a + 1 = i
      BY <1>2, <2>1, <2>2
    <3> QED
      BY <2>5, <3>1, <3>2
  <2>7. k \in DOMAIN Turns(w, s)
    BY <1>2, <1>3, <2>1, <2>5, <2>6, Zenon
  <2>8. Turns(w, s)[k] = n
    BY <1>4, <2>1, <2>5, <2>6, <2>7
  <2> QED
    BY <2>5, <2>7, <2>8 DEF In
<1>8. ASSUME NEW n, NEW w \in Worker, In(n, Turns(w, s)) PROVE In(n, s)
  <2>1. PICK k \in DOMAIN Turns(w, s) : Turns(w, s)[k] = n
    BY <1>8 DEF In
  <2> QED
    BY <1>2, <1>3, <1>4, <2>1 DEF In
<1>9. \A w \in Worker : Distinct(Turns(w, s))
  BY <1>6 DEF Distinct
<1>10. ASSUME NEW n, NEW v \in Worker, NEW w \in Worker, In(n, Turns(v, s)), In(n, Turns(w, s)) PROVE v = w
  BY <1>6, <1>10, Zenon DEF In
<1> QED
  BY <1>5, <1>7, <1>8, <1>9, <1>10, Zenon

\* The first tasks of a kind are the sinks of this kind, each once.
LEMMA InitTasksFacts ==
    ASSUME NEW want \in BOOLEAN
    PROVE  /\ InitTasks(want) \in Seq(Node) /\ Distinct(InitTasks(want))
           /\ \A n : In(n, InitTasks(want)) <=> n \in Node /\ IsSink(n) /\ async[n] = want
<1>1. PICK S, s : S = {n \in Node : IsSink(n) /\ async[n] = want} /\ s = SetToSeq(S)
  BY Zenon
<1>2. IsFiniteSet(S)
  <2>1. IsFiniteSet(Node)
    <3>1. Len(Graph.kind) \in Nat
      BY ExecutorAssumption
    <3> QED
      BY <3>1, FS_Interval DEF Node
  <2>2. S \subseteq Node
    BY <1>1
  <2> QED
    BY <2>1, <2>2, FS_Subset
<1>3. s \in Seq(S) /\ Distinct(s) /\ \A v \in S : \E i \in DOMAIN s : s[i] = v
  BY <1>1, <1>2, SetToSeqFacts, Zenon
<1>4. \A i \in DOMAIN s : s[i] \in S
  BY <1>3
<1>5. \A n : In(n, s) <=> n \in S
  BY <1>3, <1>4, Zenon DEF In
<1>6. s \in Seq(Node)
  <2>1. S \subseteq Node
    BY <1>1
  <2> QED
    BY <1>3, <2>1
<1>7. InitTasks(want) = s
  BY <1>1 DEF InitTasks
<1> QED
  BY <1>1, <1>3, <1>5, <1>6, <1>7

\* The invariant holds when the executor starts.
LEMMA InitHolds == Init => HInv
<1> SUFFICES ASSUME Init PROVE HInv
  OBVIOUS
<1>1. PortsOk
  <2>1. async \in [Node -> BOOLEAN] /\ consumed = [n \in SinkNode |-> <<>>]
    BY DEF Init, SinkNode
  <2>2. port \in [Edge -> Port]
    <3>1. [data |-> <<>>, need |-> FALSE, fin |-> FALSE] \in Port
      BY DEF Port, Slot
    <3> QED
      BY <3>1 DEF Init
  <2>3. proc = [n \in Node |-> proc[n]] /\ \A n \in Node : proc[n] \in Processor(n)
    <3>1. PICK r, s : r = NewResize /\ s = NewProcessor
      BY Zenon
    <3>2. proc = [n \in Node |-> IF Resize(n) THEN r ELSE s]
      BY <3>1 DEF Init, Resize
    <3>3. /\ r \in [in : Slot, out : Slot, initialized : BOOLEAN, fi : SUBSET Edge, fo : SUBSET Edge,
                    win : Seq(Edge), wout : Seq(Edge)]
      <4>1. <<>> \in Slot /\ <<>> \in Seq(Edge) /\ {} \in SUBSET Edge
        BY DEF Slot
      <4> QED
        BY <3>1, <4>1 DEF NewResize
    <3>4. s \in [in : Slot, out : Slot, next : 1 .. Blocks + 1, started : BOOLEAN, ended : BOOLEAN,
                 done : BOOLEAN]
      <4>1. <<>> \in Slot /\ 1 \in 1 .. Blocks + 1
        BY ExecutorAssumption DEF Slot
      <4> QED
        BY <3>1, <4>1 DEF NewProcessor
    <3> QED
      BY <3>2, <3>3, <3>4, Zenon DEF Processor
  <2> QED
    BY <2>1, <2>2, <2>3 DEF PortsOk
<1>2. \A a \in Actor : /\ ContextOk(ctx[a]) /\ EmptyHands(ctx[a])
                       /\ a \in Worker => ctx[a].pc = "loop" /\ WorkerOk(ctx[a])
  <2>1. PICK f, k : f = Fresh /\ k = [f EXCEPT !.pc = "alive"]
    BY Zenon
  <2>2. EmptyHands(f) /\ ContextOk(f) /\ WorkerOk(f) /\ IsContext(f) /\ f.pc = "loop"
    BY <2>1, FreshOk
  <2>3. /\ k.pc = "alive" /\ k.task = f.task /\ k.node = f.node /\ k.tosync = f.tosync
        /\ k.toasync = f.toasync /\ k.then = f.then /\ k.cause = f.cause /\ k.rest = f.rest
        /\ k.edges = f.edges /\ k.upd = f.upd
    BY <2>1, <2>2, Zenon DEF IsContext
  <2>4. ContextOk(k) /\ EmptyHands(k)
    <3>1. ContextOk(k)
      BY <2>2, <2>3 DEF ContextOk
    <3>2. EmptyHands(k)
      BY <2>2, <2>3 DEF EmptyHands
    <3> QED
      BY <3>1, <3>2
  <2>5. ctx = [a \in Actor |-> IF a = Killer THEN k ELSE f]
    BY <2>1 DEF Init
  <2> QED
    BY <2>2, <2>4, <2>5, WorkersAct
<1>3. ActorsOk /\ EventsOk
  <2>1. ActorsOk
    BY <1>2, WorkersAct DEF ActorsOk
  <2>2. EventsOk
    BY <1>2, WorkersAct DEF EventsOk, At
  <2> QED
    BY <2>1, <2>2
<1>4. PICK f, t : f = InitTasks(FALSE) /\ t = InitTasks(TRUE)
  BY Zenon
<1>5. /\ f \in Seq(Node) /\ Distinct(f) /\ t \in Seq(Node) /\ Distinct(t)
      /\ \A n : In(n, f) <=> n \in Node /\ IsSink(n) /\ async[n] = FALSE
      /\ \A n : In(n, t) <=> n \in Node /\ IsSink(n) /\ async[n] = TRUE
  BY <1>4, InitTasksFacts, Zenon
<1>6. /\ \A w \in Worker : Turns(w, f) \in Seq(Node) /\ Distinct(Turns(w, f))
      /\ \A n : In(n, f) <=> \E w \in Worker : In(n, Turns(w, f))
      /\ \A n, v, w : v \in Worker /\ w \in Worker /\ In(n, Turns(v, f)) /\ In(n, Turns(w, f)) => v = w
  BY <1>5, TurnsFacts
<1>7. \A w \in Worker : sync[w] = Turns(w, f) /\ completed[w] = <<>>
  BY <1>4 DEF Init
<1>8. running = {<<t[i], WorkerOf(i)>> : i \in DOMAIN t} /\ waitingAsync = Cardinality(running)
  BY <1>4 DEF Init
<1>9. \A i \in DOMAIN t : t[i] \in Node /\ WorkerOf(i) \in Worker
  <2>1. ASSUME NEW i \in DOMAIN t PROVE t[i] \in Node /\ WorkerOf(i) \in Worker
    <3>1. t[i] \in Node /\ i - 1 \in Nat
      BY <1>5
    <3>2. PICK j : j = i - 1
      BY Zenon
    <3>3. j % Workers \in Worker
      BY <3>1, <3>2, DivMod
    <3> QED
      BY <3>1, <3>2, <3>3 DEF WorkerOf
  <2> QED
    BY <2>1
<1>10. QueuesOk
  <2>1. sync \in [Worker -> Seq(Node)]
    <3>1. sync = [w \in Worker |-> Turns(w, f)]
      BY <1>4 DEF Init
    <3> QED
      BY <1>6, <3>1, Zenon
  <2>2. completed \in [Worker -> Seq(Task \ {NoTask})]
    <3>1. completed = [w \in Worker |-> <<>>]
      BY DEF Init
    <3>2. <<>> \in Seq(Task \ {NoTask})
      OBVIOUS
    <3> QED
      BY <3>1, <3>2, Zenon
  <2>3. running \subseteq Node \X Worker
    BY <1>8, <1>9
  <2>4. IsFiniteSet(running)
    <3>1. IsFiniteSet(DOMAIN t)
      <4>1. DOMAIN t = 1 .. Len(t) /\ Len(t) \in Nat
        BY <1>5
      <4> QED
        BY <4>1, FS_Interval
    <3>2. PICK g : g = [i \in DOMAIN t |-> <<t[i], WorkerOf(i)>>]
      BY Zenon
    <3>3. g \in Surjection(DOMAIN t, running)
      BY <1>8, <3>2, Zenon DEF Surjection
    <3> QED
      BY <3>1, <3>3, FS_Surjection
  <2>5. Cardinality(running) \in Nat
    BY <2>4, FS_CardinalityType
  <2>6. finished = FALSE /\ error = "none"
    BY DEF Init
  <2>7. waitingAsync \in Nat /\ Cardinality(running) <= waitingAsync
    BY <1>8, <2>5
  <2> QED
    BY <2>1, <2>2, <2>3, <2>4, <2>6, <2>7, Zenon DEF QueuesOk
<1>11. NoRepetition
  <2>1. Distinct(<<>>) /\ DistinctTasks(<<>>)
    BY DEF Distinct, DistinctTasks
  <2>2. \A w \in Worker : ctx[w].tosync = <<>> /\ ctx[w].toasync = <<>>
    BY <1>2, WorkersAct DEF EmptyHands
  <2> QED
    BY <1>6, <1>7, <2>1, <2>2 DEF NoRepetition
<1>12. ASSUME NEW w \in Worker, NEW n \in Node
       PROVE  /\ \A p \in Place \ {"sync", "runtime"} : ~Has(w, p, n)
              /\ Has(w, "sync", n) <=> In(n, Turns(w, f))
              /\ Has(w, "runtime", n) <=> \E i \in DOMAIN t : t[i] = n /\ WorkerOf(i) = w
  <2>1. EmptyHands(ctx[w]) /\ completed[w] = <<>> /\ sync[w] = Turns(w, f)
    BY <1>2, <1>7, WorkersAct
  <2>2. \A i : ~In(i, <<>>) /\ ~InTasks(i, <<>>)
    BY DEF In, InTasks
  <2>3. n # 0
    BY ExecutorAssumption DEF Node
  <2>4. /\ ~Has(w, "task", n) /\ ~Has(w, "node", n) /\ ~Has(w, "tosync", n) /\ ~Has(w, "toasync", n)
        /\ ~Has(w, "done", n)
    <3>1. /\ Has(w, "task", n) <=> ctx[w].task # NoTask /\ ctx[w].task[2] = n
          /\ Has(w, "node", n) <=> ctx[w].node = n
          /\ Has(w, "tosync", n) <=> In(n, ctx[w].tosync)
          /\ Has(w, "toasync", n) <=> In(n, ctx[w].toasync)
          /\ Has(w, "done", n) <=> InTasks(n, completed[w])
      BY HasFacts, Zenon
    <3> QED
      BY <2>1, <2>2, <2>3, <3>1 DEF EmptyHands
  <2>5. Has(w, "sync", n) <=> In(n, Turns(w, f))
    <3>1. Has(w, "sync", n) <=> In(n, sync[w])
      BY HasFacts, Zenon
    <3> QED
      BY <2>1, <3>1
  <2>6. Has(w, "runtime", n) <=> \E i \in DOMAIN t : t[i] = n /\ WorkerOf(i) = w
    <3>1. Has(w, "runtime", n) <=> <<n, w>> \in running
      BY HasFacts, Zenon
    <3> QED
      BY <1>8, <3>1
  <2> QED
    BY <2>4, <2>5, <2>6 DEF Place
<1>13. ASSUME NEW w \in Worker, NEW n \in Node, NEW p \in Place, Has(w, p, n)
       PROVE  /\ IsSink(n)
              /\ (p = "sync" /\ async[n] = FALSE) \/ (p = "runtime" /\ async[n] = TRUE)
  <2>1. p \in {"sync", "runtime"}
    BY <1>12, <1>13
  <2>2. CASE p = "sync"
    <3>1. In(n, Turns(w, f))
      BY <1>12, <1>13, <2>2
    <3>2. In(n, f)
      BY <1>6, <3>1, Zenon
    <3> QED
      BY <1>5, <2>2, <3>2
  <2>3. CASE p = "runtime"
    <3>1. In(n, t)
      BY <1>12, <1>13, <2>3 DEF In
    <3> QED
      BY <1>5, <2>3, <3>1
  <2> QED
    BY <2>1, <2>2, <2>3, Zenon
<1>14. Apart
  <2>1. ASSUME NEW n \in Node, NEW v \in Worker, NEW w \in Worker, NEW p \in Place, NEW q \in Place,
               Has(v, p, n), Has(w, q, n)
        PROVE  v = w /\ p = q
    <3>1. p = q /\ q \in {"sync", "runtime"}
      <4>1. (p = "sync" /\ async[n] = FALSE) \/ (p = "runtime" /\ async[n] = TRUE)
        BY <1>13, <2>1, Zenon
      <4>2. (q = "sync" /\ async[n] = FALSE) \/ (q = "runtime" /\ async[n] = TRUE)
        BY <1>13, <2>1, Zenon
      <4> QED
        BY <4>1, <4>2
    <3>2. CASE q = "sync"
      <4>1. In(n, Turns(v, f)) /\ In(n, Turns(w, f))
        BY <1>12, <2>1, <3>1, <3>2
      <4> QED
        BY <1>6, <3>1, <4>1
    <3>3. CASE q = "runtime"
      <4>1. PICK i \in DOMAIN t : t[i] = n /\ WorkerOf(i) = v
        BY <1>12, <2>1, <3>1, <3>3
      <4>2. PICK j \in DOMAIN t : t[j] = n /\ WorkerOf(j) = w
        BY <1>12, <2>1, <3>1, <3>3
      <4>3. i = j
        BY <1>5, <4>1, <4>2 DEF Distinct
      <4> QED
        BY <3>1, <4>1, <4>2, <4>3
    <3> QED
      BY <3>1, <3>2, <3>3
  <2> QED
    BY <2>1, Zenon DEF Apart
<1>15. /\ state \in [Node -> {"idle", "processing", "finished"}]
       /\ lock \in [Node -> Worker \union {Nobody}]
       /\ \A n \in Node : state[n] = "processing" <=> IsSink(n)
       /\ \A n \in Node : lock[n] = Nobody
  BY DEF Init
<1>16. StatesOk
  <2>1. Nobody \notin Worker
    BY ExecutorAssumption DEF Worker, Nobody
  <2>2. \A n \in Node : state[n] = "processing" => ~Resize(n)
    BY <1>15 DEF IsSink, Resize
  <2>3. ASSUME NEW w \in Worker, NEW n \in Node, NEW p \in Place
        PROVE  /\ Has(w, p, n) => state[n] = "processing"
               /\ ~Has(w, "node", n) /\ lock[n] # w
    <3>1. "node" \in Place
      BY DEF Place
    <3>2. ~Has(w, "node", n)
      BY <1>12, <3>1
    <3>3. Has(w, p, n) => state[n] = "processing"
      BY <1>13, <1>15, Zenon
    <3> QED
      BY <1>15, <2>1, <3>2, <3>3
  <2> QED
    BY <1>15, <2>2, <2>3, Zenon DEF StatesOk
<1>17. Held
  <2>1. ASSUME NEW n \in Node, state[n] = "processing"
        PROVE  \E w \in Worker, p \in Place : Has(w, p, n)
    <3>1. IsSink(n) /\ async[n] \in BOOLEAN /\ "sync" \in Place /\ "runtime" \in Place
      BY <1>1, <1>15, <2>1 DEF PortsOk, Place
    <3>2. CASE async[n] = FALSE
      <4>1. PICK w \in Worker : In(n, Turns(w, f))
        BY <1>5, <1>6, <3>1, <3>2
      <4>2. Has(w, "sync", n)
        BY <1>12, <4>1
      <4> QED
        BY <3>1, <4>2
    <3>3. CASE async[n] = TRUE
      <4>1. PICK i \in DOMAIN t : t[i] = n
        BY <1>5, <3>1, <3>3 DEF In
      <4>2. WorkerOf(i) \in Worker
        BY <1>9
      <4>3. Has(WorkerOf(i), "runtime", n)
        BY <1>12, <4>1, <4>2
      <4> QED
        BY <3>1, <4>2, <4>3
    <3> QED
      BY <3>1, <3>2, <3>3, Zenon
  <2> QED
    BY <2>1, Zenon DEF Held
<1> QED
  BY <1>1, <1>3, <1>10, <1>11, <1>14, <1>16, <1>17 DEF HInv

-----------------------------------------------------------------------------
(* Every step is one of those above *)

-----------------------------------------------------------------------------
(* One holder *)

\* the parts of Holders(n)
HandsOf(n) == {<<w, "hands", 0>> : w \in {w \in Worker : InHands(w, n)}}
QueuesOf(n) == UNION {InQueue(w, n) : w \in Worker}
RuntimeOf(n) == {<<w, "runtime", 0>> : w \in {w \in Worker : <<n, w>> \in running}}

\* The places of the invariant are those OneHolder counts.
LEMMA HoldersFacts ==
    ASSUME NEW n \in Node
    PROVE  /\ \A w \in Worker : InHands(w, n) <=> \E p \in {"task", "node", "tosync", "toasync"} : Has(w, p, n)
           /\ \A h : h \in Holders(n) <=>
                \E w \in Worker :
                   \/ h = <<w, "hands", 0>> /\ InHands(w, n)
                   \/ \E i \in DOMAIN sync[w] : h = <<w, "sync", i>> /\ sync[w][i] = n
                   \/ \E i \in DOMAIN completed[w] : h = <<w, "done", i>> /\ completed[w][i][2] = n
                   \/ h = <<w, "runtime", 0>> /\ <<n, w>> \in running
<1>1. ASSUME NEW w \in Worker
      PROVE  InHands(w, n) <=> \E p \in {"task", "node", "tosync", "toasync"} : Has(w, p, n)
  <2>1. /\ Has(w, "task", n) <=> ctx[w].task # NoTask /\ ctx[w].task[2] = n
        /\ Has(w, "node", n) <=> ctx[w].node = n
        /\ Has(w, "tosync", n) <=> In(n, ctx[w].tosync)
        /\ Has(w, "toasync", n) <=> In(n, ctx[w].toasync)
    BY HasFacts, Zenon
  <2>2. InHands(w, n) <=> \/ Has(w, "task", n) \/ Has(w, "node", n)
                          \/ Has(w, "tosync", n) \/ Has(w, "toasync", n)
    BY <2>1, Zenon DEF InHands, In
  <2> QED
    BY <2>2
<1>2. ASSUME NEW h
      PROVE  h \in Holders(n) <=>
                \E w \in Worker :
                   \/ h = <<w, "hands", 0>> /\ InHands(w, n)
                   \/ \E i \in DOMAIN sync[w] : h = <<w, "sync", i>> /\ sync[w][i] = n
                   \/ \E i \in DOMAIN completed[w] : h = <<w, "done", i>> /\ completed[w][i][2] = n
                   \/ h = <<w, "runtime", 0>> /\ <<n, w>> \in running
  <2>1. Holders(n) = (HandsOf(n) \union QueuesOf(n)) \union RuntimeOf(n)
    BY Zenon DEF Holders, HandsOf, QueuesOf, RuntimeOf
  <2>2. h \in HandsOf(n) <=> \E w \in Worker : h = <<w, "hands", 0>> /\ InHands(w, n)
    BY DEF HandsOf
  <2>3. h \in QueuesOf(n) <=> \E w \in Worker : h \in InQueue(w, n)
    BY DEF QueuesOf
  <2>4. h \in RuntimeOf(n) <=> \E w \in Worker : h = <<w, "runtime", 0>> /\ <<n, w>> \in running
    BY Zenon DEF RuntimeOf
  <2>5. ASSUME NEW w \in Worker
        PROVE  h \in InQueue(w, n) <=>
                   \/ \E i \in DOMAIN sync[w] : h = <<w, "sync", i>> /\ sync[w][i] = n
                   \/ \E i \in DOMAIN completed[w] : h = <<w, "done", i>> /\ completed[w][i][2] = n
    BY DEF InQueue
  <2>6. h \in Holders(n) <=> h \in HandsOf(n) \/ h \in QueuesOf(n) \/ h \in RuntimeOf(n)
    BY <2>1
  <2> QED
    BY <2>2, <2>3, <2>4, <2>5, <2>6, Zenon
<1> QED
  BY <1>1, <1>2, Zenon

\* The invariant says that a node has at most one holder, and one while it is processing.
LEMMA InvImpliesOneHolder == HInv /\ Shapes => OneHolder
<1> SUFFICES ASSUME HInv, Shapes PROVE OneHolder
  OBVIOUS
<1>1. TypeOK
  <2>1. \A a \in Actor : ctx[a].wake \subseteq Worker
    BY DEF Shapes, IsContext
  <2>2. waiting \subseteq Worker /\ ringing \subseteq Worker /\ flag \in [Worker -> BOOLEAN]
    BY DEF Shapes
  <2>3. /\ async \in [Node -> BOOLEAN] /\ consumed \in [SinkNode -> Seq(Block)]
        /\ port \in [Edge -> [data : Slot, need : BOOLEAN, fin : BOOLEAN]]
    BY DEF HInv, PortsOk, Port
  <2>4. \A n \in Node :
          proc[n] \in IF Graph.kind[n] = "resize"
                       THEN [in : Slot, out : Slot, initialized : BOOLEAN, fi : SUBSET Edge,
                             fo : SUBSET Edge, win : Seq(Edge), wout : Seq(Edge)]
                       ELSE [in : Slot, out : Slot, next : 1 .. Blocks + 1, started : BOOLEAN,
                             ended : BOOLEAN, done : BOOLEAN]
    BY Zenon DEF HInv, PortsOk, Processor, Resize
  <2>5. /\ state \in [Node -> {"idle", "processing", "finished"}]
        /\ lock \in [Node -> Worker \union {Nobody}]
    BY DEF HInv, StatesOk
  <2>6. \A a \in Actor :
          /\ ctx[a].pc \in Pc \union {"alive"} /\ ctx[a].task \in Task /\ ctx[a].node \in Node \union {0}
          /\ ctx[a].then \in Pc \union {"-"}
          /\ ctx[a].edges \in Seq(Touched) /\ ctx[a].upd \in Seq(Touched)
          /\ ctx[a].tosync \in Seq(Node) /\ ctx[a].toasync \in Seq(Node)
    BY Zenon DEF HInv, ActorsOk, ContextOk
  <2>7. /\ sync \in [Worker -> Seq(Node)] /\ completed \in [Worker -> Seq(Task \ {NoTask})]
        /\ running \subseteq Node \X Worker /\ waitingAsync \in Nat
        /\ finished \in BOOLEAN /\ error \in {"none", "killed", "failed"}
    BY DEF HInv, QueuesOk
  <2> QED
    BY <2>1, <2>2, <2>3, <2>4, <2>5, <2>6, <2>7, Zenon DEF TypeOK
<1>2. ASSUME NEW n \in Node PROVE Cardinality(Holders(n)) <= 1
  <2>1. ASSUME NEW g \in Holders(n), NEW h \in Holders(n) PROVE g = h
    <3>1. ASSUME NEW k \in Holders(n)
          PROVE  \E w \in Worker, p \in Place :
                    /\ Has(w, p, n)
                    /\ p \in {"task", "node", "tosync", "toasync"} => k = <<w, "hands", 0>>
                    /\ p = "sync" => \E i \in DOMAIN sync[w] : k = <<w, "sync", i>> /\ sync[w][i] = n
                    /\ p = "done" => \E i \in DOMAIN completed[w] : k = <<w, "done", i>> /\ completed[w][i][2] = n
                    /\ p = "runtime" => k = <<w, "runtime", 0>>
      <4>1. PICK w \in Worker :
                   \/ k = <<w, "hands", 0>> /\ InHands(w, n)
                   \/ \E i \in DOMAIN sync[w] : k = <<w, "sync", i>> /\ sync[w][i] = n
                   \/ \E i \in DOMAIN completed[w] : k = <<w, "done", i>> /\ completed[w][i][2] = n
                   \/ k = <<w, "runtime", 0>> /\ <<n, w>> \in running
        BY HoldersFacts, Zenon
      <4>2. CASE k = <<w, "hands", 0>> /\ InHands(w, n)
        <5>1. PICK p \in {"task", "node", "tosync", "toasync"} : Has(w, p, n)
          BY <4>2, HoldersFacts, Zenon
        <5>2. p \in Place /\ p # "sync" /\ p # "done" /\ p # "runtime"
          BY <5>1 DEF Place
        <5> QED
          BY <4>2, <5>1, <5>2
      <4>3. CASE \E i \in DOMAIN sync[w] : k = <<w, "sync", i>> /\ sync[w][i] = n
        <5>1. Has(w, "sync", n)
          BY <4>3, HasFacts, Zenon DEF In
        <5>2. "sync" \in Place /\ "sync" \notin {"task", "node", "tosync", "toasync", "done", "runtime"}
          BY DEF Place
        <5> QED
          BY <4>3, <5>1, <5>2
      <4>4. CASE \E i \in DOMAIN completed[w] : k = <<w, "done", i>> /\ completed[w][i][2] = n
        <5>1. Has(w, "done", n)
          BY <4>4, HasFacts, Zenon DEF InTasks
        <5>2. "done" \in Place /\ "done" \notin {"task", "node", "tosync", "toasync", "sync", "runtime"}
          BY DEF Place
        <5> QED
          BY <4>4, <5>1, <5>2
      <4>5. CASE k = <<w, "runtime", 0>> /\ <<n, w>> \in running
        <5>1. Has(w, "runtime", n)
          BY <4>5, HasFacts, Zenon
        <5>2. "runtime" \in Place /\ "runtime" \notin {"task", "node", "tosync", "toasync", "sync", "done"}
          BY DEF Place
        <5> QED
          BY <4>5, <5>1, <5>2
      <4> QED
        BY <4>1, <4>2, <4>3, <4>4, <4>5
    <3>2. PICK v \in Worker, p \in Place :
                    /\ Has(v, p, n)
                    /\ p \in {"task", "node", "tosync", "toasync"} => g = <<v, "hands", 0>>
                    /\ p = "sync" => \E i \in DOMAIN sync[v] : g = <<v, "sync", i>> /\ sync[v][i] = n
                    /\ p = "done" => \E i \in DOMAIN completed[v] : g = <<v, "done", i>> /\ completed[v][i][2] = n
                    /\ p = "runtime" => g = <<v, "runtime", 0>>
      BY <3>1
    <3>3. PICK w \in Worker, q \in Place :
                    /\ Has(w, q, n)
                    /\ q \in {"task", "node", "tosync", "toasync"} => h = <<w, "hands", 0>>
                    /\ q = "sync" => \E i \in DOMAIN sync[w] : h = <<w, "sync", i>> /\ sync[w][i] = n
                    /\ q = "done" => \E i \in DOMAIN completed[w] : h = <<w, "done", i>> /\ completed[w][i][2] = n
                    /\ q = "runtime" => h = <<w, "runtime", 0>>
      BY <3>1
    <3>4. v = w /\ p = q
      BY <3>2, <3>3, Zenon DEF HInv, Apart
    <3>5. CASE p = "sync"
      <4>1. Distinct(sync[w])
        BY DEF HInv, NoRepetition
      <4> QED
        BY <3>2, <3>3, <3>4, <3>5, <4>1, Zenon DEF Distinct
    <3>6. CASE p = "done"
      <4>1. DistinctTasks(completed[w])
        BY DEF HInv, NoRepetition
      <4> QED
        BY <3>2, <3>3, <3>4, <3>6, <4>1, Zenon DEF DistinctTasks
    <3>7. CASE p \notin {"sync", "done"}
      BY <3>2, <3>3, <3>4, <3>7 DEF Place
    <3> QED
      BY <3>5, <3>6, <3>7
  <2>2. CASE Holders(n) = {}
    <3>1. Cardinality(Holders(n)) = 0
      BY <2>2, FS_EmptySet
    <3> QED
      BY <3>1
  <2>3. CASE Holders(n) # {}
    <3>1. PICK h : h \in Holders(n)
      BY <2>3
    <3>2. Holders(n) = {h}
      BY <2>1, <3>1
    <3>3. Cardinality(Holders(n)) = 1
      BY <3>2, FS_Singleton, Zenon
    <3> QED
      BY <3>3
  <2> QED
    BY <2>2, <2>3
<1>3. ASSUME NEW n \in Node, state[n] = "processing", error = "none", ~finished
      PROVE  Holders(n) # {}
  <2>1. PICK w \in Worker, p \in Place : Has(w, p, n)
    BY <1>3 DEF HInv, Held
  <2>2. CASE p \in {"task", "node", "tosync", "toasync"}
    <3>1. InHands(w, n)
      BY <2>1, <2>2, HoldersFacts, Zenon
    <3>2. <<w, "hands", 0>> \in Holders(n)
      BY <3>1, HoldersFacts, Zenon
    <3> QED
      BY <3>2
  <2>3. CASE p = "sync"
    <3>1. PICK i \in DOMAIN sync[w] : sync[w][i] = n
      <4>1. In(n, sync[w])
        BY <2>1, <2>3, HasFacts, Zenon
      <4> QED
        BY <4>1 DEF In
    <3>2. <<w, "sync", i>> \in Holders(n)
      BY <3>1, HoldersFacts, Zenon
    <3> QED
      BY <3>2
  <2>4. CASE p = "done"
    <3>1. PICK i \in DOMAIN completed[w] : completed[w][i][2] = n
      <4>1. InTasks(n, completed[w])
        BY <2>1, <2>4, HasFacts, Zenon
      <4> QED
        BY <4>1 DEF InTasks
    <3>2. <<w, "done", i>> \in Holders(n)
      BY <3>1, HoldersFacts, Zenon
    <3> QED
      BY <3>2
  <2>5. CASE p = "runtime"
    <3>1. <<n, w>> \in running
      BY <2>1, <2>5, HasFacts, Zenon
    <3>2. <<w, "runtime", 0>> \in Holders(n)
      BY <3>1, HoldersFacts, Zenon
    <3> QED
      BY <3>2
  <2> QED
    BY <2>1, <2>2, <2>3, <2>4, <2>5 DEF Place
<1> QED
  BY <1>1, <1>2, <1>3 DEF OneHolder

\* For every graph, every choice of asynchronous sources and sinks and every number of workers, a
\* processor is never in two of a worker's hands, the queues and the runtime at once, though
\* schedule_queue gives it from one to the other with no lock around process(); and while the query
\* goes on a processor in State::Processing is in one of them, so that it is not forgotten.
THEOREM OneHolderCorrect == Spec => []OneHolder
<1>1. Init => HInv /\ Called
  BY InitHolds, InitCalled
<1>2. Called => Shapes
  BY DEF Called
<1>3. (HInv /\ Called) /\ [Next]_vars => (HInv /\ Called)'
  BY <1>2, GroundsHold, NextHolds, NextKeepsCalled
<1>4. HInv /\ Called => OneHolder
  BY <1>2, InvImpliesOneHolder
<1> QED
  BY <1>1, <1>3, <1>4, PTL DEF Spec
=============================================================================
