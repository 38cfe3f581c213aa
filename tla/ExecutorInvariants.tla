------------------------- MODULE ExecutorInvariants -------------------------
(***************************************************************************)
(* What the proofs about the executor keep inductively: who calls a worker *)
(* that waits, and where a processor may be while its node says that it is *)
(* being processed.                                                        *)
(***************************************************************************)
EXTENDS Executor

-----------------------------------------------------------------------------
(* Who calls a waiting worker: the inductive invariant for WaitingIsAsleep *)

IsContext(c) ==
    /\ c = [pc |-> c.pc, task |-> c.task, node |-> c.node, cause |-> c.cause, step |-> c.step,
            rest |-> c.rest, upd |-> c.upd, edges |-> c.edges, tosync |-> c.tosync,
            toasync |-> c.toasync, wake |-> c.wake, then |-> c.then]
    /\ c.wake \subseteq Worker

Shapes ==
    /\ ctx = [a \in Actor |-> ctx[a]] /\ \A a \in Actor : IsContext(ctx[a])
    /\ flag \in [Worker -> BOOLEAN]
    /\ waiting \subseteq Worker /\ ringing \subseteq Worker

Sleeps(w) == ctx[w].pc \in {"wait", "asleep"}

\* A worker that may be called sleeps, and at most one has it to call: the queue, which keeps it
\* as waiting, the runtime, an actor on its way to wake it up, or its flag.
CalledOnce(w) ==
    /\ w \in waiting => Sleeps(w) /\ ~flag[w] /\ w \notin ringing
    /\ w \in ringing => Sleeps(w) /\ ~flag[w]
    /\ flag[w] => Sleeps(w)
    /\ \A a \in Actor : w \in ctx[a].wake =>
          /\ Sleeps(w) /\ ~flag[w] /\ w \notin waiting /\ w \notin ringing
          /\ \A b \in Actor : w \in ctx[b].wake => b = a

Called == Shapes /\ (~finished => \A w \in Worker : CalledOnce(w))

\* y is a context that has nobody to wake up but whom c has
Follows(c, y) == IsContext(y) /\ y.wake \subseteq c.wake

-----------------------------------------------------------------------------
(* Where a processor is: the inductive invariant for OneHolder *)

Resize(n) == Graph.kind[n] = "resize"
Port == [data : Slot, need : BOOLEAN, fin : BOOLEAN]
Processor(n) ==
    IF Resize(n)
    THEN [in : Slot, out : Slot, initialized : BOOLEAN, fi : SUBSET Edge, fo : SUBSET Edge,
          win : Seq(Edge), wout : Seq(Edge)]
    ELSE [in : Slot, out : Slot, next : 1 .. Blocks + 1, started : BOOLEAN, ended : BOOLEAN,
          done : BOOLEAN]

\* what is shared by the processors
PortsOk ==
    /\ async \in [Node -> BOOLEAN]
    /\ port \in [Edge -> Port]
    /\ proc = [n \in Node |-> proc[n]] /\ \A n \in Node : proc[n] \in Processor(n)
    /\ consumed \in [SinkNode -> Seq(Block)]

\* what an event has to go on with in its next step: a resize processor, the port that caused the
\* event, the ports it goes through or the first of its waiting ports
StepOk(n, step, cause, rest, p) ==
    CASE Graph.kind[n] = "source" -> step \in {"begin", "can_push", "push"}
      [] Graph.kind[n] = "transform" ->
            step \in {"begin", "finish_input", "can_push", "not_need_data", "push", "has_data",
                      "pull", "finished", "finish_output", "need_data"}
      [] Graph.kind[n] = "sink" -> step \in {"begin", "has_data", "pull", "need_more", "need_data"}
      [] Graph.kind[n] = "resize" ->
            \/ step = "begin"
            \/ step = "can_push" /\ cause[1] = "up"
            \/ step \in {"input_finished", "has_data"} /\ cause[1] = "down"
            \/ step \in {"need_data", "pulled_finished", "need_more", "finish_inputs",
                         "finish_outputs"} /\ rest # <<>>
            \/ step \in {"output_finished", "pull", "push"} /\ p.win # <<>> /\ p.wout # <<>>

Cause == Touched \union {<<"other", 0>>}

\* the fields of an actor's context
ContextOk(c) ==
    /\ c.pc \in Pc \union {"alive"} /\ c.task \in Task /\ c.node \in Node \union {0}
    /\ c.then \in Pc \union {"-"} /\ c.cause \in Cause /\ c.rest \in Seq(Edge)
    /\ c.edges \in Seq(Touched) /\ c.upd \in Seq(Touched)
    /\ c.tosync \in Seq(Node) /\ c.toasync \in Seq(Node)
    /\ c.pc \in {"finish", "wake_all", "wake"} => c.then \in {"loop", "exit"}

\* what a worker holds, by what it does
WorkerOk(c) ==
    /\ c.pc = "exec" => c.task # NoTask
    /\ c.pc \in {"steal", "wait", "asleep", "schedule", "event", "edges"} => c.task = NoTask
    /\ c.node = 0 <=> c.pc \notin {"schedule", "event"}
    /\ c.pc \notin {"event", "edges"} => c.tosync = <<>> /\ c.toasync = <<>>

ActorsOk ==
    /\ \A a \in Actor : ContextOk(ctx[a])
    /\ \A w \in Worker : WorkerOk(ctx[w])

EventsOk ==
    \A w \in Worker : At(w, "event") =>
        StepOk(ctx[w].node, ctx[w].step, ctx[w].cause, ctx[w].rest, proc[ctx[w].node])

QueuesOk ==
    /\ sync \in [Worker -> Seq(Node)]
    /\ completed \in [Worker -> Seq(Task \ {NoTask})]
    /\ running \subseteq Node \X Worker /\ IsFiniteSet(running)
    /\ waitingAsync \in Nat /\ Cardinality(running) <= waitingAsync
    /\ finished \in BOOLEAN /\ error \in {"none", "killed", "failed"}

\* the places a processor may be in, at a worker with context c and queues s and d, or for it on
\* the runtime, where it has the tasks r
Place == {"task", "node", "tosync", "toasync", "sync", "done", "runtime"}

In(n, s) == \E i \in DOMAIN s : s[i] = n
InTasks(n, s) == \E i \in DOMAIN s : s[i][2] = n

Holds(c, s, d, r, place, n) ==
    CASE place = "task" -> c.task # NoTask /\ c.task[2] = n
      [] place = "node" -> c.node = n
      [] place = "tosync" -> In(n, c.tosync)
      [] place = "toasync" -> In(n, c.toasync)
      [] place = "sync" -> In(n, s)
      [] place = "done" -> InTasks(n, d)
      [] place = "runtime" -> n \in r

OnRuntime(w) == {n \in Node : <<n, w>> \in running}
Has(w, place, n) == Holds(ctx[w], sync[w], completed[w], OnRuntime(w), place, n)

Apart ==
    \A n \in Node, v, w \in Worker, p, q \in Place : Has(v, p, n) /\ Has(w, q, n) => v = w /\ p = q

Distinct(s) == \A i, j \in DOMAIN s : s[i] = s[j] => i = j
DistinctTasks(s) == \A i, j \in DOMAIN s : s[i][2] = s[j][2] => i = j

NoRepetition ==
    \A w \in Worker : /\ Distinct(ctx[w].tosync) /\ Distinct(ctx[w].toasync) /\ Distinct(sync[w])
                      /\ DistinctTasks(completed[w])

\* the state of a node and its mutex tell where its processor is
StatesOk ==
    /\ state \in [Node -> {"idle", "processing", "finished"}]
    /\ lock \in [Node -> Worker \union {Nobody}]
    /\ \A n \in Node : state[n] = "processing" => ~Resize(n)
    /\ \A w \in Worker, n \in Node, p \in Place :
          /\ Has(w, p, n) /\ p # "node" => state[n] = "processing"
          /\ Has(w, "node", n) /\ ctx[w].pc = "schedule" => state[n] = "processing"
          /\ Has(w, "node", n) /\ ctx[w].pc = "event" => lock[n] = w
          /\ lock[n] = w => Has(w, "node", n) /\ ctx[w].pc = "event"

Held ==
    error = "none" /\ ~finished =>
        \A n \in Node : state[n] = "processing" => \E w \in Worker, p \in Place : Has(w, p, n)

HInv == PortsOk /\ ActorsOk /\ EventsOk /\ QueuesOk /\ Apart /\ NoRepetition /\ StatesOk /\ Held

-----------------------------------------------------------------------------
(* The view an event has of its node *)

IsView(n, x) ==
    /\ x = [port |-> x.port, p |-> x.p, upd |-> x.upd, cause |-> x.cause, step |-> x.step,
            rest |-> x.rest, event |-> x.event]
    /\ x.port \in [Edge -> Port] /\ x.p \in Processor(n)
    /\ x.upd \in Seq(Touched) /\ x.cause \in Cause /\ x.rest \in Seq(Edge)

\* y differs from x in ports and processor only
Accesses(n, x, y) ==
    /\ IsView(n, y)
    /\ y.cause = x.cause /\ y.step = x.step /\ y.rest = x.rest /\ y.event = x.event

\* y is what a step of event() may make of x
Outcome(n, x, y) ==
    /\ IsView(n, y) /\ y.cause = x.cause
    /\ y.event \in {"-", "idle", "work", "finished"}
    /\ y.event = "-" => StepOk(n, y.step, y.cause, y.rest, y.p)
    /\ Resize(n) => y.event # "work"

-----------------------------------------------------------------------------
(* What the steps rest on besides the invariant: finite sets, the choice   *)
(* of the first worker, the graph, and what event() makes of its view.     *)

Counting ==
    \A S : IsFiniteSet(S) =>
        /\ Cardinality(S) \in Nat
        /\ \A x : /\ IsFiniteSet(S \ {x}) /\ IsFiniteSet(S \union {x})
                  /\ x \in S => Cardinality(S \ {x}) = Cardinality(S) - 1
                  /\ x \notin S => Cardinality(S \union {x}) = Cardinality(S) + 1

FirstOk == \A w \in Worker, ws \in SUBSET Worker : ws # {} => FirstFrom(w, ws) \in ws

EdgesOk ==
    \A n \in Node :
        /\ Inputs[n] \in Seq(Edge) /\ Outputs[n] \in Seq(Edge)
        /\ Graph.kind[n] # "source" => Inputs[n] # <<>> /\ Input(n) \in Edge
        /\ Graph.kind[n] # "sink" => Outputs[n] # <<>> /\ Output(n) \in Edge

EventStepOk ==
    \A n \in Node : \A x :
        IsView(n, x) /\ x.event = "-" /\ StepOk(n, x.step, x.cause, x.rest, x.p)
            => Outcome(n, x, EventStep(n, x))

Grounds == Counting /\ FirstOk /\ EventStepOk
=============================================================================
