------------------------------ MODULE Executor ------------------------------
(***************************************************************************)
(* The pipeline executor of one query: worker threads, the queue they take *)
(* tasks from, the condition variables they sleep on, the async runtime,   *)
(* and the graph of processors they drive through lock-free ports.         *)
(*                                                                         *)
(* The nodes of the graph are sources and sinks, synchronous or not, and   *)
(* transforms and resize processors between them.  An event() is not       *)
(* atomic: every access to a port is a step of its own.                    *)
(*                                                                         *)
(* An actor is a worker thread, 0 .. Workers - 1, or the thread that kills *)
(* the query, Workers.                                                     *)
(***************************************************************************)
EXTENDS Naturals, FiniteSets, Sequences, Functions

\* the members of a finite set, in some order
SetToSeq(S) == CHOOSE f \in [1 .. Cardinality(S) -> S] : IsInjective(f)

CONSTANTS
    Graph,      \* kind: the kinds of the nodes; from, to: the ends of the edges
    MayBeAsync, \* sources and sinks that may be asynchronous processors
    Workers,    \* number of worker threads
    Blocks,     \* blocks a source generates
    Empty,      \* blocks a transform makes nothing of
    MayKill,    \* the query may be killed, or no longer be wanted
    MayFail     \* a processor may fail

Node == DOMAIN Graph.kind
Edge == DOMAIN Graph.from

ASSUME ExecutorAssumption ==
    /\ Graph.kind \in Seq({"source", "transform", "resize", "sink"})
    /\ Graph.from \in Seq(Node) /\ Graph.to \in [Edge -> Node]
    /\ \A n \in Node : /\ Graph.kind[n] # "source" => \E e \in Edge : Graph.to[e] = n
                       /\ Graph.kind[n] # "sink" => \E e \in Edge : Graph.from[e] = n
    /\ MayBeAsync \subseteq {n \in Node : Graph.kind[n] \in {"source", "sink"}}
    /\ Workers \in Nat \ {0}
    /\ Blocks \in Nat
    /\ Empty \subseteq 1 .. Blocks
    /\ MayKill \in BOOLEAN
    /\ MayFail \in BOOLEAN

Worker == 0 .. Workers - 1
Killer == Workers
Actor  == 0 .. Workers
IsSource(n) == Graph.kind[n] = "source"
IsSink(n)   == Graph.kind[n] = "sink"

\* the edges into and out of a node, in some order, and the only one where there is only one
Inputs  == [n \in Node |-> SetToSeq({e \in Edge : Graph.to[e] = n})]
Outputs == [n \in Node |-> SetToSeq({e \in Edge : Graph.from[e] = n})]
Input(n)  == Inputs[n][1]
Output(n) == Outputs[n][1]

VARIABLES
    async,      \* async[n]: the processor's work is asynchronous
    port,       \* the shared status of every edge: data, need, fin
    proc,       \* the processors
    state,      \* the scheduling state of every node ...
    lock,       \* ... and who holds the mutex around it, Actor or Nobody
    ctx,        \* the actors
    sync,       \* per worker: queue of synchronous tasks
    completed,  \* per worker: queue of completed asynchronous tasks
    waiting,    \* workers in the waiting status
    flag,       \* the condition variable's flag of every worker
    running,    \* asynchronous work on the runtime: <<node, worker>>
    ringing,    \* workers the runtime is about to wake up
    waitingAsync,  \* the counter of asynchronous work
    finished,   \* the queue is finished
    error,      \* the error the query ends with: "none", "killed" or "failed"
    consumed    \* history: what every sink has consumed

graphVars == <<port, proc, state, lock>>
queueVars == <<sync, completed, waiting>>
vars == <<async, graphVars, ctx, queueVars, flag, running, ringing, waitingAsync, finished, error, consumed>>

Nobody == Workers + 1
NoTask == <<>>

\* next: the next block of a source; done: is_finish of a source, finished of a sink; started,
\* ended: called_on_start, called_on_finish
NewProcessor == [in |-> <<>>, out |-> <<>>, next |-> 1, started |-> FALSE, ended |-> FALSE,
                 done |-> FALSE]

\* The status of a port is Finished when it is in fi or fo, else HasData or NeedData when it is in
\* waiting_inputs or waiting_outputs, win and wout, else Idle.
NewResize == [in |-> <<>>, out |-> <<>>, initialized |-> FALSE, fi |-> {}, fo |-> {}, win |-> <<>>,
              wout |-> <<>>]

\* node, cause, step, rest, upd: the event under way; edges, tosync, toasync: need_schedule_edges
\* and the ScheduleQueue; wake, then: whom to wake up, and where to go on
Fresh == [pc |-> "loop", task |-> NoTask, node |-> 0, cause |-> <<"other", 0>>, step |-> "-",
          rest |-> <<>>, upd |-> <<>>, edges |-> <<>>, tosync |-> <<>>, toasync |-> <<>>,
          wake |-> {}, then |-> "-"]

\* QueryPipelineExecutor::init: init_schedule_queue asks the sinks for their first event, which is
\* on_start; the tasks go round the workers
InitTasks(want) == SetToSeq({n \in Node : IsSink(n) /\ async[n] = want})
WorkerOf(i) == (i - 1) % Workers
Turns(w, tasks) == [i \in 1 .. (Len(tasks) + Workers - 1 - w) \div Workers |->
                        tasks[(i - 1) * Workers + w + 1]]

Init ==
    /\ async \in {f \in [Node -> BOOLEAN] : \A n \in Node : f[n] => n \in MayBeAsync}
    /\ port = [e \in Edge |-> [data |-> <<>>, need |-> FALSE, fin |-> FALSE]]
    /\ proc = [n \in Node |-> IF Graph.kind[n] = "resize" THEN NewResize ELSE NewProcessor]
    /\ state = [n \in Node |-> IF IsSink(n) THEN "processing" ELSE "idle"]
    /\ lock = [n \in Node |-> Nobody]
    /\ ctx = [a \in Actor |-> IF a = Killer THEN [Fresh EXCEPT !.pc = "alive"] ELSE Fresh]
    /\ sync = [w \in Worker |-> Turns(w, InitTasks(FALSE))]
    /\ completed = [w \in Worker |-> <<>>]
    /\ waiting = {}
    /\ flag = [w \in Worker |-> FALSE]
    /\ running = {<<InitTasks(TRUE)[i], WorkerOf(i)>> : i \in DOMAIN InitTasks(TRUE)}
    /\ ringing = {}
    /\ waitingAsync = Cardinality(running)
    /\ finished = FALSE
    /\ error = "none"
    /\ consumed = [n \in {n \in Node : IsSink(n)} |-> <<>>]

Goto(a, c) == ctx' = [ctx EXCEPT ![a] = c]
At(a, pc) == ctx[a].pc = pc
-----------------------------------------------------------------------------
(* Ports.  x is the view an event has of its node: the ports, its processor p, the edges upd it *)
(* has touched, its next step and, at the end, what it asks for.                                *)

Then(x, step) == [x EXCEPT !.step = step]
Return(x, event) == [x EXCEPT !.step = "-", !.event = event]

\* UpdateTrigger::update_input ("up") and update_output ("down"): once per scheduling cycle
Touch(x, direction, e) ==
    IF \E i \in DOMAIN x.upd : x.upd[i] = <<direction, e>> THEN x
    ELSE [x EXCEPT !.upd = Append(@, <<direction, e>>)]

FinishPort(x, direction, e) ==
    IF x.port[e].fin THEN x ELSE Touch([x EXCEPT !.port[e].fin = TRUE], direction, e)
SetNeedData(x, e) ==
    IF x.port[e].need THEN x ELSE Touch([x EXCEPT !.port[e].need = TRUE], "up", e)
SetNotNeedData(x, e) == [x EXCEPT !.port[e].need = FALSE]
PullData(x, e) ==
    Touch([x EXCEPT !.p.in = x.port[e].data, !.port[e].data = <<>>, !.port[e].need = FALSE], "up", e)
PushData(x, e) ==
    Touch([x EXCEPT !.port[e].data = x.p.out, !.p.out = <<>>], "down", e)

HasData(x, e) == x.port[e].data # <<>>
OutputFinished(x, e) == x.port[e].fin
InputFinished(x, e) == x.port[e].fin /\ ~HasData(x, e)
CanPush(x, e) == x.port[e].need /\ ~HasData(x, e)

-----------------------------------------------------------------------------
(* One step of event(): of SyncSourcer and AsyncSourcer, Transformer, Sinker and AsyncSinker, *)
(* ResizeProcessor                                                                             *)

SourceEvent(n, x) ==
    LET e == Output(n)
    IN  CASE x.step = "begin" ->
                IF x.p.done
                  THEN IF async[n] /\ ~x.p.ended THEN Return(x, "work")
                       ELSE Return(FinishPort(x, "down", e), "finished")
                  ELSE IF ~OutputFinished(x, e) THEN Then(x, "can_push")
                       ELSE IF async[n] THEN Return([x EXCEPT !.p.done = TRUE], "work")
                       ELSE Return(x, "finished")
          [] x.step = "can_push" ->
                IF ~CanPush(x, e) THEN Return(x, "idle")
                ELSE IF x.p.out = <<>> THEN Return(x, "work")
                ELSE Then(x, "push")
          [] x.step = "push" -> Return(PushData(x, e), "idle")

TransformEvent(n, x) ==
    LET i == Input(n)
        o == Output(n)
    IN  CASE x.step = "begin" ->
                IF ~x.p.started THEN Return(x, "work")
                ELSE IF ~OutputFinished(x, o) THEN Then(x, "can_push")
                ELSE IF ~x.p.ended THEN Return(x, "work")
                ELSE Then(x, "finish_input")
          [] x.step = "finish_input" -> Return(FinishPort(x, "up", i), "finished")
          [] x.step = "can_push" ->
                IF ~CanPush(x, o) THEN Then(x, "not_need_data")
                ELSE IF x.p.out # <<>> THEN Then(x, "push")
                ELSE IF x.p.in # <<>> THEN Return(x, "work")
                ELSE Then(x, "has_data")
          [] x.step = "not_need_data" -> Return(SetNotNeedData(x, i), "idle")
          [] x.step = "push" -> Return(PushData(x, o), "idle")
          [] x.step = "has_data" -> Then(x, IF HasData(x, i) THEN "pull" ELSE "finished")
          [] x.step = "pull" -> Return(PullData(x, i), "work")
          [] x.step = "finished" ->
                IF ~InputFinished(x, i) THEN Then(x, "need_data")
                ELSE IF ~x.p.ended THEN Return(x, "work")
                ELSE Then(x, "finish_output")
          [] x.step = "finish_output" -> Return(FinishPort(x, "down", o), "finished")
          [] x.step = "need_data" -> Return(SetNeedData(x, i), "idle")

\* Mutant of SinkEvent: it does not remember that it wants no more.
SinkForgets(n, x) ==
    LET e == Input(n)
    IN  CASE x.step = "begin" ->
                IF ~x.p.started \/ x.p.in # <<>> \/ (x.p.done /\ ~x.p.ended) THEN Return(x, "work")
                ELSE IF ~InputFinished(x, e) THEN Then(x, "has_data")
                ELSE IF ~x.p.ended THEN Return(x, "work")
                ELSE Return(x, "finished")
          [] x.step = "has_data" -> Then(x, IF HasData(x, e) THEN "pull" ELSE "need_data")
          [] x.step = "pull" -> Return(PullData(x, e), "work")
          [] x.step = "need_data" -> Return(SetNeedData(x, e), "idle")

SinkEvent(n, x) ==
    LET e == Input(n)
    IN  CASE x.step = "begin" ->
                IF ~x.p.started THEN Return(x, "work")
                ELSE IF x.p.in # <<>>
                  THEN IF async[n] /\ ~HasData(x, e) THEN Then(x, "need_more") ELSE Return(x, "work")
                ELSE IF x.p.done
                  THEN IF ~x.p.ended THEN Return(x, "work")
                       ELSE Return(FinishPort(x, "up", e), "finished")
                ELSE IF ~InputFinished(x, e) THEN Then(x, "has_data")
                ELSE IF ~x.p.ended THEN Return(x, "work")
                ELSE Return(x, "finished")
          [] x.step = "has_data" -> Then(x, IF HasData(x, e) THEN "pull" ELSE "need_data")
          [] x.step = "pull" ->
                IF async[n] THEN Then(PullData(x, e), "need_more") ELSE Return(PullData(x, e), "work")
          [] x.step = "need_more" -> Return(SetNeedData(x, e), "work")
          [] x.step = "need_data" -> Return(SetNeedData(x, e), "idle")

\* ResizeProcessor between two accesses to ports: what it does next, from the end of
\* event_with_cause to its beginning
ForEach(x, step, edges) == [Then(x, step) EXCEPT !.rest = edges]

\* Mutant of ResizeEnd: finished inputs are not passed on.
ResizeNeverEnds(n, x) ==
    IF x.p.fo = Range(Outputs[n]) THEN ForEach(x, "finish_inputs", Inputs[n]) ELSE Return(x, "idle")

ResizeEnd(n, x) ==
    IF x.p.fo = Range(Outputs[n]) THEN ForEach(x, "finish_inputs", Inputs[n])
    ELSE IF x.p.fi = Range(Inputs[n]) THEN ForEach(x, "finish_outputs", Outputs[n])
    ELSE Return(x, "idle")

ResizeMove(n, x) ==
    IF x.p.wout # <<>> /\ x.p.win # <<>> THEN Then(x, "output_finished") ELSE ResizeEnd(n, x)

ResizeInput(n, x) ==
    IF x.p.fo = Range(Outputs[n]) THEN ForEach(x, "finish_inputs", Inputs[n])
    ELSE IF x.cause[1] = "down" THEN Then(x, "input_finished")
    ELSE ResizeMove(n, x)

ResizeStart(n, x) ==
    IF ~x.p.initialized /\ x.p.wout # <<>>
      THEN ForEach([x EXCEPT !.p.initialized = TRUE], "need_data", Inputs[n])
      ELSE ResizeInput(n, x)


\* "Port is finished when waiting."
ResizeOffer(n, x, o) ==
    IF OutputFinished(x, o)
      THEN ResizeMove(n, [x EXCEPT !.p.fo = @ \union {o}, !.p.wout = Tail(@)])
      ELSE Then(x, "pull")

Enlist(q, e) == IF e \in Range(q) THEN q ELSE Append(q, e)

ResizeEvent(n, x) ==
    LET e    == x.cause[2]
        left == Tail(x.rest)
        next == [x EXCEPT !.rest = left]
    IN  CASE x.step = "begin" ->
                IF x.cause[1] # "up" THEN ResizeStart(n, x)
                ELSE IF OutputFinished(x, e) THEN ResizeStart(n, [x EXCEPT !.p.fo = @ \union {e}])
                ELSE Then(x, "can_push")
          [] x.step = "can_push" ->
                ResizeStart(n, IF CanPush(x, e) THEN [x EXCEPT !.p.wout = Enlist(@, e)] ELSE x)
          [] x.step = "need_data" ->
                LET y == SetNeedData(next, Head(x.rest))
                IN  IF left = <<>> THEN ResizeInput(n, y) ELSE y
          [] x.step = "input_finished" ->
                IF InputFinished(x, e) THEN ResizeMove(n, [x EXCEPT !.p.fi = @ \union {e}])
                ELSE Then(x, "has_data")
          [] x.step = "has_data" ->
                ResizeMove(n, IF HasData(x, e) THEN [x EXCEPT !.p.win = Enlist(@, e)] ELSE x)
          [] x.step = "output_finished" -> ResizeOffer(n, x, Head(x.p.wout))
          [] x.step = "pull" ->
                LET y == PullData(x, Head(x.p.win))
                IN  Then([y EXCEPT !.p.out = y.p.in, !.p.in = <<>>], "push")
          [] x.step = "push" ->
                LET y == PushData(x, Head(x.p.wout))
                IN  ForEach([y EXCEPT !.p.win = Tail(@), !.p.wout = Tail(@)], "pulled_finished",
                            <<Head(x.p.win)>>)
          [] x.step = "pulled_finished" ->
                LET i == Head(x.rest)
                IN  IF InputFinished(x, i)
                      THEN ResizeMove(n, [next EXCEPT !.p.fi = @ \union {i}])
                      ELSE Then(x, "need_more")
          [] x.step = "need_more" -> ResizeMove(n, SetNeedData(next, Head(x.rest)))
          [] x.step = "finish_inputs" ->
                LET y == FinishPort(next, "up", Head(x.rest))
                IN  IF left = <<>> THEN Return(y, "finished") ELSE y
          [] x.step = "finish_outputs" ->
                LET y == FinishPort(next, "down", Head(x.rest))
                IN  IF left = <<>> THEN Return(y, "finished") ELSE y

EventStep(n, x) ==
    CASE Graph.kind[n] = "source" -> SourceEvent(n, x)
      [] Graph.kind[n] = "transform" -> TransformEvent(n, x)
      [] Graph.kind[n] = "resize" -> ResizeEvent(n, x)
      [] Graph.kind[n] = "sink" -> SinkEvent(n, x)

\* process(), async_process(): what the processor may be afterwards
Processed(n) ==
    LET p == proc[n]
    IN  CASE IsSource(n) /\ p.done -> {[p EXCEPT !.ended = TRUE]}
          [] IsSource(n) /\ ~p.done /\ p.next <= Blocks ->
                {[p EXCEPT !.out = <<<<n, p.next>>>>, !.next = @ + 1]}
          [] IsSource(n) /\ ~p.done /\ p.next > Blocks -> {[p EXCEPT !.done = TRUE]}
          [] ~IsSource(n) /\ ~p.started -> {[p EXCEPT !.started = TRUE]}
          [] Graph.kind[n] = "transform" /\ p.started /\ p.in # <<>> ->
                {[p EXCEPT !.out = IF p.in[1][2] \in Empty THEN <<>> ELSE p.in, !.in = <<>>]}
          [] IsSink(n) /\ p.started /\ p.in # <<>> ->
                {[p EXCEPT !.in = <<>>, !.done = d] : d \in {FALSE, async[n]}}
          [] OTHER -> {[p EXCEPT !.ended = TRUE]}

Process(n) ==
    /\ \E p \in Processed(n) : proc' = [proc EXCEPT ![n] = p]
    /\ consumed' = IF IsSink(n) /\ proc[n].started
                     THEN [consumed EXCEPT ![n] = @ \o proc[n].in] ELSE consumed
-----------------------------------------------------------------------------
(* The queue of tasks *)

Tasks(w) == Len(sync[w]) + Len(completed[w])
NoTasks == \A w \in Worker : Tasks(w) = 0

\* the workers from w on, in the order pop_task and best_worker_id try them
Distance(w, v) == (v + Workers - w) % Workers
FirstFrom(w, ws) == CHOOSE v \in ws : \A u \in ws : Distance(w, v) <= Distance(w, u)
Busy(q, c) == {w \in Worker : q[w] # <<>> \/ c[w] # <<>>}

\* whom push_tasks and steal_task_to_context wake up, given the queues they leave
WakeFor(w, q, c) ==
    LET best == FirstFrom((w + 1) % Workers, Busy(q, c))
    IN  IF best \in waiting THEN {best} ELSE waiting

\* Mutant of AndWake: only one of the workers is woken.
AndWakeOnce(w, us, c) ==
    IF us = {} THEN Goto(w, c) /\ UNCHANGED waiting
    ELSE \E u \in us : /\ Goto(w, [c EXCEPT !.pc = "wake", !.wake = {u}, !.then = c.pc])
                       /\ UNCHANGED waiting

\* a worker wakes up the workers us, if any, and goes on with c
AndWake(w, us, c) ==
    IF us = {} THEN Goto(w, c) /\ UNCHANGED waiting
    ELSE \E u \in us : /\ Goto(w, [c EXCEPT !.pc = "wake", !.wake = {u}, !.then = c.pc])
                       /\ waiting' = waiting \ {u}

-----------------------------------------------------------------------------
(* execute_single_thread *)

Loop(w) ==
    /\ At(w, "loop")
    /\ Goto(w, IF finished THEN [Fresh EXCEPT !.pc = "exit"]
               ELSE [ctx[w] EXCEPT !.pc = IF ctx[w].task = NoTask THEN "steal" ELSE "exec"])
    /\ UNCHANGED <<async, graphVars, queueVars, flag, running, ringing, waitingAsync, finished,
                   error, consumed>>

\* steal_task_to_context: take a task, and pass the rest on to a sleeping worker ...
Steal(w) ==
    /\ At(w, "steal") /\ ~NoTasks
    /\ LET v  == FirstFrom(w, Busy(sync, completed))
           fromAsync == completed[v] # <<>>
           task  == IF fromAsync THEN Head(completed[v]) ELSE <<"sync", Head(sync[v])>>
           sync1 == IF fromAsync THEN sync ELSE [sync EXCEPT ![v] = Tail(@)]
           comp1 == IF fromAsync THEN [completed EXCEPT ![v] = Tail(@)] ELSE completed
       IN  /\ sync' = sync1 /\ completed' = comp1
           /\ AndWake(w, IF Busy(sync1, comp1) = {} THEN {} ELSE WakeFor(w, sync1, comp1),
                      [ctx[w] EXCEPT !.pc = "loop", !.task = task])
    /\ UNCHANGED <<async, graphVars, flag, running, ringing, waitingAsync, finished, error, consumed>>

\* is_last_active_worker
LastActive == Cardinality(waiting) + 1 >= Workers

\* ... finish, when there is none and there will be none ...
StealFinishes(w) ==
    /\ At(w, "steal") /\ NoTasks
    /\ waitingAsync = 0 /\ LastActive
    /\ Goto(w, [ctx[w] EXCEPT !.pc = "finish", !.then = "loop"])
    /\ UNCHANGED <<async, graphVars, queueVars, flag, running, ringing, waitingAsync, finished,
                   error, consumed>>

\* ... or sleep
StealWaits(w) ==
    /\ At(w, "steal") /\ NoTasks
    /\ waitingAsync # 0 \/ ~LastActive
    /\ waiting' = waiting \union {w}
    /\ Goto(w, [ctx[w] EXCEPT !.pc = "wait"])
    /\ UNCHANGED <<async, graphVars, sync, completed, flag, running, ringing, waitingAsync,
                   finished, error, consumed>>

\* WorkersCondvar::wait: finished is looked at before the thread blocks, and then only when it
\* is notified
Wait(w) ==
    /\ At(w, "wait")
    /\ IF flag[w] \/ finished
         THEN flag' = [flag EXCEPT ![w] = FALSE] /\ Goto(w, [ctx[w] EXCEPT !.pc = "loop"])
         ELSE Goto(w, [ctx[w] EXCEPT !.pc = "asleep"]) /\ UNCHANGED flag
    /\ UNCHANGED <<async, graphVars, queueVars, running, ringing, waitingAsync, finished, error,
                   consumed>>

Awake(w) ==
    /\ At(w, "asleep") /\ flag[w]
    /\ flag' = [flag EXCEPT ![w] = FALSE]
    /\ Goto(w, [ctx[w] EXCEPT !.pc = "loop"])
    /\ UNCHANGED <<async, graphVars, queueVars, running, ringing, waitingAsync, finished, error,
                   consumed>>

\* WorkersCondvar::wakeup
Wake(a) ==
    /\ At(a, "wake")
    /\ \E u \in ctx[a].wake :
          /\ flag' = [flag EXCEPT ![u] = TRUE]
          /\ Goto(a, IF ctx[a].wake = {u}
                       THEN [ctx[a] EXCEPT !.pc = ctx[a].then, !.wake = {}, !.then = "-"]
                       ELSE [ctx[a] EXCEPT !.wake = @ \ {u}])
    /\ UNCHANGED <<async, graphVars, queueVars, running, ringing, waitingAsync, finished, error,
                   consumed>>

\* execute_task: process(), or the result of asynchronous work; then the graph is scheduled, unless
\* the queue is finished
Execute(w) ==
    /\ At(w, "exec") /\ ctx[w].task[1] # "failed"
    /\ LET n == ctx[w].task[2]
       IN  /\ IF ctx[w].task[1] = "sync" THEN Process(n) ELSE UNCHANGED <<proc, consumed>>
           /\ Goto(w, IF finished THEN [Fresh EXCEPT !.pc = "exit"]
                      ELSE [Fresh EXCEPT !.pc = "schedule", !.node = n])
    /\ UNCHANGED <<async, port, state, lock, queueVars, flag, running, ringing, waitingAsync,
                   finished, error>>

\* the thread returns the error: QueryPipelineExecutor::finish, which keeps the first one
ExecuteFails(w) ==
    /\ At(w, "exec")
    /\ ctx[w].task[1] = "failed" \/ (ctx[w].task[1] = "sync" /\ MayFail)
    /\ error' = IF error = "none" THEN "failed" ELSE error
    /\ Goto(w, [Fresh EXCEPT !.pc = "finish", !.then = "exit"])
    /\ UNCHANGED <<async, graphVars, queueVars, flag, running, ringing, waitingAsync, finished,
                   consumed>>

-----------------------------------------------------------------------------
(* ExecutingGraph::schedule_queue *)

NextState(event) ==
    CASE event = "finished" -> "finished"
      [] event = "idle" -> "idle"
      [] event = "work" -> "processing"

\* One step of event() of the node that c names, the first together with locking its mutex; after
\* the last one the updated edges are taken over, the node's state is set and its mutex released.
EventOf(w, c) ==
    LET n == c.node
        x == EventStep(n, [port |-> port, p |-> proc[n], upd |-> c.upd, cause |-> c.cause, step |-> c.step,
                          rest |-> c.rest, event |-> "-"])
        add(q, want) == IF x.event = "work" /\ async[n] = want THEN Append(q, n) ELSE q
    IN  /\ port' = x.port
        /\ proc' = [proc EXCEPT ![n] = x.p]
        /\ IF x.event = "-"
              THEN /\ lock' = [lock EXCEPT ![n] = w]
                   /\ Goto(w, [c EXCEPT !.pc = "event", !.upd = x.upd, !.step = x.step, !.rest = x.rest])
                   /\ UNCHANGED state
              ELSE /\ state' = [state EXCEPT ![n] = NextState(x.event)]
                   /\ lock' = [lock EXCEPT ![n] = Nobody]
                   /\ Goto(w, [c EXCEPT !.pc = "edges", !.node = 0, !.cause = Fresh.cause, !.step = "-",
                                        !.rest = <<>>, !.upd = <<>>,
                                        !.edges = x.upd \o @,
                                        !.tosync = add(@, FALSE), !.toasync = add(@, TRUE)])

\* the node that was executed is scheduled whatever its state
ScheduleNode(w) ==
    /\ At(w, "schedule")
    /\ lock[ctx[w].node] = Nobody
    /\ EventOf(w, [ctx[w] EXCEPT !.step = "begin"])
    /\ UNCHANGED <<async, queueVars, flag, running, ringing, waitingAsync, finished, error, consumed>>

Event(w) ==
    /\ At(w, "event")
    /\ EventOf(w, ctx[w])
    /\ UNCHANGED <<async, queueVars, flag, running, ringing, waitingAsync, finished, error, consumed>>

\* the node at the other end of an updated edge
Target(edge) == IF edge[1] = "up" THEN Graph.from[edge[2]] ELSE Graph.to[edge[2]]

\* Mutant of ScheduleEdge: a node at the end of an updated edge is scheduled though busy.
ScheduleAnyEdge(w) ==
    /\ At(w, "edges") /\ ctx[w].edges # <<>>
    /\ LET n == Target(Head(ctx[w].edges))
       IN  /\ lock[n] = Nobody
           /\ EventOf(w, [ctx[w] EXCEPT !.edges = Tail(@), !.node = n, !.step = "begin",
                                     !.cause = Head(ctx[w].edges)])
    /\ UNCHANGED <<async, queueVars, flag, running, ringing, waitingAsync, finished, error, consumed>>

\* a node at the end of an updated edge is scheduled when it is idle
ScheduleEdge(w) ==
    /\ At(w, "edges") /\ ctx[w].edges # <<>>
    /\ LET n == Target(Head(ctx[w].edges))
           c == [ctx[w] EXCEPT !.edges = Tail(@)]
       IN  /\ lock[n] = Nobody
           /\ IF state[n] = "idle" THEN
                EventOf(w, [c EXCEPT !.node = n, !.cause = Head(ctx[w].edges), !.step = "begin"])
              ELSE Goto(w, c) /\ UNCHANGED <<port, proc, state, lock>>
    /\ UNCHANGED <<async, queueVars, flag, running, ringing, waitingAsync, finished, error, consumed>>

\* ScheduleQueue::schedule: asynchronous work is spawned ...
Spawn(w) ==
    /\ At(w, "edges") /\ ctx[w].edges = <<>> /\ ctx[w].toasync # <<>>
    /\ waitingAsync' = waitingAsync + 1
    /\ running' = running \union {<<Head(ctx[w].toasync), w>>}
    /\ Goto(w, [ctx[w] EXCEPT !.toasync = Tail(@)])
    /\ UNCHANGED <<async, graphVars, queueVars, flag, ringing, finished, error, consumed>>

\* ... the first synchronous task stays with the worker, and the others go to the queue
Dispatch(w) ==
    /\ At(w, "edges") /\ ctx[w].edges = <<>> /\ ctx[w].toasync = <<>>
    /\ LET q == ctx[w].tosync
           sync1 == [sync EXCEPT ![w] = @ \o Tail(q)]
       IN  IF q = <<>> THEN Goto(w, Fresh) /\ UNCHANGED <<sync, waiting>>
           ELSE /\ sync' = IF Len(q) > 1 THEN sync1 ELSE sync
                /\ AndWake(w, IF Len(q) > 1 THEN WakeFor(w, sync1, completed) ELSE {},
                           [Fresh EXCEPT !.task = <<"sync", Head(q)>>])
    /\ UNCHANGED <<async, graphVars, completed, flag, running, ringing, waitingAsync, finished,
                   error, consumed>>
-----------------------------------------------------------------------------
(* QueryExecutorTasksQueue::finish, the thread that kills the query, the async runtime *)

Finish(a) ==
    /\ At(a, "finish")
    /\ finished' = TRUE
    /\ Goto(a, [ctx[a] EXCEPT !.pc = "wake_all"])
    /\ UNCHANGED <<async, graphVars, queueVars, flag, running, ringing, waitingAsync, error, consumed>>

WakeAll(a) ==
    /\ At(a, "wake_all")
    /\ waiting' = {}
    /\ Goto(a, IF waiting = {} THEN [ctx[a] EXCEPT !.pc = ctx[a].then, !.then = "-"]
               ELSE [ctx[a] EXCEPT !.pc = "wake", !.wake = waiting])
    /\ UNCHANGED <<async, graphVars, sync, completed, flag, running, ringing, waitingAsync, finished,
                   error, consumed>>

\* QueryPipelineExecutor::finish from outside: with a cause, or without one
Kill ==
    /\ MayKill /\ At(Killer, "alive")
    /\ error' \in {error, IF error = "none" THEN "killed" ELSE error}
    /\ Goto(Killer, [Fresh EXCEPT !.pc = "finish", !.then = "exit"])
    /\ UNCHANGED <<async, graphVars, queueVars, flag, running, ringing, waitingAsync, finished,
                   consumed>>

\* Mutant of CompletedAsyncTask: it leaves it to the workers to look.
CompletedQuietly(n, w, result) ==
    /\ running' = running \ {<<n, w>>}
    /\ completed' = [completed EXCEPT ![w] = Append(@, <<result, n>>)]
    /\ waitingAsync' = waitingAsync - 1
    /\ UNCHANGED <<async, port, state, lock, ctx, sync, waiting, flag, ringing, finished, error>>

\* completed_async_task
CompletedAsyncTask(n, w, result) ==
    /\ running' = running \ {<<n, w>>}
    /\ completed' = [completed EXCEPT ![w] = Append(@, <<result, n>>)]
    /\ waitingAsync' = waitingAsync - 1
    /\ IF waiting = {} THEN UNCHANGED <<waiting, ringing>>
       ELSE \E u \in IF w \in waiting THEN {w} ELSE waiting :
               waiting' = waiting \ {u} /\ ringing' = ringing \union {u}
    /\ UNCHANGED <<async, port, state, lock, ctx, sync, flag, finished, error>>

\* ProcessorAsyncTask::poll: the work is done, it failed, or it is given up
AsyncDone(n, w) ==
    /\ <<n, w>> \in running
    /\ Process(n)
    /\ CompletedAsyncTask(n, w, "done")

AsyncFails(n, w) ==
    /\ <<n, w>> \in running /\ MayFail
    /\ CompletedAsyncTask(n, w, "failed")
    /\ UNCHANGED <<proc, consumed>>

AsyncDropped(n, w) ==
    /\ <<n, w>> \in running /\ finished
    /\ running' = running \ {<<n, w>>}
    /\ UNCHANGED <<async, graphVars, ctx, queueVars, flag, ringing, waitingAsync, finished, error,
                   consumed>>

\* the runtime's wakeup, after it has released the queue
RuntimeWakes(u) ==
    /\ u \in ringing
    /\ ringing' = ringing \ {u}
    /\ flag' = [flag EXCEPT ![u] = TRUE]
    /\ UNCHANGED <<async, graphVars, ctx, queueVars, running, waitingAsync, finished, error, consumed>>

-----------------------------------------------------------------------------
Work(w) ==
    \/ Loop(w) \/ Steal(w) \/ StealFinishes(w) \/ StealWaits(w) \/ Wait(w) \/ Awake(w)
    \/ Execute(w) \/ ExecuteFails(w)
    \/ ScheduleNode(w) \/ ScheduleEdge(w) \/ Event(w) \/ Spawn(w) \/ Dispatch(w)

EndQuery(a) == Finish(a) \/ WakeAll(a) \/ Wake(a)

Async(n, w) == AsyncDone(n, w) \/ AsyncFails(n, w) \/ AsyncDropped(n, w)

Ended == \A w \in Worker : At(w, "exit")

Terminating == Ended /\ UNCHANGED vars

Running ==
    \/ \E w \in Worker : Work(w) \/ RuntimeWakes(w)
    \/ \E a \in Actor : EndQuery(a)
    \/ \E n \in Node, w \in Worker : Async(n, w)

Next == Running \/ Kill \/ Terminating

\* Some thread that can run does, or the runtime polls a task; a query need not be killed.
Fairness == WF_vars(Running)

Spec == Init /\ [][Next]_vars /\ Fairness
-----------------------------------------------------------------------------
(* Properties *)

SourceNode == {n \in Node : IsSource(n)}
SinkNode == {n \in Node : IsSink(n)}
Block == SourceNode \X (1 .. Blocks)
Slot == {<<>>} \union {<<b>> : b \in Block}
Pc == {"loop", "steal", "wait", "asleep", "wake", "exec", "schedule", "edges", "event", "finish",
       "wake_all", "exit"}
Touched == {"up", "down"} \X Edge
Task == {NoTask} \union {<<kind, n>> : kind \in {"sync", "done", "failed"}, n \in Node}

\* The variables have their types.
TypeOK ==
    /\ async \in [Node -> BOOLEAN]
    /\ port \in [Edge -> [data : Slot, need : BOOLEAN, fin : BOOLEAN]]
    /\ \A n \in Node :
          proc[n] \in IF Graph.kind[n] = "resize"
                       THEN [in : Slot, out : Slot, initialized : BOOLEAN, fi : SUBSET Edge,
                             fo : SUBSET Edge, win : Seq(Edge), wout : Seq(Edge)]
                       ELSE [in : Slot, out : Slot, next : 1 .. Blocks + 1, started : BOOLEAN,
                             ended : BOOLEAN, done : BOOLEAN]
    /\ state \in [Node -> {"idle", "processing", "finished"}]
    /\ lock \in [Node -> Worker \union {Nobody}]
    /\ \A a \in Actor :
          /\ ctx[a].pc \in Pc \union {"alive"} /\ ctx[a].task \in Task /\ ctx[a].node \in Node \union {0}
          /\ ctx[a].wake \subseteq Worker /\ ctx[a].then \in Pc \union {"-"}
          /\ ctx[a].edges \in Seq(Touched) /\ ctx[a].upd \in Seq(Touched)
          /\ ctx[a].tosync \in Seq(Node) /\ ctx[a].toasync \in Seq(Node)
    /\ sync \in [Worker -> Seq(Node)]
    /\ completed \in [Worker -> Seq(Task \ {NoTask})]
    /\ waiting \subseteq Worker /\ ringing \subseteq Worker
    /\ flag \in [Worker -> BOOLEAN]
    /\ running \subseteq Node \X Worker
    /\ waitingAsync \in Nat
    /\ finished \in BOOLEAN /\ error \in {"none", "killed", "failed"}
    /\ consumed \in [SinkNode -> Seq(Block)]

\* where a worker holds a processor: as its task, in its ScheduleQueue, or in schedule_queue
InHands(w, n) ==
    /\ \/ ctx[w].task # NoTask /\ ctx[w].task[2] = n
       \/ ctx[w].node = n
       \/ \E i \in DOMAIN ctx[w].tosync : ctx[w].tosync[i] = n
       \/ \E i \in DOMAIN ctx[w].toasync : ctx[w].toasync[i] = n

InQueue(w, n) ==
    {<<w, "sync", i>> : i \in {i \in DOMAIN sync[w] : sync[w][i] = n}} \union
    {<<w, "done", i>> : i \in {i \in DOMAIN completed[w] : completed[w][i][2] = n}}

Holders(n) ==
    {<<w, "hands", 0>> : w \in {w \in Worker : InHands(w, n)}}
        \union (UNION {InQueue(w, n) : w \in Worker})
        \union {<<w, "runtime", 0>> : w \in {w \in Worker : <<n, w>> \in running}}

\* The executor shares processors between threads without a lock around process(): a processor
\* is never in two places, a worker's hands, a queue of tasks or the runtime, at once; and one
\* that schedule_queue has put into State::Processing is in one of them, whatever edges of other
\* threads find it busy meanwhile, until the query ends.
OneHolder ==
    /\ \A n \in Node :
        /\ Cardinality(Holders(n)) <= 1
        /\ state[n] = "processing" /\ error = "none" /\ ~finished => Holders(n) # {}
    /\ TypeOK

\* steal_task_to_context finishes the queue because "no new tasks will be generated": it never
\* does while a processor has not finished, so that execute() never fails a query that nothing
\* went wrong in with "Pipeline graph is not finished" (assert_finished_graph).
FinishedMeansDone ==
    finished /\ error = "none" /\ At(Killer, "alive") => \A n \in Node : state[n] = "finished"

Kept == SourceNode \X ((1 .. Blocks) \ Empty)


\* wait_worker asserts that the worker is not waiting yet: a worker leaves the waiting status
\* before it returns from wait(), as long as the queue is not finished.
WaitingIsAsleep ==
    ~finished => \A w \in waiting : ctx[w].pc \in {"wait", "asleep"} /\ ~flag[w] /\ w \notin ringing

\* on_finish of a sink is the last call it gets: nothing is consumed after it.
NothingAfterOnFinish ==
    [][\A n \in SinkNode : proc[n].ended => consumed'[n] = consumed[n]]_consumed

\* Every query ends: no wake-up is lost, whoever finishes, fails or kills it.
QueryEnds == <>Ended
=============================================================================
