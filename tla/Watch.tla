------------------------------- MODULE Watch -------------------------------
(***************************************************************************)
(* The watch service of a meta-service node.  The state machine publishes  *)
(* every change of a key to the dispatcher, a task that owns the watchers  *)
(* and reads one unbounded queue of commands; it forwards the changes to   *)
(* the watchers over bounded channels.  A watch request registers with the *)
(* dispatcher, may ask for a first copy of its keys (initial_flush), and   *)
(* ends when its client goes away.                                         *)
(*                                                                         *)
(* Every change has a number, the seq of the record it writes: kv[k] is    *)
(* the number of the record of k, 0 when there is none.                    *)
(***************************************************************************)
EXTENDS Naturals, FiniteSets, SequencesExt

CONSTANTS
    Key,
    Watcher,     \* watch requests; each is made once
    Requests,    \* what each may ask for, [keys, filter, flush]: key range, FilterType, initial_flush
    Entries,     \* the puts and deletes of a log entry, a sequence of [key, put]
    Cap,         \* the size of a watcher's channel, mpsc::channel(4) in the code
    MaxChanges,  \* bound on the changes a behaviour makes
    MayInstall   \* whether the leader may install a snapshot on this node

ASSUME WatchAssumption ==
    /\ Requests \in [Watcher -> SUBSET [keys : SUBSET Key, filter : {"all", "update", "delete"},
                                        flush : BOOLEAN]]
    /\ Entries \subseteq Seq([key : Key, put : BOOLEAN])
    /\ Cap \in Nat \ {0}
    /\ MaxChanges \in Nat
    /\ MayInstall \in BOOLEAN

VARIABLES
    kv,        \* the records of the state machine
    changes,   \* the changes published so far, in order (history)
    clock,     \* the last change number
    queue,     \* the commands the dispatcher has not received
    doing,     \* what the dispatcher is doing: the responses still to send
    watchers,  \* Dispatcher::watchers, by watcher_id
    failed,    \* the watchers `dispatch` could not send to
    pc,        \* where each watch request is
    req,       \* what it asks for
    chan,      \* its channel
    got,       \* what its client has received (history)
    since,     \* the changes published before its add command (history)
    unbroken   \* no snapshot was installed since it was made (history)

stateVars == <<kv, changes, clock>>
dispatcherVars == <<doing, watchers, failed>>
clientVars == <<req, got, since>>
vars == <<stateVars, queue, dispatcherVars, pc, chan, clientVars, unbroken>>

NoRequest == [keys |-> {}, filter |-> "all", flush |-> FALSE]

Init ==
    /\ kv = [k \in Key |-> 0]
    /\ changes = <<>>
    /\ clock = 0
    /\ queue = <<>>
    /\ doing = <<>>
    /\ watchers = <<>>
    /\ failed = {}
    /\ pc = [w \in Watcher |-> "new"]
    /\ req = [w \in Watcher |-> NoRequest]
    /\ chan = [w \in Watcher |-> <<>>]
    /\ got = [w \in Watcher |-> <<>>]
    /\ since = [w \in Watcher |-> 0]
    /\ unbroken = [w \in Watcher |-> FALSE]

-----------------------------------------------------------------------------
(* The state machine *)

\* a change event: record n of `key` was written, or deleted by change n
Change(key, n, put) == [key |-> key, n |-> n, put |-> put]

Update(c) == [do |-> "update", change |-> c]

\* push_change: a deletion of what is not there is no change
Effective(entry) == SelectSeq(entry, LAMBDA op : op.put \/ kv[op.key] # 0)

\* The state machine applies a log entry under its write lock and then queues the changes
Apply(entry) ==
    LET ops == Effective(entry)
        new == [i \in DOMAIN ops |-> Change(ops[i].key, clock + i, ops[i].put)]
        At(k) == CHOOSE i \in DOMAIN ops : ops[i].key = k
    IN  /\ ops # <<>>
        /\ clock + Len(ops) <= MaxChanges
        /\ clock' = clock + Len(ops)
        /\ kv' = [k \in Key |->
                    IF \E i \in DOMAIN ops : ops[i].key = k
                    THEN IF ops[At(k)].put THEN clock + At(k) ELSE 0
                    ELSE kv[k]]
        /\ changes' = changes \o new
        /\ queue' = queue \o [i \in DOMAIN new |-> Update(new[i])]
        /\ UNCHANGED <<dispatcherVars, pc, chan, clientVars, unbroken>>

\* install_snapshot_v003 replaces the records by those of the leader's snapshot; no event is sent
Install ==
    /\ MayInstall
    /\ clock < MaxChanges
    /\ clock' = clock + 1
    /\ kv' \in {m \in [Key -> 0 .. clock + 1] :
                   /\ m # kv
                   /\ \A k \in Key : m[k] \in {0, kv[k], clock + 1}}
    /\ unbroken' = [w \in Watcher |-> FALSE]
    /\ UNCHANGED <<changes, queue, dispatcherVars, pc, chan, clientVars>>

-----------------------------------------------------------------------------
(* A watch request *)

\* grpc `watch`: make the channel and ask the dispatcher to add the watcher
Watch(w) ==
    /\ pc[w] = "new"
    /\ \E r \in Requests[w] : req' = [req EXCEPT ![w] = r]
    /\ queue' = Append(queue, [do |-> "add", watcher |-> w])
    /\ since' = [since EXCEPT ![w] = Len(changes)]
    /\ unbroken' = [unbroken EXCEPT ![w] = TRUE]
    /\ pc' = [pc EXCEPT ![w] = "adding"]
    /\ UNCHANGED <<stateVars, dispatcherVars, chan, got>>

\* the answer of the dispatcher arrives and the WatchStream is made
Added(w) ==
    /\ pc[w] = "added"
    /\ pc' = [pc EXCEPT ![w] = IF req[w].flush THEN "flushing" ELSE "open"]
    /\ UNCHANGED <<stateVars, queue, dispatcherVars, chan, clientVars, unbroken>>

\* the records of the range, in the order of the keys (any order will do)
Copy(keys) ==
    LET ks == SetToSeq({k \in keys : kv[k] # 0})
    IN  [i \in DOMAIN ks |-> Change(ks[i], kv[ks[i]], TRUE)]

\* Mutant of Flush: the copy is not queued behind the updates.
FlushAround(w) ==
    /\ pc[w] = "flushing"
    /\ queue' = <<[do |-> "flush", watcher |-> w, copy |-> Copy(req[w].keys)]>> \o queue
    /\ pc' = [pc EXCEPT ![w] = "open"]
    /\ UNCHANGED <<stateVars, dispatcherVars, chan, clientVars, unbroken>>

\* send_range, under the write lock of the state machine: read the range and queue the copy
Flush(w) ==
    /\ pc[w] = "flushing"
    /\ queue' = Append(queue, [do |-> "flush", watcher |-> w, copy |-> Copy(req[w].keys)])
    /\ pc' = [pc EXCEPT ![w] = "open"]
    /\ UNCHANGED <<stateVars, dispatcherVars, chan, clientVars, unbroken>>

\* the channel of a client that goes away is closed; what is known of the client ends
Forget(w) ==
    /\ chan' = [chan EXCEPT ![w] = <<>>]
    /\ got' = [got EXCEPT ![w] = <<>>]
    /\ since' = [since EXCEPT ![w] = 0]
    /\ unbroken' = [unbroken EXCEPT ![w] = FALSE]

\* the client of a request that has no WatchStream yet goes away: nothing tells the dispatcher
Abandon(w) ==
    /\ pc[w] \in {"adding", "added"}
    /\ pc' = [pc EXCEPT ![w] = "abandoned"]
    /\ Forget(w)
    /\ UNCHANGED <<stateVars, queue, dispatcherVars, req>>

\* Mutant of Drop: the dispatcher is not told.
DropQuietly(w) ==
    /\ pc[w] \in {"flushing", "open"}
    /\ pc' = [pc EXCEPT ![w] = "closed"]
    /\ Forget(w)
    /\ UNCHANGED <<stateVars, queue, dispatcherVars, req>>

\* WatchStream::drop
Drop(w) ==
    /\ pc[w] \in {"flushing", "open"}
    /\ queue' = Append(queue, [do |-> "remove", watcher |-> w])
    /\ pc' = [pc EXCEPT ![w] = "closed"]
    /\ Forget(w)
    /\ UNCHANGED <<stateVars, dispatcherVars, req>>

\* WatchStream::poll_next
Receive(w) ==
    /\ pc[w] = "open"
    /\ chan[w] # <<>>
    /\ got' = [got EXCEPT ![w] = Append(@, Head(chan[w]))]
    /\ chan' = [chan EXCEPT ![w] = Tail(@)]
    /\ UNCHANGED <<stateVars, queue, dispatcherVars, pc, req, since, unbroken>>

-----------------------------------------------------------------------------
(* The dispatcher *)

\* the receiver of the channel is dropped
Gone(w) == pc[w] \in {"closed", "abandoned"}

\* the filter of `dispatch`
Interested(r, c) ==
    CASE r.filter = "all" -> TRUE
      [] r.filter = "update" -> c.put
      [] r.filter = "delete" -> ~c.put

Matches(r, c) == c.key \in r.keys /\ Interested(r, c)

Send(w, c, flush) == [to |-> w, change |-> c, flush |-> flush]

\* the watchers of the key, by watcher_id
Dispatches(c) ==
    LET to == SelectSeq(watchers, LAMBDA w : Matches(req[w], c))
    IN  [i \in DOMAIN to |-> Send(to[i], c, FALSE)]

Stream(cmd) == [i \in DOMAIN cmd.copy |-> Send(cmd.watcher, cmd.copy[i], TRUE)]

Idle == doing = <<>> /\ failed = {}

\* add_watcher: the client is told unless it has gone
ReceiveAdd ==
    /\ Idle /\ queue # <<>> /\ Head(queue).do = "add"
    /\ LET w == Head(queue).watcher
       IN  /\ watchers' = Append(watchers, w)
           /\ pc' = [pc EXCEPT ![w] = IF @ = "adding" THEN "added" ELSE @]
    /\ queue' = Tail(queue)
    /\ UNCHANGED <<stateVars, doing, failed, chan, clientVars, unbroken>>

\* remove_watcher, also when it was removed before
ReceiveRemove ==
    /\ Idle /\ queue # <<>> /\ Head(queue).do = "remove"
    /\ watchers' = SelectSeq(watchers, LAMBDA w : w # Head(queue).watcher)
    /\ queue' = Tail(queue)
    /\ UNCHANGED <<stateVars, doing, failed, pc, chan, clientVars, unbroken>>

\* `dispatch` and `send_stream` begin
ReceiveUpdate ==
    /\ Idle /\ queue # <<>> /\ Head(queue).do \in {"update", "flush"}
    /\ doing' = IF Head(queue).do = "update" THEN Dispatches(Head(queue).change)
                ELSE Stream(Head(queue))
    /\ queue' = Tail(queue)
    /\ UNCHANGED <<stateVars, watchers, failed, pc, chan, clientVars, unbroken>>

\* Mutant of SendResponse: a response a full channel has no room for is dropped.
SendOrSkip ==
    /\ doing # <<>>
    /\ LET w == Head(doing).to
       IN  /\ ~Gone(w)
           /\ chan' = IF Len(chan[w]) < Cap THEN [chan EXCEPT ![w] = Append(@, Head(doing))]
                      ELSE chan
    /\ doing' = Tail(doing)
    /\ UNCHANGED <<stateVars, queue, watchers, failed, pc, clientVars, unbroken>>

\* a response is sent once the channel has room for it
SendResponse ==
    /\ doing # <<>>
    /\ LET w == Head(doing).to
       IN  /\ ~Gone(w)
           /\ Len(chan[w]) < Cap
           /\ chan' = [chan EXCEPT ![w] = Append(@, Head(doing))]
    /\ doing' = Tail(doing)
    /\ UNCHANGED <<stateVars, queue, watchers, failed, pc, clientVars, unbroken>>

\* Mutant of SendFails: `dispatch` returns at the first watcher it cannot reach.
SendFailsReturns ==
    /\ doing # <<>>
    /\ Gone(Head(doing).to)
    /\ doing' = <<>>
    /\ failed' = IF Head(doing).flush THEN failed ELSE failed \cup {Head(doing).to}
    /\ UNCHANGED <<stateVars, queue, watchers, pc, chan, clientVars, unbroken>>

\* Mutant of SendFails: the channel of a watcher that is gone is not closed.
SendFailsInFlush ==
    /\ doing # <<>>
    /\ Head(doing).flush
    /\ Gone(Head(doing).to)
    /\ doing' = <<>>
    /\ UNCHANGED <<stateVars, queue, watchers, failed, pc, chan, clientVars, unbroken>>

\* the channel is closed: `dispatch` goes on to the next watcher, `send_stream` ends
SendFails ==
    /\ doing # <<>>
    /\ Gone(Head(doing).to)
    /\ IF Head(doing).flush
       THEN doing' = <<>> /\ failed' = failed
       ELSE doing' = Tail(doing) /\ failed' = failed \cup {Head(doing).to}
    /\ UNCHANGED <<stateVars, queue, watchers, pc, chan, clientVars, unbroken>>

\* Mutant of RemoveFailed: the watchers stay.
RemoveForgets ==
    /\ doing = <<>> /\ failed # {}
    /\ failed' = {}
    /\ UNCHANGED <<stateVars, queue, doing, watchers, pc, chan, clientVars, unbroken>>

\* the end of `dispatch`
RemoveFailed ==
    /\ doing = <<>> /\ failed # {}
    /\ watchers' = SelectSeq(watchers, LAMBDA w : w \notin failed)
    /\ failed' = {}
    /\ UNCHANGED <<stateVars, queue, doing, pc, chan, clientVars, unbroken>>

Dispatcher ==
    ReceiveAdd \/ ReceiveRemove \/ ReceiveUpdate \/ SendResponse \/ SendFails \/ RemoveFailed

Handler(w) == Added(w) \/ Flush(w)

Client(w) == Receive(w) \/ Drop(w) \/ Abandon(w)

Next ==
    \/ \E entry \in Entries : Apply(entry)
    \/ Install
    \/ \E w \in Watcher : Watch(w) \/ Handler(w) \/ Client(w)
    \/ Dispatcher

(* The dispatcher and the handlers are tasks of the runtime, which polls what is ready.  That a *)
(* client receives what is in its channel, or goes away, is assumed of the clients.             *)
Fairness ==
    /\ WF_vars(Dispatcher)
    /\ \A w \in Watcher : /\ WF_vars(Handler(w))
                          /\ WF_vars(chan[w] # <<>> /\ (Receive(w) \/ Drop(w)))

Spec == Init /\ [][Next]_vars /\ Fairness

-----------------------------------------------------------------------------
(* Properties *)

\* Whether the dispatcher has, or will have, the watcher when it receives command i
AddedBy(w, i) ==
    \/ w \in Range(watchers)
    \/ \E j \in 1 .. i - 1 : queue[j] = [do |-> "add", watcher |-> w]

\* what command i will send to a watcher
Yields(w, i) ==
    CASE queue[i].do = "update" /\ AddedBy(w, i) /\ Matches(req[w], queue[i].change)
                -> <<Send(w, queue[i].change, FALSE)>>
      [] queue[i].do = "flush" /\ queue[i].watcher = w -> Stream(queue[i])
      [] OTHER -> <<>>

\* what the dispatcher has still to send to a watcher
Owed(w) ==
    SelectSeq(doing, LAMBDA s : s.to = w)
        \o FoldLeft(LAMBDA sofar, i : sofar \o Yields(w, i), <<>>, [i \in DOMAIN queue |-> i])

\* all that a watcher has been or will be sent
Responses(w) == got[w] \o chan[w] \o Owed(w)

Served(w) == pc[w] # "new" /\ ~Gone(w)

\* a first copy was queued for a client
Copied(w) == pc[w] = "open" /\ req[w].flush

\* Responses s show the present record of every key in a client's range: a client that is sent
\* puts has the last record of each key, one that is sent deletes does not keep a deleted key.
UpToDate(w, s) ==
    \A k \in req[w].keys :
        LET of == SelectSeq(s, LAMBDA r : r.change.key = k)
        IN  /\ req[w].filter # "delete" /\ kv[k] # 0 =>
                    of # <<>> /\ Last(of).change = Change(k, kv[k], TRUE)
            /\ req[w].filter # "update" /\ kv[k] = 0 => of = <<>> \/ ~Last(of).change.put

\* Type invariant; a watcher's channel (`mpsc::channel(4)` of `watch`) never holds more than Cap.
TypeOK ==
    /\ kv \in [Key -> 0 .. MaxChanges]
    /\ clock \in 0 .. MaxChanges
    /\ changes \in Seq([key : Key, n : 1 .. MaxChanges, put : BOOLEAN])
    /\ \A i \in DOMAIN queue : queue[i].do \in {"update", "add", "remove", "flush"}
    /\ pc \in [Watcher -> {"new", "adding", "added", "flushing", "open", "closed", "abandoned"}]
    /\ \A w \in Watcher : req[w] \in Requests[w] \cup {NoRequest}
    /\ failed \subseteq Watcher
    /\ \A i \in DOMAIN watchers : watchers[i] \in Watcher
    /\ \A w \in Watcher : Len(chan[w]) <= Cap /\ since[w] <= Len(changes)
    /\ unbroken \in [Watcher -> BOOLEAN]

\* Besides the first copy, a client is sent exactly the changes that match its range and filter
\* and were published after its add command was queued: each once, in the order they were made,
\* whatever the other watchers do (dispatch, add_watcher, remove_watcher).
ExactlyOnceInOrder ==
    \A w \in Watcher :
        Served(w) =>
            LET updates == SelectSeq(Responses(w), LAMBDA r : ~r.flush)
            IN  [i \in DOMAIN updates |-> updates[i].change]
                    = SelectSeq(SubSeq(changes, since[w] + 1, Len(changes)),
                                LAMBDA c : Matches(req[w], c))

\* "Ensuring that there is no event out of order" (send_range): of one key a client is never
\* sent an older record or deletion after a newer one, first copy and updates taken together.
NoEventOutOfOrder ==
    \A w \in Watcher :
        Served(w) =>
            LET s == Responses(w)
            IN  \A i, j \in DOMAIN s :
                    i < j /\ s[i].change.key = s[j].change.key => s[i].change.n <= s[j].change.n

\* "first get a full copy of the key-values, then update every time a key-value is changed": the
\* first copy and the updates together bring a client to the present state of its range.  The
\* installation of a snapshot publishes nothing, so this holds of the requests made after it.
NothingMissed ==
    \A w \in Watcher : Copied(w) /\ unbroken[w] => UpToDate(w, Responses(w))

\* The dispatcher keeps each watcher once and keeps the watcher of every client that is there;
\* of one that is gone only when a remove command is on its way (WatchStream::drop) or when the
\* client went before it had a WatchStream.
RegisteredIsServed ==
    /\ TypeOK
    /\ \A i, j \in DOMAIN watchers : i # j => watchers[i] # watchers[j]
    /\ \A w \in Watcher :
        /\ pc[w] \in {"added", "flushing", "open"} => w \in Range(watchers)
        /\ pc[w] = "closed" /\ w \in Range(watchers) =>
                \E i \in DOMAIN queue : queue[i] = [do |-> "remove", watcher |-> w]

\* A client that asked for a first copy ends up with the present state of its range, if it stays
\* and no snapshot is installed: the dispatcher never stays blocked on another client's channel.
Converges == \A w \in Watcher : <>[](Copied(w) /\ unbroken[w] => UpToDate(w, got[w]))

\* A watcher whose client is gone is removed in the end: by the command of WatchStream::drop, or,
\* if the client went before it had a WatchStream, when the next matching change is dispatched.
GoneIsRemoved ==
    \A w \in Watcher :
        (pc[w] = "closed" \/ (pc[w] = "abandoned" /\ Owed(w) # <<>>)) ~> w \notin Range(watchers)
=============================================================================
