----------------------------- MODULE MCExecutor -----------------------------
(* Small instances of Executor for TLC. *)
EXTENDS Executor

\* a source, a transform and a sink in a row
Chain == [kind |-> <<"source", "transform", "sink">>, from |-> <<1, 2>>, to |-> <<2, 3>>]

\* two sources, a resize processor and two sinks
Crossing == [kind |-> <<"source", "source", "resize", "sink", "sink">>,
             from |-> <<1, 2, 3, 3>>, to |-> <<3, 3, 4, 5>>]
=============================================================================
