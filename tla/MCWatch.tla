------------------------------ MODULE MCWatch ------------------------------
(* Instances of Watch for TLC. *)
EXTENDS Watch

CONSTANTS k1, k2, w1, w2

Put(k) == [key |-> k, put |-> TRUE]
Del(k) == [key |-> k, put |-> FALSE]

\* an upsert, a delete, and a transaction that writes two keys
SomeEntries == {<<Put(k1)>>, <<Del(k1)>>, <<Put(k2), Del(k1)>>}

\* one client asks for both keys with a first copy, the other for one key with a filter
SomeRequests ==
    (w1 :> {[keys |-> {k1, k2}, filter |-> "all", flush |-> TRUE]}) @@
    (w2 :> {[keys |-> {k1}, filter |-> "update", flush |-> FALSE],
            [keys |-> {k1}, filter |-> "delete", flush |-> TRUE]})
=============================================================================
