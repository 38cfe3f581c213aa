----------------------------- MODULE PlainMap -----------------------------
(***************************************************************************)
(* The entries of the meta service's state machine, and the reference for  *)
(* what one command does to them: a plain map that has no levels and no    *)
(* tombstones.                                                             *)
(*                                                                         *)
(* Two key spaces live in the map.  A string key holds a record; the value *)
(* of the record is abstracted to its expire time, 0 for none, because     *)
(* every write has a seq of its own.  An expire key <<time, seq>> holds    *)
(* the string key that expires then.                                       *)
(***************************************************************************)
EXTENDS Integers

CONSTANTS
    StrKeys,   \* string keys
    Times      \* expire times

\* a record that does not expire has time 0, and the two key spaces are apart
ASSUME PlainMapAssumption ==
    /\ 0 \notin Times
    /\ \A k \in StrKeys : k \notin Times \X Nat

Cmds == [op : {"put"}, key : StrKeys, exp : {0} \cup Times]
            \cup [op : {"del"}, key : StrKeys]

-----------------------------------------------------------------------------
(* Marked entries *)

Tombstone(s) == [seq |-> s, tomb |-> TRUE, val |-> 0]
Normal(s, v) == [seq |-> s, tomb |-> FALSE, val |-> v]

\* Marked::empty()
NotFound == Tombstone(0)

\* the expire key of a record, none when it does not expire
ExpireKeys(m) == IF m.tomb \/ m.val = 0 THEN {} ELSE {<<m.val, m.seq>>}

-----------------------------------------------------------------------------
(* The reference *)

NoData == [k \in {} |-> NotFound]

FlatEmpty == [seq |-> 0, data |-> NoData]

FlatApply(f, cmd) ==
    LET old  == IF cmd.key \in DOMAIN f.data THEN ExpireKeys(f.data[cmd.key]) ELSE {}
        kept == DOMAIN f.data \ ({cmd.key} \cup old)
        rec  == Normal(f.seq + 1, cmd.exp)
        new  == {cmd.key} \cup ExpireKeys(rec)
    IN  IF cmd.op = "del"
        THEN [seq |-> f.seq, data |-> [k \in kept |-> f.data[k]]]
        ELSE [seq  |-> f.seq + 1,
              data |-> [k \in kept \cup new |->
                           IF k = cmd.key THEN rec
                           ELSE IF k \in new THEN Normal(f.seq + 1, cmd.key)
                           ELSE f.data[k]]]
=============================================================================
