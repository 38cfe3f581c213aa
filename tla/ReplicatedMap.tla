--------------------------- MODULE ReplicatedMap ---------------------------
(***************************************************************************)
(* What one meta-service node promises of its state machine, whatever the  *)
(* levels, snapshots and compactions underneath: it always shows the plain *)
(* map obtained from a prefix of the committed log.  It moves forward by   *)
(* applying the next entry or by taking over a later state, moves backward *)
(* only by restarting, and never to a state from which the entries it      *)
(* needs to come back have been purged.                                    *)
(***************************************************************************)
EXTENDS PlainMap, Sequences

CONSTANT MaxLog   \* bound on the committed log

VARIABLES
    log,       \* committed commands
    history,   \* history[i + 1]: the map after the first i commands
    purged,    \* the log's prefix this node no longer stores
    at,        \* how much of the log the node's state machine reflects
    view,      \* the map it shows
    boot       \* flips whenever the node restarts

absVars == <<log, history, purged, at, view, boot>>

AbsInit ==
    /\ log = <<>>
    /\ history = <<FlatEmpty>>
    /\ purged = 0
    /\ at = 0
    /\ view = FlatEmpty
    /\ boot = FALSE

AbsCommit ==
    /\ Len(log) < MaxLog
    /\ \E cmd \in Cmds :
          /\ log' = Append(log, cmd)
          /\ history' = Append(history, FlatApply(history[Len(history)], cmd))
    /\ UNCHANGED <<purged, at, view, boot>>

AbsApply ==
    /\ purged <= at
    /\ at < Len(log)
    /\ at' = at + 1
    /\ view' = FlatApply(view, log[at + 1])
    /\ UNCHANGED <<log, history, purged, boot>>

AbsInstall ==
    /\ \E i \in at + 1 .. Len(log) : at' = i /\ view' = history[i + 1]
    /\ UNCHANGED <<log, history, purged, boot>>

\* the purge of the log itself may be undone by a crash
AbsRestart ==
    /\ \E i \in purged .. Len(log) : at' = i /\ view' = history[i + 1]
    /\ purged' \in 0 .. purged
    /\ boot' = ~boot
    /\ UNCHANGED <<log, history>>

AbsPurge ==
    /\ \E i \in purged + 1 .. Len(log) : purged' = i
    /\ UNCHANGED <<log, history, at, view, boot>>

AbsNext == AbsCommit \/ AbsApply \/ AbsInstall \/ AbsRestart \/ AbsPurge

AbsSpec == AbsInit /\ [][AbsNext]_absVars
=============================================================================
