---------------------------- MODULE MetaPromise ----------------------------
(***************************************************************************)
(* A node of the meta service implements ReplicatedMap.                    *)
(***************************************************************************)
EXTENDS MetaStore

Promised == INSTANCE ReplicatedMap WITH at <- applied, view <- View0

\* A node implements ReplicatedMap: freezing, compacting, replacing and exporting
\* do not show, installing only moves forward, and a restart never lands before
\* the stored log.
KeepsPromise == Promised!AbsSpec
=============================================================================
