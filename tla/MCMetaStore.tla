---------------------------- MODULE MCMetaStore ----------------------------
(* Instances of MetaStore for TLC *)
EXTENDS MetaPromise

CONSTANTS k1, k2

OneKey  == {k1}
TwoKeys == {k1, k2}
OneTime == {7}

\* no invariant reads `boot`
WithoutBoot == <<clusterVars, purged, disk, raftSnap, mapVars, compactor, install, buildVars,
                 exportVars>>
=============================================================================
