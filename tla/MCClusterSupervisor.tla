----------------------- MODULE MCClusterSupervisor -----------------------
(* Two children on two nodes, a permanent and a transient one, and up to    *)
(* two tasks that report at once.                                           *)
EXTENDS ClusterSupervisor, TLC

CONSTANTS x1, x2, c1, c2, noone

MCChildren == {x1, x2}
MCNodes == {1, 2}
MCHome == (x1 :> 1) @@ (x2 :> 2)
MCRestart == (x1 :> "Permanent") @@ (x2 :> "Transient")
AllStrategies == {"OneForOne", "OneForAll", "RestForOne"}
OneForAllOnly == {"OneForAll"}
AllPolicies == {"sticky", "least-loaded"}
NoPolicies == {}
MCCallers == {c1, c2}
OneCaller == {c1}
MCSymmetry == Permutations(MCCallers)
=============================================================================
