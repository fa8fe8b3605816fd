------------------------------- MODULE MCMesh -------------------------------
(* Two asks, to one node or to two, over at most three connections.         *)
EXTENDS Mesh, TLC

CONSTANTS a1, a2, n1, n2

MCAsks == {a1, a2}
MCNodes == {n1, n2}
OneNode == {n1}
NoNode == {}
ToOneNode == (a1 :> n1) @@ (a2 :> n1)
ToTwoNodes == (a1 :> n1) @@ (a2 :> n2)
AskSymmetry == Permutations(MCAsks)
NoDeadline == {}
TwoConns == n1 :> 2
TwoAndOneConn == (n1 :> 2) @@ (n2 :> 1)
=============================================================================
