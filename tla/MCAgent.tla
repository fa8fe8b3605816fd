------------------------------ MODULE MCAgent ------------------------------
(* Calls of every kind: an ask without and one with a deadline, both handled *)
(* by the agent, and a payload-free send that it has no handler for.         *)
EXTENDS Agent

CONSTANTS a1, d1, s1, none

MCMsgs == {a1, d1, s1}
MCAsks == {a1, d1}
MCDeadlined == {d1}
MCEmpties == {s1}
MCUnhandled == {s1}
AllPolicies == {"Block", "Drop", "Fail"}
=============================================================================
