--------------------------- MODULE MCWorkStealing ---------------------------
(* Two workers on different sockets; one task never gives its worker back.   *)
EXTENDS WorkStealing
CONSTANTS t1, t2, t3
McTarget == [t \in {t2} |-> 0]
McTopology == [w \in 0..1 |-> IF w = 0 THEN [node |-> 0, socket |-> 0]
                              ELSE [node |-> 1, socket |-> 1]]
=============================================================================
