--------------------------- MODULE MCTraceReplay ---------------------------
(* Six small runs: a client asks an agent that traps and then another one;   *)
(* what makes an agent trap is overtaken by another client's messages, so that *)
(* a replay traps before them; two clients spawn agents; a client pipelines    *)
(* asks behind another's send; an agent reads the clock and is sent what it    *)
(* has no handler for; an agent is called by its address while it is spawned,  *)
(* and after it has trapped.                                                   *)
EXTENDS TraceReplay

Spawn(k) == [op |-> "spawn", key |-> k, what |-> "Echo", arg |-> "", ask |-> FALSE, addr |-> FALSE]
Ask(k, m, v) == [op |-> "call", key |-> k, what |-> m, arg |-> v, ask |-> TRUE, addr |-> FALSE]
Send(k, m, v) == [op |-> "call", key |-> k, what |-> m, arg |-> v, ask |-> FALSE, addr |-> FALSE]
AskAddr(k, m, v) == [op |-> "call", key |-> k, what |-> m, arg |-> v, ask |-> TRUE, addr |-> TRUE]

OneTraps == [p |-> <<Spawn("A"), Spawn("B"), Ask("A", "bad", "x"), Ask("B", "get", "x")>>]
Overtaken == [p |-> <<Spawn("A"), Send("A", "bad", "x")>>,
              q |-> <<Send("A", "get", "x"), Send("A", "get", "x")>>]
TwoSpawn == [p |-> <<Spawn("A")>>, q |-> <<Spawn("B"), Ask("B", "get", "x")>>]
Pipelined == [p |-> <<Spawn("A"), Ask("A", "get", "x"), Ask("A", "get", "y")>>,
              q |-> <<Send("A", "get", "z")>>]
HostReads == [p |-> <<Spawn("A"), Ask("A", "now", "ref")>>,
              q |-> <<Send("A", "odd", "x")>>]
ByAddress == [p |-> <<Spawn("A")>>,
              q |-> <<AskAddr("A", "bad", "x"), AskAddr("A", "get", "x")>>]

MCScripts == {OneTraps, Overtaken, TwoSpawn, Pipelined, HostReads, ByAddress}
MCIds == 1..2
MCTraps == {"bad"}
MCUnhandled == {"odd"}
MCReads == {"now"}
MCClock == {"t0", "t1"}
=============================================================================
