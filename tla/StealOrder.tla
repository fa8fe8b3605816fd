----------------------------- MODULE StealOrder -----------------------------
(***************************************************************************)
(* The order in which a worker probes its siblings (build_steal_order in   *)
(* crates/mty-runtime/src/scheduler/locality.rs): same node and socket     *)
(* first, then same socket, then anywhere, each tier in the order of       *)
(* (id - self) mod n.  Workers are 0 .. n - 1.                             *)
(***************************************************************************)
EXTENDS Integers, Sequences, FiniteSets

TierOf(id, self, locals) ==
  IF locals[id].socket # locals[self].socket THEN "anywhere"
  ELSE IF locals[id].node = locals[self].node THEN "same_node" ELSE "same_socket"

NoTiers == [tier \in {"same_node", "same_socket", "anywhere"} |-> << >>]

\* The loop over the offsets: a worker is pushed on the tier it belongs to.
PushOffset(tiers, offset, self, locals) ==
  LET id == (self + offset) % Cardinality(DOMAIN locals)
  IN [tiers EXCEPT ![TierOf(id, self, locals)] = Append(@, id)]

Tiers(self, locals) ==
  LET last == Cardinality(DOMAIN locals) - 1
      upto[offset \in 0 .. last] ==
        IF offset = 0 THEN NoTiers
        ELSE PushOffset(upto[offset - 1], offset, self, locals)
  IN upto[last]

\* Mutant: workers on other sockets are left out.
BuildStealOrderOneSocket(self, locals) ==
  Tiers(self, locals).same_node \o Tiers(self, locals).same_socket

BuildStealOrder(self, locals) ==
  LET tiers == Tiers(self, locals)
  IN tiers.same_node \o tiers.same_socket \o tiers.anywhere
=============================================================================
