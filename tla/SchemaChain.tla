----------------------------- MODULE SchemaChain -----------------------------
(***************************************************************************)
(* SchemaRegistry::chain (crates/mty-runtime/src/reload/resumable.rs):     *)
(* breadth-first search for a migration path between two schema hashes.    *)
(* The registry is a HashMap, so the edges are visited in an arbitrary     *)
(* order: the result is a set of paths, one for each order.  A path is     *)
(* the sequence of the schemas its hops produce.                           *)
(***************************************************************************)
EXTENDS Integers, Sequences, FiniteSets, SequencesExt

CONSTANT Schemas  \* the schema hashes

\* One edge of the inner loop: skipped unless it leaves cur for an unseen
\* schema; ends the search when it reaches the goal.
Visit(s, edge, cur, path, goal) ==
  IF s.found # <<>> \/ edge[1] # cur \/ edge[2] \in s.seen THEN s
  ELSE IF edge[2] = goal THEN [s EXCEPT !.found = Append(path, goal)]
  ELSE [s EXCEPT !.seen = @ \cup {edge[2]},
                 !.queue = Append(@, [cur |-> edge[2], path |-> Append(path, edge[2])])]

\* The front of the queue is popped and every edge visited in the given order.
PopFront(s, order, goal) ==
  IF s.queue = <<>> \/ s.found # <<>> THEN s
  ELSE LET front == Head(s.queue)
           visited[i \in 0..Len(order)] ==
             IF i = 0 THEN [s EXCEPT !.queue = Tail(@)]
             ELSE Visit(visited[i - 1], order[i], front.cur, front.path, goal)
       IN visited[Len(order)]

\* chain for distinct hashes, the edges being visited in the given order: <<>>
\* when there is no path.
Bfs(order, old, new) ==
  LET after[n \in 0..Cardinality(Schemas)] ==
        IF n = 0 THEN [queue |-> <<[cur |-> old, path |-> <<>>]>>, seen |-> {old},
                       found |-> <<>>]
        ELSE PopFront(after[n - 1], order, new)
  IN after[Cardinality(Schemas)].found

Chains(edges, old, new) == {Bfs(order, old, new) : order \in SetToSeqs(edges)}

-----------------------------------------------------------------------------
(* The reference: what a path is, and a shortest one. *)

(* p is a path of edges of E that starts at old. *)
IsPath(E, old, p) ==
  \A i \in 1 .. Len(p) : <<IF i = 1 THEN old ELSE p[i - 1], p[i]>> \in E
EndOf(old, p) == IF p = << >> THEN old ELSE p[Len(p)]

PathsOfLength(E, old, new, n) ==
  {p \in [1 .. n -> Schemas] : IsPath(E, old, p) /\ EndOf(old, p) = new}

Reaches(E, old, new) ==
  \E n \in 0 .. Cardinality(Schemas) : PathsOfLength(E, old, new, n) # {}

IsShortest(E, old, new, p) ==
  /\ IsPath(E, old, p) /\ EndOf(old, p) = new
  /\ \A n \in 0 .. Len(p) - 1 : PathsOfLength(E, old, new, n) = {}
=============================================================================
