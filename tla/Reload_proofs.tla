--------------------------- MODULE Reload_proofs ---------------------------
(***************************************************************************)
(* Hot reload, for any calls, messages, schemas and migrations: the chain  *)
(* search returns registered migrations that lead to the goal, the gate is *)
(* closed only for a cause, a handler's effect is lost only to a race, and *)
(* a single reload leaves module and state with one schema.                *)
(***************************************************************************)
EXTENDS Reload, FiniteSetTheorems, SeqFacts

-----------------------------------------------------------------------------
(* The search for a chain of migrations. *)

Fronts(E, old) ==
  {f \in [cur : Schemas, path : Seq(Schemas)] :
     IsPath(E, old, f.path) /\ f.cur = EndOf(old, f.path)}

(* States of the search: whatever it has found leads to the goal. *)
Searches(E, old, goal) ==
  {s \in [queue : Seq(Fronts(E, old)), seen : SUBSET Schemas, found : Seq(Schemas)] :
     s.found # << >> => IsPath(E, old, s.found) /\ EndOf(old, s.found) = goal}

(* A path grows by an edge that leaves its end. *)
LEMMA PathGrows ==
  ASSUME NEW E, NEW old \in Schemas, NEW p \in Seq(Schemas), NEW x \in Schemas,
         IsPath(E, old, p), <<EndOf(old, p), x>> \in E
  PROVE  /\ Append(p, x) \in Seq(Schemas) /\ Append(p, x) # << >>
         /\ IsPath(E, old, Append(p, x)) /\ EndOf(old, Append(p, x)) = x
<1> DEFINE q == Append(p, x)
<1>1. /\ q \in Seq(Schemas) /\ Len(q) = Len(p) + 1 /\ Len(p) \in Nat
      /\ q[Len(p) + 1] = x /\ \A i \in 1 .. Len(p) : q[i] = p[i]
  OBVIOUS
<1>2. q # << >>
  <2>1. Len(q) # 0
    BY <1>1
  <2> HIDE DEF q
  <2> QED BY <2>1
<1>3. EndOf(old, q) = x
  BY <1>1, <1>2 DEF EndOf
<1>4. ASSUME NEW i \in 1 .. Len(q)
      PROVE  <<IF i = 1 THEN old ELSE q[i - 1], q[i]>> \in E
  <2>1. CASE i \in 1 .. Len(p)
    <3>1. q[i] = p[i] /\ (i # 1 => q[i - 1] = p[i - 1])
      BY <1>1, <2>1
    <3> QED BY <2>1, <3>1 DEF IsPath
  <2>2. CASE i = Len(p) + 1
    <3>1. (IF i = 1 THEN old ELSE q[i - 1]) = EndOf(old, p)
      <4>1. CASE p = << >>
        BY <2>2, <4>1 DEF EndOf
      <4>2. CASE p # << >>
        <5>1. Len(p) \in 1 .. Len(p) /\ i # 1 /\ i - 1 = Len(p)
          BY <2>2, <4>2
        <5> QED BY <1>1, <4>2, <5>1 DEF EndOf
      <4> QED BY <4>1, <4>2
    <3>2. q[i] = x
      BY <1>1, <2>2
    <3> HIDE DEF q
    <3> QED BY <3>1, <3>2
  <2>3. i \in 1 .. Len(p) \/ i = Len(p) + 1
    BY <1>1
  <2> QED BY <2>1, <2>2, <2>3
<1> HIDE DEF q
<1>5. IsPath(E, old, q)
  BY <1>4 DEF IsPath
<1> QED BY <1>1, <1>2, <1>3, <1>5 DEF q

(* Visiting an edge keeps the paths of the search paths. *)
LEMMA VisitStays ==
  ASSUME NEW E \in SUBSET (Schemas \X Schemas), NEW old \in Schemas, NEW goal \in Schemas,
         NEW s \in Searches(E, old, goal), NEW edge \in E, NEW front \in Fronts(E, old)
  PROVE  Visit(s, edge, front.cur, front.path, goal) \in Searches(E, old, goal)
<1>1. /\ edge = <<edge[1], edge[2]>> /\ edge[1] \in Schemas /\ edge[2] \in Schemas
  OBVIOUS
<1>2. /\ front.cur \in Schemas /\ front.path \in Seq(Schemas)
      /\ IsPath(E, old, front.path) /\ front.cur = EndOf(old, front.path)
  BY DEF Fronts
<1>3. /\ s \in [queue : Seq(Fronts(E, old)), seen : SUBSET Schemas, found : Seq(Schemas)]
      /\ s.found # << >> => IsPath(E, old, s.found) /\ EndOf(old, s.found) = goal
  BY DEF Searches
<1> DEFINE q == Append(front.path, edge[2])
<1>4. ASSUME edge[1] = front.cur
      PROVE  /\ q \in Seq(Schemas) /\ q # << >>
             /\ IsPath(E, old, q) /\ EndOf(old, q) = edge[2]
  <2>1. <<EndOf(old, front.path), edge[2]>> \in E
    BY <1>1, <1>2, <1>4
  <2> QED BY <1>1, <1>2, <2>1, PathGrows
<1>5. CASE s.found # << >> \/ edge[1] # front.cur \/ edge[2] \in s.seen
  BY <1>5 DEF Visit
<1>6. CASE ~(s.found # << >> \/ edge[1] # front.cur \/ edge[2] \in s.seen) /\ edge[2] = goal
  <2>1. Visit(s, edge, front.cur, front.path, goal) = [s EXCEPT !.found = q]
    BY <1>6 DEF Visit
  <2>2. q \in Seq(Schemas) /\ IsPath(E, old, q) /\ EndOf(old, q) = goal
    BY <1>4, <1>6
  <2> HIDE DEF q
  <2> QED BY <1>3, <2>1, <2>2 DEF Searches
<1>7. CASE ~(s.found # << >> \/ edge[1] # front.cur \/ edge[2] \in s.seen) /\ edge[2] # goal
  <2> DEFINE f == [cur |-> edge[2], path |-> q]
  <2>1. Visit(s, edge, front.cur, front.path, goal)
          = [s EXCEPT !.seen = @ \cup {edge[2]}, !.queue = Append(@, f)]
    BY <1>7 DEF Visit
  <2>2. f \in Fronts(E, old)
    <3>1. q \in Seq(Schemas) /\ IsPath(E, old, q) /\ EndOf(old, q) = edge[2]
      BY <1>4, <1>7
    <3> HIDE DEF q
    <3> QED BY <1>1, <3>1 DEF Fronts
  <2> HIDE DEF f
  <2>3. Append(s.queue, f) \in Seq(Fronts(E, old))
    BY <1>3, <2>2
  <2>4. s.seen \cup {edge[2]} \in SUBSET Schemas
    BY <1>1, <1>3
  <2>5. /\ Visit(s, edge, front.cur, front.path, goal)
             = [queue |-> Append(s.queue, f), seen |-> s.seen \cup {edge[2]}, found |-> s.found]
    BY <1>3, <2>1
  <2> QED BY <1>3, <2>3, <2>4, <2>5 DEF Searches
<1> QED BY <1>5, <1>6, <1>7

(* So does visiting every edge from the front of the queue. *)
LEMMA PopFrontStays ==
  ASSUME NEW E \in SUBSET (Schemas \X Schemas), NEW old \in Schemas, NEW goal \in Schemas,
         NEW s \in Searches(E, old, goal), NEW order \in Seq(E)
  PROVE  PopFront(s, order, goal) \in Searches(E, old, goal)
<1> DEFINE Q == Searches(E, old, goal)
           front == Head(s.queue)
           k == Len(order)
           b == [s EXCEPT !.queue = Tail(@)]
           F == [i \in 1 .. k |-> [x \in Q |-> Visit(x, order[i], front.cur, front.path, goal)]]
           visited == CHOOSE g : g = [i \in 0 .. Len(order) |->
                        IF i = 0 THEN b
                        ELSE Visit(g[i - 1], order[i], front.cur, front.path, goal)]
<1>1. CASE s.queue = << >> \/ s.found # << >>
  BY <1>1 DEF PopFront
<1>2. CASE ~(s.queue = << >> \/ s.found # << >>)
  <2>1. k \in Nat /\ \A i \in 1 .. k : order[i] \in E
    OBVIOUS
  <2>2. s.queue \in Seq(Fronts(E, old)) /\ s.queue # << >>
    BY <1>2 DEF Searches
  <2>3. front \in Fronts(E, old) /\ Tail(s.queue) \in Seq(Fronts(E, old))
    BY <2>2, TakeFacts
  <2>4. b \in Q
    BY <2>3 DEF Searches
  <2>5. ASSUME NEW x \in Q, NEW i \in 1 .. k
        PROVE  Visit(x, order[i], front.cur, front.path, goal) \in Q
    BY <2>1, <2>3, VisitStays
  <2>6. PopFront(s, order, goal) = visited[k]
    BY <1>2, Zenon DEF PopFront
  <2> HIDE DEF Q, front, b
  <2>7. AreSteps(F, k, Q)
    BY <2>5 DEF AreSteps
  <2>8. \E g : g = [i \in 0 .. Len(order) |->
                   IF i = 0 THEN b
                   ELSE Visit(g[i - 1], order[i], front.cur, front.path, goal)]
    <3>1. PICK g : IsRun(g, F, k, Q, b)
      <4>1. k \in Nat
        BY <2>1
      <4> HIDE DEF F, k, visited
      <4> QED BY <2>4, <2>7, <4>1, Iterate
    <3>2. ASSUME NEW i \in 0 .. k
          PROVE  g[i] = IF i = 0 THEN b
                        ELSE Visit(g[i - 1], order[i], front.cur, front.path, goal)
      <4>1. CASE i = 0
        BY <3>1, <4>1 DEF IsRun
      <4>2. CASE i # 0
        <5>1. i \in 1 .. k /\ i - 1 \in 0 .. k
          BY <2>1, <4>2
        <5>2. g[i - 1] \in Q
          BY <3>1, <5>1 DEF IsRun
        <5>3. g[i] = F[i][g[i - 1]]
          BY <3>1, <5>1 DEF IsRun
        <5>4. F[i][g[i - 1]] = Visit(g[i - 1], order[i], front.cur, front.path, goal)
          BY <5>1, <5>2
        <5> QED BY <4>2, <5>3, <5>4
      <4> QED BY <4>1, <4>2
    <3>3. g = [i \in 0 .. Len(order) |->
                IF i = 0 THEN b
                ELSE Visit(g[i - 1], order[i], front.cur, front.path, goal)]
      BY <3>1, <3>2 DEF IsRun
    <3> QED BY <3>3
  <2>9. visited = [i \in 0 .. Len(order) |->
                     IF i = 0 THEN b
                     ELSE Visit(visited[i - 1], order[i], front.cur, front.path, goal)]
    BY <2>8, Zenon
  <2> HIDE DEF visited
  <2>10. visited[0] \in Q
    BY <2>1, <2>4, <2>9
  <2>11. ASSUME NEW n \in 1 .. k, visited[n - 1] \in Q PROVE visited[n] \in Q
    <3>1. n \in 0 .. Len(order) /\ n # 0
      BY <2>1
    <3>2. visited[n] = Visit(visited[n - 1], order[n], front.cur, front.path, goal)
      BY <2>9, <3>1
    <3> QED BY <2>5, <2>11, <3>2
  <2>12. \A n \in 0 .. k : visited[n] \in Q
    <3>1. k \in Nat
      BY <2>1
    <3> HIDE DEF k
    <3> QED BY <2>10, <2>11, <3>1, IterateStays, Zenon
  <2>13. visited[k] \in Q
    BY <2>1, <2>12
  <2> QED BY <2>6, <2>13 DEF Q
<1> QED BY <1>1, <1>2

(* A chain the search returns is made of the edges it was given, from the old *)
(* schema to the new one.                                                     *)
LEMMA BfsFindsPath ==
  ASSUME NEW E \in SUBSET (Schemas \X Schemas), NEW old \in Schemas, NEW new \in Schemas,
         NEW order \in Seq(E)
  PROVE  LET p == Bfs(order, old, new)
         IN  /\ p \in Seq(Schemas)
             /\ p # << >> => IsPath(E, old, p) /\ EndOf(old, p) = new
<1> DEFINE Q == Searches(E, old, new)
           k == Cardinality(Schemas)
           b == [queue |-> <<[cur |-> old, path |-> << >>]>>, seen |-> {old}, found |-> << >>]
           F == [i \in 1 .. k |-> [x \in Q |-> PopFront(x, order, new)]]
           after == CHOOSE g : g = [n \in 0 .. Cardinality(Schemas) |->
                      IF n = 0 THEN b ELSE PopFront(g[n - 1], order, new)]
<1>1. k \in Nat
  BY SchemasAssumption, FS_CardinalityType
<1>2. b \in Q
  <2> DEFINE f == [cur |-> old, path |-> << >>]
  <2>1. f \in Fronts(E, old)
    <3>1. IsPath(E, old, << >>) /\ EndOf(old, << >>) = old /\ << >> \in Seq(Schemas)
      BY DEF IsPath, EndOf
    <3> QED BY <3>1 DEF Fronts
  <2> HIDE DEF f
  <2>2. <<f>> \in Seq(Fronts(E, old))
    BY <2>1
  <2>3. b = [queue |-> <<f>>, seen |-> {old}, found |-> << >>]
    BY DEF f
  <2> QED BY <2>2, <2>3 DEF Searches
<1>3. \A x \in Q : PopFront(x, order, new) \in Q
  BY PopFrontStays
<1>4. Bfs(order, old, new) = after[k].found
  BY Zenon DEF Bfs
<1> HIDE DEF Q, b
<1>5. AreSteps(F, k, Q)
  BY <1>3 DEF AreSteps
<1>6. \E g : g = [n \in 0 .. Cardinality(Schemas) |->
                 IF n = 0 THEN b ELSE PopFront(g[n - 1], order, new)]
  <2>1. PICK g : IsRun(g, F, k, Q, b)
    <3> HIDE DEF F, k, after
    <3> QED BY <1>1, <1>2, <1>5, Iterate
  <2>2. ASSUME NEW n \in 0 .. k
        PROVE  g[n] = IF n = 0 THEN b ELSE PopFront(g[n - 1], order, new)
    <3>1. CASE n = 0
      BY <2>1, <3>1 DEF IsRun
    <3>2. CASE n # 0
      <4>1. n \in 1 .. k /\ n - 1 \in 0 .. k
        BY <1>1, <3>2
      <4>2. g[n - 1] \in Q /\ g[n] = F[n][g[n - 1]]
        BY <2>1, <4>1 DEF IsRun
      <4>3. F[n][g[n - 1]] = PopFront(g[n - 1], order, new)
        BY <4>1, <4>2
      <4> QED BY <3>2, <4>2, <4>3
    <3> QED BY <3>1, <3>2
  <2>3. g = [n \in 0 .. Cardinality(Schemas) |->
              IF n = 0 THEN b ELSE PopFront(g[n - 1], order, new)]
    BY <2>1, <2>2 DEF IsRun
  <2> QED BY <2>3
<1>7. after = [n \in 0 .. Cardinality(Schemas) |->
                 IF n = 0 THEN b ELSE PopFront(after[n - 1], order, new)]
  BY <1>6, Zenon
<1> HIDE DEF after
<1>8. after[0] \in Q
  BY <1>1, <1>2, <1>7
<1>9. ASSUME NEW n \in 1 .. k, after[n - 1] \in Q PROVE after[n] \in Q
  <2>1. n \in 0 .. Cardinality(Schemas) /\ n # 0
    BY <1>1
  <2>2. after[n] = PopFront(after[n - 1], order, new)
    BY <1>7, <2>1
  <2> QED BY <1>3, <1>9, <2>2
<1>10. \A n \in 0 .. k : after[n] \in Q
  <2> HIDE DEF k
  <2> QED BY <1>1, <1>8, <1>9, IterateStays, Zenon
<1>11. after[k] \in Q
  BY <1>1, <1>10
<1> QED BY <1>4, <1>11 DEF Q, Searches

(* The paths schema_check offers lead from the schema the hook was built with *)
(* to the new one along registered migrations; none is needed when they agree. *)
LEMMA ChainFacts ==
  ASSUME NEW new \in Schemas, edges \subseteq AllEdges, NEW chain \in SchemaCheck(new)
  PROVE  /\ chain \in Seq(Schemas)
         /\ chain # << >> \/ new = InitialSchema =>
              IsPath(edges, InitialSchema, chain) /\ EndOf(InitialSchema, chain) = new
<1>1. CASE new = InitialSchema
  <2>1. chain = << >>
    BY <1>1 DEF SchemaCheck
  <2> QED BY <1>1, <2>1 DEF IsPath, EndOf
<1>2. CASE new # InitialSchema
  <2>1. chain \in Chains(edges, InitialSchema, new)
    BY <1>2 DEF SchemaCheck
  <2>2. PICK order \in SetToSeqs(edges) : chain = Bfs(order, InitialSchema, new)
    BY <2>1, Zenon DEF Chains
  <2>3. order \in Seq(edges)
    <3>1. IsFiniteSet(edges)
      <4>1. IsFiniteSet(Schemas \X Schemas)
        BY SchemasAssumption, FS_Product
      <4>2. edges \subseteq Schemas \X Schemas
        BY AllEdgesAssumption
      <4> QED BY <4>1, <4>2, FS_Subset
    <3>2. Cardinality(edges) \in Nat
      BY <3>1, FS_CardinalityType
    <3>3. order \in [1 .. Cardinality(edges) -> edges]
      BY <2>2, Zenon DEF SetToSeqs
    <3> QED BY <3>2, <3>3
  <2>4. edges \in SUBSET (Schemas \X Schemas)
    BY AllEdgesAssumption
  <2> QED BY <1>2, <2>2, <2>3, <2>4, BfsFindsPath, InitialSchemaAssumption
<1> QED BY <1>1, <1>2
-----------------------------------------------------------------------------
(* The inductive invariant. *)

(* The loop has a frame in hand unless it is idle. *)
LoopHoldsFrame == loop.at # "idle" => loop.msg \in Msgs

(* Only a call that has ended has an outcome. *)
OutcomeAtEnd == \A r \in Calls : out[r] # "none" => pc[r] = "done"

(* A call that got past schema_check holds registered migrations from the    *)
(* schema the hook was built with to the one of the new module.              *)
PlanIsRegistered ==
  \A r \in Calls :
    InProgress(r) => /\ IsPath(edges, InitialSchema, plan[r].chain)
                     /\ EndOf(InitialSchema, plan[r].chain) = plan[r].new

(* As long as no turn stored between a snapshot and its restore, the cell, the *)
(* clone a handler works on, and every snapshot still to be restored hold all  *)
(* that was handled.                                                           *)
RaceFree ==
  ~overwritten =>
    /\ handled \subseteq state.seen
    /\ loop.at = "running" => handled \subseteq loop.cell.seen
    /\ \A r \in Calls : pc[r] \in {"swap", "restore"} => handled \subseteq snap[r].seen

(* A call that is the only one so far finds the schema the hook was built    *)
(* with, and takes module and state to its own one after the other; a        *)
(* handler running meanwhile works on a clone of the cell's schema.          *)
Alone(r) == \A q \in Calls \ {r} : pc[q] = "idle"
SingleCall ==
  \A r \in Calls : Alone(r) =>
    /\ pc[r] \in {"idle", "drain", "pause", "snapshot", "swap", "restore"} =>
         /\ state.shape = InitialSchema
         /\ loop.at = "running" => loop.cell.shape = InitialSchema
    /\ pc[r] \in {"swap", "restore"} => snap[r].shape = InitialSchema
    /\ pc[r] = "restore" /\ plan[r].installs => slot = plan[r].new
    /\ (pc[r] = "resume" \/ out[r] = "completed") /\ plan[r].installs /\ ~straddled =>
         /\ slot = state.shape
         /\ loop.at = "running" => loop.cell.shape = state.shape

IInv == /\ TypeOK /\ LoopHoldsFrame /\ OutcomeAtEnd /\ PlanIsRegistered
        /\ PausedHasCause /\ RaceFree /\ SingleCall

USE DEF agentVars, histVars

-----------------------------------------------------------------------------
(* Type correctness. *)

(* What starting a call does: it is planned, or found incompatible. *)
LEMMA StartFacts ==
  ASSUME TypeOK, NEW r \in Calls, Start(r)
  PROVE  /\ pc[r] = "idle"
         /\ \E p \in Plans :
              /\ plan' = [plan EXCEPT ![r] = p]
              /\ \/ /\ IsPath(edges, InitialSchema, p.chain)
                    /\ EndOf(InitialSchema, p.chain) = p.new
                    /\ pc' = [pc EXCEPT ![r] = "drain"] /\ out' = out
                 \/ /\ pc' = [pc EXCEPT ![r] = "done"]
                    /\ out' = [out EXCEPT ![r] = "incompatible"]
         /\ UNCHANGED <<paused, state, slot, edges, agentVars, snap, histVars>>
<1>1. PICK new \in Schemas, installs \in BOOLEAN : \E chain \in SchemaCheck(new) :
        /\ plan' = [plan EXCEPT ![r] = [new |-> new, installs |-> installs, chain |-> chain]]
        /\ IF chain = << >> /\ new # InitialSchema
           THEN End(r, "incompatible")
           ELSE pc' = [pc EXCEPT ![r] = "drain"] /\ UNCHANGED out
  BY Zenon DEF Start
<1>8. PICK chain \in SchemaCheck(new) :
        /\ plan' = [plan EXCEPT ![r] = [new |-> new, installs |-> installs, chain |-> chain]]
        /\ IF chain = << >> /\ new # InitialSchema
           THEN End(r, "incompatible")
           ELSE pc' = [pc EXCEPT ![r] = "drain"] /\ UNCHANGED out
  BY <1>1, Zenon
<1>2. edges \subseteq AllEdges
  BY DEF TypeOK
<1>3. /\ chain \in Seq(Schemas)
      /\ chain # << >> \/ new = InitialSchema =>
           IsPath(edges, InitialSchema, chain) /\ EndOf(InitialSchema, chain) = new
  BY <1>2, ChainFacts
<1>4. pc[r] = "idle" /\ UNCHANGED <<paused, state, slot, edges, agentVars, snap, histVars>>
  BY DEF Start
<1> DEFINE p == [new |-> new, installs |-> installs, chain |-> chain]
<1>5. p \in Plans /\ p.chain = chain /\ p.new = new
  BY <1>3 DEF Plans
<1>6. CASE chain = << >> /\ new # InitialSchema
  BY <1>4, <1>5, <1>6, <1>8 DEF End
<1>7. CASE ~(chain = << >> /\ new # InitialSchema)
  <2>1. IsPath(edges, InitialSchema, p.chain) /\ EndOf(InitialSchema, p.chain) = p.new
    BY <1>3, <1>5, <1>7
  <2>2. plan' = [plan EXCEPT ![r] = p] /\ pc' = [pc EXCEPT ![r] = "drain"] /\ out' = out
    BY <1>7, <1>8
  <2> HIDE DEF p
  <2> QED BY <1>4, <1>5, <2>1, <2>2
<1> QED BY <1>6, <1>7

(* The loop lets go of its frame when it is idle again. *)
LEMMA NextLoop ==
  TypeOK /\ LoopHoldsFrame /\ [Next]_vars => LoopHoldsFrame'
<1> SUFFICES ASSUME TypeOK, LoopHoldsFrame, [Next]_vars PROVE LoopHoldsFrame'
  OBVIOUS
<1>1. ASSUME NEW m \in Msgs, Send(m) PROVE LoopHoldsFrame'
  BY <1>1 DEF Send, LoopHoldsFrame, TypeOK
<1>2. CASE TakeFrame
  BY <1>2 DEF TakeFrame, LoopHoldsFrame, TypeOK
<1>3. CASE LoadState
  BY <1>3 DEF LoadState, LoopHoldsFrame, TypeOK
<1>4. CASE StoreState
  BY <1>4 DEF StoreState, LoopHoldsFrame, TypeOK
<1>5. CASE TurnFails
  BY <1>5 DEF TurnFails, LoopHoldsFrame, TypeOK
<1>6. ASSUME NEW e \in AllEdges, Register(e) PROVE LoopHoldsFrame'
  BY <1>6 DEF Register, LoopHoldsFrame, TypeOK
<1>7. ASSUME NEW r \in Calls, Refuse(r) PROVE LoopHoldsFrame'
  BY <1>7 DEF Refuse, End, LoopHoldsFrame, TypeOK
<1>8. ASSUME NEW r \in Calls, Start(r) PROVE LoopHoldsFrame'
  BY <1>8, StartFacts DEF LoopHoldsFrame
<1>9. ASSUME NEW r \in Calls, Drained(r) PROVE LoopHoldsFrame'
  BY <1>9 DEF Drained, LoopHoldsFrame, TypeOK
<1>10. ASSUME NEW r \in Calls, DrainDeadline(r) PROVE LoopHoldsFrame'
  BY <1>10 DEF DrainDeadline, End, LoopHoldsFrame, TypeOK
<1>11. ASSUME NEW r \in Calls, Pause(r) PROVE LoopHoldsFrame'
  BY <1>11 DEF Pause, LoopHoldsFrame, TypeOK
<1>12. ASSUME NEW r \in Calls, Snapshot(r) PROVE LoopHoldsFrame'
  BY <1>12 DEF Snapshot, LoopHoldsFrame, TypeOK
<1>13. ASSUME NEW r \in Calls, SnapshotFails(r) PROVE LoopHoldsFrame'
  BY <1>13 DEF SnapshotFails, End, LoopHoldsFrame, TypeOK
<1>14. ASSUME NEW r \in Calls, SwapSlot(r) PROVE LoopHoldsFrame'
  BY <1>14 DEF SwapSlot, LoopHoldsFrame, TypeOK
<1>15. ASSUME NEW r \in Calls, Restore(r) PROVE LoopHoldsFrame'
  BY <1>15 DEF Restore, LoopHoldsFrame, TypeOK
<1>16. ASSUME NEW r \in Calls, RestoreFails(r) PROVE LoopHoldsFrame'
  BY <1>16 DEF RestoreFails, End, LoopHoldsFrame, TypeOK
<1>17. ASSUME NEW r \in Calls, Resume(r) PROVE LoopHoldsFrame'
  BY <1>17 DEF Resume, End, LoopHoldsFrame, TypeOK
<1>18. CASE LoopEnds
  BY <1>18 DEF LoopEnds, LoopHoldsFrame, TypeOK
<1>19. CASE Mark
  BY <1>19 DEF Mark, LoopHoldsFrame, TypeOK
<1>20. CASE UNCHANGED vars
  BY <1>20 DEF vars, LoopHoldsFrame, TypeOK
<1> QED
  BY <1>1, <1>2, <1>3, <1>4, <1>5, <1>6, <1>7, <1>8, <1>9, <1>10, <1>11,
     <1>12, <1>13, <1>14, <1>15, <1>16, <1>17, <1>18, <1>19, <1>20
     DEF Next, Loop, Step

(* Every step keeps the shape of the state. *)
LEMMA NextTypeOK ==
  TypeOK /\ LoopHoldsFrame /\ [Next]_vars => TypeOK'
<1> SUFFICES ASSUME TypeOK, LoopHoldsFrame, [Next]_vars PROVE TypeOK'
  OBVIOUS
<1>1. ASSUME NEW m \in Msgs, Send(m) PROVE TypeOK'
  BY <1>1 DEF Send, TypeOK, Cells, Pcs, EarlyErrors, LateErrors
<1>2. CASE TakeFrame
  BY <1>2 DEF TakeFrame, TypeOK, Cells, Pcs, EarlyErrors, LateErrors
<1>3. CASE LoadState
  BY <1>3 DEF LoadState, TypeOK, Cells, Pcs, EarlyErrors, LateErrors
<1>4. CASE StoreState
  <2>1. loop.msg \in Msgs
    BY <1>4 DEF StoreState, LoopHoldsFrame
  <2> QED BY <1>4, <2>1 DEF StoreState, TypeOK, Cells
<1>5. CASE TurnFails
  BY <1>5 DEF TurnFails, TypeOK, Cells, Pcs, EarlyErrors, LateErrors
<1>6. ASSUME NEW e \in AllEdges, Register(e) PROVE TypeOK'
  BY <1>6 DEF Register, TypeOK, Cells, Pcs, EarlyErrors, LateErrors
<1>7. ASSUME NEW r \in Calls, Refuse(r) PROVE TypeOK'
  BY <1>7 DEF Refuse, End, TypeOK, Cells, Pcs, EarlyErrors, LateErrors
<1>8. ASSUME NEW r \in Calls, Start(r) PROVE TypeOK'
  <2>1. plan' \in [Calls -> Plans]
    <3>1. plan \in [Calls -> Plans]
      BY DEF TypeOK
    <3> QED BY <1>8, <3>1, StartFacts
  <2> QED BY ZenonT(60), <1>8, <2>1, StartFacts DEF TypeOK, Cells, Pcs, EarlyErrors, LateErrors
<1>9. ASSUME NEW r \in Calls, Drained(r) PROVE TypeOK'
  BY <1>9 DEF Drained, TypeOK, Cells, Pcs, EarlyErrors, LateErrors
<1>10. ASSUME NEW r \in Calls, DrainDeadline(r) PROVE TypeOK'
  BY <1>10 DEF DrainDeadline, End, TypeOK, Cells, Pcs, EarlyErrors, LateErrors
<1>11. ASSUME NEW r \in Calls, Pause(r) PROVE TypeOK'
  BY <1>11 DEF Pause, TypeOK, Cells, Pcs, EarlyErrors, LateErrors
<1>12. ASSUME NEW r \in Calls, Snapshot(r) PROVE TypeOK'
  BY <1>12 DEF Snapshot, TypeOK, Cells, Pcs, EarlyErrors, LateErrors
<1>13. ASSUME NEW r \in Calls, SnapshotFails(r) PROVE TypeOK'
  BY <1>13 DEF SnapshotFails, End, TypeOK, Cells, Pcs, EarlyErrors, LateErrors
<1>14. ASSUME NEW r \in Calls, SwapSlot(r) PROVE TypeOK'
  BY <1>14 DEF SwapSlot, TypeOK, Pcs, Plans
<1>15. ASSUME NEW r \in Calls, Restore(r) PROVE TypeOK'
  <2>1. state' \in Cells
    <3>1. plan[r] \in Plans /\ snap[r] \in Cells
      BY DEF TypeOK
    <3> DEFINE c == plan[r].chain
    <3>2. c \in Seq(Schemas)
      BY <3>1 DEF Plans
    <3> HIDE DEF c
    <3>3. c # << >> => c[Len(c)] \in Schemas
      BY <3>2
    <3>4. state' = IF c = << >> THEN snap[r] ELSE [snap[r] EXCEPT !.shape = c[Len(c)]]
      BY <1>15 DEF Restore, ApplyChain, c
    <3> QED BY <3>1, <3>3, <3>4 DEF Cells
  <2> QED BY <1>15, <2>1 DEF Restore, TypeOK, Pcs
<1>16. ASSUME NEW r \in Calls, RestoreFails(r) PROVE TypeOK'
  BY <1>16 DEF RestoreFails, End, TypeOK, Cells, Pcs, EarlyErrors, LateErrors
<1>17. ASSUME NEW r \in Calls, Resume(r) PROVE TypeOK'
  BY <1>17 DEF Resume, End, TypeOK, Cells, Pcs, EarlyErrors, LateErrors
<1>18. CASE LoopEnds
  BY <1>18 DEF LoopEnds, TypeOK, Cells, Pcs, EarlyErrors, LateErrors
<1>19. CASE Mark
  BY <1>19 DEF Mark, TypeOK, Cells, Pcs, EarlyErrors, LateErrors
<1>20. CASE UNCHANGED vars
  BY <1>20 DEF vars, TypeOK, Cells, Pcs, EarlyErrors, LateErrors
<1> QED
  BY <1>1, <1>2, <1>3, <1>4, <1>5, <1>6, <1>7, <1>8, <1>9, <1>10, <1>11,
     <1>12, <1>13, <1>14, <1>15, <1>16, <1>17, <1>18, <1>19, <1>20
     DEF Next, Loop, Step

-----------------------------------------------------------------------------
(* Calls, their outcomes and their plans. *)

(* A call gets its outcome as it ends. *)
LEMMA NextOutcome ==
  TypeOK /\ OutcomeAtEnd /\ [Next]_vars => OutcomeAtEnd'
<1> SUFFICES ASSUME TypeOK, OutcomeAtEnd, [Next]_vars PROVE OutcomeAtEnd'
  OBVIOUS
<1>1. ASSUME NEW m \in Msgs, Send(m) PROVE OutcomeAtEnd'
  BY <1>1 DEF Send, OutcomeAtEnd, TypeOK
<1>2. CASE TakeFrame
  BY <1>2 DEF TakeFrame, OutcomeAtEnd, TypeOK
<1>3. CASE LoadState
  BY <1>3 DEF LoadState, OutcomeAtEnd, TypeOK
<1>4. CASE StoreState
  BY <1>4 DEF StoreState, OutcomeAtEnd, TypeOK
<1>5. CASE TurnFails
  BY <1>5 DEF TurnFails, OutcomeAtEnd, TypeOK
<1>6. ASSUME NEW e \in AllEdges, Register(e) PROVE OutcomeAtEnd'
  BY <1>6 DEF Register, OutcomeAtEnd, TypeOK
<1>7. ASSUME NEW r \in Calls, Refuse(r) PROVE OutcomeAtEnd'
  BY <1>7 DEF Refuse, End, OutcomeAtEnd, TypeOK
<1>8. ASSUME NEW r \in Calls, Start(r) PROVE OutcomeAtEnd'
  BY <1>8, StartFacts DEF OutcomeAtEnd, TypeOK
<1>9. ASSUME NEW r \in Calls, Drained(r) PROVE OutcomeAtEnd'
  BY <1>9 DEF Drained, OutcomeAtEnd, TypeOK
<1>10. ASSUME NEW r \in Calls, DrainDeadline(r) PROVE OutcomeAtEnd'
  BY <1>10 DEF DrainDeadline, End, OutcomeAtEnd, TypeOK
<1>11. ASSUME NEW r \in Calls, Pause(r) PROVE OutcomeAtEnd'
  BY <1>11 DEF Pause, OutcomeAtEnd, TypeOK
<1>12. ASSUME NEW r \in Calls, Snapshot(r) PROVE OutcomeAtEnd'
  BY <1>12 DEF Snapshot, OutcomeAtEnd, TypeOK
<1>13. ASSUME NEW r \in Calls, SnapshotFails(r) PROVE OutcomeAtEnd'
  BY <1>13 DEF SnapshotFails, End, OutcomeAtEnd, TypeOK
<1>14. ASSUME NEW r \in Calls, SwapSlot(r) PROVE OutcomeAtEnd'
  BY <1>14 DEF SwapSlot, OutcomeAtEnd, TypeOK
<1>15. ASSUME NEW r \in Calls, Restore(r) PROVE OutcomeAtEnd'
  BY <1>15 DEF Restore, OutcomeAtEnd, TypeOK
<1>16. ASSUME NEW r \in Calls, RestoreFails(r) PROVE OutcomeAtEnd'
  BY <1>16 DEF RestoreFails, End, OutcomeAtEnd, TypeOK
<1>17. ASSUME NEW r \in Calls, Resume(r) PROVE OutcomeAtEnd'
  BY <1>17 DEF Resume, End, OutcomeAtEnd, TypeOK
<1>18. CASE LoopEnds
  BY <1>18 DEF LoopEnds, OutcomeAtEnd, TypeOK
<1>19. CASE Mark
  BY <1>19 DEF Mark, OutcomeAtEnd, TypeOK
<1>20. CASE UNCHANGED vars
  BY <1>20 DEF vars, OutcomeAtEnd, TypeOK
<1> QED
  BY <1>1, <1>2, <1>3, <1>4, <1>5, <1>6, <1>7, <1>8, <1>9, <1>10, <1>11,
     <1>12, <1>13, <1>14, <1>15, <1>16, <1>17, <1>18, <1>19, <1>20
     DEF Next, Loop, Step

(* Migrations stay registered while a call runs. *)
LEMMA NextPlan ==
  TypeOK /\ PlanIsRegistered /\ [Next]_vars => PlanIsRegistered'
<1> SUFFICES ASSUME TypeOK, PlanIsRegistered, [Next]_vars PROVE PlanIsRegistered'
  OBVIOUS
<1>1. ASSUME NEW m \in Msgs, Send(m) PROVE PlanIsRegistered'
  BY <1>1 DEF Send, PlanIsRegistered, InProgress, TypeOK
<1>2. CASE TakeFrame
  BY <1>2 DEF TakeFrame, PlanIsRegistered, InProgress, TypeOK
<1>3. CASE LoadState
  BY <1>3 DEF LoadState, PlanIsRegistered, InProgress, TypeOK
<1>4. CASE StoreState
  BY <1>4 DEF StoreState, PlanIsRegistered, InProgress, TypeOK
<1>5. CASE TurnFails
  BY <1>5 DEF TurnFails, PlanIsRegistered, InProgress, TypeOK
<1>6. ASSUME NEW e \in AllEdges, Register(e) PROVE PlanIsRegistered'
  BY <1>6 DEF Register, PlanIsRegistered, InProgress, IsPath
<1>7. ASSUME NEW r \in Calls, Refuse(r) PROVE PlanIsRegistered'
  BY <1>7 DEF Refuse, End, PlanIsRegistered, InProgress, TypeOK
<1>8. ASSUME NEW r \in Calls, Start(r) PROVE PlanIsRegistered'
  <2> SUFFICES ASSUME NEW q \in Calls, InProgress(q)'
               PROVE  /\ IsPath(edges', InitialSchema, plan'[q].chain)
                      /\ EndOf(InitialSchema, plan'[q].chain) = plan'[q].new
    BY Zenon DEF PlanIsRegistered
  <2>0. plan \in [Calls -> Plans] /\ pc \in [Calls -> Pcs] /\ edges' = edges
    BY <1>8, StartFacts DEF TypeOK
  <2>1. CASE q = r
    BY <1>8, <2>0, <2>1, StartFacts DEF InProgress
  <2>2. CASE q # r
    <3>1. plan'[q] = plan[q] /\ pc'[q] = pc[q]
      BY <1>8, <2>0, <2>2, StartFacts
    <3> QED BY <2>0, <3>1 DEF PlanIsRegistered, InProgress
  <2> QED BY <2>1, <2>2
<1>9. ASSUME NEW r \in Calls, Drained(r) PROVE PlanIsRegistered'
  BY <1>9 DEF Drained, PlanIsRegistered, InProgress, TypeOK
<1>10. ASSUME NEW r \in Calls, DrainDeadline(r) PROVE PlanIsRegistered'
  BY <1>10 DEF DrainDeadline, End, PlanIsRegistered, InProgress, TypeOK
<1>11. ASSUME NEW r \in Calls, Pause(r) PROVE PlanIsRegistered'
  BY <1>11 DEF Pause, PlanIsRegistered, InProgress, TypeOK
<1>12. ASSUME NEW r \in Calls, Snapshot(r) PROVE PlanIsRegistered'
  BY <1>12 DEF Snapshot, PlanIsRegistered, InProgress, TypeOK
<1>13. ASSUME NEW r \in Calls, SnapshotFails(r) PROVE PlanIsRegistered'
  BY <1>13 DEF SnapshotFails, End, PlanIsRegistered, InProgress, TypeOK
<1>14. ASSUME NEW r \in Calls, SwapSlot(r) PROVE PlanIsRegistered'
  BY <1>14 DEF SwapSlot, PlanIsRegistered, InProgress, TypeOK
<1>15. ASSUME NEW r \in Calls, Restore(r) PROVE PlanIsRegistered'
  BY <1>15 DEF Restore, PlanIsRegistered, InProgress, TypeOK
<1>16. ASSUME NEW r \in Calls, RestoreFails(r) PROVE PlanIsRegistered'
  BY <1>16 DEF RestoreFails, End, PlanIsRegistered, InProgress, TypeOK
<1>17. ASSUME NEW r \in Calls, Resume(r) PROVE PlanIsRegistered'
  BY <1>17 DEF Resume, End, PlanIsRegistered, InProgress, TypeOK
<1>18. CASE LoopEnds
  BY <1>18 DEF LoopEnds, PlanIsRegistered, InProgress, TypeOK
<1>19. CASE Mark
  BY <1>19 DEF Mark, PlanIsRegistered, InProgress, TypeOK
<1>20. CASE UNCHANGED vars
  BY <1>20 DEF vars, PlanIsRegistered, InProgress, TypeOK
<1> QED
  BY <1>1, <1>2, <1>3, <1>4, <1>5, <1>6, <1>7, <1>8, <1>9, <1>10, <1>11,
     <1>12, <1>13, <1>14, <1>15, <1>16, <1>17, <1>18, <1>19, <1>20
     DEF Next, Loop, Step

-----------------------------------------------------------------------------
(* The gate. *)

(* The gate stays closed only with a cause. *)
LEMMA NextPaused ==
  TypeOK /\ OutcomeAtEnd /\ PausedHasCause /\ [Next]_vars => PausedHasCause'
<1> SUFFICES ASSUME TypeOK, OutcomeAtEnd, PausedHasCause, [Next]_vars PROVE PausedHasCause'
  OBVIOUS
<1>1. ASSUME NEW m \in Msgs, Send(m) PROVE PausedHasCause'
  BY <1>1 DEF Send, PausedHasCause, OutcomeAtEnd, Swapping, LateFailed, LateErrors, TypeOK
<1>2. CASE TakeFrame
  BY <1>2 DEF TakeFrame, PausedHasCause, OutcomeAtEnd, Swapping, LateFailed, LateErrors, TypeOK
<1>3. CASE LoadState
  BY <1>3 DEF LoadState, PausedHasCause, OutcomeAtEnd, Swapping, LateFailed, LateErrors, TypeOK
<1>4. CASE StoreState
  BY <1>4 DEF StoreState, PausedHasCause, OutcomeAtEnd, Swapping, LateFailed, LateErrors, TypeOK
<1>5. CASE TurnFails
  BY <1>5 DEF TurnFails, PausedHasCause, OutcomeAtEnd, Swapping, LateFailed, LateErrors, TypeOK
<1>6. ASSUME NEW e \in AllEdges, Register(e) PROVE PausedHasCause'
  BY <1>6 DEF Register, PausedHasCause, OutcomeAtEnd, Swapping, LateFailed, LateErrors, TypeOK
<1>7. ASSUME NEW r \in Calls, Refuse(r) PROVE PausedHasCause'
  BY <1>7 DEF Refuse, End, PausedHasCause, OutcomeAtEnd, Swapping, LateFailed, LateErrors, TypeOK
<1>8. ASSUME NEW r \in Calls, Start(r) PROVE PausedHasCause'
  BY <1>8, StartFacts DEF PausedHasCause, OutcomeAtEnd, Swapping, LateFailed, LateErrors, TypeOK
<1>9. ASSUME NEW r \in Calls, Drained(r) PROVE PausedHasCause'
  BY <1>9 DEF Drained, PausedHasCause, OutcomeAtEnd, Swapping, LateFailed, LateErrors, TypeOK
<1>10. ASSUME NEW r \in Calls, DrainDeadline(r) PROVE PausedHasCause'
  BY <1>10 DEF DrainDeadline, End, PausedHasCause, OutcomeAtEnd, Swapping, LateFailed, LateErrors, TypeOK
<1>11. ASSUME NEW r \in Calls, Pause(r) PROVE PausedHasCause'
  BY <1>11 DEF Pause, PausedHasCause, OutcomeAtEnd, Swapping, LateFailed, LateErrors, TypeOK
<1>12. ASSUME NEW r \in Calls, Snapshot(r) PROVE PausedHasCause'
  BY <1>12 DEF Snapshot, PausedHasCause, OutcomeAtEnd, Swapping, LateFailed, LateErrors, TypeOK
<1>13. ASSUME NEW r \in Calls, SnapshotFails(r) PROVE PausedHasCause'
  BY <1>13 DEF SnapshotFails, End, PausedHasCause, OutcomeAtEnd, Swapping, LateFailed, LateErrors, TypeOK
<1>14. ASSUME NEW r \in Calls, SwapSlot(r) PROVE PausedHasCause'
  BY <1>14 DEF SwapSlot, PausedHasCause, OutcomeAtEnd, Swapping, LateFailed, LateErrors, TypeOK
<1>15. ASSUME NEW r \in Calls, Restore(r) PROVE PausedHasCause'
  BY <1>15 DEF Restore, PausedHasCause, OutcomeAtEnd, Swapping, LateFailed, LateErrors, TypeOK
<1>16. ASSUME NEW r \in Calls, RestoreFails(r) PROVE PausedHasCause'
  BY <1>16 DEF RestoreFails, End, PausedHasCause, OutcomeAtEnd, Swapping, LateFailed, LateErrors, TypeOK
<1>17. ASSUME NEW r \in Calls, Resume(r) PROVE PausedHasCause'
  BY <1>17 DEF Resume, End, PausedHasCause, OutcomeAtEnd, Swapping, LateFailed, LateErrors, TypeOK
<1>18. CASE LoopEnds
  BY <1>18 DEF LoopEnds, PausedHasCause, OutcomeAtEnd, Swapping, LateFailed, LateErrors, TypeOK
<1>19. CASE Mark
  BY <1>19 DEF Mark, PausedHasCause, OutcomeAtEnd, Swapping, LateFailed, LateErrors, TypeOK
<1>20. CASE UNCHANGED vars
  BY <1>20 DEF vars, PausedHasCause, OutcomeAtEnd, Swapping, LateFailed, LateErrors, TypeOK
<1> QED
  BY <1>1, <1>2, <1>3, <1>4, <1>5, <1>6, <1>7, <1>8, <1>9, <1>10, <1>11,
     <1>12, <1>13, <1>14, <1>15, <1>16, <1>17, <1>18, <1>19, <1>20
     DEF Next, Loop, Step

(* Unless a turn stores under it, what was handled survives every step of a *)
(* reload.                                                                  *)
LEMMA NextRaceFree ==
  TypeOK /\ RaceFree /\ [Next]_vars => RaceFree'
<1> SUFFICES ASSUME TypeOK, RaceFree, [Next]_vars PROVE RaceFree'
  OBVIOUS
<1>1. ASSUME NEW m \in Msgs, Send(m) PROVE RaceFree'
  BY <1>1 DEF Send, RaceFree, TypeOK, Cells
<1>2. CASE TakeFrame
  BY <1>2 DEF TakeFrame, RaceFree, TypeOK, Cells
<1>3. CASE LoadState
  BY <1>3 DEF LoadState, RaceFree, TypeOK, Cells
<1>4. CASE StoreState
  BY <1>4 DEF StoreState, RaceFree, TypeOK, Cells
<1>5. CASE TurnFails
  BY <1>5 DEF TurnFails, RaceFree, TypeOK, Cells
<1>6. ASSUME NEW e \in AllEdges, Register(e) PROVE RaceFree'
  BY <1>6 DEF Register, RaceFree, TypeOK, Cells
<1>7. ASSUME NEW r \in Calls, Refuse(r) PROVE RaceFree'
  BY <1>7 DEF Refuse, End, RaceFree, TypeOK, Cells
<1>8. ASSUME NEW r \in Calls, Start(r) PROVE RaceFree'
  BY <1>8, StartFacts DEF RaceFree, TypeOK
<1>9. ASSUME NEW r \in Calls, Drained(r) PROVE RaceFree'
  BY <1>9 DEF Drained, RaceFree, TypeOK, Cells
<1>10. ASSUME NEW r \in Calls, DrainDeadline(r) PROVE RaceFree'
  BY <1>10 DEF DrainDeadline, End, RaceFree, TypeOK, Cells
<1>11. ASSUME NEW r \in Calls, Pause(r) PROVE RaceFree'
  BY <1>11 DEF Pause, RaceFree, TypeOK, Cells
<1>12. ASSUME NEW r \in Calls, Snapshot(r) PROVE RaceFree'
  BY <1>12 DEF Snapshot, RaceFree, TypeOK, Cells
<1>13. ASSUME NEW r \in Calls, SnapshotFails(r) PROVE RaceFree'
  BY <1>13 DEF SnapshotFails, End, RaceFree, TypeOK, Cells
<1>14. ASSUME NEW r \in Calls, SwapSlot(r) PROVE RaceFree'
  BY <1>14 DEF SwapSlot, RaceFree, TypeOK, Cells
<1>15. ASSUME NEW r \in Calls, Restore(r) PROVE RaceFree'
  BY <1>15 DEF Restore, ApplyChain, RaceFree, TypeOK, Cells
<1>16. ASSUME NEW r \in Calls, RestoreFails(r) PROVE RaceFree'
  BY <1>16 DEF RestoreFails, End, RaceFree, TypeOK, Cells
<1>17. ASSUME NEW r \in Calls, Resume(r) PROVE RaceFree'
  BY <1>17 DEF Resume, End, RaceFree, TypeOK, Cells
<1>18. CASE LoopEnds
  BY <1>18 DEF LoopEnds, RaceFree, TypeOK, Cells
<1>19. CASE Mark
  BY <1>19 DEF Mark, RaceFree, TypeOK, Cells
<1>20. CASE UNCHANGED vars
  BY <1>20 DEF vars, RaceFree, TypeOK, Cells
<1> QED
  BY <1>1, <1>2, <1>3, <1>4, <1>5, <1>6, <1>7, <1>8, <1>9, <1>10, <1>11,
     <1>12, <1>13, <1>14, <1>15, <1>16, <1>17, <1>18, <1>19, <1>20
     DEF Next, Loop, Step

(* The only call takes module and state along together. *)
LEMMA NextSingle ==
  TypeOK /\ OutcomeAtEnd /\ PlanIsRegistered /\ SingleCall /\ [Next]_vars => SingleCall'
<1> SUFFICES ASSUME TypeOK, OutcomeAtEnd, PlanIsRegistered, SingleCall, [Next]_vars PROVE SingleCall'
  OBVIOUS
<1>1. ASSUME NEW m \in Msgs, Send(m) PROVE SingleCall'
  BY <1>1 DEF Send, SingleCall, Alone, OutcomeAtEnd, TypeOK, Cells
<1>2. CASE TakeFrame
  BY <1>2 DEF TakeFrame, SingleCall, Alone, OutcomeAtEnd, TypeOK, Cells
<1>3. CASE LoadState
  BY <1>3 DEF LoadState, SingleCall, Alone, OutcomeAtEnd, TypeOK, Cells
<1>4. CASE StoreState
  BY <1>4 DEF StoreState, SingleCall, Alone, OutcomeAtEnd, TypeOK, Cells
<1>5. CASE TurnFails
  BY <1>5 DEF TurnFails, SingleCall, Alone, OutcomeAtEnd, TypeOK, Cells
<1>6. ASSUME NEW e \in AllEdges, Register(e) PROVE SingleCall'
  BY <1>6 DEF Register, SingleCall, Alone, OutcomeAtEnd, TypeOK, Cells
<1>7. ASSUME NEW r \in Calls, Refuse(r) PROVE SingleCall'
  BY <1>7 DEF Refuse, End, SingleCall, Alone, OutcomeAtEnd, TypeOK, Cells
<1>8. ASSUME NEW r \in Calls, Start(r) PROVE SingleCall'
  BY <1>8, StartFacts DEF SingleCall, Alone, OutcomeAtEnd, TypeOK
<1>9. ASSUME NEW r \in Calls, Drained(r) PROVE SingleCall'
  BY <1>9 DEF Drained, SingleCall, Alone, OutcomeAtEnd, TypeOK, Cells
<1>10. ASSUME NEW r \in Calls, DrainDeadline(r) PROVE SingleCall'
  BY <1>10 DEF DrainDeadline, End, SingleCall, Alone, OutcomeAtEnd, TypeOK, Cells
<1>11. ASSUME NEW r \in Calls, Pause(r) PROVE SingleCall'
  BY <1>11 DEF Pause, SingleCall, Alone, OutcomeAtEnd, TypeOK, Cells
<1>12. ASSUME NEW r \in Calls, Snapshot(r) PROVE SingleCall'
  BY <1>12 DEF Snapshot, SingleCall, Alone, OutcomeAtEnd, TypeOK, Cells
<1>13. ASSUME NEW r \in Calls, SnapshotFails(r) PROVE SingleCall'
  BY <1>13 DEF SnapshotFails, End, SingleCall, Alone, OutcomeAtEnd, TypeOK, Cells
<1>14. ASSUME NEW r \in Calls, SwapSlot(r) PROVE SingleCall'
  BY <1>14 DEF SwapSlot, SingleCall, Alone, OutcomeAtEnd, TypeOK
<1>15. ASSUME NEW r \in Calls, Restore(r) PROVE SingleCall'
  <2>1. /\ pc[r] = "restore" /\ pc' = [pc EXCEPT ![r] = "resume"]
        /\ state' = ApplyChain(plan[r].chain, snap[r]) /\ loop' = loop
        /\ straddled' = (straddled \/ loop.at = "running")
        /\ UNCHANGED <<slot, plan, snap, out>>
    BY <1>15 DEF Restore
  <2>2. ASSUME NEW q \in Calls, q # r PROVE ~Alone(q)'
    BY <2>1, <2>2 DEF Alone, TypeOK
  <2>3. pc'[r] = "resume" /\ out'[r] # "completed"
    BY <2>1 DEF OutcomeAtEnd, TypeOK
  <2>4. ASSUME Alone(r)', plan[r].installs, ~straddled'
        PROVE  slot' = state'.shape /\ loop'.at # "running"
    <3>1. Alone(r)
      BY <2>1, <2>4 DEF Alone, TypeOK
    <3>2. snap[r].shape = InitialSchema /\ slot = plan[r].new
      BY <2>1, <2>4, <3>1 DEF SingleCall
    <3>3. EndOf(InitialSchema, plan[r].chain) = plan[r].new
      BY <2>1 DEF PlanIsRegistered, InProgress
    <3>4. snap[r] \in Cells
      BY DEF TypeOK
    <3>5. state'.shape = plan[r].new
      BY <2>1, <3>2, <3>3, <3>4 DEF ApplyChain, EndOf, Cells
    <3> QED BY <2>1, <2>4, <3>2, <3>5
  <2> QED BY <2>1, <2>2, <2>3, <2>4 DEF SingleCall
<1>16. ASSUME NEW r \in Calls, RestoreFails(r) PROVE SingleCall'
  BY <1>16 DEF RestoreFails, End, SingleCall, Alone, OutcomeAtEnd, TypeOK, Cells
<1>17. ASSUME NEW r \in Calls, Resume(r) PROVE SingleCall'
  BY <1>17 DEF Resume, End, SingleCall, Alone, OutcomeAtEnd, TypeOK, Cells
<1>18. CASE LoopEnds
  BY <1>18 DEF LoopEnds, SingleCall, Alone, OutcomeAtEnd, TypeOK, Cells
<1>19. CASE Mark
  BY <1>19 DEF Mark, SingleCall, Alone, OutcomeAtEnd, TypeOK, Cells
<1>20. CASE UNCHANGED vars
  BY <1>20 DEF vars, SingleCall, Alone, OutcomeAtEnd, TypeOK, Cells
<1> QED
  BY <1>1, <1>2, <1>3, <1>4, <1>5, <1>6, <1>7, <1>8, <1>9, <1>10, <1>11,
     <1>12, <1>13, <1>14, <1>15, <1>16, <1>17, <1>18, <1>19, <1>20
     DEF Next, Loop, Step

LEMMA InitIInv == Init => IInv
<1> SUFFICES ASSUME Init PROVE IInv
  OBVIOUS
<1>1. TypeOK /\ LoopHoldsFrame
  <2>1. [new |-> InitialSchema, installs |-> FALSE, chain |-> << >>] \in Plans
    BY InitialSchemaAssumption DEF Plans
  <2>2. plan \in [Calls -> Plans]
    BY <2>1 DEF Init
  <2> QED BY <2>2, InitialSchemaAssumption DEF Init, TypeOK, LoopHoldsFrame, Cells, Pcs
<1>2. OutcomeAtEnd /\ PlanIsRegistered /\ PausedHasCause
  BY DEF Init, OutcomeAtEnd, PlanIsRegistered, InProgress, PausedHasCause
<1>3. RaceFree
  BY DEF Init, RaceFree
<1>4. SingleCall
  BY DEF Init, SingleCall
<1> QED BY <1>1, <1>2, <1>3, <1>4 DEF IInv

LEMMA NextIInv == IInv /\ [Next]_vars => IInv'
  BY NextTypeOK, NextLoop, NextOutcome, NextPlan, NextPaused, NextRaceFree, NextSingle DEF IInv

LEMMA Invariance == Spec => []IInv
  BY InitIInv, NextIInv, PTL DEF Spec

-----------------------------------------------------------------------------
(* The theorems. *)

(* The gate, the cell, the module slot, the registry, the loop and every    *)
(* call's plan and snapshot keep their shape.                               *)
THEOREM TypeCorrect == Spec => []TypeOK
<1>1. IInv => TypeOK
  BY DEF IInv
<1> QED BY Invariance, <1>1, PTL

(* What SchemaRegistry::chain hands to a reload is a path of migrations     *)
(* that are registered, from the schema the hook was built with to the      *)
(* schema of the new module, and stays one as others register more.         *)
THEOREM PlansAreRegistered == Spec => []PlanIsRegistered
<1>1. IInv => PlanIsRegistered
  BY DEF IInv
<1> QED BY Invariance, <1>1, PTL

(* The gate is closed only by a call between its pause and its resume, or   *)
(* by one that failed there.                                                *)
THEOREM PauseIsExplained == Spec => []PausedHasCause
<1>1. IInv => PausedHasCause
  BY DEF IInv
<1> QED BY Invariance, <1>1, PTL

(* A reload forgets what a handler did only if the handler's turn stored    *)
(* its state between a reload's snapshot and its restore.                   *)
THEOREM NothingForgotten == Spec => []LossNeedsRace
<1>1. IInv => LossNeedsRace
  BY DEF IInv, RaceFree, LossNeedsRace
<1> QED BY Invariance, <1>1, PTL

(* After the only reload the module that was installed and the state agree  *)
(* on the schema, unless it restored under a running handler.               *)
THEOREM SingleReloadAgrees == Spec => []OneReloadAgrees
<1>1. IInv => OneReloadAgrees
  BY DEF IInv, SingleCall, Alone, OneReloadAgrees
<1> QED BY Invariance, <1>1, PTL
=============================================================================
