------------------------ MODULE WorkStealing_proofs ------------------------
(***************************************************************************)
(* The work-stealing pool, for any topology, tasks and callers: the steal  *)
(* order of a worker lists every other worker once, a task is in one place *)
(* and run once, queued work is attended, the depth counters do not wrap,  *)
(* and nothing runs after shutdown.                                        *)
(***************************************************************************)
EXTENDS WorkStealing, FiniteSetTheorems, SeqFacts

N == Cardinality(Workers)

(* The workers are 0 .. N - 1. *)
LEMMA WorkersFacts ==
  /\ N \in Nat /\ N > 0 /\ Workers = 0 .. N - 1 /\ IsFiniteSet(Workers)
<1>1. N \in Nat /\ N > 0 /\ Topology \in [0 .. N - 1 -> [node : Nat, socket : Nat]]
  BY TopologyAssumption DEF N
<1>2. Workers = 0 .. N - 1
  <2>1. DOMAIN Topology = 0 .. N - 1
    BY <1>1
  <2> QED BY <2>1 DEF Workers
<1>3. IsFiniteSet(0 .. N - 1)
  BY <1>1, FS_Interval
<1> QED BY <1>1, <1>2, <1>3

-----------------------------------------------------------------------------
(* The order of the siblings. *)

TierNames == {"same_node", "same_socket", "anywhere"}

(* The tiers after some offsets: their workers are siblings of self, as many *)
(* as offsets, and every offset has its worker in one of them.               *)
TiersUpto(n, self) ==
  {t \in [TierNames -> Seq(Workers \ {self})] :
     /\ Len(t.same_node) + Len(t.same_socket) + Len(t.anywhere) = n
     /\ \A j \in 1 .. n : \E x \in TierNames : \E i \in 1 .. Len(t[x]) :
          t[x][i] = (self + j) % N}

(* Remainders of numbers below twice the modulus. *)
LEMMA ModSmall ==
  ASSUME NEW m \in Nat, m > 0, NEW x \in 0 .. m - 1
  PROVE  x % m = x /\ (x + m) % m = x
  OBVIOUS

(* A positive offset leads from a worker to another one. *)
LEMMA OffsetLeadsAway ==
  ASSUME NEW self \in Workers, NEW j \in 1 .. N - 1
  PROVE  (self + j) % N \in Workers \ {self}
<1>1. N \in Nat /\ N > 0 /\ self \in 0 .. N - 1 /\ Workers = 0 .. N - 1
  BY WorkersFacts
<1> HIDE DEF N, Workers
<1>2. CASE self + j < N
  <2>1. self + j \in 0 .. N - 1
    BY <1>1, <1>2
  <2> QED BY <1>1, <2>1, ModSmall
<1>3. CASE self + j >= N
  <2>1. (self + j) - N \in 0 .. N - 1 /\ ((self + j) - N) + N = self + j /\ (self + j) - N # self
    BY <1>1, <1>3
  <2>2. (((self + j) - N) + N) % N = (self + j) - N
    BY <1>1, <2>1, ModSmall
  <2> QED BY <1>1, <2>1, <2>2
<1> QED BY <1>1, <1>2, <1>3

(* Every other worker is at some offset. *)
LEMMA EveryoneHasOffset ==
  ASSUME NEW self \in Workers, NEW v \in Workers \ {self}
  PROVE  \E j \in 1 .. N - 1 : (self + j) % N = v
<1>1. N \in Nat /\ N > 0 /\ self \in 0 .. N - 1 /\ v \in 0 .. N - 1 /\ v # self
  BY WorkersFacts
<1>2. v % N = v /\ (v + N) % N = v
  <2> HIDE DEF N
  <2> QED BY <1>1, ModSmall
<1> HIDE DEF N
<1>3. CASE v > self
  <2>1. v - self \in 1 .. N - 1 /\ self + (v - self) = v
    BY <1>1, <1>3
  <2> QED BY <1>2, <2>1
<1>4. CASE v < self
  <2>1. (v + N) - self \in 1 .. N - 1 /\ self + ((v + N) - self) = v + N
    BY <1>1, <1>4
  <2> QED BY <1>2, <2>1
<1> QED BY <1>1, <1>3, <1>4

(* Pushing the worker of the next offset. *)
LEMMA PushOffsetFacts ==
  ASSUME NEW self \in Workers, NEW n \in 1 .. N - 1,
         NEW t \in [TierNames -> Seq(Workers \ {self})]
  PROVE  /\ PushOffset(t, n, self, Topology) \in [TierNames -> Seq(Workers \ {self})]
         /\ t \in TiersUpto(n - 1, self)
              => PushOffset(t, n, self, Topology) \in TiersUpto(n, self)
<1> DEFINE id == (self + n) % N
           x == TierOf(id, self, Topology)
           u == [t EXCEPT ![x] = Append(@, id)]
<1>1. id \in Workers \ {self}
  BY OffsetLeadsAway
<1>2. x \in TierNames
  BY DEF TierOf, TierNames
<1>3. PushOffset(t, n, self, Topology) = u
  BY DEF PushOffset, N, Workers
<1> HIDE DEF id, x
<1>4. t[x] \in Seq(Workers \ {self})
  BY <1>2
<1>5. /\ Append(t[x], id) \in Seq(Workers \ {self})
      /\ Len(Append(t[x], id)) = Len(t[x]) + 1 /\ Len(t[x]) \in Nat
      /\ Append(t[x], id)[Len(t[x]) + 1] = id
      /\ \A i \in 1 .. Len(t[x]) : Append(t[x], id)[i] = t[x][i]
  BY <1>1, <1>4
<1>6. /\ u \in [TierNames -> Seq(Workers \ {self})]
      /\ u[x] = Append(t[x], id)
      /\ \A y \in TierNames : y # x => u[y] = t[y]
  BY <1>2, <1>5
<1> HIDE DEF u
<1>7. ASSUME t \in TiersUpto(n - 1, self) PROVE u \in TiersUpto(n, self)
  <2>0. n \in Nat /\ n - 1 \in Nat /\ N \in Nat
    BY WorkersFacts
  <2>1. Len(t.same_node) + Len(t.same_socket) + Len(t.anywhere) = n - 1
    BY <1>7 DEF TiersUpto
  <2>2. \A y \in TierNames : Len(u[y]) = IF y = x THEN Len(t[y]) + 1 ELSE Len(t[y])
    BY <1>2, <1>5, <1>6
  <2>3. \A y \in TierNames : Len(t[y]) \in Nat
    OBVIOUS
  <2>4. Len(u.same_node) + Len(u.same_socket) + Len(u.anywhere) = n
    <3>2. /\ Len(u.same_node) = IF x = "same_node" THEN Len(t.same_node) + 1 ELSE Len(t.same_node)
          /\ Len(u.same_socket) = IF x = "same_socket" THEN Len(t.same_socket) + 1
                                                       ELSE Len(t.same_socket)
          /\ Len(u.anywhere) = IF x = "anywhere" THEN Len(t.anywhere) + 1 ELSE Len(t.anywhere)
          /\ Len(t.same_node) \in Nat /\ Len(t.same_socket) \in Nat /\ Len(t.anywhere) \in Nat
      BY <2>2, <2>3 DEF TierNames
    <3>3. x = "same_node" \/ x = "same_socket" \/ x = "anywhere"
      BY <1>2 DEF TierNames
    <3> DEFINE a == Len(t.same_node)
               b == Len(t.same_socket)
               c == Len(t.anywhere)
    <3>4. /\ a \in Nat /\ b \in Nat /\ c \in Nat /\ a + b + c = n - 1
          /\ Len(u.same_node) = IF x = "same_node" THEN a + 1 ELSE a
          /\ Len(u.same_socket) = IF x = "same_socket" THEN b + 1 ELSE b
          /\ Len(u.anywhere) = IF x = "anywhere" THEN c + 1 ELSE c
      BY <2>1, <3>2
    <3> HIDE DEF a, b, c
    <3>5. /\ (a + 1) + b + c = n /\ a + (b + 1) + c = n /\ a + b + (c + 1) = n
      BY <2>0, <3>4
    <3> QED BY <3>3, <3>4, <3>5
  <2>5. ASSUME NEW j \in 1 .. n
        PROVE  \E y \in TierNames : \E i \in 1 .. Len(u[y]) : u[y][i] = (self + j) % N
    <3>1. CASE j = n
      <4>1. Len(t[x]) + 1 \in 1 .. Len(u[x]) /\ u[x][Len(t[x]) + 1] = id
        BY <1>5, <1>6
      <4> QED BY <1>2, <3>1, <4>1 DEF id
    <3>2. CASE j # n
      <4>1. j \in 1 .. n - 1
        BY <2>0, <3>2
      <4>2. PICK y \in TierNames :
              \E i \in 1 .. Len(t[y]) : t[y][i] = (self + j) % N
        BY <1>7, <4>1 DEF TiersUpto
      <4>a. PICK i \in 1 .. Len(t[y]) : t[y][i] = (self + j) % N
        BY <4>2
      <4>3. i \in 1 .. Len(u[y]) /\ u[y][i] = t[y][i]
        <5>1. CASE y = x
          BY <1>5, <1>6, <4>a, <5>1
        <5>2. CASE y # x
          BY <1>6, <4>a, <5>2
        <5> QED BY <5>1, <5>2
      <4> QED BY <4>a, <4>3
    <3> QED BY <3>1, <3>2
  <2> QED BY <1>6, <2>4, <2>5 DEF TiersUpto
<1> QED BY <1>3, <1>6, <1>7

(* The tiers hold every sibling once. *)
LEMMA TiersFacts ==
  ASSUME NEW self \in Workers
  PROVE  Tiers(self, Topology) \in TiersUpto(N - 1, self)
<1> DEFINE Q == [TierNames -> Seq(Workers \ {self})]
           k == N - 1
           F == [n \in 1 .. k |-> [t \in Q |-> PushOffset(t, n, self, Topology)]]
           last == Cardinality(DOMAIN Topology) - 1
           upto == CHOOSE g : g = [offset \in 0 .. last |->
                     IF offset = 0 THEN NoTiers
                     ELSE PushOffset(g[offset - 1], offset, self, Topology)]
<1>1. k \in Nat /\ last = k
  BY WorkersFacts DEF N, Workers
<1>2. NoTiers \in Q
  BY DEF NoTiers, TierNames
<1>3. ASSUME NEW n \in 1 .. k, NEW t \in Q PROVE PushOffset(t, n, self, Topology) \in Q
  BY PushOffsetFacts
<1>4. Tiers(self, Topology) = upto[last]
  BY Zenon DEF Tiers
<1> HIDE DEF Q, k, last
<1>5. AreSteps(F, k, Q)
  BY <1>3 DEF AreSteps
<1>6. \E g : g = [offset \in 0 .. last |->
                 IF offset = 0 THEN NoTiers
                 ELSE PushOffset(g[offset - 1], offset, self, Topology)]
  <2>1. PICK g : IsRun(g, F, k, Q, NoTiers)
    <3> HIDE DEF F, upto
    <3> QED BY <1>1, <1>2, <1>5, Iterate
  <2>2. ASSUME NEW n \in 0 .. k
        PROVE  g[n] = IF n = 0 THEN NoTiers ELSE PushOffset(g[n - 1], n, self, Topology)
    <3>1. CASE n = 0
      BY <2>1, <3>1 DEF IsRun
    <3>2. CASE n # 0
      <4>1. n \in 1 .. k /\ n - 1 \in 0 .. k
        BY <1>1, <3>2
      <4>2. g[n - 1] \in Q /\ g[n] = F[n][g[n - 1]]
        BY <2>1, <4>1 DEF IsRun
      <4>3. F[n][g[n - 1]] = PushOffset(g[n - 1], n, self, Topology)
        BY <4>1, <4>2
      <4> QED BY <3>2, <4>2, <4>3
    <3> QED BY <3>1, <3>2
  <2>3. g = [offset \in 0 .. last |->
               IF offset = 0 THEN NoTiers
               ELSE PushOffset(g[offset - 1], offset, self, Topology)]
    BY <1>1, <2>1, <2>2 DEF IsRun
  <2> QED BY <2>3
<1>7. upto = [offset \in 0 .. last |->
                IF offset = 0 THEN NoTiers
                ELSE PushOffset(upto[offset - 1], offset, self, Topology)]
  BY <1>6, Zenon
<1> HIDE DEF upto
<1> DEFINE S == {n \in 0 .. k : upto[n] \in TiersUpto(n, self)}
<1>8. 0 \in S
  <2>1. upto[0] = NoTiers /\ 0 \in 0 .. k
    BY <1>1, <1>7
  <2>2. NoTiers \in TiersUpto(0, self)
    BY <1>2 DEF Q, NoTiers, TiersUpto, TierNames
  <2> QED BY <2>1, <2>2
<1>9. ASSUME NEW n \in 1 .. k, n - 1 \in S PROVE n \in S
  <2>1. n \in 0 .. last /\ n # 0 /\ n \in 0 .. k
    BY <1>1
  <2>2. upto[n] = PushOffset(upto[n - 1], n, self, Topology)
    BY <1>7, <2>1
  <2>3. upto[n - 1] \in TiersUpto(n - 1, self)
    BY <1>9
  <2>4. upto[n - 1] \in [TierNames -> Seq(Workers \ {self})]
    BY <2>3 DEF TiersUpto
  <2>5. upto[n] \in TiersUpto(n, self)
    BY <2>2, <2>3, <2>4, PushOffsetFacts DEF k
  <2> QED BY <2>1, <2>5
<1>10. k \in S
  <2>1. k \in 0 .. k
    BY <1>1
  <2> HIDE DEF S
  <2> QED BY <1>1, <1>8, <1>9, <2>1, Climb
<1> QED BY <1>1, <1>4, <1>10 DEF k

(* build_steal_order returns every other worker, once, and never the worker  *)
(* itself, whatever the topology.                                            *)
THEOREM StealOrderIsComplete ==
  ASSUME NEW w \in Workers
  PROVE  /\ StealOrderOf[w] \in Seq(Workers \ {w}) /\ Len(StealOrderOf[w]) = N - 1
         /\ \A v \in Workers \ {w} : \E i \in 1 .. N - 1 : StealOrderOf[w][i] = v
<1> DEFINE t == Tiers(w, Topology)
           A == t.same_node
           B == t.same_socket
           C == t.anywhere
           X == Workers \ {w}
<1>1. t \in TiersUpto(N - 1, w)
  BY TiersFacts
<1>2. StealOrderOf[w] = (A \o B) \o C
  BY DEF StealOrderOf, BuildStealOrder
<1> HIDE DEF t
<1>3. /\ A \in Seq(X) /\ B \in Seq(X) /\ C \in Seq(X)
      /\ Len(A) + Len(B) + Len(C) = N - 1
      /\ \A j \in 1 .. N - 1 : \/ \E i \in 1 .. Len(A) : A[i] = (w + j) % N
                               \/ \E i \in 1 .. Len(B) : B[i] = (w + j) % N
                               \/ \E i \in 1 .. Len(C) : C[i] = (w + j) % N
  BY <1>1 DEF TiersUpto, TierNames
<1> HIDE DEF A, B, C, X
<1>4. /\ A \o B \in Seq(X) /\ Len(A \o B) = Len(A) + Len(B)
      /\ \A j \in 1 .. Len(A) : (A \o B)[j] = A[j]
      /\ \A j \in Len(A) + 1 .. Len(A) + Len(B) : (A \o B)[j] = B[j - Len(A)]
  <2>1. A \in Seq(X) /\ B \in Seq(X)
    BY <1>3
  <2> QED BY <2>1, ConcatFacts, Zenon
<1> DEFINE D == A \o B
<1> HIDE DEF D
<1>5. /\ D \o C \in Seq(X) /\ Len(D \o C) = Len(D) + Len(C)
      /\ \A j \in 1 .. Len(D) : (D \o C)[j] = D[j]
      /\ \A j \in Len(D) + 1 .. Len(D) + Len(C) : (D \o C)[j] = C[j - Len(D)]
  <2>1. D \in Seq(X)
    BY <1>4 DEF D
  <2> QED BY <1>3, <2>1, ConcatFacts, Zenon
<1> DEFINE O == D \o C
<1>6. StealOrderOf[w] = O
  BY <1>2 DEF D
<1>7. /\ Len(A) \in Nat /\ Len(B) \in Nat /\ Len(C) \in Nat
      /\ Len(D) = Len(A) + Len(B) /\ Len(O) = N - 1
  BY <1>3, <1>4, <1>5 DEF D
<1>8. /\ \A i \in 1 .. Len(A) : i \in 1 .. N - 1 /\ O[i] = A[i]
      /\ \A i \in 1 .. Len(B) : Len(A) + i \in 1 .. N - 1 /\ O[Len(A) + i] = B[i]
      /\ \A i \in 1 .. Len(C) : Len(D) + i \in 1 .. N - 1 /\ O[Len(D) + i] = C[i]
  <2>0. N \in Nat /\ N > 0
    BY WorkersFacts
  <2> HIDE DEF O, N
  <2>1. ASSUME NEW i \in 1 .. Len(A) PROVE i \in 1 .. N - 1 /\ O[i] = A[i]
    <3>1. i \in 1 .. Len(D) /\ i \in 1 .. N - 1
      BY <1>3, <1>7, <2>0
    <3> QED BY <1>4, <1>5, <3>1 DEF D, O
  <2>2. ASSUME NEW i \in 1 .. Len(B)
        PROVE  Len(A) + i \in 1 .. N - 1 /\ O[Len(A) + i] = B[i]
    <3>1. /\ Len(A) + i \in 1 .. Len(D) /\ Len(A) + i \in 1 .. N - 1
          /\ Len(A) + i \in Len(A) + 1 .. Len(A) + Len(B) /\ (Len(A) + i) - Len(A) = i
      BY <1>3, <1>7, <2>0
    <3> QED BY <1>4, <1>5, <3>1 DEF D, O
  <2>3. ASSUME NEW i \in 1 .. Len(C)
        PROVE  Len(D) + i \in 1 .. N - 1 /\ O[Len(D) + i] = C[i]
    <3>1. /\ Len(D) + i \in 1 .. N - 1
          /\ Len(D) + i \in Len(D) + 1 .. Len(D) + Len(C) /\ (Len(D) + i) - Len(D) = i
      BY <1>3, <1>7, <2>0
    <3> QED BY <1>5, <3>1 DEF O
  <2> QED BY <2>1, <2>2, <2>3
<1>9. ASSUME NEW v \in Workers \ {w} PROVE \E i \in 1 .. N - 1 : O[i] = v
  <2>1. PICK j \in 1 .. N - 1 : (w + j) % N = v
    BY EveryoneHasOffset
  <2> HIDE DEF O, N
  <2>2. \/ \E i \in 1 .. Len(A) : A[i] = v
        \/ \E i \in 1 .. Len(B) : B[i] = v
        \/ \E i \in 1 .. Len(C) : C[i] = v
    BY <1>3, <2>1
  <2> QED BY <1>8, <2>2
<1> QED BY <1>5, <1>6, <1>7, <1>9 DEF X

-----------------------------------------------------------------------------
(* The inductive invariant. *)

(* A worker has a task in hand in execute() only, and steals from a sibling. *)
LoopHolds ==
  \A w \in Workers : /\ pc[w] \in {"exec", "sub"} <=> job[w] # NoTask
                     /\ pc[w] = "steal" => probe[w] \in 1 .. N - 1

(* A queued task, or one in hand, was submitted, was not run and is nowhere  *)
(* else; a submitted task that is nowhere was run.                           *)
Nowhere(t) == t \notin injector /\ \A w \in Workers : t \notin deque[w] /\ job[w] # t
IsPlaced(t) ==
  /\ t \in injector => \A w \in Workers : t \notin deque[w] /\ job[w] # t
  /\ \A w \in Workers : t \in deque[w]
       => \A v \in Workers : (t \in deque[v] => v = w) /\ job[v] # t
  /\ \A w \in Workers : job[w] = t => \A v \in Workers : job[v] = t => v = w
  /\ ~Nowhere(t) => Pushed(t) /\ ran[t] = 0
  /\ Nowhere(t) => ran[t] = IF Pushed(t) THEN 1 ELSE 0
TasksArePlaced == \A t \in Tasks : IsPlaced(t)

(* A worker looks for work elsewhere only with an empty deque: nobody else   *)
(* fills it.                                                                 *)
ScannersAreEmpty ==
  \A w \in Workers : pc[w] \in {"scan", "steal", "inject", "injsteal", "park"} => deque[w] = {}

(* A worker exits because it was told to. *)
StopIsOrdered ==
  /\ \A w \in Workers : (pc[w] = "exited" => stop[w]) /\ (stop[w] => started)
  /\ \A c \in Callers : caller[c].at # "idle" => started

(* Of a task on the injector that was announced, somebody takes notice. *)
InjectorIsAttended ==
  (\E t \in injector : Announced(t)) /\ ~started
    => \E w \in Workers : pc[w] \notin {"park", "exited"} \/ permit[w]

(* A task is announced after it was pushed, worker after worker. *)
NotifiedAfterPush ==
  \A t \in Tasks : /\ submit[t] \in {"no", "raised"} \/ t \in Pinned => woken[t] = 0
                   /\ submit[t] = "pushed" /\ t \notin Pinned => woken[t] \in Workers

(* The depth of a worker that is about to lower it is not 0. *)
Raised(w) == {t \in Pinned : Target[t] = w /\ submit[t] # "no"}
DepthsAreCounted ==
  \A w \in Workers : /\ depth[w] <= Cardinality(Raised(w))
                     /\ pc[w] = "sub" /\ prev[w] > 0 => depth[w] > 0

(* The caller that joins has seen the workers before its next one exit. *)
CallerJoins(c) ==
  /\ caller[c].at = "idle" => caller[c].next = 0
  /\ caller[c].at \in {"flag", "join"} => caller[c].next \in Workers
  /\ caller[c].at = "join" => \A w \in Workers : w < caller[c].next => pc[w] = "exited"
  /\ caller[c].at = "returned" /\ caller[c].next # 0 => \A w \in Workers : pc[w] = "exited"
CallersJoin == \A c \in Callers : CallerJoins(c)

IInv == /\ TypeOK /\ LoopHolds /\ TasksArePlaced /\ ScannersAreEmpty
        /\ StopIsOrdered /\ NotifiedAfterPush /\ InjectorIsAttended
        /\ DepthsAreCounted /\ CallersJoin

USE DEF queueVars, submitVars, loopVars, closeVars

-----------------------------------------------------------------------------
(* Type correctness. *)

(* A thief's sibling is another worker. *)
LEMMA SiblingFacts ==
  ASSUME LoopHolds, NEW w \in Workers, pc[w] = "steal"
  PROVE  SiblingOf(w) \in Workers \ {w}
<1>1. probe[w] \in 1 .. N - 1
  BY DEF LoopHolds
<1>2. StealOrderOf[w] \in Seq(Workers \ {w}) /\ Len(StealOrderOf[w]) = N - 1
  BY StealOrderIsComplete
<1>3. StealOrderOf[w][probe[w]] \in Workers \ {w}
  <2> DEFINE o == StealOrderOf[w]
  <2> HIDE DEF o
  <2>1. o \in Seq(Workers \ {w}) /\ probe[w] \in 1 .. Len(o)
    BY <1>1, <1>2 DEF o
  <2> QED BY <2>1 DEF o
<1> QED BY <1>3 DEF SiblingOf

(* What a steal does to the deques. *)
LEMMA StealFacts ==
  ASSUME TypeOK, LoopHolds, NEW w \in Workers, StealSucceeds(w)
  PROVE  \E v \in Workers \ {w} : \E b \in SUBSET deque[v] : \E t \in b :
           /\ deque' = [x \in Workers |-> IF x = w THEN deque[w] \cup (b \ {t})
                                          ELSE IF x = v THEN deque[v] \ b ELSE deque[x]]
           /\ Take(w, t)
<1>1. SiblingOf(w) \in Workers \ {w}
  BY SiblingFacts DEF StealSucceeds
<1>2. PICK b \in Batches(deque[SiblingOf(w)]) : \E t \in b :
        /\ deque' = [deque EXCEPT ![SiblingOf(w)] = @ \ b, ![w] = @ \cup (b \ {t})]
        /\ Take(w, t)
  BY Zenon DEF StealSucceeds
<1>3. PICK t \in b :
        /\ deque' = [deque EXCEPT ![SiblingOf(w)] = @ \ b, ![w] = @ \cup (b \ {t})]
        /\ Take(w, t)
  BY <1>2
<1> DEFINE v == SiblingOf(w)
<1>4. b \in SUBSET deque[v]
  BY <1>2 DEF Batches
<1>5. deque \in [Workers -> SUBSET Tasks]
  BY DEF TypeOK
<1> HIDE DEF v
<1>6. deque' = [deque EXCEPT ![v] = @ \ b, ![w] = @ \cup (b \ {t})]
  BY <1>3 DEF v
<1>7. v \in Workers \ {w}
  BY <1>1 DEF v
<1>8. deque' = [x \in Workers |-> IF x = w THEN deque[w] \cup (b \ {t})
                                  ELSE IF x = v THEN deque[v] \ b ELSE deque[x]]
  BY <1>5, <1>6, <1>7
<1> QED BY <1>3, <1>4, <1>7, <1>8

(* What a batch from the injector does to the queues. *)
LEMMA InjectFacts ==
  ASSUME TypeOK, NEW w \in Workers, InjectorSucceeds(w)
  PROVE  \E b \in SUBSET injector, t \in Tasks :
           /\ t \in b /\ injector' = injector \ b
           /\ deque' = [deque EXCEPT ![w] = @ \cup (b \ {t})]
           /\ Take(w, t)
<1>1. PICK b \in Batches(injector) : \E t \in b :
        /\ injector' = injector \ b
        /\ deque' = [deque EXCEPT ![w] = @ \cup (b \ {t})]
        /\ Take(w, t)
  BY Zenon DEF InjectorSucceeds
<1>2. b \in SUBSET injector /\ injector \subseteq Tasks
  BY <1>1 DEF Batches, TypeOK
<1> QED BY <1>1, <1>2

(* A task taken is a task in hand. *)
LEMMA TakeTypes ==
  ASSUME TypeOK, NEW w \in Workers, NEW t \in Tasks, Take(w, t)
  PROVE  job' \in [Workers -> Tasks \cup {NoTask}] /\ pc' \in [Workers -> Pcs]
  BY DEF Take, TypeOK, Pcs

(* The counters wrap within their width. *)
LEMMA DepthFacts ==
  /\ DepthMod \in Nat /\ DepthMod > 0
  /\ \A x \in Nat : x % DepthMod \in 0 .. DepthMod - 1
  /\ IsFiniteSet(Pinned) /\ Cardinality(Pinned) \in Nat /\ Cardinality(Pinned) < DepthMod
<1>1. IsFiniteSet(Pinned) /\ Cardinality(Pinned) \in Nat
  BY TasksAssumption, FS_Subset, FS_CardinalityType
<1>2. DepthMod \in Nat /\ Cardinality(Pinned) < DepthMod
  BY DepthAssumption
<1>3. DepthMod > 0
  BY <1>1, <1>2
<1> QED BY <1>1, <1>2, <1>3

(* Every step keeps the shape of the state. *)
LEMMA NextTypeOK ==
  TypeOK /\ LoopHolds /\ [Next]_vars => TypeOK'
<1> SUFFICES ASSUME TypeOK, LoopHolds, [Next]_vars PROVE TypeOK'
  OBVIOUS
<1>1. ASSUME NEW t \in Tasks, PushTask(t) PROVE TypeOK'
  BY <1>1 DEF PushTask, TypeOK, Pcs
<1>2. ASSUME NEW t \in Tasks, RaiseDepth(t) PROVE TypeOK'
  <2>1. Target[t] \in Workers
    BY <1>2, TasksAssumption DEF RaiseDepth
  <2>2. (depth[Target[t]] + 1) % DepthMod \in 0 .. DepthMod - 1
    <3>1. depth[Target[t]] + 1 \in Nat
      BY <2>1, DepthFacts DEF TypeOK
    <3> QED BY <3>1, DepthFacts
  <2>3. depth' \in [Workers -> 0 .. DepthMod - 1]
    BY <1>2, <2>2 DEF RaiseDepth, TypeOK
  <2> QED BY <1>2, <2>3 DEF RaiseDepth, TypeOK
<1>3. ASSUME NEW t \in Tasks, PushPinned(t) PROVE TypeOK'
  BY <1>3 DEF PushPinned, TypeOK, Pcs
<1>4. ASSUME NEW w \in Workers, ExitLoop(w) PROVE TypeOK'
  BY <1>4 DEF ExitLoop, TypeOK, Pcs
<1>5. ASSUME NEW w \in Workers, PopLocal(w) PROVE TypeOK'
  <2>1. stale' \in [Workers -> BOOLEAN]
    BY <1>5 DEF PopLocal, Disturb, TypeOK
  <2>2. PICK t \in deque[w] : deque' = [deque EXCEPT ![w] = @ \ {t}] /\ Take(w, t)
    BY <1>5 DEF PopLocal
  <2>3. t \in Tasks /\ deque' \in [Workers -> SUBSET Tasks]
    BY <2>2 DEF TypeOK
  <2> QED BY <1>5, <2>1, <2>2, <2>3, TakeTypes DEF PopLocal, TypeOK
<1>6. ASSUME NEW w \in Workers, LocalEmpty(w) PROVE TypeOK'
  BY <1>6 DEF LocalEmpty, TypeOK, Pcs
<1>7. ASSUME NEW w \in Workers, Probe(w) PROVE TypeOK'
  BY <1>7 DEF Probe, TypeOK, Pcs
<1>8. ASSUME NEW w \in Workers, StealSucceeds(w) PROVE TypeOK'
  <2>1. stale' \in [Workers -> BOOLEAN]
    BY <1>8 DEF StealSucceeds, EndScan, Settle, Disturb, TypeOK
  <2>2. PICK v \in Workers \ {w} : \E b \in SUBSET deque[v] : \E t \in b :
           /\ deque' = [x \in Workers |-> IF x = w THEN deque[w] \cup (b \ {t})
                                          ELSE IF x = v THEN deque[v] \ b ELSE deque[x]]
           /\ Take(w, t)
    BY <1>8, StealFacts
  <2>3. PICK b \in SUBSET deque[v] : \E t \in b :
           /\ deque' = [x \in Workers |-> IF x = w THEN deque[w] \cup (b \ {t})
                                          ELSE IF x = v THEN deque[v] \ b ELSE deque[x]]
           /\ Take(w, t)
    BY <2>2
  <2>4. PICK t \in b :
           /\ deque' = [x \in Workers |-> IF x = w THEN deque[w] \cup (b \ {t})
                                          ELSE IF x = v THEN deque[v] \ b ELSE deque[x]]
           /\ Take(w, t)
    BY <2>3
  <2>5. b \subseteq Tasks /\ t \in Tasks
    BY <2>3, <2>4 DEF TypeOK
  <2>6. deque' \in [Workers -> SUBSET Tasks]
    BY <2>4, <2>5 DEF TypeOK
  <2> QED BY <1>8, <2>1, <2>4, <2>5, <2>6, TakeTypes DEF StealSucceeds, EndScan, Settle, TypeOK
<1>9. ASSUME NEW w \in Workers, StealFails(w) PROVE TypeOK'
  BY <1>9 DEF StealFails, Settle, TypeOK, Pcs
<1>10. ASSUME NEW w \in Workers, ScanEnds(w) PROVE TypeOK'
  BY <1>10 DEF ScanEnds, EndScan, TypeOK, Pcs
<1>11. ASSUME NEW w \in Workers, ProbeInjector(w) PROVE TypeOK'
  BY <1>11 DEF ProbeInjector, TypeOK, Pcs
<1>12. ASSUME NEW w \in Workers, InjectorSucceeds(w) PROVE TypeOK'
  <2>1. stale' \in [Workers -> BOOLEAN]
    BY <1>12 DEF InjectorSucceeds, Settle, Disturb, TypeOK
  <2>2. PICK b \in SUBSET injector, t \in Tasks :
          /\ t \in b /\ injector' = injector \ b
          /\ deque' = [deque EXCEPT ![w] = @ \cup (b \ {t})]
          /\ Take(w, t)
    BY <1>12, InjectFacts
  <2>3. injector' \subseteq Tasks /\ deque' \in [Workers -> SUBSET Tasks]
    BY <2>2 DEF TypeOK
  <2> QED BY <1>12, <2>1, <2>2, <2>3, TakeTypes DEF InjectorSucceeds, TypeOK
<1>13. ASSUME NEW w \in Workers, InjectorFails(w) PROVE TypeOK'
  BY <1>13 DEF InjectorFails, Settle, TypeOK, Pcs
<1>14. ASSUME NEW w \in Workers, Wake(w) PROVE TypeOK'
  BY <1>14 DEF Wake, TypeOK, Pcs
<1>15. ASSUME NEW w \in Workers, ReadDepth(w) PROVE TypeOK'
  BY <1>15 DEF ReadDepth, TypeOK, Pcs
<1>16. ASSUME NEW w \in Workers, Execute(w) PROVE TypeOK'
  <2>1. (depth[w] + DepthMod - 1) % DepthMod \in 0 .. DepthMod - 1
    <3>1. depth[w] + DepthMod - 1 \in Nat
      BY DepthFacts DEF TypeOK
    <3> QED BY <3>1, DepthFacts
  <2>2. depth' \in [Workers -> 0 .. DepthMod - 1]
    BY <1>16, <2>1 DEF Execute, TypeOK
  <2>a. ran[job[w]] \in Nat
    BY <1>16, TasksAssumption DEF Execute, LoopHolds, TypeOK
  <2>3. ran' \in [Tasks -> Nat] /\ job' \in [Workers -> Tasks \cup {NoTask}]
    <3> DEFINE n == ran[job[w]] + 1
    <3>0. n \in Nat
      BY <2>a
    <3>1. ran \in [Tasks -> Nat] /\ ran' = [ran EXCEPT ![job[w]] = n]
      BY <1>16 DEF Execute, TypeOK
    <3> HIDE DEF n
    <3>2. ran' \in [Tasks -> Nat]
      BY <3>0, <3>1
    <3> QED BY <1>16, <3>2 DEF Execute, TypeOK
  <2>4. pc' \in [Workers -> Pcs]
    BY <1>16 DEF Execute, TypeOK, Pcs
  <2>5. prev' \in [Workers -> 0 .. DepthMod - 1]
    <3>1. 0 \in 0 .. DepthMod - 1
      BY DepthFacts
    <3> QED BY <1>16, <3>1 DEF Execute, TypeOK
  <2> QED BY <1>16, <2>2, <2>3, <2>4, <2>5 DEF Execute, TypeOK
<1>17. ASSUME NEW c \in Callers, BeginShutdown(c) PROVE TypeOK'
  BY <1>17 DEF BeginShutdown, TypeOK, Pcs
<1>18. ASSUME NEW c \in Callers, FlagWorker(c) PROVE TypeOK'
  <2>1. caller' \in [Callers -> [at : {"idle", "flag", "join", "returned"}, next : Nat]]
    BY <1>18 DEF FlagWorker, TypeOK
  <2>2. permit' \in [Workers -> BOOLEAN] /\ stop' \in [Workers -> BOOLEAN]
    BY <1>18 DEF FlagWorker, TypeOK
  <2> QED BY <1>18, <2>1, <2>2 DEF FlagWorker, TypeOK
<1>19. ASSUME NEW c \in Callers, JoinWorker(c) PROVE TypeOK'
  BY <1>19 DEF JoinWorker, TypeOK, Pcs
<1>20. CASE UNCHANGED vars
  BY <1>20 DEF vars, TypeOK, Pcs
<1>21. ASSUME NEW t \in Tasks, NotifyNext(t) PROVE TypeOK'
  <2>1. woken[t] + 1 \in Nat
    BY DEF TypeOK
  <2>2. woken' \in [Tasks -> Nat]
    BY <1>21, <2>1 DEF NotifyNext, TypeOK
  <2>3. permit' \in [Workers -> BOOLEAN]
    BY <1>21 DEF NotifyNext, TypeOK
  <2>4. submit' \in [Tasks -> {"no", "raised", "pushed", "yes"}]
    BY <1>21 DEF NotifyNext, TypeOK
  <2> QED BY <1>21, <2>2, <2>3, <2>4 DEF NotifyNext, TypeOK, Pcs
<1>22. ASSUME NEW t \in Tasks, NotifyPinned(t) PROVE TypeOK'
  BY <1>22 DEF NotifyPinned, TypeOK, Pcs
<1> QED
  BY <1>1, <1>2, <1>3, <1>4, <1>5, <1>6, <1>7, <1>8, <1>9, <1>10, <1>11,
     <1>12, <1>13, <1>14, <1>15, <1>16, <1>17, <1>18, <1>19, <1>20, <1>21, <1>22
     DEF Next, Submit, Worker, Shutdown

-----------------------------------------------------------------------------
(* The loop of a worker. *)

(* A worker takes a task into execute() and leaves it there. *)
LEMMA NextLoop ==
  TypeOK /\ LoopHolds /\ [Next]_vars => LoopHolds'
<1> SUFFICES ASSUME TypeOK, LoopHolds, [Next]_vars PROVE LoopHolds'
  OBVIOUS
<1>1. ASSUME NEW t \in Tasks, PushTask(t) PROVE LoopHolds'
  BY <1>1 DEF PushTask, LoopHolds, TypeOK
<1>2. ASSUME NEW t \in Tasks, RaiseDepth(t) PROVE LoopHolds'
  BY <1>2 DEF RaiseDepth, LoopHolds, TypeOK
<1>3. ASSUME NEW t \in Tasks, PushPinned(t) PROVE LoopHolds'
  BY <1>3 DEF PushPinned, LoopHolds, TypeOK
<1>4. ASSUME NEW w \in Workers, ExitLoop(w) PROVE LoopHolds'
  BY <1>4 DEF ExitLoop, LoopHolds, TypeOK
<1>5. ASSUME NEW w \in Workers, PopLocal(w) PROVE LoopHolds'
  BY <1>5, TasksAssumption DEF PopLocal, Take, LoopHolds, TypeOK
<1>6. ASSUME NEW w \in Workers, LocalEmpty(w) PROVE LoopHolds'
  BY <1>6 DEF LocalEmpty, LoopHolds, TypeOK
<1>7. ASSUME NEW w \in Workers, Probe(w) PROVE LoopHolds'
  <2>1. probe[w] \in 1 .. N - 1
    <3>1. Len(StealOrderOf[w]) = N - 1
      BY StealOrderIsComplete
    <3> QED BY <1>7, <3>1, WorkersFacts DEF Probe, TypeOK
  <2> QED BY <1>7, <2>1 DEF Probe, LoopHolds, TypeOK
<1>8. ASSUME NEW w \in Workers, StealSucceeds(w) PROVE LoopHolds'
  <2>1. PICK t \in Tasks : Take(w, t)
    BY <1>8, StealFacts DEF TypeOK
  <2> QED BY <1>8, <2>1, TasksAssumption DEF StealSucceeds, Take, EndScan, Settle, LoopHolds, TypeOK
<1>9. ASSUME NEW w \in Workers, StealFails(w) PROVE LoopHolds'
  BY <1>9 DEF StealFails, Settle, LoopHolds, TypeOK
<1>10. ASSUME NEW w \in Workers, ScanEnds(w) PROVE LoopHolds'
  BY <1>10 DEF ScanEnds, EndScan, LoopHolds, TypeOK
<1>11. ASSUME NEW w \in Workers, ProbeInjector(w) PROVE LoopHolds'
  BY <1>11 DEF ProbeInjector, LoopHolds, TypeOK
<1>12. ASSUME NEW w \in Workers, InjectorSucceeds(w) PROVE LoopHolds'
  <2>1. PICK t \in Tasks : Take(w, t)
    BY <1>12 DEF InjectorSucceeds, Batches, TypeOK
  <2> QED BY <1>12, <2>1, TasksAssumption DEF InjectorSucceeds, Settle, Take, LoopHolds, TypeOK
<1>13. ASSUME NEW w \in Workers, InjectorFails(w) PROVE LoopHolds'
  BY <1>13 DEF InjectorFails, Settle, LoopHolds, TypeOK
<1>14. ASSUME NEW w \in Workers, Wake(w) PROVE LoopHolds'
  BY <1>14 DEF Wake, LoopHolds, TypeOK
<1>15. ASSUME NEW w \in Workers, ReadDepth(w) PROVE LoopHolds'
  BY <1>15 DEF ReadDepth, LoopHolds, TypeOK
<1>16. ASSUME NEW w \in Workers, Execute(w) PROVE LoopHolds'
  BY <1>16 DEF Execute, LoopHolds, TypeOK
<1>17. ASSUME NEW c \in Callers, BeginShutdown(c) PROVE LoopHolds'
  BY <1>17 DEF BeginShutdown, LoopHolds, TypeOK
<1>18. ASSUME NEW c \in Callers, FlagWorker(c) PROVE LoopHolds'
  BY <1>18 DEF FlagWorker, LoopHolds, TypeOK
<1>19. ASSUME NEW c \in Callers, JoinWorker(c) PROVE LoopHolds'
  BY <1>19 DEF JoinWorker, LoopHolds, TypeOK
<1>20. CASE UNCHANGED vars
  BY <1>20 DEF vars, LoopHolds, TypeOK
<1>21. ASSUME NEW t \in Tasks, NotifyNext(t) PROVE LoopHolds'
  BY <1>21 DEF NotifyNext, LoopHolds, TypeOK
<1>22. ASSUME NEW t \in Tasks, NotifyPinned(t) PROVE LoopHolds'
  BY <1>22 DEF NotifyPinned, LoopHolds, TypeOK
<1> QED
  BY <1>1, <1>2, <1>3, <1>4, <1>5, <1>6, <1>7, <1>8, <1>9, <1>10, <1>11,
     <1>12, <1>13, <1>14, <1>15, <1>16, <1>17, <1>18, <1>19, <1>20, <1>21, <1>22
     DEF Next, Submit, Worker, Shutdown

(* Only a worker that takes a task leaves some in its deque. *)
LEMMA NextScanners ==
  TypeOK /\ LoopHolds /\ ScannersAreEmpty /\ [Next]_vars => ScannersAreEmpty'
<1> SUFFICES ASSUME TypeOK, LoopHolds, ScannersAreEmpty, [Next]_vars PROVE ScannersAreEmpty'
  OBVIOUS
<1>1. ASSUME NEW t \in Tasks, PushTask(t) PROVE ScannersAreEmpty'
  BY <1>1 DEF PushTask, ScannersAreEmpty, TypeOK
<1>2. ASSUME NEW t \in Tasks, RaiseDepth(t) PROVE ScannersAreEmpty'
  BY <1>2 DEF RaiseDepth, ScannersAreEmpty, TypeOK
<1>3. ASSUME NEW t \in Tasks, PushPinned(t) PROVE ScannersAreEmpty'
  BY <1>3 DEF PushPinned, ScannersAreEmpty, TypeOK
<1>4. ASSUME NEW w \in Workers, ExitLoop(w) PROVE ScannersAreEmpty'
  BY <1>4 DEF ExitLoop, ScannersAreEmpty, TypeOK
<1>5. ASSUME NEW w \in Workers, PopLocal(w) PROVE ScannersAreEmpty'
  BY <1>5 DEF PopLocal, Take, ScannersAreEmpty, TypeOK
<1>6. ASSUME NEW w \in Workers, LocalEmpty(w) PROVE ScannersAreEmpty'
  BY <1>6 DEF LocalEmpty, ScannersAreEmpty, TypeOK
<1>7. ASSUME NEW w \in Workers, Probe(w) PROVE ScannersAreEmpty'
  BY <1>7 DEF Probe, ScannersAreEmpty, TypeOK
<1>8. ASSUME NEW w \in Workers, StealSucceeds(w) PROVE ScannersAreEmpty'
  <2>1. \A x \in Workers : x # w => deque'[x] \subseteq deque[x] /\ pc'[x] = pc[x]
    BY <1>8, StealFacts DEF Take, TypeOK
  <2>2. pc'[w] = "exec"
    BY <1>8, StealFacts DEF Take, TypeOK
  <2> QED BY <2>1, <2>2 DEF ScannersAreEmpty
<1>9. ASSUME NEW w \in Workers, StealFails(w) PROVE ScannersAreEmpty'
  BY <1>9 DEF StealFails, Settle, ScannersAreEmpty, TypeOK
<1>10. ASSUME NEW w \in Workers, ScanEnds(w) PROVE ScannersAreEmpty'
  BY <1>10 DEF ScanEnds, EndScan, ScannersAreEmpty, TypeOK
<1>11. ASSUME NEW w \in Workers, ProbeInjector(w) PROVE ScannersAreEmpty'
  BY <1>11 DEF ProbeInjector, ScannersAreEmpty, TypeOK
<1>12. ASSUME NEW w \in Workers, InjectorSucceeds(w) PROVE ScannersAreEmpty'
  BY <1>12 DEF InjectorSucceeds, Settle, Take, ScannersAreEmpty, TypeOK
<1>13. ASSUME NEW w \in Workers, InjectorFails(w) PROVE ScannersAreEmpty'
  BY <1>13 DEF InjectorFails, Settle, ScannersAreEmpty, TypeOK
<1>14. ASSUME NEW w \in Workers, Wake(w) PROVE ScannersAreEmpty'
  BY <1>14 DEF Wake, ScannersAreEmpty, TypeOK
<1>15. ASSUME NEW w \in Workers, ReadDepth(w) PROVE ScannersAreEmpty'
  BY <1>15 DEF ReadDepth, ScannersAreEmpty, TypeOK
<1>16. ASSUME NEW w \in Workers, Execute(w) PROVE ScannersAreEmpty'
  BY <1>16 DEF Execute, ScannersAreEmpty, TypeOK
<1>17. ASSUME NEW c \in Callers, BeginShutdown(c) PROVE ScannersAreEmpty'
  BY <1>17 DEF BeginShutdown, ScannersAreEmpty, TypeOK
<1>18. ASSUME NEW c \in Callers, FlagWorker(c) PROVE ScannersAreEmpty'
  BY <1>18 DEF FlagWorker, ScannersAreEmpty, TypeOK
<1>19. ASSUME NEW c \in Callers, JoinWorker(c) PROVE ScannersAreEmpty'
  BY <1>19 DEF JoinWorker, ScannersAreEmpty, TypeOK
<1>20. CASE UNCHANGED vars
  BY <1>20 DEF vars, ScannersAreEmpty, TypeOK
<1>21. ASSUME NEW t \in Tasks, NotifyNext(t) PROVE ScannersAreEmpty'
  BY <1>21 DEF NotifyNext, ScannersAreEmpty, TypeOK
<1>22. ASSUME NEW t \in Tasks, NotifyPinned(t) PROVE ScannersAreEmpty'
  BY <1>22 DEF NotifyPinned, ScannersAreEmpty, TypeOK
<1> QED
  BY <1>1, <1>2, <1>3, <1>4, <1>5, <1>6, <1>7, <1>8, <1>9, <1>10, <1>11,
     <1>12, <1>13, <1>14, <1>15, <1>16, <1>17, <1>18, <1>19, <1>20, <1>21, <1>22
     DEF Next, Submit, Worker, Shutdown

(* The flags are set by shutdown() only. *)
LEMMA NextStop ==
  TypeOK /\ StopIsOrdered /\ [Next]_vars => StopIsOrdered'
<1> SUFFICES ASSUME TypeOK, StopIsOrdered, [Next]_vars PROVE StopIsOrdered'
  OBVIOUS
<1>1. ASSUME NEW t \in Tasks, PushTask(t) PROVE StopIsOrdered'
  BY <1>1 DEF PushTask, StopIsOrdered, TypeOK
<1>2. ASSUME NEW t \in Tasks, RaiseDepth(t) PROVE StopIsOrdered'
  BY <1>2 DEF RaiseDepth, StopIsOrdered, TypeOK
<1>3. ASSUME NEW t \in Tasks, PushPinned(t) PROVE StopIsOrdered'
  BY <1>3 DEF PushPinned, StopIsOrdered, TypeOK
<1>4. ASSUME NEW w \in Workers, ExitLoop(w) PROVE StopIsOrdered'
  BY <1>4 DEF ExitLoop, StopIsOrdered, TypeOK
<1>5. ASSUME NEW w \in Workers, PopLocal(w) PROVE StopIsOrdered'
  BY <1>5 DEF PopLocal, Take, StopIsOrdered, TypeOK
<1>6. ASSUME NEW w \in Workers, LocalEmpty(w) PROVE StopIsOrdered'
  BY <1>6 DEF LocalEmpty, StopIsOrdered, TypeOK
<1>7. ASSUME NEW w \in Workers, Probe(w) PROVE StopIsOrdered'
  BY <1>7 DEF Probe, StopIsOrdered, TypeOK
<1>8. ASSUME NEW w \in Workers, StealSucceeds(w) PROVE StopIsOrdered'
  BY <1>8 DEF StealSucceeds, Take, EndScan, Settle, StopIsOrdered, TypeOK
<1>9. ASSUME NEW w \in Workers, StealFails(w) PROVE StopIsOrdered'
  BY <1>9 DEF StealFails, Settle, StopIsOrdered, TypeOK
<1>10. ASSUME NEW w \in Workers, ScanEnds(w) PROVE StopIsOrdered'
  BY <1>10 DEF ScanEnds, EndScan, StopIsOrdered, TypeOK
<1>11. ASSUME NEW w \in Workers, ProbeInjector(w) PROVE StopIsOrdered'
  BY <1>11 DEF ProbeInjector, StopIsOrdered, TypeOK
<1>12. ASSUME NEW w \in Workers, InjectorSucceeds(w) PROVE StopIsOrdered'
  BY <1>12 DEF InjectorSucceeds, Settle, Take, StopIsOrdered, TypeOK
<1>13. ASSUME NEW w \in Workers, InjectorFails(w) PROVE StopIsOrdered'
  BY <1>13 DEF InjectorFails, Settle, StopIsOrdered, TypeOK
<1>14. ASSUME NEW w \in Workers, Wake(w) PROVE StopIsOrdered'
  BY <1>14 DEF Wake, StopIsOrdered, TypeOK
<1>15. ASSUME NEW w \in Workers, ReadDepth(w) PROVE StopIsOrdered'
  BY <1>15 DEF ReadDepth, StopIsOrdered, TypeOK
<1>16. ASSUME NEW w \in Workers, Execute(w) PROVE StopIsOrdered'
  BY <1>16 DEF Execute, StopIsOrdered, TypeOK
<1>17. ASSUME NEW c \in Callers, BeginShutdown(c) PROVE StopIsOrdered'
  BY <1>17 DEF BeginShutdown, StopIsOrdered, TypeOK
<1>18. ASSUME NEW c \in Callers, FlagWorker(c) PROVE StopIsOrdered'
  BY <1>18 DEF FlagWorker, StopIsOrdered, TypeOK
<1>19. ASSUME NEW c \in Callers, JoinWorker(c) PROVE StopIsOrdered'
  BY <1>19 DEF JoinWorker, StopIsOrdered, TypeOK
<1>20. CASE UNCHANGED vars
  BY <1>20 DEF vars, StopIsOrdered, TypeOK
<1>21. ASSUME NEW t \in Tasks, NotifyNext(t) PROVE StopIsOrdered'
  BY <1>21 DEF NotifyNext, StopIsOrdered, TypeOK
<1>22. ASSUME NEW t \in Tasks, NotifyPinned(t) PROVE StopIsOrdered'
  BY <1>22 DEF NotifyPinned, StopIsOrdered, TypeOK
<1> QED
  BY <1>1, <1>2, <1>3, <1>4, <1>5, <1>6, <1>7, <1>8, <1>9, <1>10, <1>11,
     <1>12, <1>13, <1>14, <1>15, <1>16, <1>17, <1>18, <1>19, <1>20, <1>21, <1>22
     DEF Next, Submit, Worker, Shutdown

(* A caller passes a worker that has exited. *)
LEMMA NextCallers ==
  TypeOK /\ CallersJoin /\ [Next]_vars => CallersJoin'
<1> SUFFICES ASSUME TypeOK, CallersJoin, [Next]_vars PROVE CallersJoin'
  OBVIOUS
<1>1. ASSUME NEW t \in Tasks, PushTask(t) PROVE CallersJoin'
  BY <1>1 DEF PushTask, CallersJoin, CallerJoins, TypeOK
<1>2. ASSUME NEW t \in Tasks, RaiseDepth(t) PROVE CallersJoin'
  BY <1>2 DEF RaiseDepth, CallersJoin, CallerJoins, TypeOK
<1>3. ASSUME NEW t \in Tasks, PushPinned(t) PROVE CallersJoin'
  BY <1>3 DEF PushPinned, CallersJoin, CallerJoins, TypeOK
<1>4. ASSUME NEW w \in Workers, ExitLoop(w) PROVE CallersJoin'
  BY <1>4 DEF ExitLoop, CallersJoin, CallerJoins, TypeOK
<1>5. ASSUME NEW w \in Workers, PopLocal(w) PROVE CallersJoin'
  BY <1>5 DEF PopLocal, Take, CallersJoin, CallerJoins, TypeOK
<1>6. ASSUME NEW w \in Workers, LocalEmpty(w) PROVE CallersJoin'
  BY <1>6 DEF LocalEmpty, CallersJoin, CallerJoins, TypeOK
<1>7. ASSUME NEW w \in Workers, Probe(w) PROVE CallersJoin'
  BY <1>7 DEF Probe, CallersJoin, CallerJoins, TypeOK
<1>8. ASSUME NEW w \in Workers, StealSucceeds(w) PROVE CallersJoin'
  BY <1>8 DEF StealSucceeds, Take, EndScan, Settle, CallersJoin, CallerJoins, TypeOK
<1>9. ASSUME NEW w \in Workers, StealFails(w) PROVE CallersJoin'
  BY <1>9 DEF StealFails, Settle, CallersJoin, CallerJoins, TypeOK
<1>10. ASSUME NEW w \in Workers, ScanEnds(w) PROVE CallersJoin'
  BY <1>10 DEF ScanEnds, EndScan, CallersJoin, CallerJoins, TypeOK
<1>11. ASSUME NEW w \in Workers, ProbeInjector(w) PROVE CallersJoin'
  BY <1>11 DEF ProbeInjector, CallersJoin, CallerJoins, TypeOK
<1>12. ASSUME NEW w \in Workers, InjectorSucceeds(w) PROVE CallersJoin'
  BY <1>12 DEF InjectorSucceeds, Settle, Take, CallersJoin, CallerJoins, TypeOK
<1>13. ASSUME NEW w \in Workers, InjectorFails(w) PROVE CallersJoin'
  BY <1>13 DEF InjectorFails, Settle, CallersJoin, CallerJoins, TypeOK
<1>14. ASSUME NEW w \in Workers, Wake(w) PROVE CallersJoin'
  BY <1>14 DEF Wake, CallersJoin, CallerJoins, TypeOK
<1>15. ASSUME NEW w \in Workers, ReadDepth(w) PROVE CallersJoin'
  BY <1>15 DEF ReadDepth, CallersJoin, CallerJoins, TypeOK
<1>16. ASSUME NEW w \in Workers, Execute(w) PROVE CallersJoin'
  BY <1>16 DEF Execute, CallersJoin, CallerJoins, TypeOK
<1>17. ASSUME NEW c \in Callers, BeginShutdown(c) PROVE CallersJoin'
  <2> SUFFICES ASSUME NEW d \in Callers PROVE CallerJoins(d)'
    BY DEF CallersJoin
  <2>0. CallerJoins(d) /\ CallerJoins(c) /\ pc' = pc
    BY <1>17 DEF CallersJoin, BeginShutdown
  <2>1. CASE d # c
    <3>1. caller'[d] = caller[d]
      BY <1>17, <2>1 DEF BeginShutdown, TypeOK
    <3> QED BY <2>0, <3>1 DEF CallerJoins
  <2>2. CASE d = c
    <3>1. caller'[c].next = 0 /\ caller'[c].at \in {"flag", "returned"}
      BY <1>17, <2>0 DEF BeginShutdown, CallerJoins, TypeOK
    <3> QED BY <2>0, <2>2, <3>1, WorkersFacts DEF CallerJoins
  <2> QED BY <2>1, <2>2
<1>18. ASSUME NEW c \in Callers, FlagWorker(c) PROVE CallersJoin'
  <2> SUFFICES ASSUME NEW d \in Callers PROVE CallerJoins(d)'
    BY DEF CallersJoin
  <2>0. CallerJoins(d) /\ CallerJoins(c) /\ pc' = pc
    BY <1>18 DEF CallersJoin, FlagWorker
  <2>1. CASE d # c
    <3>1. caller'[d] = caller[d]
      BY <1>18, <2>1 DEF FlagWorker, TypeOK
    <3> QED BY <2>0, <3>1 DEF CallerJoins
  <2>2. CASE d = c
    <3>1. \/ caller'[c] = [at |-> "flag", next |-> caller[c].next + 1]
             /\ caller[c].next + 1 \in Workers
          \/ caller'[c] = [at |-> "join", next |-> 0]
      BY <1>18 DEF FlagWorker, TypeOK
    <3>2. CASE caller'[c] = [at |-> "join", next |-> 0]
      <4>1. 0 \in Workers /\ \A w \in Workers : ~(w < 0)
        BY WorkersFacts
      <4> QED BY <2>2, <3>2, <4>1 DEF CallerJoins
    <3> QED BY <2>2, <3>1, <3>2 DEF CallerJoins
  <2> QED BY <2>1, <2>2
<1>19. ASSUME NEW c \in Callers, JoinWorker(c) PROVE CallersJoin'
  <2> SUFFICES ASSUME NEW d \in Callers PROVE CallerJoins(d)'
    BY DEF CallersJoin
  <2>0. CallerJoins(d) /\ CallerJoins(c) /\ pc' = pc
    BY <1>19 DEF CallersJoin, JoinWorker
  <2>1. CASE d # c
    <3>1. caller'[d] = caller[d]
      BY <1>19, <2>1 DEF JoinWorker, TypeOK
    <3> QED BY <2>0, <3>1 DEF CallerJoins
  <2>2. CASE d = c
    <3> DEFINE n == caller[c].next
    <3>1. /\ n \in Workers /\ pc[n] = "exited"
          /\ \A w \in Workers : w < n => pc[w] = "exited"
      BY <1>19, <2>0 DEF JoinWorker, CallerJoins
    <3>2. caller'[c] = IF n + 1 \in Workers THEN [at |-> "join", next |-> n + 1]
                                          ELSE [at |-> "returned", next |-> n + 1]
      BY <1>19 DEF JoinWorker, TypeOK
    <3> HIDE DEF n
    <3>3. \A w \in Workers : w < n + 1 => pc[w] = "exited"
      <4>1. \A w \in Workers : w < n + 1 => w < n \/ w = n
        BY <3>1, WorkersFacts
      <4> QED BY <3>1, <4>1
    <3>4. n + 1 \notin Workers => \A w \in Workers : w < n + 1
      BY <3>1, WorkersFacts
    <3>5. CASE n + 1 \in Workers
      BY <2>0, <2>2, <3>2, <3>3, <3>5 DEF CallerJoins
    <3>6. CASE n + 1 \notin Workers
      BY <2>0, <2>2, <3>2, <3>3, <3>4, <3>6 DEF CallerJoins
    <3> QED BY <3>5, <3>6
  <2> QED BY <2>1, <2>2
<1>20. CASE UNCHANGED vars
  BY <1>20 DEF vars, CallersJoin, CallerJoins, TypeOK
<1>21. ASSUME NEW t \in Tasks, NotifyNext(t) PROVE CallersJoin'
  BY <1>21 DEF NotifyNext, CallersJoin, CallerJoins, TypeOK
<1>22. ASSUME NEW t \in Tasks, NotifyPinned(t) PROVE CallersJoin'
  BY <1>22 DEF NotifyPinned, CallersJoin, CallerJoins, TypeOK
<1> QED
  BY <1>1, <1>2, <1>3, <1>4, <1>5, <1>6, <1>7, <1>8, <1>9, <1>10, <1>11,
     <1>12, <1>13, <1>14, <1>15, <1>16, <1>17, <1>18, <1>19, <1>20, <1>21, <1>22
     DEF Next, Submit, Worker, Shutdown

-----------------------------------------------------------------------------
(* Queued work. *)

(* Only the submitter of a task announces it. *)
LEMMA NextNotified ==
  TypeOK /\ NotifiedAfterPush /\ [Next]_vars => NotifiedAfterPush'
<1> SUFFICES ASSUME TypeOK, NotifiedAfterPush, [Next]_vars PROVE NotifiedAfterPush'
  OBVIOUS
<1>1. ASSUME NEW t \in Tasks, PushTask(t) PROVE NotifiedAfterPush'
  BY <1>1, WorkersFacts DEF PushTask, NotifiedAfterPush, TypeOK
<1>2. ASSUME NEW t \in Tasks, NotifyNext(t) PROVE NotifiedAfterPush'
  <2>1. \A u \in Tasks : u # t => submit'[u] = submit[u] /\ woken'[u] = woken[u]
    BY <1>2 DEF NotifyNext, TypeOK
  <2>2. /\ t \notin Pinned /\ submit'[t] \in {"pushed", "yes"}
        /\ submit'[t] = "pushed" => woken'[t] \in Workers
    BY <1>2 DEF NotifyNext, TypeOK
  <2> QED BY <2>1, <2>2 DEF NotifiedAfterPush
<1>3. ASSUME NEW t \in Tasks, RaiseDepth(t) \/ PushPinned(t) \/ NotifyPinned(t)
      PROVE  NotifiedAfterPush'
  BY <1>3 DEF RaiseDepth, PushPinned, NotifyPinned, NotifiedAfterPush, TypeOK
<1>4. ASSUME NEW w \in Workers, Worker(w) PROVE NotifiedAfterPush'
  <2>1. UNCHANGED <<submit, woken>>
    BY <1>4 DEF Worker, ExitLoop, PopLocal, LocalEmpty, Probe, StealSucceeds, StealFails,
       ScanEnds, ProbeInjector, InjectorSucceeds, InjectorFails, Wake, ReadDepth, Execute
  <2> QED BY <2>1 DEF NotifiedAfterPush
<1>5. ASSUME NEW c \in Callers, Shutdown(c) PROVE NotifiedAfterPush'
  BY <1>5 DEF Shutdown, BeginShutdown, FlagWorker, JoinWorker, NotifiedAfterPush
<1>6. CASE UNCHANGED vars
  BY <1>6 DEF vars, NotifiedAfterPush
<1> QED BY <1>1, <1>2, <1>3, <1>4, <1>5, <1>6 DEF Next, Submit

(* A worker parks when it finds the injector empty, a push announces nothing, *)
(* and a notification leaves a permit.                                        *)
LEMMA NextInjector ==
  TypeOK /\ StopIsOrdered /\ NotifiedAfterPush /\ InjectorIsAttended /\ [Next]_vars
    => InjectorIsAttended'
<1> SUFFICES ASSUME TypeOK, StopIsOrdered, NotifiedAfterPush, InjectorIsAttended, [Next]_vars
             PROVE  InjectorIsAttended'
  OBVIOUS
<1>1. ASSUME NEW t \in Tasks, PushTask(t) PROVE InjectorIsAttended'
  <2>1. ~Announced(t)' /\ \A u \in Tasks : u # t => (Announced(u)' <=> Announced(u))
    BY <1>1 DEF PushTask, NotifiedAfterPush, Announced, TypeOK
  <2> QED BY <1>1, <2>1 DEF PushTask, InjectorIsAttended, TypeOK
<1>2. ASSUME NEW t \in Tasks, RaiseDepth(t) PROVE InjectorIsAttended'
  BY <1>2 DEF RaiseDepth, InjectorIsAttended, Announced, TypeOK
<1>3. ASSUME NEW t \in Tasks, PushPinned(t) PROVE InjectorIsAttended'
  <2>1. ~Announced(t)' /\ \A u \in Tasks : u # t => (Announced(u)' <=> Announced(u))
    BY <1>3 DEF PushPinned, NotifiedAfterPush, Announced, TypeOK
  <2> QED BY <1>3, <2>1 DEF PushPinned, InjectorIsAttended, TypeOK
<1>4. ASSUME NEW w \in Workers, ExitLoop(w) PROVE InjectorIsAttended'
  BY <1>4 DEF ExitLoop, StopIsOrdered, InjectorIsAttended
<1>5. ASSUME NEW w \in Workers, PopLocal(w) PROVE InjectorIsAttended'
  BY <1>5 DEF PopLocal, Take, InjectorIsAttended, Announced, TypeOK
<1>6. ASSUME NEW w \in Workers, LocalEmpty(w) PROVE InjectorIsAttended'
  BY <1>6 DEF LocalEmpty, InjectorIsAttended, Announced, TypeOK
<1>7. ASSUME NEW w \in Workers, Probe(w) PROVE InjectorIsAttended'
  BY <1>7 DEF Probe, InjectorIsAttended, Announced, TypeOK
<1>8. ASSUME NEW w \in Workers, StealSucceeds(w) PROVE InjectorIsAttended'
  BY <1>8 DEF StealSucceeds, Take, EndScan, Settle, InjectorIsAttended, Announced, TypeOK
<1>9. ASSUME NEW w \in Workers, StealFails(w) PROVE InjectorIsAttended'
  BY <1>9 DEF StealFails, Settle, InjectorIsAttended, Announced, TypeOK
<1>10. ASSUME NEW w \in Workers, ScanEnds(w) PROVE InjectorIsAttended'
  BY <1>10 DEF ScanEnds, EndScan, InjectorIsAttended, Announced, TypeOK
<1>11. ASSUME NEW w \in Workers, ProbeInjector(w) PROVE InjectorIsAttended'
  BY <1>11 DEF ProbeInjector, InjectorIsAttended, Announced, TypeOK
<1>12. ASSUME NEW w \in Workers, InjectorSucceeds(w) PROVE InjectorIsAttended'
  BY <1>12 DEF InjectorSucceeds, Settle, Take, InjectorIsAttended, Announced, TypeOK
<1>13. ASSUME NEW w \in Workers, InjectorFails(w) PROVE InjectorIsAttended'
  BY <1>13 DEF InjectorFails, Settle, InjectorIsAttended, Announced, TypeOK
<1>14. ASSUME NEW w \in Workers, Wake(w) PROVE InjectorIsAttended'
  BY <1>14 DEF Wake, InjectorIsAttended, Announced, TypeOK
<1>15. ASSUME NEW w \in Workers, ReadDepth(w) PROVE InjectorIsAttended'
  BY <1>15 DEF ReadDepth, InjectorIsAttended, Announced, TypeOK
<1>16. ASSUME NEW w \in Workers, Execute(w) PROVE InjectorIsAttended'
  BY <1>16 DEF Execute, InjectorIsAttended, Announced, TypeOK
<1>17. ASSUME NEW c \in Callers, BeginShutdown(c) PROVE InjectorIsAttended'
  BY <1>17 DEF BeginShutdown, InjectorIsAttended, Announced, TypeOK
<1>18. ASSUME NEW c \in Callers, FlagWorker(c) PROVE InjectorIsAttended'
  BY <1>18 DEF FlagWorker, InjectorIsAttended, Announced, TypeOK
<1>19. ASSUME NEW c \in Callers, JoinWorker(c) PROVE InjectorIsAttended'
  BY <1>19 DEF JoinWorker, InjectorIsAttended, Announced, TypeOK
<1>20. CASE UNCHANGED vars
  BY <1>20 DEF vars, InjectorIsAttended, Announced, TypeOK
<1>21. ASSUME NEW t \in Tasks, NotifyNext(t) PROVE InjectorIsAttended'
  <2>1. woken[t] \in Workers
    BY <1>21 DEF NotifyNext, NotifiedAfterPush
  <2>2. permit'[woken[t]]
    BY <1>21, <2>1 DEF NotifyNext, TypeOK
  <2> QED BY <2>1, <2>2 DEF InjectorIsAttended
<1>22. ASSUME NEW t \in Tasks, NotifyPinned(t) PROVE InjectorIsAttended'
  <2>1. Target[t] \in Workers
    BY <1>22, TasksAssumption DEF NotifyPinned
  <2>2. permit'[Target[t]]
    BY <1>22, <2>1 DEF NotifyPinned, TypeOK
  <2> QED BY <2>1, <2>2 DEF InjectorIsAttended
<1> QED
  BY <1>1, <1>2, <1>3, <1>4, <1>5, <1>6, <1>7, <1>8, <1>9, <1>10, <1>11,
     <1>12, <1>13, <1>14, <1>15, <1>16, <1>17, <1>18, <1>19, <1>20, <1>21, <1>22
     DEF Next, Submit, Worker, Shutdown

(* A step that moves other tasks leaves a task where it is. *)
LEMMA StaysPlaced ==
  ASSUME NEW u \in Tasks, IsPlaced(u), u \in injector' <=> u \in injector,
         \A w \in Workers : u \in deque'[w] <=> u \in deque[w],
         \A w \in Workers : job'[w] = u <=> job[w] = u,
         submit'[u] = submit[u], ran'[u] = ran[u]
  PROVE  IsPlaced(u)'
  BY DEF IsPlaced, Nowhere, Pushed

(* A task moves from one place to the next. *)
LEMMA NextPlaced ==
  TypeOK /\ LoopHolds /\ TasksArePlaced /\ [Next]_vars => TasksArePlaced'
<1> SUFFICES ASSUME TypeOK, LoopHolds, TasksArePlaced, [Next]_vars PROVE TasksArePlaced'
  OBVIOUS
<1>1. ASSUME NEW t \in Tasks, PushTask(t) PROVE TasksArePlaced'
  BY <1>1 DEF PushTask, TasksArePlaced, IsPlaced, Nowhere, Pushed, TypeOK
<1>2. ASSUME NEW t \in Tasks, RaiseDepth(t) PROVE TasksArePlaced'
  BY <1>2 DEF RaiseDepth, TasksArePlaced, IsPlaced, Nowhere, Pushed, TypeOK
<1>3. ASSUME NEW t \in Tasks, PushPinned(t) PROVE TasksArePlaced'
  BY <1>3 DEF PushPinned, TasksArePlaced, IsPlaced, Nowhere, Pushed, TypeOK
<1>4. ASSUME NEW w \in Workers, ExitLoop(w) PROVE TasksArePlaced'
  BY <1>4 DEF ExitLoop, TasksArePlaced, IsPlaced, Nowhere, Pushed, TypeOK
<1>5. ASSUME NEW w \in Workers, PopLocal(w) PROVE TasksArePlaced'
  <2> SUFFICES ASSUME NEW u \in Tasks PROVE IsPlaced(u)'
    BY DEF TasksArePlaced
  <2>1. PICK t \in deque[w] : deque' = [deque EXCEPT ![w] = @ \ {t}] /\ Take(w, t)
    BY <1>5 DEF PopLocal
  <2>2. /\ t \in Tasks /\ IsPlaced(u) /\ IsPlaced(t) /\ job[w] = NoTask
        /\ UNCHANGED <<injector, submit, ran>>
    BY <1>5, <2>1 DEF PopLocal, LoopHolds, TasksArePlaced, TypeOK
  <2>3. /\ \A v \in Workers : deque'[v] = IF v = w THEN deque[w] \ {t} ELSE deque[v]
        /\ \A v \in Workers : job'[v] = IF v = w THEN t ELSE job[v]
    BY <2>1 DEF Take, TypeOK
  <2>4. CASE u # t
    BY <2>2, <2>3, <2>4, TasksAssumption, StaysPlaced
  <2>5. CASE u = t
    BY <2>1, <2>2, <2>3, <2>5 DEF IsPlaced, Nowhere, Pushed
  <2> QED BY <2>4, <2>5
<1>6. ASSUME NEW w \in Workers, LocalEmpty(w) PROVE TasksArePlaced'
  BY <1>6 DEF LocalEmpty, TasksArePlaced, IsPlaced, Nowhere, Pushed, TypeOK
<1>7. ASSUME NEW w \in Workers, Probe(w) PROVE TasksArePlaced'
  BY <1>7 DEF Probe, TasksArePlaced, IsPlaced, Nowhere, Pushed, TypeOK
<1>8. ASSUME NEW w \in Workers, StealSucceeds(w) PROVE TasksArePlaced'
  <2> SUFFICES ASSUME NEW u \in Tasks PROVE IsPlaced(u)'
    BY DEF TasksArePlaced
  <2>1. PICK v \in Workers \ {w} : \E b \in SUBSET deque[v] : \E t \in b :
           /\ deque' = [x \in Workers |-> IF x = w THEN deque[w] \cup (b \ {t})
                                          ELSE IF x = v THEN deque[v] \ b ELSE deque[x]]
           /\ Take(w, t)
    BY <1>8, StealFacts
  <2>2. PICK b \in SUBSET deque[v] : \E t \in b :
           /\ deque' = [x \in Workers |-> IF x = w THEN deque[w] \cup (b \ {t})
                                          ELSE IF x = v THEN deque[v] \ b ELSE deque[x]]
           /\ Take(w, t)
    BY <2>1
  <2>3. PICK t \in b :
           /\ deque' = [x \in Workers |-> IF x = w THEN deque[w] \cup (b \ {t})
                                          ELSE IF x = v THEN deque[v] \ b ELSE deque[x]]
           /\ Take(w, t)
    BY <2>2
  <2>4. /\ t \in Tasks /\ IsPlaced(u) /\ job[w] = NoTask /\ v # w
        /\ UNCHANGED <<injector, submit, ran>>
    BY <1>8, <2>2, <2>3 DEF StealSucceeds, EndScan, Settle, LoopHolds, TasksArePlaced, TypeOK
  <2>5. /\ \A x \in Workers : deque'[x] = IF x = w THEN deque[w] \cup (b \ {t})
                                          ELSE IF x = v THEN deque[v] \ b ELSE deque[x]
        /\ \A x \in Workers : job'[x] = IF x = w THEN t ELSE job[x]
    BY <2>3 DEF Take, TypeOK
  <2>6. CASE u \notin b
    <3>1. u # t /\ u # NoTask
      BY <2>3, <2>6, TasksAssumption
    <3> QED BY <2>4, <2>5, <2>6, <3>1, StaysPlaced
  <2>7. CASE u = t
    BY <2>2, <2>3, <2>4, <2>5, <2>7 DEF IsPlaced, Nowhere, Pushed
  <2>8. CASE u \in b /\ u # t
    <3>1. /\ u \in deque[v] /\ u \notin injector /\ Pushed(u) /\ ran[u] = 0
          /\ \A x \in Workers : (u \in deque[x] => x = v) /\ job[x] # u
      BY <2>4, <2>8 DEF IsPlaced, Nowhere, Pushed
    <3>2. \A x \in Workers : (u \in deque'[x] <=> x = w) /\ job'[x] # u
      BY <2>4, <2>5, <2>8, <3>1
    <3> QED BY <2>4, <3>1, <3>2 DEF IsPlaced, Nowhere, Pushed
  <2> QED BY <2>6, <2>7, <2>8
<1>9. ASSUME NEW w \in Workers, StealFails(w) PROVE TasksArePlaced'
  BY <1>9 DEF StealFails, Settle, TasksArePlaced, IsPlaced, Nowhere, Pushed, TypeOK
<1>10. ASSUME NEW w \in Workers, ScanEnds(w) PROVE TasksArePlaced'
  BY <1>10 DEF ScanEnds, EndScan, TasksArePlaced, IsPlaced, Nowhere, Pushed, TypeOK
<1>11. ASSUME NEW w \in Workers, ProbeInjector(w) PROVE TasksArePlaced'
  BY <1>11 DEF ProbeInjector, TasksArePlaced, IsPlaced, Nowhere, Pushed, TypeOK
<1>12. ASSUME NEW w \in Workers, InjectorSucceeds(w) PROVE TasksArePlaced'
  <2> SUFFICES ASSUME NEW u \in Tasks PROVE IsPlaced(u)'
    BY DEF TasksArePlaced
  <2>1. PICK b \in SUBSET injector, t \in Tasks :
          /\ t \in b /\ injector' = injector \ b
          /\ deque' = [deque EXCEPT ![w] = @ \cup (b \ {t})]
          /\ Take(w, t)
    BY <1>12, InjectFacts
  <2>2. IsPlaced(u) /\ job[w] = NoTask /\ UNCHANGED <<submit, ran>>
    BY <1>12 DEF InjectorSucceeds, LoopHolds, TasksArePlaced
  <2>3. /\ \A x \in Workers : deque'[x] = IF x = w THEN deque[w] \cup (b \ {t}) ELSE deque[x]
        /\ \A x \in Workers : job'[x] = IF x = w THEN t ELSE job[x]
    BY <2>1 DEF Take, TypeOK
  <2>4. CASE u \notin b
    <3>1. u # t /\ u # NoTask /\ (u \in injector' <=> u \in injector)
      BY <2>1, <2>4, TasksAssumption
    <3> QED BY <2>2, <2>3, <2>4, <3>1, StaysPlaced
  <2>5. CASE u = t
    BY <2>1, <2>2, <2>3, <2>5 DEF IsPlaced, Nowhere, Pushed
  <2>6. CASE u \in b /\ u # t
    <3>1. /\ Pushed(u) /\ ran[u] = 0 /\ u \notin injector'
          /\ \A x \in Workers : u \notin deque[x] /\ job[x] # u
      BY <2>1, <2>2, <2>6 DEF IsPlaced, Nowhere, Pushed
    <3>2. \A x \in Workers : (u \in deque'[x] <=> x = w) /\ job'[x] # u
      BY <2>3, <2>6, <3>1
    <3> QED BY <2>2, <3>1, <3>2 DEF IsPlaced, Nowhere, Pushed
  <2> QED BY <2>4, <2>5, <2>6
<1>13. ASSUME NEW w \in Workers, InjectorFails(w) PROVE TasksArePlaced'
  BY <1>13 DEF InjectorFails, Settle, TasksArePlaced, IsPlaced, Nowhere, Pushed, TypeOK
<1>14. ASSUME NEW w \in Workers, Wake(w) PROVE TasksArePlaced'
  BY <1>14 DEF Wake, TasksArePlaced, IsPlaced, Nowhere, Pushed, TypeOK
<1>15. ASSUME NEW w \in Workers, ReadDepth(w) PROVE TasksArePlaced'
  BY <1>15 DEF ReadDepth, TasksArePlaced, IsPlaced, Nowhere, Pushed, TypeOK
<1>16. ASSUME NEW w \in Workers, Execute(w) PROVE TasksArePlaced'
  <2> SUFFICES ASSUME NEW u \in Tasks PROVE IsPlaced(u)'
    BY DEF TasksArePlaced
  <2>1. /\ IsPlaced(u) /\ job[w] \in Tasks /\ UNCHANGED <<injector, deque, submit>>
        /\ u # NoTask
    BY <1>16, TasksAssumption DEF Execute, LoopHolds, TasksArePlaced, TypeOK
  <2>2. /\ \A x \in Workers : job'[x] = IF x = w THEN NoTask ELSE job[x]
        /\ ran'[u] = IF u = job[w] THEN ran[u] + 1 ELSE ran[u]
    BY <1>16 DEF Execute, TypeOK
  <2>3. CASE u # job[w]
    BY <2>1, <2>2, <2>3, StaysPlaced
  <2>4. CASE u = job[w]
    <3>1. /\ Pushed(u) /\ ran[u] = 0 /\ u \notin injector
          /\ \A x \in Workers : u \notin deque[x] /\ (job[x] = u => x = w)
      BY <2>1, <2>4 DEF IsPlaced, Nowhere, Pushed
    <3>2. Nowhere(u)' /\ ran'[u] = 1 /\ Pushed(u)'
      BY <2>1, <2>2, <2>4, <3>1 DEF Nowhere, Pushed
    <3> QED BY <3>2 DEF IsPlaced, Nowhere, Pushed
  <2> QED BY <2>3, <2>4
<1>17. ASSUME NEW c \in Callers, BeginShutdown(c) PROVE TasksArePlaced'
  BY <1>17 DEF BeginShutdown, TasksArePlaced, IsPlaced, Nowhere, Pushed, TypeOK
<1>18. ASSUME NEW c \in Callers, FlagWorker(c) PROVE TasksArePlaced'
  BY <1>18 DEF FlagWorker, TasksArePlaced, IsPlaced, Nowhere, Pushed, TypeOK
<1>19. ASSUME NEW c \in Callers, JoinWorker(c) PROVE TasksArePlaced'
  BY <1>19 DEF JoinWorker, TasksArePlaced, IsPlaced, Nowhere, Pushed, TypeOK
<1>20. CASE UNCHANGED vars
  BY <1>20 DEF vars, TasksArePlaced, IsPlaced, Nowhere, Pushed, TypeOK
<1>21. ASSUME NEW t \in Tasks, NotifyNext(t) PROVE TasksArePlaced'
  BY <1>21 DEF NotifyNext, TasksArePlaced, IsPlaced, Nowhere, Pushed, TypeOK
<1>22. ASSUME NEW t \in Tasks, NotifyPinned(t) PROVE TasksArePlaced'
  BY <1>22 DEF NotifyPinned, TasksArePlaced, IsPlaced, Nowhere, Pushed, TypeOK
<1> QED
  BY <1>1, <1>2, <1>3, <1>4, <1>5, <1>6, <1>7, <1>8, <1>9, <1>10, <1>11,
     <1>12, <1>13, <1>14, <1>15, <1>16, <1>17, <1>18, <1>19, <1>20, <1>21, <1>22
     DEF Next, Submit, Worker, Shutdown

-----------------------------------------------------------------------------
(* The depth counters. *)

(* Only the worker lowers its depth, and only what was raised. *)
LEMMA NextDepth ==
  TypeOK /\ LoopHolds /\ DepthsAreCounted /\ [Next]_vars => DepthsAreCounted'
<1> SUFFICES ASSUME TypeOK, LoopHolds, DepthsAreCounted, [Next]_vars PROVE DepthsAreCounted'
  OBVIOUS
<1>1. ASSUME NEW t \in Tasks, PushTask(t) PROVE DepthsAreCounted'
  BY <1>1 DEF PushTask, DepthsAreCounted, Raised, TypeOK
<1>2. ASSUME NEW t \in Tasks, RaiseDepth(t) PROVE DepthsAreCounted'
  <2> DEFINE v == Target[t]
  <2>0. v \in Workers /\ t \in Pinned /\ submit[t] = "no"
    BY <1>2, TasksAssumption DEF RaiseDepth
  <2> HIDE DEF v
  <2>1. \A x \in Workers : IsFiniteSet(Raised(x)) /\ Cardinality(Raised(x)) \in Nat
    <3>1. \A x \in Workers : Raised(x) \subseteq Pinned
      BY DEF Raised
    <3> QED BY <3>1, DepthFacts, FS_Subset, FS_CardinalityType
  <2>2. Raised(v)' = Raised(v) \cup {t} /\ t \notin Raised(v)
    BY <1>2, <2>0 DEF RaiseDepth, Raised, TypeOK, v
  <2>3. \A x \in Workers : x # v => Raised(x)' = Raised(x)
    BY <1>2, <2>0 DEF RaiseDepth, Raised, TypeOK, v
  <2>4. Cardinality(Raised(v)') = Cardinality(Raised(v)) + 1
    BY <2>0, <2>1, <2>2, FS_AddElement
  <2>5. Cardinality(Raised(v)') < DepthMod
    <3>1. Raised(v)' \subseteq Pinned
      BY DEF Raised
    <3>2. Cardinality(Raised(v)') <= Cardinality(Pinned)
      BY <3>1, DepthFacts, FS_Subset
    <3>3. Cardinality(Raised(v)') \in Nat
      BY <2>0, <2>1, <2>4
    <3> QED BY <3>2, <3>3, DepthFacts
  <2>6. depth[v] \in Nat /\ depth[v] <= Cardinality(Raised(v))
    BY <2>0, DepthFacts DEF DepthsAreCounted, TypeOK
  <2>7. depth'[v] = depth[v] + 1
    <3>1. depth[v] + 1 \in 0 .. DepthMod - 1
      BY <2>0, <2>1, <2>4, <2>5, <2>6, DepthFacts
    <3>2. (depth[v] + 1) % DepthMod = depth[v] + 1
      BY <3>1, DepthFacts, ModSmall
    <3> QED BY <1>2, <2>0, <3>2 DEF RaiseDepth, TypeOK, v
  <2>8. \A x \in Workers : x # v => depth'[x] = depth[x]
    BY <1>2 DEF RaiseDepth, TypeOK, v
  <2>9. pc' = pc /\ prev' = prev
    BY <1>2 DEF RaiseDepth
  <2> SUFFICES ASSUME NEW x \in Workers
               PROVE  /\ depth'[x] <= Cardinality(Raised(x)')
                      /\ pc'[x] = "sub" /\ prev'[x] > 0 => depth'[x] > 0
    BY DEF DepthsAreCounted
  <2>10. CASE x = v
    BY <2>0, <2>1, <2>4, <2>6, <2>7, <2>10
  <2>11. CASE x # v
    BY <2>3, <2>8, <2>9, <2>11 DEF DepthsAreCounted
  <2> QED BY <2>10, <2>11
<1>3. ASSUME NEW t \in Tasks, PushPinned(t) PROVE DepthsAreCounted'
  BY <1>3 DEF PushPinned, DepthsAreCounted, Raised, TypeOK
<1>4. ASSUME NEW w \in Workers, ExitLoop(w) PROVE DepthsAreCounted'
  BY <1>4 DEF ExitLoop, DepthsAreCounted, Raised, TypeOK
<1>5. ASSUME NEW w \in Workers, PopLocal(w) PROVE DepthsAreCounted'
  BY <1>5 DEF PopLocal, Take, DepthsAreCounted, Raised, TypeOK
<1>6. ASSUME NEW w \in Workers, LocalEmpty(w) PROVE DepthsAreCounted'
  BY <1>6 DEF LocalEmpty, DepthsAreCounted, Raised, TypeOK
<1>7. ASSUME NEW w \in Workers, Probe(w) PROVE DepthsAreCounted'
  BY <1>7 DEF Probe, DepthsAreCounted, Raised, TypeOK
<1>8. ASSUME NEW w \in Workers, StealSucceeds(w) PROVE DepthsAreCounted'
  BY <1>8 DEF StealSucceeds, Take, EndScan, Settle, DepthsAreCounted, Raised, TypeOK
<1>9. ASSUME NEW w \in Workers, StealFails(w) PROVE DepthsAreCounted'
  BY <1>9 DEF StealFails, Settle, DepthsAreCounted, Raised, TypeOK
<1>10. ASSUME NEW w \in Workers, ScanEnds(w) PROVE DepthsAreCounted'
  BY <1>10 DEF ScanEnds, EndScan, DepthsAreCounted, Raised, TypeOK
<1>11. ASSUME NEW w \in Workers, ProbeInjector(w) PROVE DepthsAreCounted'
  BY <1>11 DEF ProbeInjector, DepthsAreCounted, Raised, TypeOK
<1>12. ASSUME NEW w \in Workers, InjectorSucceeds(w) PROVE DepthsAreCounted'
  BY <1>12 DEF InjectorSucceeds, Settle, Take, DepthsAreCounted, Raised, TypeOK
<1>13. ASSUME NEW w \in Workers, InjectorFails(w) PROVE DepthsAreCounted'
  BY <1>13 DEF InjectorFails, Settle, DepthsAreCounted, Raised, TypeOK
<1>14. ASSUME NEW w \in Workers, Wake(w) PROVE DepthsAreCounted'
  BY <1>14 DEF Wake, DepthsAreCounted, Raised, TypeOK
<1>15. ASSUME NEW w \in Workers, ReadDepth(w) PROVE DepthsAreCounted'
  BY <1>15 DEF ReadDepth, DepthsAreCounted, Raised, TypeOK
<1>16. ASSUME NEW w \in Workers, Execute(w) PROVE DepthsAreCounted'
  <2>0. \A x \in Workers : Raised(x)' = Raised(x)
    BY <1>16 DEF Execute, Raised
  <2>1. \A x \in Workers : Cardinality(Raised(x)) \in Nat
    <3>1. \A x \in Workers : Raised(x) \subseteq Pinned
      BY DEF Raised
    <3> QED BY <3>1, DepthFacts, FS_Subset, FS_CardinalityType
  <2>2. depth[w] \in 0 .. DepthMod - 1 /\ prev[w] \in Nat /\ (prev[w] > 0 => depth[w] > 0)
    BY <1>16, DepthFacts DEF Execute, DepthsAreCounted, TypeOK
  <2>3. depth'[w] \in Nat /\ depth'[w] <= depth[w]
    <3>1. CASE prev[w] > 0
      <4>0. depth[w] \in Nat /\ depth[w] > 0 /\ depth[w] <= DepthMod - 1 /\ DepthMod \in Nat
        BY <2>2, <3>1, DepthAssumption
      <4>1. depth[w] - 1 \in 0 .. DepthMod - 1 /\ depth[w] + DepthMod - 1 = (depth[w] - 1) + DepthMod
        BY <4>0
      <4>2. ((depth[w] - 1) + DepthMod) % DepthMod = depth[w] - 1
        BY <4>1, DepthFacts, ModSmall
      <4>3. depth'[w] = depth[w] - 1
        BY <1>16, <3>1, <4>1, <4>2 DEF Execute, TypeOK
      <4> QED BY <2>2, <4>1, <4>3, DepthFacts
    <3>2. CASE ~(prev[w] > 0)
      BY <1>16, <2>2, <3>2, DepthFacts DEF Execute, TypeOK
    <3> QED BY <3>1, <3>2
  <2>4. \A x \in Workers : x # w => depth'[x] = depth[x] /\ pc'[x] = pc[x]
    BY <1>16 DEF Execute, TypeOK
  <2>5. pc'[w] # "sub" /\ \A x \in Workers : x # w => prev'[x] = prev[x]
    BY <1>16 DEF Execute, TypeOK
  <2> SUFFICES ASSUME NEW x \in Workers
               PROVE  /\ depth'[x] <= Cardinality(Raised(x)')
                      /\ pc'[x] = "sub" /\ prev'[x] > 0 => depth'[x] > 0
    BY DEF DepthsAreCounted
  <2>6. CASE x = w
    <3>1. depth[w] <= Cardinality(Raised(w))
      BY DEF DepthsAreCounted
    <3> QED BY <2>0, <2>1, <2>2, <2>3, <2>5, <2>6, <3>1, DepthFacts
  <2>7. CASE x # w
    BY <2>0, <2>4, <2>5, <2>7 DEF DepthsAreCounted
  <2> QED BY <2>6, <2>7
<1>17. ASSUME NEW c \in Callers, BeginShutdown(c) PROVE DepthsAreCounted'
  BY <1>17 DEF BeginShutdown, DepthsAreCounted, Raised, TypeOK
<1>18. ASSUME NEW c \in Callers, FlagWorker(c) PROVE DepthsAreCounted'
  BY <1>18 DEF FlagWorker, DepthsAreCounted, Raised, TypeOK
<1>19. ASSUME NEW c \in Callers, JoinWorker(c) PROVE DepthsAreCounted'
  BY <1>19 DEF JoinWorker, DepthsAreCounted, Raised, TypeOK
<1>20. CASE UNCHANGED vars
  BY <1>20 DEF vars, DepthsAreCounted, Raised, TypeOK
<1>21. ASSUME NEW t \in Tasks, NotifyNext(t) PROVE DepthsAreCounted'
  BY <1>21 DEF NotifyNext, DepthsAreCounted, Raised, TypeOK
<1>22. ASSUME NEW t \in Tasks, NotifyPinned(t) PROVE DepthsAreCounted'
  BY <1>22 DEF NotifyPinned, DepthsAreCounted, Raised, TypeOK
<1> QED
  BY <1>1, <1>2, <1>3, <1>4, <1>5, <1>6, <1>7, <1>8, <1>9, <1>10, <1>11,
     <1>12, <1>13, <1>14, <1>15, <1>16, <1>17, <1>18, <1>19, <1>20, <1>21, <1>22
     DEF Next, Submit, Worker, Shutdown

-----------------------------------------------------------------------------
(* Together. *)

LEMMA InitIInv == Init => IInv
<1> SUFFICES ASSUME Init PROVE IInv
  OBVIOUS
<1>1. TypeOK
  <2>1. 0 \in 0 .. DepthMod - 1
    BY DepthFacts
  <2>2. depth \in [Workers -> 0 .. DepthMod - 1] /\ prev \in [Workers -> 0 .. DepthMod - 1]
    BY <2>1 DEF Init
  <2>3. /\ ran \in [Tasks -> Nat] /\ woken \in [Tasks -> Nat] /\ probe \in [Workers -> Nat \ {0}]
        /\ caller \in [Callers -> [at : {"idle", "flag", "join", "returned"}, next : Nat]]
    BY DEF Init
  <2> QED BY <2>2, <2>3 DEF Init, TypeOK, Pcs
<1>2. LoopHolds /\ ScannersAreEmpty /\ StopIsOrdered /\ NotifiedAfterPush /\ InjectorIsAttended
  BY DEF Init, LoopHolds, ScannersAreEmpty, StopIsOrdered, NotifiedAfterPush, InjectorIsAttended
<1>3. TasksArePlaced
  BY TasksAssumption DEF Init, TasksArePlaced, IsPlaced, Nowhere, Pushed
<1>4. DepthsAreCounted
  <2>1. \A w \in Workers : Raised(w) = {}
    BY TasksAssumption DEF Init, Raised
  <2>2. \A w \in Workers : Cardinality(Raised(w)) = 0
    BY <2>1, FS_EmptySet
  <2> QED BY <2>2 DEF Init, DepthsAreCounted
<1>5. CallersJoin
  BY DEF Init, CallersJoin, CallerJoins
<1> QED BY <1>1, <1>2, <1>3, <1>4, <1>5 DEF IInv

LEMMA NextIInv == IInv /\ [Next]_vars => IInv'
  BY NextTypeOK, NextLoop, NextScanners, NextStop, NextCallers, NextNotified, NextInjector,
     NextPlaced, NextDepth DEF IInv

LEMMA Invariance == Spec => []IInv
  BY InitIInv, NextIInv, PTL DEF Spec

(* A task that is placed is counted once. *)
LEMMA PlacesFacts ==
  ASSUME TypeOK, NEW t \in Tasks, IsPlaced(t)
  PROVE  Places(t) + ran[t] = IF Pushed(t) THEN 1 ELSE 0
<1> DEFINE D == {w \in Workers : t \in deque[w]}
           J == {w \in Workers : job[w] = t}
           I == {t} \cap injector
<1>0. Places(t) = Cardinality(D) + Cardinality(J) + Cardinality(I) /\ ran[t] \in Nat
  BY DEF Places, TypeOK
<1>1. Cardinality({}) = 0 /\ \A x : Cardinality({x}) = 1
  BY FS_EmptySet, FS_Singleton
<1>2. CASE t \in injector
  <2>1. D = {} /\ J = {} /\ I = {t} /\ ran[t] = 0 /\ Pushed(t)
    BY <1>2 DEF IsPlaced, Nowhere
  <2> HIDE DEF D, J, I
  <2>2. Cardinality(D) = 0 /\ Cardinality(J) = 0 /\ Cardinality(I) = 1
    BY <1>1, <2>1
  <2> QED BY <1>0, <2>1, <2>2
<1>3. ASSUME NEW w \in Workers, t \in deque[w]
      PROVE  Places(t) + ran[t] = IF Pushed(t) THEN 1 ELSE 0
  <2>1. D = {w} /\ J = {} /\ I = {} /\ ran[t] = 0 /\ Pushed(t)
    BY <1>3 DEF IsPlaced, Nowhere
  <2> HIDE DEF D, J, I
  <2>2. Cardinality(D) = 1 /\ Cardinality(J) = 0 /\ Cardinality(I) = 0
    BY <1>1, <2>1
  <2> QED BY <1>0, <2>1, <2>2
<1>4. ASSUME NEW w \in Workers, job[w] = t
      PROVE  Places(t) + ran[t] = IF Pushed(t) THEN 1 ELSE 0
  <2>1. D = {} /\ J = {w} /\ I = {} /\ ran[t] = 0 /\ Pushed(t)
    BY <1>4 DEF IsPlaced, Nowhere
  <2> HIDE DEF D, J, I
  <2>2. Cardinality(D) = 0 /\ Cardinality(J) = 1 /\ Cardinality(I) = 0
    BY <1>1, <2>1
  <2> QED BY <1>0, <2>1, <2>2
<1>5. CASE Nowhere(t)
  <2>1. D = {} /\ J = {} /\ I = {} /\ ran[t] = IF Pushed(t) THEN 1 ELSE 0
    BY <1>5 DEF IsPlaced, Nowhere
  <2> HIDE DEF D, J, I
  <2>2. Cardinality(D) = 0 /\ Cardinality(J) = 0 /\ Cardinality(I) = 0
    BY <1>1, <2>1
  <2> QED BY <1>0, <2>1, <2>2
<1> QED BY <1>2, <1>3, <1>4, <1>5 DEF Nowhere

-----------------------------------------------------------------------------
(* The theorems. *)

(* Queues, counters, loops and callers keep their shape. *)
THEOREM TypeCorrect == Spec => []TypeOK
<1>1. IInv => TypeOK
  BY DEF IInv
<1> QED BY Invariance, <1>1, PTL

(* However the thieves interleave, a submitted task is in exactly one queue *)
(* or worker until it is run, and is run once.                              *)
THEOREM NoTaskLostOrDoubled == Spec => []TaskInOnePlace
<1>1. IInv => TaskInOnePlace
  BY PlacesFacts DEF IInv, TasksArePlaced, TaskInOnePlace
<1> QED BY Invariance, <1>1, PTL

(* From the first notification for a queued task on, some worker is awake, or *)
(* parked with a permit, although the push, the notifications and the steps of *)
(* the workers interleave.                                                     *)
THEOREM NoWakeUpMissed == Spec => []WorkIsAttended
<1>1. IInv => WorkIsAttended
  <2> SUFFICES ASSUME IInv, NEW t \in Tasks, Queued(t), Announced(t), ~started
               PROVE  \E w \in Workers : pc[w] \notin {"park", "exited"} \/ permit[w]
    BY DEF WorkIsAttended
  <2>1. CASE t \in injector
    BY <2>1 DEF IInv, InjectorIsAttended
  <2>2. ASSUME NEW w \in Workers, t \in deque[w] PROVE pc[w] \notin {"park", "exited"}
    BY <2>2 DEF IInv, ScannersAreEmpty, StopIsOrdered
  <2> QED BY <2>1, <2>2 DEF Queued
<1> QED BY Invariance, <1>1, PTL

(* execute() reads the depth and subtracts in two operations, and still the *)
(* depth never wraps below 0 nor exceeds what submit_to has added.          *)
THEOREM DepthStaysCounted == Spec => []DepthNeverWraps
<1>1. IInv => DepthNeverWraps
  BY DEF IInv, DepthsAreCounted, Raised, DepthNeverWraps
<1> QED BY Invariance, <1>1, PTL

(* Once the shutdown() that joins the threads has returned, no task is run. *)
THEOREM NothingRunsAfterShutdown == Spec => QuietAfterShutdown
<1>1. ASSUME IInv, [Next]_vars,
             \E c \in Callers : caller[c].at = "returned" /\ caller[c].next # 0
      PROVE  ran' = ran
  <2>1. \A w \in Workers : pc[w] = "exited"
    BY <1>1 DEF IInv, CallersJoin, CallerJoins
  <2>2. \A w \in Workers : ~Execute(w)
    BY <2>1 DEF Execute
  <2> QED
    BY <1>1, <2>2 DEF Next, vars, Worker, Shutdown, Submit, PushTask, NotifyNext, RaiseDepth,
       PushPinned, NotifyPinned, ExitLoop, PopLocal, LocalEmpty, Probe, StealSucceeds, StealFails, ScanEnds,
       ProbeInjector, InjectorSucceeds, InjectorFails, Wake, ReadDepth, BeginShutdown,
       FlagWorker, JoinWorker
<1>2. IInv /\ [Next]_vars
        => [(\E c \in Callers : caller[c].at = "returned" /\ caller[c].next # 0)
              => ran' = ran]_vars
  BY <1>1
<1> QED BY Invariance, <1>2, PTL DEF Spec, QuietAfterShutdown
=============================================================================
