---------------------- MODULE ClusterSupervisor_proofs ----------------------
(***************************************************************************)
(* The cluster supervisor, for any children, nodes, reporting tasks and    *)
(* bounds, every strategy and every placement policy: a child that is down *)
(* has been announced, the drainer's last word about a child is the last   *)
(* one computed unless two reports crossed, and a child lost with its node *)
(* is not brought back by a sibling.                                       *)
(***************************************************************************)
EXTENDS ClusterSupervisor, FiniteSetTheorems, SeqFacts

USE ShapeAssumption, FiniteAssumption, BoundsAssumption DEF conf, news

(* The queues of events are sequences. *)
QueuesTyped == backlog \in [Callers -> Seq(Events)] /\ chan \in Seq(Events)

(* The lock is held while there are children to plan, and they exist. *)
LockCoversTodo ==
  /\ lock = NoOne => todo = {}
  /\ \A x \in todo : st[x] # "absent"

(* Insertion numbers are handed out in order: the next one is unused. *)
NextSeqIsNew == \A x \in Children : st[x] # "absent" => seq[x] < nseq

(* A child that is down and not in the hands of the planner was announced. *)
PlannedIsAnnounced ==
  \A x \in Children \ todo :
    /\ st[x] \in {"Restarting", "NoProc"} => told[x] = "restart"
    /\ (st[x] = "Dead" /\ Restart[x] = "Permanent") => told[x] = "tripped"

(* If q says anything about x, then in the end that it is to be "restart"ed *)
(* or has "tripped", as k says.                                             *)
EndsWith(q, x, k) ==
  \A i \in DOMAIN q :
    (About(q[i], x) /\ \A j \in DOMAIN q : j > i => ~About(q[j], x)) => q[i].kind = k

(* Unless reports crossed, the last event about a child is the last one of  *)
(* the one backlog that mentions it; when none does, the last one in the    *)
(* channel; and when that does not either, the one the drainer heard.       *)
Latest(x) ==
  /\ \A c, d \in Callers : Mentions(backlog[c], x) /\ Mentions(backlog[d], x) => c = d
  /\ \A c \in Callers : EndsWith(backlog[c], x, told[x])
  /\ \/ \E c \in Callers : Mentions(backlog[c], x)
     \/ Mentions(chan, x) /\ EndsWith(chan, x, told[x])
     \/ heard[x] = told[x] /\ ~Mentions(chan, x)

LatestIsLast ==
  \A x \in Children : (told[x] # "none" /\ ~crossed[x]) => Latest(x)

IInv == /\ TypeOK /\ QueuesTyped /\ LockCoversTodo /\ NextSeqIsNew
        /\ PlannedIsAnnounced /\ LatestIsLast

-----------------------------------------------------------------------------
(* Placement. *)

(* How many children a node has is a number. *)
LEMMA LoadIsNat == ASSUME NEW s, NEW n PROVE Load(s, n) \in Nat
<1> DEFINE S == {x \in Children : s[x] \in {"Running", "Restarting"} /\ Home[x] = n}
<1>1. S \in SUBSET Children
  OBVIOUS
<1>2. IsFiniteSet(S)
  BY <1>1, FS_Subset
<1>3. Cardinality(S) \in Nat
  BY <1>2, FS_CardinalityType
<1> QED BY <1>3 DEF Load

(* Among available nodes there is one that the tie-break prefers to all,    *)
(* so the least-loaded policy places a child on an available node.          *)
LEMMA LeastLoadedIsAvailable ==
  ASSUME NEW s, available \subseteq Nodes, available # {}
  PROVE  LeastLoaded(s) \in available
<1> DEFINE loads == {Load(s, n) : n \in available}
<1>1. PICK l \in loads : \A k \in loads : l <= k
  <2>0. \A n : Load(s, n) \in Nat
    BY LoadIsNat
  <2>1. loads \in SUBSET Nat /\ loads # {}
    <3>1. \A k \in loads : k \in Nat
      BY <2>0, Zenon
    <3>2. PICK n \in available : TRUE
      OBVIOUS
    <3>3. Load(s, n) \in loads
      BY Zenon
    <3> HIDE DEF loads
    <3> QED BY <3>1, <3>3
  <2> HIDE DEF loads
  <2> QED BY <2>1, LeastNatural
<1> DEFINE best == {n \in available : Load(s, n) = l}
<1>2. PICK n \in best : \A m \in best : n <= m
  <2>1. best \in SUBSET Nat /\ best # {}
    BY <1>1
  <2> HIDE DEF best
  <2> QED BY <2>1, LeastNatural
<1>3. ASSUME NEW m \in available
      PROVE  Load(s, n) < Load(s, m) \/ (Load(s, n) = Load(s, m) /\ n <= m)
  <2>1. Load(s, n) = l /\ l <= Load(s, m)
    BY <1>1, <1>2
  <2>2. Load(s, m) = l => n <= m
    BY <1>2
  <2>3. Load(s, n) \in Nat /\ Load(s, m) \in Nat
    BY LoadIsNat
  <2> QED BY <2>1, <2>2, <2>3
<1>4. n \in available
  BY <1>2
<1> QED BY <1>3, <1>4 DEF LeastLoaded

(* A placement hint, where there is one, is a node. *)
LEMMA PlaceTypes ==
  ASSUME TypeOK, NEW s, NEW x \in Children
  PROVE  Place(s, x) \in Nodes \cup {NoOne}
<1>1. available \subseteq Nodes /\ Home[x] \in Nodes
  BY DEF TypeOK
<1>2. CASE placement = "none"
  BY <1>2 DEF Place
<1>3. CASE placement # "none" /\ (available = {} \/ (placement = "sticky" /\ Home[x] \in available))
  BY <1>1, <1>3 DEF Place
<1>4. CASE placement # "none" /\ ~(available = {} \/ (placement = "sticky" /\ Home[x] \in available))
  <2>1. LeastLoaded(s) \in Nodes
    BY <1>1, <1>4, LeastLoadedIsAvailable
  <2> QED BY <1>4, <2>1 DEF Place
<1> QED BY <1>2, <1>3, <1>4

-----------------------------------------------------------------------------
(* Type correctness. *)

(* The three kinds of events. *)
LEMMA EventTypes ==
  /\ \A n \in Nodes : [kind |-> "node", node |-> n] \in Events
  /\ \A x \in Children : [kind |-> "tripped", child |-> x] \in Events
  /\ \A x \in Children, S \in SUBSET Children, h \in Nodes \cup {NoOne} :
       [kind |-> "restart", child |-> x, sibs |-> S, hint |-> h] \in Events
  BY DEF Events

(* A caller's events are appended at the end and sent from the front. *)
LEMMA BacklogTypes ==
  ASSUME QueuesTyped, NEW c \in Callers, NEW e \in Events
  PROVE  /\ [backlog EXCEPT ![c] = <<e>>] \in [Callers -> Seq(Events)]
         /\ [backlog EXCEPT ![c] = Append(@, e)] \in [Callers -> Seq(Events)]
<1>1. backlog[c] \in Seq(Events) /\ backlog \in [Callers -> Seq(Events)]
  BY DEF QueuesTyped
<1>2. <<e>> \in Seq(Events)
  OBVIOUS
<1>3. Append(backlog[c], e) \in Seq(Events)
  BY <1>1, PushFacts
<1> QED BY <1>1, <1>2, <1>3, Zenon

(* Planning takes one child from the list, and releases the lock at its end. *)
LEMMA PlanningTypes ==
  ASSUME TypeOK, NEW c \in Callers, NEW x \in Children, Planning(c, x)
  PROVE  todo' \subseteq Children /\ lock' \in Callers \cup {NoOne} /\ why' \in Reasons
  BY DEF TypeOK, Planning, Reasons

(* Announcing keeps what was told, heard and crossed well-formed. *)
LEMMA AnnounceTypes ==
  ASSUME TypeOK, NEW c \in Callers, NEW X, NEW k \in {"restart", "tripped"}, Announce(c, X, k)
  PROVE  /\ told' \in [Children -> {"none", "restart", "tripped"}]
         /\ heard' \in [Children -> {"none", "restart", "tripped"}]
         /\ crossed' \in [Children -> BOOLEAN]
  BY DEF TypeOK, Announce

(* All of the state but the queues. *)
CoreTyped ==
  /\ st \in [Children -> States]
  /\ hist \in [Children -> Nat]
  /\ seq \in [Children -> 0 .. MaxAdds] /\ nseq \in 0 .. MaxAdds
  /\ strategy \in Strategies /\ placement \in Policies \cup {"none"}
  /\ available \subseteq Nodes /\ settings \in 0 .. MaxSettings
  /\ lock \in Callers \cup {NoOne}
  /\ todo \subseteq Children /\ why \in Reasons
  /\ reports \in 0 .. MaxReports
  /\ told \in [Children -> {"none", "restart", "tripped"}]
  /\ crossed \in [Children -> BOOLEAN]
  /\ heard \in [Children -> {"none", "restart", "tripped"}]

(* The type invariant is this, the queues and the channel's capacity. *)
LEMMA TypeSplit == CoreTyped /\ QueuesTyped /\ Len(chan) <= EventCap => TypeOK
  BY DEF CoreTyped, QueuesTyped, TypeOK

(* Every step keeps the shape of the state. *)
LEMMA NextTypeOK ==
  ASSUME TypeOK, QueuesTyped, [Next]_vars
  PROVE  TypeOK' /\ QueuesTyped'
<1> USE DEF States, Reasons
<1>s. ASSUME CoreTyped', QueuesTyped', Len(chan') <= EventCap PROVE TypeOK' /\ QueuesTyped'
  BY <1>s DEF CoreTyped, QueuesTyped, TypeOK
<1>q. ASSUME UNCHANGED <<backlog, chan>> PROVE QueuesTyped' /\ Len(chan') <= EventCap
  BY <1>q DEF QueuesTyped, TypeOK
<1>1. ASSUME NEW x \in Children, AddChild(x) PROVE TypeOK' /\ QueuesTyped'
  <2>1. CoreTyped'
    BY <1>1 DEF AddChild, TypeOK, CoreTyped
  <2> QED BY <1>1, <1>s, <1>q, <2>1 DEF AddChild
<1>2. ASSUME NEW x \in Children, WindowPasses(x) PROVE TypeOK' /\ QueuesTyped'
  <2>1. CoreTyped'
    BY <1>2 DEF WindowPasses, TypeOK, CoreTyped
  <2> QED BY <1>2, <1>s, <1>q, <2>1 DEF WindowPasses
<1>3. ASSUME NEW p \in Policies, SetPlacementPolicy(p) PROVE TypeOK' /\ QueuesTyped'
  <2>1. CoreTyped'
    BY <1>3 DEF SetPlacementPolicy, TypeOK, CoreTyped
  <2> QED BY <1>3, <1>s, <1>q, <2>1 DEF SetPlacementPolicy
<1>4. ASSUME NEW S \in SUBSET Nodes, SetAvailableNodes(S) PROVE TypeOK' /\ QueuesTyped'
  <2>1. CoreTyped'
    BY <1>4 DEF SetAvailableNodes, TypeOK, CoreTyped
  <2> QED BY <1>4, <1>s, <1>q, <2>1 DEF SetAvailableNodes
<1>5. CASE NextEvent
  <2>1. CoreTyped'
    <3>1. \A x \in Children : About(Head(chan), x) => Head(chan).kind \in {"restart", "tripped"}
      BY DEF About
    <3>2. heard \in [Children -> {"none", "restart", "tripped"}]
      BY DEF TypeOK
    <3>3. heard' \in [Children -> {"none", "restart", "tripped"}]
      BY <1>5, <3>1, <3>2 DEF NextEvent
    <3> QED BY <1>5, <3>3 DEF NextEvent, TypeOK, CoreTyped
  <2>2. chan \in Seq(Events) /\ chan # << >> /\ chan' = Tail(chan) /\ backlog' = backlog
    BY <1>5 DEF NextEvent, QueuesTyped
  <2>3. Tail(chan) \in Seq(Events) /\ Len(Tail(chan)) = Len(chan) - 1 /\ Len(chan) \in Nat
    BY <2>2
  <2>4. Len(chan') <= EventCap
    BY <2>2, <2>3 DEF TypeOK
  <2>5. QueuesTyped'
    BY <2>2, <2>3 DEF QueuesTyped
  <2> QED BY <1>s, <2>1, <2>4, <2>5
<1>6. ASSUME NEW c \in Callers, NEW n \in Nodes, NodeDisconnect(c, n)
      PROVE  TypeOK' /\ QueuesTyped'
  <2>1. CoreTyped'
    BY <1>6 DEF NodeDisconnect, Enter, TypeOK, CoreTyped
  <2>2. QueuesTyped'
    BY <1>6, EventTypes, BacklogTypes DEF NodeDisconnect, QueuesTyped
  <2>3. Len(chan') <= EventCap
    BY <1>6 DEF NodeDisconnect, TypeOK
  <2> QED BY <1>s, <2>1, <2>2, <2>3
<1>7. ASSUME NEW c \in Callers, NEW x \in Children, NEW r \in Reasons, ChildExit(c, x, r)
      PROVE  TypeOK' /\ QueuesTyped'
  <2>1. CoreTyped'
    BY <1>7 DEF ChildExit, Enter, TypeOK, CoreTyped
  <2> QED BY <1>7, <1>s, <1>q, <2>1 DEF ChildExit
<1>8. ASSUME NEW c \in Callers, NEW x \in Children, PlanDeclined(c, x)
      PROVE  TypeOK' /\ QueuesTyped'
  <2>1. CoreTyped'
    BY <1>8, PlanningTypes DEF PlanDeclined, TypeOK, CoreTyped
  <2> QED BY <1>8, <1>s, <1>q, <2>1 DEF PlanDeclined
<1>9. ASSUME NEW c \in Callers, NEW x \in Children, PlanTripped(c, x)
      PROVE  TypeOK' /\ QueuesTyped'
  <2>1. CoreTyped'
    BY <1>9, PlanningTypes, AnnounceTypes DEF PlanTripped, TypeOK, CoreTyped
  <2>2. QueuesTyped'
    BY <1>9, EventTypes, BacklogTypes DEF PlanTripped, QueuesTyped
  <2>3. Len(chan') <= EventCap
    BY <1>9 DEF PlanTripped, TypeOK
  <2> QED BY <1>s, <2>1, <2>2, <2>3
<1>10. ASSUME NEW c \in Callers, NEW x \in Children, PlanRestart(c, x)
       PROVE  TypeOK' /\ QueuesTyped'
  <2>1. CoreTyped'
    <3>1. Planning(c, x) /\ Announce(c, WakeWith(x) \cup {x}, "restart")
      BY <1>10 DEF PlanRestart
    <3>2. st' \in [Children -> States] /\ hist' \in [Children -> Nat]
      BY <1>10 DEF PlanRestart, TypeOK
    <3>3. UNCHANGED <<seq, nseq, conf, reports>>
      BY <1>10 DEF PlanRestart
    <3>4. /\ told' \in [Children -> {"none", "restart", "tripped"}]
          /\ heard' \in [Children -> {"none", "restart", "tripped"}]
          /\ crossed' \in [Children -> BOOLEAN]
      BY <3>1, AnnounceTypes
    <3> QED BY <3>1, <3>2, <3>3, <3>4, PlanningTypes DEF TypeOK, CoreTyped
  <2>2. /\ WakeWith(x) \in SUBSET Children
        /\ Place(st', x) \in Nodes \cup {NoOne}
    BY PlaceTypes DEF WakeWith, TypeOK
  <2>3. /\ backlog' = [backlog EXCEPT ![c] = Append(@,
               [kind |-> "restart", child |-> x, sibs |-> WakeWith(x),
                hint |-> Place(st', x)])]
        /\ chan' = chan
    BY <1>10 DEF PlanRestart
  <2>4. [kind |-> "restart", child |-> x, sibs |-> WakeWith(x),
          hint |-> Place(st', x)] \in Events
    BY <2>2, EventTypes
  <2>5. QueuesTyped'
    BY <2>3, <2>4, BacklogTypes DEF QueuesTyped
  <2>6. Len(chan') <= EventCap
    BY <2>3 DEF TypeOK
  <2> QED BY <1>s, <2>1, <2>5, <2>6
<1>11. ASSUME NEW c \in Callers, SendEvent(c) PROVE TypeOK' /\ QueuesTyped'
  <2>1. CoreTyped'
    BY <1>11 DEF SendEvent, TypeOK, CoreTyped
  <2>2. /\ backlog[c] \in Seq(Events) /\ backlog[c] # << >> /\ chan \in Seq(Events)
        /\ Len(chan) < EventCap /\ chan' = Append(chan, Head(backlog[c]))
        /\ backlog' = [backlog EXCEPT ![c] = Tail(@)]
    BY <1>11 DEF SendEvent, QueuesTyped
  <2>3. Head(backlog[c]) \in Events /\ Tail(backlog[c]) \in Seq(Events)
    BY <2>2, TakeFacts
  <2>4. chan' \in Seq(Events) /\ Len(chan') = Len(chan) + 1
    BY <2>2, <2>3
  <2>5. QueuesTyped'
    BY <2>2, <2>3, <2>4 DEF QueuesTyped
  <2>6. Len(chan') <= EventCap
    BY <2>2, <2>4
  <2> QED BY <1>s, <2>1, <2>5, <2>6
<1>12. CASE UNCHANGED vars
  BY <1>12, <1>s, <1>q DEF vars, TypeOK, CoreTyped
<1> QED
  BY <1>1, <1>2, <1>3, <1>4, <1>5, <1>6, <1>7, <1>8, <1>9, <1>10, <1>11, <1>12
  DEF Next, Report

-----------------------------------------------------------------------------
(* The safety of the plan. *)

ChildInv == /\ LockCoversTodo /\ NextSeqIsNew /\ PlannedIsAnnounced

(* Adding a child, a report, each outcome of the plan and time passing keep *)
(* it, and nothing else touches the children.                               *)
LEMMA NextChildInv ==
  ASSUME CoreTyped, ChildInv, [Next]_vars
  PROVE  ChildInv'
<1>1. ASSUME NEW x \in Children, AddChild(x) PROVE ChildInv'
  <2>1. todo = {} /\ todo' = {}
    BY <1>1 DEF AddChild, ChildInv, LockCoversTodo
  <2>2. LockCoversTodo'
    BY <2>1 DEF LockCoversTodo
  <2>3. NextSeqIsNew'
    BY <1>1 DEF AddChild, ChildInv, NextSeqIsNew, CoreTyped
  <2>4. PlannedIsAnnounced'
    BY <1>1, <2>1 DEF AddChild, ChildInv, PlannedIsAnnounced, CoreTyped
  <2> QED BY <2>2, <2>3, <2>4 DEF ChildInv
<1>2. ASSUME NEW x \in Children, WindowPasses(x) PROVE ChildInv'
  <2>1. UNCHANGED <<st, seq, nseq, lock, todo, told>>
    BY <1>2 DEF WindowPasses
  <2> QED BY <2>1 DEF ChildInv, LockCoversTodo, NextSeqIsNew, PlannedIsAnnounced
<1>3. ASSUME NEW c \in Callers, NEW n \in Nodes, NodeDisconnect(c, n) PROVE ChildInv'
  <2>1. /\ lock' = c /\ UNCHANGED <<hist, seq, nseq, told>> /\ todo = {}
        /\ todo' = {x \in Children : Home[x] = n /\ st[x] \notin {"absent", "NoProc"}}
        /\ st' = [x \in Children |-> IF x \in todo' THEN "NoProc" ELSE st[x]]
    BY <1>3 DEF NodeDisconnect, Enter, ChildInv, LockCoversTodo
  <2>2. LockCoversTodo'
    BY <2>1 DEF LockCoversTodo
  <2>3. NextSeqIsNew'
    BY <2>1 DEF ChildInv, NextSeqIsNew
  <2>4. PlannedIsAnnounced'
    BY <2>1 DEF ChildInv, PlannedIsAnnounced
  <2> QED BY <2>2, <2>3, <2>4 DEF ChildInv
<1>4. ASSUME NEW c \in Callers, NEW x \in Children, NEW r \in Reasons, ChildExit(c, x, r)
      PROVE  ChildInv'
  <2>1. /\ lock' = c /\ UNCHANGED <<hist, seq, nseq, told>> /\ todo = {} /\ todo' = {x}
        /\ st[x] # "absent"
        /\ st' = [st EXCEPT ![x] = IF @ = "NoProc" THEN @ ELSE "Restarting"]
    BY <1>4 DEF ChildExit, Enter, ChildInv, LockCoversTodo
  <2>2. LockCoversTodo'
    BY <2>1 DEF LockCoversTodo, CoreTyped
  <2>3. NextSeqIsNew'
    BY <2>1 DEF ChildInv, NextSeqIsNew, CoreTyped
  <2>4. PlannedIsAnnounced'
    BY <2>1 DEF ChildInv, PlannedIsAnnounced, CoreTyped
  <2> QED BY <2>2, <2>3, <2>4 DEF ChildInv
<1>5. ASSUME NEW c \in Callers, NEW x \in Children,
             PlanDeclined(c, x) \/ PlanTripped(c, x)
      PROVE  ChildInv'
  <2>1. /\ x \in todo /\ todo' = todo \ {x} /\ lock' = (IF todo = {x} THEN NoOne ELSE lock)
        /\ st' = [st EXCEPT ![x] = "Dead"] /\ UNCHANGED <<hist, seq, nseq>>
    BY <1>5 DEF PlanDeclined, PlanTripped, Planning
  <2>2. \/ told' = told /\ Restart[x] # "Permanent"
        \/ told' = [told EXCEPT ![x] = "tripped"]
    BY <1>5 DEF PlanDeclined, PlanTripped, ShouldRestart, Announce, CoreTyped
  <2>3. st[x] # "absent"
    BY <2>1 DEF ChildInv, LockCoversTodo
  <2>4. LockCoversTodo'
    BY <2>1 DEF ChildInv, LockCoversTodo, CoreTyped
  <2>5. NextSeqIsNew'
    BY <2>1, <2>3 DEF ChildInv, NextSeqIsNew, CoreTyped
  <2>6. PlannedIsAnnounced'
    BY <2>1, <2>2 DEF ChildInv, PlannedIsAnnounced, CoreTyped
  <2> QED BY <2>4, <2>5, <2>6 DEF ChildInv
<1>6. ASSUME NEW c \in Callers, NEW x \in Children, PlanRestart(c, x) PROVE ChildInv'
  <2> DEFINE down == WakeWith(x) \cup {x}
  <2>1. /\ x \in todo /\ todo' = todo \ {x} /\ lock' = (IF todo = {x} THEN NoOne ELSE lock)
        /\ UNCHANGED <<seq, nseq>>
    BY <1>6 DEF PlanRestart, Planning
  <2>2. /\ st' = [y \in Children |-> IF y \in down /\ st[y] # "NoProc" THEN "Restarting"
                                                                      ELSE st[y]]
        /\ told' = [y \in Children |-> IF y \in down THEN "restart" ELSE told[y]]
    BY <1>6 DEF PlanRestart, Announce
  <2>3. \A y \in down : y \in Children /\ st[y] # "absent"
    BY <2>1 DEF WakeWith, ChildInv, LockCoversTodo
  <2> HIDE DEF down
  <2>4. LockCoversTodo'
    BY <2>1, <2>2 DEF ChildInv, LockCoversTodo, CoreTyped
  <2>5. NextSeqIsNew'
    BY <2>1, <2>2, <2>3 DEF ChildInv, NextSeqIsNew
  <2>6. PlannedIsAnnounced'
    <3>1. x \in down
      BY DEF down
    <3> QED BY <2>1, <2>2, <3>1 DEF ChildInv, PlannedIsAnnounced
  <2> QED BY <2>4, <2>5, <2>6 DEF ChildInv
<1>7. ASSUME UNCHANGED <<st, hist, seq, nseq, lock, todo, told>> PROVE ChildInv'
  BY <1>7 DEF ChildInv, LockCoversTodo, NextSeqIsNew, PlannedIsAnnounced
<1>8. ASSUME \/ \E p \in Policies : SetPlacementPolicy(p)
             \/ \E S \in SUBSET Nodes : SetAvailableNodes(S)
             \/ \E c \in Callers : SendEvent(c)
             \/ NextEvent \/ UNCHANGED vars
      PROVE  UNCHANGED <<st, hist, seq, nseq, lock, todo, told>>
  BY <1>8 DEF SetPlacementPolicy, SetAvailableNodes, SendEvent, NextEvent, vars
<1> QED BY <1>1, <1>2, <1>3, <1>4, <1>5, <1>6, <1>7, <1>8 DEF Next, Report

-----------------------------------------------------------------------------
(* The order of the events. *)

(* An event added at the end of a queue, and one taken from its front. *)
LEMMA QueueEnds ==
  ASSUME NEW q \in Seq(Events), NEW e \in Events, NEW x \in Children, NEW k
  PROVE  /\ Mentions(Append(q, e), x) <=> (Mentions(q, x) \/ About(e, x))
         /\ About(e, x) => (EndsWith(Append(q, e), x, k) <=> e.kind = k)
         /\ ~About(e, x) /\ EndsWith(q, x, k) => EndsWith(Append(q, e), x, k)
<1> DEFINE r == Append(q, e)
<1>1. /\ DOMAIN q = 1 .. Len(q) /\ DOMAIN r = 1 .. (Len(q) + 1) /\ Len(q) \in Nat
      /\ \A i \in 1 .. Len(q) : r[i] = q[i]
      /\ r[Len(q) + 1] = e
  OBVIOUS
<1> HIDE DEF r
<1>2. Mentions(r, x) <=> (Mentions(q, x) \/ About(e, x))
  BY <1>1 DEF Mentions
<1>3. About(e, x) => (EndsWith(r, x, k) <=> e.kind = k)
  BY <1>1 DEF EndsWith
<1>4. ~About(e, x) /\ EndsWith(q, x, k) => EndsWith(r, x, k)
  BY <1>1 DEF EndsWith
<1> QED BY <1>2, <1>3, <1>4 DEF r

LEMMA QueueFront ==
  ASSUME NEW q \in Seq(Events), q # << >>, NEW x \in Children, NEW k
  PROVE  /\ Mentions(q, x) <=> (Mentions(Tail(q), x) \/ About(Head(q), x))
         /\ EndsWith(q, x, k) => EndsWith(Tail(q), x, k)
         /\ EndsWith(q, x, k) /\ About(Head(q), x) /\ ~Mentions(Tail(q), x) => Head(q).kind = k
<1> DEFINE r == Tail(q)
<1>1. /\ DOMAIN q = 1 .. Len(q) /\ DOMAIN r = 1 .. (Len(q) - 1) /\ Len(q) \in Nat \ {0}
      /\ \A i \in 1 .. (Len(q) - 1) : r[i] = q[i + 1]
      /\ Head(q) = q[1]
  OBVIOUS
<1> HIDE DEF r
<1>a. \A j \in 1 .. Len(q) : j # 1 => j - 1 \in 1 .. (Len(q) - 1) /\ q[j] = r[j - 1]
  BY <1>1
<1>b. \A i \in 1 .. (Len(q) - 1) : i + 1 \in 1 .. Len(q)
  BY <1>1
<1>2. Mentions(q, x) <=> (Mentions(r, x) \/ About(Head(q), x))
  <2>1. Mentions(q, x) => (Mentions(r, x) \/ About(Head(q), x))
    BY <1>1, <1>a DEF Mentions
  <2>2. Mentions(r, x) => Mentions(q, x)
    BY <1>1, <1>b DEF Mentions
  <2>3. About(Head(q), x) => Mentions(q, x)
    BY <1>1 DEF Mentions
  <2> QED BY <2>1, <2>2, <2>3
<1>3. EndsWith(q, x, k) => EndsWith(r, x, k)
  <2> SUFFICES ASSUME EndsWith(q, x, k), NEW i \in DOMAIN r, About(r[i], x),
                      \A j \in DOMAIN r : j > i => ~About(r[j], x)
               PROVE  r[i].kind = k
    BY DEF EndsWith
  <2>1. i + 1 \in DOMAIN q /\ q[i + 1] = r[i]
    BY <1>1, <1>b
  <2>2. ASSUME NEW j \in DOMAIN q, j > i + 1 PROVE ~About(q[j], x)
    BY <1>1, <1>a, <2>2
  <2> QED BY <2>1, <2>2 DEF EndsWith
<1>4. EndsWith(q, x, k) /\ About(Head(q), x) /\ ~Mentions(r, x) => Head(q).kind = k
  BY SMTT(30), <1>1, <1>a DEF EndsWith, Mentions
<1> QED BY <1>2, <1>3, <1>4 DEF r

(* A report that announces, at the end of its own backlog, what it computed *)
(* about a child. *)
LEMMA AnnouncedIsLatest ==
  ASSUME QueuesTyped, CoreTyped, LatestIsLast,
         NEW c \in Callers, NEW X \in SUBSET Children, NEW k \in {"restart", "tripped"},
         NEW e \in Events, e.kind = k, \A x \in Children : About(e, x) <=> x \in X,
         Announce(c, X, k), backlog' = [backlog EXCEPT ![c] = Append(@, e)], chan' = chan
  PROVE  LatestIsLast'
<1> SUFFICES ASSUME NEW x \in Children, told'[x] # "none", ~crossed'[x]
             PROVE  Latest(x)'
  BY DEF LatestIsLast
<1>0. /\ backlog \in [Callers -> Seq(Events)] /\ backlog[c] \in Seq(Events)
      /\ backlog'[c] = Append(backlog[c], e)
      /\ \A d \in Callers \ {c} : backlog'[d] = backlog[d]
  BY DEF QueuesTyped
<1>1. CASE x \in X
  <2>1. /\ told'[x] = k /\ About(e, x)
        /\ \A d \in Callers \ {c} : ~Mentions(backlog[d], x)
    BY <1>1 DEF Announce
  <2>2. Mentions(backlog'[c], x) /\ EndsWith(backlog'[c], x, told'[x])
    BY <1>0, <2>1, QueueEnds
  <2>3. \A d \in Callers \ {c} : ~Mentions(backlog'[d], x)
    BY <1>0, <2>1
  <2>4. \A d \in Callers \ {c} : EndsWith(backlog'[d], x, told'[x])
    BY <2>3 DEF EndsWith, Mentions
  <2> QED BY <2>2, <2>3, <2>4 DEF Latest
<1>2. CASE x \notin X
  <2>1. told'[x] = told[x] /\ crossed'[x] = crossed[x] /\ heard'[x] = heard[x] /\ ~About(e, x)
    BY <1>2 DEF Announce
  <2>2. Latest(x)
    BY <2>1 DEF LatestIsLast
  <2>3. Mentions(backlog'[c], x) <=> Mentions(backlog[c], x)
    BY ZenonT(60), <1>0, <2>1, QueueEnds
  <2>4. EndsWith(backlog[c], x, told[x]) => EndsWith(backlog'[c], x, told[x])
    BY <1>0, <2>1, QueueEnds
  <2>5. \A d \in Callers : Mentions(backlog'[d], x) <=> Mentions(backlog[d], x)
    BY <1>0, <2>3
  <2>6. \A d \in Callers : EndsWith(backlog[d], x, told[x]) => EndsWith(backlog'[d], x, told[x])
    BY <1>0, <2>4
  <2> QED BY <2>1, <2>2, <2>5, <2>6 DEF Latest
<1> QED BY <1>1, <1>2

(* A report's own events, their sending and their receipt keep the order. *)
LEMMA NextLatest ==
  ASSUME QueuesTyped, CoreTyped, TypeOK, LatestIsLast, [Next]_vars
  PROVE  LatestIsLast'
<1>1. ASSUME NEW y \in Children, AddChild(y) PROVE LatestIsLast'
  <2>1. UNCHANGED <<backlog, chan>>
    BY <1>1 DEF AddChild
  <2>2. \A x \in Children : x # y => told'[x] = told[x] /\ heard'[x] = heard[x] /\ crossed'[x] = crossed[x]
    BY <1>1 DEF AddChild, CoreTyped
  <2>3. told'[y] = "none"
    BY <1>1 DEF AddChild, CoreTyped
  <2> QED BY <2>1, <2>2, <2>3 DEF LatestIsLast, Latest
<1>2. ASSUME NEW c \in Callers, NEW n \in Nodes, NodeDisconnect(c, n) PROVE LatestIsLast'
  <2>1. /\ backlog \in [Callers -> Seq(Events)] /\ backlog[c] = << >>
        /\ backlog' = [backlog EXCEPT ![c] = <<[kind |-> "node", node |-> n]>>]
        /\ UNCHANGED <<chan, told, crossed, heard>>
    BY <1>2 DEF NodeDisconnect, Enter, QueuesTyped
  <2>2. \A x \in Children : ~Mentions(backlog[c], x) /\ ~Mentions(backlog'[c], x)
    BY <2>1 DEF Mentions, About
  <2>3. \A x \in Children : EndsWith(backlog'[c], x, told[x])
    BY <2>2 DEF EndsWith, Mentions
  <2>4. \A d \in Callers \ {c} : backlog'[d] = backlog[d]
    BY <2>1
  <2>5. ASSUME NEW x \in Children, Latest(x) PROVE Latest(x)'
    BY <2>1, <2>2, <2>3, <2>4, <2>5 DEF Latest
  <2> QED BY <2>1, <2>5 DEF LatestIsLast
<1>3. ASSUME NEW c \in Callers, NEW y \in Children, PlanTripped(c, y) PROVE LatestIsLast'
  <2> DEFINE e == [kind |-> "tripped", child |-> y]
  <2>1. e \in Events /\ e.kind = "tripped" /\ \A x \in Children : About(e, x) <=> x \in {y}
    BY EventTypes DEF About
  <2>2. /\ Announce(c, {y}, "tripped") /\ chan' = chan
        /\ backlog' = [backlog EXCEPT ![c] = Append(@, e)]
    BY <1>3 DEF PlanTripped
  <2> HIDE DEF e
  <2> QED BY ZenonT(60), <2>1, <2>2, AnnouncedIsLatest
<1>4. ASSUME NEW c \in Callers, NEW y \in Children, PlanRestart(c, y) PROVE LatestIsLast'
  <2> DEFINE e == [kind |-> "restart", child |-> y, sibs |-> WakeWith(y), hint |-> Place(st', y)]
  <2>1. WakeWith(y) \in SUBSET Children /\ Place(st', y) \in Nodes \cup {NoOne}
    BY PlaceTypes DEF WakeWith
  <2>2. e \in Events
    BY <2>1, EventTypes
  <2>3. e.kind = "restart" /\ \A x \in Children : About(e, x) <=> x \in WakeWith(y) \cup {y}
    BY DEF About
  <2>4. /\ Announce(c, WakeWith(y) \cup {y}, "restart") /\ chan' = chan
        /\ backlog' = [backlog EXCEPT ![c] = Append(@, e)]
    BY <1>4 DEF PlanRestart
  <2>5. WakeWith(y) \cup {y} \in SUBSET Children
    BY <2>1
  <2> HIDE DEF e
  <2> QED BY <2>2, <2>3, <2>4, <2>5, AnnouncedIsLatest
<1>5. ASSUME NEW c \in Callers, SendEvent(c) PROVE LatestIsLast'
  <2> DEFINE q == backlog[c]
             e == Head(backlog[c])
  <2>1. /\ q \in Seq(Events) /\ q # << >> /\ chan \in Seq(Events)
        /\ chan' = Append(chan, e) /\ backlog'[c] = Tail(q)
        /\ \A d \in Callers \ {c} : backlog'[d] = backlog[d]
        /\ UNCHANGED <<told, crossed, heard>>
    BY <1>5 DEF SendEvent, QueuesTyped
  <2>2. e \in Events
    BY <2>1
  <2> HIDE DEF q, e
  <2> SUFFICES ASSUME NEW x \in Children, Latest(x) PROVE Latest(x)'
    BY <2>1 DEF LatestIsLast
  <2>3. /\ Mentions(q, x) <=> (Mentions(backlog'[c], x) \/ About(e, x))
        /\ EndsWith(q, x, told[x]) => EndsWith(backlog'[c], x, told[x])
        /\ EndsWith(q, x, told[x]) /\ About(e, x) /\ ~Mentions(backlog'[c], x) => e.kind = told[x]
    <3>1. backlog'[c] = Tail(q) /\ e = Head(q)
      BY <2>1 DEF e, q
    <3> QED BY <2>1, <3>1, QueueFront
  <2>4. /\ Mentions(chan', x) <=> (Mentions(chan, x) \/ About(e, x))
        /\ About(e, x) => (EndsWith(chan', x, told[x]) <=> e.kind = told[x])
        /\ ~About(e, x) /\ EndsWith(chan, x, told[x]) => EndsWith(chan', x, told[x])
    BY <2>1, <2>2, QueueEnds
  <2>5. \A d \in Callers : Mentions(backlog'[d], x) => Mentions(backlog[d], x)
    BY <2>1, <2>3 DEF q
  <2>6. \A d \in Callers : EndsWith(backlog'[d], x, told[x])
    BY <2>1, <2>3 DEF Latest, q
  <2>7. CASE \E d \in Callers : Mentions(backlog'[d], x)
    BY <2>1, <2>5, <2>6, <2>7 DEF Latest
  <2>8. CASE ~(\E d \in Callers : Mentions(backlog'[d], x)) /\ About(e, x)
    <3>1. EndsWith(q, x, told[x])
      BY DEF Latest, q
    <3>2. Mentions(chan', x) /\ EndsWith(chan', x, told[x])
      BY <2>3, <2>4, <2>8, <3>1
    <3> QED BY <2>1, <2>5, <2>6, <3>2 DEF Latest
  <2>9. CASE ~(\E d \in Callers : Mentions(backlog'[d], x)) /\ ~About(e, x)
    <3>1. ~(\E d \in Callers : Mentions(backlog[d], x))
      BY <2>1, <2>3, <2>9 DEF q
    <3> QED BY <2>1, <2>4, <2>6, <2>9, <3>1 DEF Latest
  <2> QED BY <2>7, <2>8, <2>9
<1>6. CASE NextEvent
  <2>1. /\ chan \in Seq(Events) /\ chan # << >> /\ chan' = Tail(chan)
        /\ UNCHANGED <<backlog, told, crossed>>
        /\ heard' = [x \in Children |-> IF About(Head(chan), x) THEN Head(chan).kind ELSE heard[x]]
    BY <1>6 DEF NextEvent, QueuesTyped
  <2> SUFFICES ASSUME NEW x \in Children, Latest(x) PROVE Latest(x)'
    BY <2>1 DEF LatestIsLast
  <2>2. /\ Mentions(chan, x) <=> (Mentions(chan', x) \/ About(Head(chan), x))
        /\ EndsWith(chan, x, told[x]) => EndsWith(chan', x, told[x])
        /\ EndsWith(chan, x, told[x]) /\ About(Head(chan), x) /\ ~Mentions(chan', x)
             => Head(chan).kind = told[x]
    BY <2>1, QueueFront
  <2>3. heard'[x] = IF About(Head(chan), x) THEN Head(chan).kind ELSE heard[x]
    BY <2>1
  <2> QED BY <2>1, <2>2, <2>3 DEF Latest
<1>7. ASSUME UNCHANGED <<backlog, chan, told, crossed, heard>> PROVE LatestIsLast'
  BY <1>7 DEF LatestIsLast, Latest
<1>8. ASSUME \/ \E x \in Children : WindowPasses(x)
             \/ \E p \in Policies : SetPlacementPolicy(p)
             \/ \E S \in SUBSET Nodes : SetAvailableNodes(S)
             \/ \E c \in Callers, x \in Children : PlanDeclined(c, x) \/ \E r \in Reasons : ChildExit(c, x, r)
             \/ UNCHANGED vars
      PROVE  UNCHANGED <<backlog, chan, told, crossed, heard>>
  BY <1>8 DEF WindowPasses, SetPlacementPolicy, SetAvailableNodes, PlanDeclined, ChildExit, vars
<1> QED BY <1>1, <1>2, <1>3, <1>4, <1>5, <1>6, <1>7, <1>8 DEF Next, Report

(* The new supervisor, and every step, satisfy the invariant. *)
LEMMA Invariance == Spec => []IInv
<1>1. Init => IInv
  <2> SUFFICES ASSUME Init PROVE IInv
    OBVIOUS
  <2>1. << >> \in Seq(Events) /\ Len(<< >>) = 0
    OBVIOUS
  <2>2. QueuesTyped /\ Len(chan) <= EventCap
    BY <2>1 DEF Init, QueuesTyped
  <2>3. CoreTyped
    BY DEF Init, CoreTyped, States, Reasons
  <2>4. LockCoversTodo /\ NextSeqIsNew /\ PlannedIsAnnounced /\ LatestIsLast
    BY DEF Init, LockCoversTodo, NextSeqIsNew, PlannedIsAnnounced, LatestIsLast
  <2> QED BY <2>2, <2>3, <2>4, TypeSplit DEF IInv
<1>2. IInv /\ [Next]_vars => IInv'
  <2> SUFFICES ASSUME IInv, [Next]_vars PROVE IInv'
    OBVIOUS
  <2>1. TypeOK' /\ QueuesTyped'
    BY NextTypeOK DEF IInv
  <2>2. CoreTyped /\ ChildInv
    BY DEF IInv, TypeOK, CoreTyped, ChildInv
  <2>3. LatestIsLast'
    BY <2>2, NextLatest DEF IInv
  <2> QED BY <2>1, <2>2, <2>3, NextChildInv DEF IInv, ChildInv
<1> QED BY <1>1, <1>2, PTL DEF Spec

-----------------------------------------------------------------------------
(* The theorems. *)

(* Children, settings, lock and queues keep their shape, the channel stays  *)
(* within its capacity, and every placement hint is a node.                 *)
THEOREM TypeCorrect == Spec => []TypeOK
<1>1. IInv => TypeOK
  BY DEF IInv
<1> QED BY Invariance, <1>1, PTL

(* Outside the critical section, a child that is down was announced by the  *)
(* last event about it.                                                     *)
THEOREM DownIsAnnounced == Spec => []DownChildIsAnnounced
<1>1. IInv => DownChildIsAnnounced
  BY DEF IInv, LockCoversTodo, PlannedIsAnnounced, DownChildIsAnnounced
<1> QED BY Invariance, <1>1, PTL

(* Once the drainer has received everything about a child, its last word    *)
(* about it is the last one computed, unless two reports crossed.           *)
THEOREM DrainerIsCurrent == Spec => []DrainerCatchesUp
<1>1. IInv => DrainerCatchesUp
  BY DEF IInv, LatestIsLast, Latest, DrainerCatchesUp, Unsent
<1> QED BY Invariance, <1>1, PTL

(* A child lost with its node leaves NoProc only by being given up or by a  *)
(* new add_child, whose number it has not had before.                       *)
THEOREM NoProcSticks == Spec => NoProcIsSticky
<1> DEFINE Sticks(x) == (st[x] = "NoProc" /\ seq'[x] = seq[x]) => st'[x] \in {"NoProc", "Dead"}
<1>1. IInv /\ [Next]_vars => [\A x \in Children : Sticks(x)]_vars
  <2> SUFFICES ASSUME IInv, [Next]_vars PROVE \A x \in Children : Sticks(x)
    OBVIOUS
  <2>0. CoreTyped
    BY DEF IInv, TypeOK, CoreTyped
  <2>1. ASSUME NEW y \in Children, AddChild(y) PROVE \A x \in Children : Sticks(x)
    <3>1. st[y] = "NoProc" => seq'[y] # seq[y]
      BY <2>0, <2>1 DEF AddChild, IInv, NextSeqIsNew, CoreTyped
    <3> QED BY <2>0, <2>1, <3>1 DEF AddChild, CoreTyped
  <2>2. ASSUME NEW c \in Callers, NEW n \in Nodes, NodeDisconnect(c, n)
        PROVE  \A x \in Children : Sticks(x)
    BY <2>2 DEF NodeDisconnect
  <2>3. ASSUME NEW c \in Callers, NEW y \in Children, NEW r \in Reasons, ChildExit(c, y, r)
        PROVE  \A x \in Children : Sticks(x)
    BY <2>0, <2>3 DEF ChildExit, CoreTyped
  <2>4. ASSUME NEW c \in Callers, NEW y \in Children,
               PlanDeclined(c, y) \/ PlanTripped(c, y)
        PROVE  \A x \in Children : Sticks(x)
    BY <2>0, <2>4 DEF PlanDeclined, PlanTripped, CoreTyped
  <2>5. ASSUME NEW c \in Callers, NEW y \in Children, PlanRestart(c, y)
        PROVE  \A x \in Children : Sticks(x)
    BY <2>5 DEF PlanRestart
  <2>6. ASSUME st' = st PROVE \A x \in Children : Sticks(x)
    BY <2>6
  <2>7. ASSUME \/ \E x \in Children : WindowPasses(x)
               \/ \E p \in Policies : SetPlacementPolicy(p)
               \/ \E S \in SUBSET Nodes : SetAvailableNodes(S)
               \/ \E c \in Callers : SendEvent(c)
               \/ NextEvent \/ UNCHANGED vars
        PROVE  st' = st
    BY <2>7 DEF WindowPasses, SetPlacementPolicy, SetAvailableNodes, SendEvent, NextEvent, vars
  <2> HIDE DEF Sticks
  <2> QED BY <2>1, <2>2, <2>3, <2>4, <2>5, <2>6, <2>7 DEF Next, Report
<1> QED BY Invariance, <1>1, PTL DEF Spec, NoProcIsSticky
=============================================================================
