-------------------------- MODULE ClusterSupervisor --------------------------
(***************************************************************************)
(* The cluster-wide supervisor (crates/mty-runtime/src/cluster/supervisor.rs*)
(* and placement.rs): children on local and remote nodes, a restart policy *)
(* and a circuit breaker per child, one strategy for all.                  *)
(*                                                                         *)
(* on_node_disconnect (called by the mesh's dialer tasks) and              *)
(* on_child_exit compute their events under the supervisor's lock and send *)
(* them, one at a time, after releasing it, into a bounded channel, where  *)
(* a full channel makes them wait.  Several such calls run at once.  The   *)
(* lost children of a node are planned in the order of a hash map: any.    *)
(* Restart timestamps are abstracted to how many lie within the window.    *)
(***************************************************************************)
EXTENDS Integers, Sequences, FiniteSets

CONSTANTS Children,     \* addresses of the children
          Nodes,        \* node ids, as numbers in their lexicographic order
          Home,         \* Home[x]: the node in x's address
          Restart,      \* Restart[x]: x's restart policy
          MaxRestarts,  \* max_restarts of every child
          Strategies,   \* the restart strategies supervisors are made with
          Policies,     \* the placement policies they may be given
          Callers,      \* tasks that report exits and disconnects
          EventCap,     \* SUPERVISOR_EVENT_CAPACITY
          MaxAdds,      \* bound on calls of add_child
          MaxSettings,  \* bound on changes of the policy and the nodes
          MaxReports,   \* bound on reports of exits and disconnects
          NoOne         \* nobody holds the lock; no placement hint

ASSUME ShapeAssumption ==
  /\ Nodes \subseteq Nat
  /\ Home \in [Children -> Nodes]
  /\ Restart \in [Children -> {"Permanent", "Transient", "Temporary"}]
  /\ Strategies \subseteq {"OneForOne", "OneForAll", "RestForOne"}
  /\ Policies \subseteq {"sticky", "least-loaded"}
  /\ NoOne \notin Callers /\ NoOne \notin Nodes
ASSUME FiniteAssumption == IsFiniteSet(Children)
ASSUME BoundsAssumption ==
  /\ MaxRestarts \in Nat /\ MaxAdds \in Nat
  /\ MaxSettings \in Nat /\ MaxReports \in Nat
  /\ EventCap \in Nat \ {0}

VARIABLES
  st,         \* st[x]: ChildState, "absent" before add_child
  hist,       \* hist[x]: restarts of x within its window
  seq,        \* seq[x]: insertion number
  nseq,       \* next_sequence
  strategy,   \* RestartStrategy, fixed when the supervisor is made
  placement,  \* the placement policy, "none" until one is set
  available,  \* available_nodes
  settings,   \* changes of the last two so far
  lock,       \* the caller inside the critical section
  todo,       \* children that caller has still to plan
  why,        \* the exit reason it plans for, "normal" when nobody does
  backlog,    \* backlog[c]: events c has computed and not yet sent
  chan,       \* the event channel
  reports,    \* reports made so far
  told,       \* told[x]: the kind of the last event computed about x
  crossed,    \* crossed[x]: it was computed while another report still held
              \* an event about x
  heard       \* heard[x]: the last event about x received since

conf == <<strategy, placement, available, settings>>
news == <<told, crossed, heard>>
vars == <<st, hist, seq, nseq, conf, lock, todo, why, backlog, chan,
          reports, news>>

States == {"absent", "Running", "Restarting", "NoProc", "Dead"}
Reasons == {"normal", "crashed", "noproc"}
Events ==
  [kind : {"restart"}, child : Children, sibs : SUBSET Children,
   hint : Nodes \cup {NoOne}]
  \cup [kind : {"tripped"}, child : Children]
  \cup [kind : {"node"}, node : Nodes]

TypeOK ==
  /\ st \in [Children -> States]
  /\ hist \in [Children -> Nat]
  /\ seq \in [Children -> 0 .. MaxAdds] /\ nseq \in 0 .. MaxAdds
  /\ strategy \in Strategies /\ placement \in Policies \cup {"none"}
  /\ available \subseteq Nodes /\ settings \in 0 .. MaxSettings
  /\ lock \in Callers \cup {NoOne}
  /\ todo \subseteq Children /\ why \in Reasons
  /\ \A c \in Callers : \A i \in DOMAIN backlog[c] : backlog[c][i] \in Events
  /\ \A i \in DOMAIN chan : chan[i] \in Events
  /\ Len(chan) <= EventCap
  /\ reports \in 0 .. MaxReports
  /\ told \in [Children -> {"none", "restart", "tripped"}]
  /\ crossed \in [Children -> BOOLEAN]
  /\ heard \in [Children -> {"none", "restart", "tripped"}]

Init ==
  /\ st = [x \in Children |-> "absent"] /\ hist = [x \in Children |-> 0]
  /\ seq = [x \in Children |-> 0] /\ nseq = 0
  /\ strategy \in Strategies /\ placement = "none"
  /\ available = {} /\ settings = 0
  /\ lock = NoOne /\ todo = {} /\ why = "normal"
  /\ backlog = [c \in Callers |-> << >>] /\ chan = << >>
  /\ reports = 0 /\ told = [x \in Children |-> "none"]
  /\ crossed = [x \in Children |-> FALSE] /\ heard = [x \in Children |-> "none"]

-----------------------------------------------------------------------------
(* Placement. *)

Load(s, n) == Cardinality({x \in Children :
                s[x] \in {"Running", "Restarting"} /\ Home[x] = n})

\* Fewest children, ties to the lexicographically first.
LeastLoaded(s) ==
  CHOOSE n \in available : \A m \in available :
    Load(s, n) < Load(s, m) \/ (Load(s, n) = Load(s, m) /\ n <= m)

Place(s, x) ==
  CASE placement = "none" -> NoOne
    [] available = {} \/ (placement = "sticky" /\ Home[x] \in available) -> Home[x]
    [] OTHER -> LeastLoaded(s)

-----------------------------------------------------------------------------
(* What the events say: whom an event is about, and a caller c computing a  *)
(* new one of kind k about the children in X.                               *)

About(e, x) == \/ e.kind = "restart" /\ (e.child = x \/ x \in e.sibs)
               \/ e.kind = "tripped" /\ e.child = x

Mentions(q, x) == \E i \in DOMAIN q : About(q[i], x)

Announce(c, X, k) ==
  /\ told' = [x \in Children |-> IF x \in X THEN k ELSE told[x]]
  /\ heard' = [x \in Children |-> IF x \in X THEN "none" ELSE heard[x]]
  /\ crossed' = [x \in Children |->
                   IF x \in X THEN \E d \in Callers \ {c} : Mentions(backlog[d], x)
                              ELSE crossed[x]]

-----------------------------------------------------------------------------
(* What the supervisor's owner calls. *)

AddChild(x) ==
  /\ lock = NoOne /\ nseq < MaxAdds
  /\ st' = [st EXCEPT ![x] = "Running"] /\ hist' = [hist EXCEPT ![x] = 0]
  /\ seq' = [seq EXCEPT ![x] = nseq] /\ nseq' = nseq + 1
  /\ told' = [told EXCEPT ![x] = "none"] /\ heard' = [heard EXCEPT ![x] = "none"]
  /\ crossed' = [crossed EXCEPT ![x] = FALSE]
  /\ UNCHANGED <<conf, lock, todo, why, backlog, chan, reports>>

SetPlacementPolicy(p) ==
  /\ lock = NoOne /\ settings < MaxSettings /\ settings' = settings + 1
  /\ placement # p /\ placement' = p
  /\ UNCHANGED <<st, hist, seq, nseq, strategy, available, lock, todo, why,
                 backlog, chan, reports, news>>

SetAvailableNodes(S) ==
  /\ lock = NoOne /\ settings < MaxSettings /\ settings' = settings + 1
  /\ S # available /\ available' = S
  /\ UNCHANGED <<st, hist, seq, nseq, strategy, placement, lock, todo, why,
                 backlog, chan, reports, news>>

NextEvent ==
  /\ chan # << >> /\ chan' = Tail(chan)
  /\ heard' = [x \in Children |-> IF About(Head(chan), x) THEN Head(chan).kind
                                                         ELSE heard[x]]
  /\ UNCHANGED <<st, hist, seq, nseq, conf, lock, todo, why, backlog,
                 reports, told, crossed>>

-----------------------------------------------------------------------------
(* The two reports.  A caller makes one at a time. *)

Enter(c, xs, r) ==
  /\ lock = NoOne /\ backlog[c] = << >> /\ reports < MaxReports
  /\ lock' = c /\ todo' = xs /\ why' = r /\ reports' = reports + 1

\* on_node_disconnect; without a child to lose it returns at once.
NodeDisconnect(c, n) ==
  LET lost == {x \in Children : Home[x] = n /\ st[x] \notin {"absent", "NoProc"}} IN
  /\ lost # {} /\ Enter(c, lost, "noproc")
  /\ st' = [x \in Children |-> IF x \in lost THEN "NoProc" ELSE st[x]]
  /\ backlog' = [backlog EXCEPT ![c] = <<[kind |-> "node", node |-> n]>>]
  /\ UNCHANGED <<hist, seq, nseq, conf, chan, news>>

\* Mutant: an exit report overwrites NoProc.
ChildExitForgetsNoProc(c, x, r) ==
  /\ st[x] # "absent" /\ Enter(c, {x}, r)
  /\ st' = [st EXCEPT ![x] = "Restarting"]
  /\ UNCHANGED <<hist, seq, nseq, conf, backlog, chan, news>>

ChildExit(c, x, r) ==
  /\ st[x] # "absent" /\ Enter(c, {x}, r)
  /\ st' = [st EXCEPT ![x] = IF @ = "NoProc" THEN @ ELSE "Restarting"]
  /\ UNCHANGED <<hist, seq, nseq, conf, backlog, chan, news>>

ShouldRestart(x, r) ==
  Restart[x] = "Permanent" \/ (Restart[x] = "Transient" /\ r # "normal")

\* The siblings the strategy wakes together with x.
WakeWith(x) ==
  {y \in Children \ {x} : /\ st[y] # "absent"
                          /\ \/ strategy = "OneForAll"
                             \/ strategy = "RestForOne" /\ seq[y] > seq[x]}

\* plan_restart_locked for the next child; the lock is released after the last.
Planning(c, x) ==
  /\ lock = c /\ x \in todo
  /\ todo' = todo \ {x}
  /\ IF todo = {x} THEN lock' = NoOne /\ why' = "normal" ELSE UNCHANGED <<lock, why>>

PlanDeclined(c, x) ==
  /\ Planning(c, x) /\ ~ShouldRestart(x, why)
  /\ st' = [st EXCEPT ![x] = "Dead"]
  /\ UNCHANGED <<hist, seq, nseq, conf, backlog, chan, reports, news>>

PlanTripped(c, x) ==
  /\ Planning(c, x) /\ ShouldRestart(x, why) /\ hist[x] >= MaxRestarts
  /\ st' = [st EXCEPT ![x] = "Dead"]
  /\ backlog' = [backlog EXCEPT ![c] = Append(@, [kind |-> "tripped", child |-> x])]
  /\ Announce(c, {x}, "tripped")
  /\ UNCHANGED <<hist, seq, nseq, conf, chan, reports>>

\* Mutant: siblings are marked Restarting but not named in the event.
PlanRestartSilentSiblings(c, x) ==
  /\ Planning(c, x) /\ ShouldRestart(x, why) /\ hist[x] < MaxRestarts
  /\ hist' = [hist EXCEPT ![x] = @ + 1]
  /\ st' = [y \in Children |->
              IF y \in WakeWith(x) \cup {x} /\ st[y] # "NoProc" THEN "Restarting"
                                                                ELSE st[y]]
  /\ Announce(c, {x}, "restart")
  /\ backlog' = [backlog EXCEPT ![c] = Append(@,
       [kind |-> "restart", child |-> x, sibs |-> {},
        hint |-> Place(st', x)])]
  /\ UNCHANGED <<seq, nseq, conf, chan, reports>>

PlanRestart(c, x) ==
  /\ Planning(c, x) /\ ShouldRestart(x, why) /\ hist[x] < MaxRestarts
  /\ hist' = [hist EXCEPT ![x] = @ + 1]
  /\ LET woken == WakeWith(x)
         s == [y \in Children |->
                 IF y \in woken \cup {x} /\ st[y] # "NoProc" THEN "Restarting"
                                                             ELSE st[y]]
     IN /\ st' = s
        /\ Announce(c, woken \cup {x}, "restart")
        /\ backlog' = [backlog EXCEPT ![c] = Append(@,
             [kind |-> "restart", child |-> x, sibs |-> woken,
              hint |-> Place(s, x)])]
  /\ UNCHANGED <<seq, nseq, conf, chan, reports>>

\* Mutant: a full channel loses the event.
SendEventTries(c) ==
  /\ lock # c /\ backlog[c] # << >>
  /\ chan' = IF Len(chan) < EventCap THEN Append(chan, Head(backlog[c])) ELSE chan
  /\ backlog' = [backlog EXCEPT ![c] = Tail(@)]
  /\ UNCHANGED <<st, hist, seq, nseq, conf, lock, todo, why, reports, news>>

\* The events go out after the lock is released; a full channel makes the
\* reporting task wait.
SendEvent(c) ==
  /\ lock # c /\ backlog[c] # << >> /\ Len(chan) < EventCap
  /\ chan' = Append(chan, Head(backlog[c]))
  /\ backlog' = [backlog EXCEPT ![c] = Tail(@)]
  /\ UNCHANGED <<st, hist, seq, nseq, conf, lock, todo, why, reports, news>>

\* Time passes: the oldest restart of x leaves its window.
WindowPasses(x) ==
  /\ hist[x] > 0 /\ hist' = [hist EXCEPT ![x] = @ - 1]
  /\ UNCHANGED <<st, seq, nseq, conf, lock, todo, why, backlog, chan,
                 reports, news>>

Report(c) ==
  \/ \E n \in Nodes : NodeDisconnect(c, n)
  \/ \E x \in Children : \/ \E r \in Reasons : ChildExit(c, x, r)
                         \/ PlanDeclined(c, x)
                         \/ PlanTripped(c, x) \/ PlanRestart(c, x)
  \/ SendEvent(c)

Next ==
  \/ \E x \in Children : AddChild(x) \/ WindowPasses(x)
  \/ \E p \in Policies : SetPlacementPolicy(p)
  \/ \E S \in SUBSET Nodes : SetAvailableNodes(S)
  \/ \E c \in Callers : Report(c)
  \/ NextEvent

Spec == Init /\ [][Next]_vars

-----------------------------------------------------------------------------
(* A child that is down has been announced: outside the critical section,   *)
(* a child that is restarting or unreachable is named by the last event     *)
(* computed about it as one to restart, as the failing child or as a        *)
(* sibling, and a permanent child is given up only with a tripped breaker.  *)
DownChildIsAnnounced ==
  lock = NoOne => \A x \in Children :
    /\ st[x] \in {"Restarting", "NoProc"} => told[x] = "restart"
    /\ (st[x] = "Dead" /\ Restart[x] = "Permanent") => told[x] = "tripped"

(* The drainer catches up: once it has received every event about a child,  *)
(* the last one it received is the last one computed, although events are   *)
(* sent after the lock is released, by several reports and through a full   *)
(* channel.  The exception is an event computed while another report was    *)
(* still waiting to send one about the same child: those two may overtake   *)
(* each other.                                                              *)
Unsent(x) == Mentions(chan, x) \/ \E c \in Callers : Mentions(backlog[c], x)

DrainerCatchesUp ==
  \A x \in Children : (told[x] # "none" /\ ~crossed[x] /\ ~Unsent(x))
                       => heard[x] = told[x]

(* A child lost with its node keeps saying so: it leaves NoProc only by     *)
(* being given up or added again, never by a sibling's restart.             *)
NoProcIsSticky ==
  [][\A x \in Children : (st[x] = "NoProc" /\ seq'[x] = seq[x])
                           => st'[x] \in {"NoProc", "Dead"}]_vars
=============================================================================
