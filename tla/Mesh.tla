-------------------------------- MODULE Mesh --------------------------------
(***************************************************************************)
(* Asks that cross the cluster (crates/mty-runtime/src/cluster): the       *)
(* correlation table that pairs replies with waiting asks (correlation.rs),*)
(* route_ask, the demultiplexer, the per-node dialer task and shutdown     *)
(* (mesh.rs), and the peer connections they run over (peer.rs).            *)
(*                                                                         *)
(* A connection is a reader and a writer task.  is_connected looks at the  *)
(* writer only.  Frames in flight die with the connection.  A connection   *)
(* has a generation, so that an ask that picked a peer before it was       *)
(* replaced is told apart from one that sends on the new peer.             *)
(* Correlation ids are the asks themselves: ids are never reused.          *)
(*                                                                         *)
(* Whoever answers an id removes it from the side map, then from the map   *)
(* of senders, then sends: three steps, between which the other tasks run. *)
(* Every task but an ask works on one id at a time.                        *)
(***************************************************************************)
EXTENDS Integers, FiniteSets

CONSTANTS Asks,        \* remote asks made
          Nodes,       \* remote nodes
          Target,      \* Target[a]: the node ask a goes to
          Deadlined,   \* asks under a deadline
          MaxAttempts, \* RECONNECT_MAX_ATTEMPTS
          MaxConns,    \* MaxConns[n]: bound on the connections made to n
          Inbound,     \* the nodes that also dial us
          Others,      \* whether the nodes also send frames that are no replies
          Stops        \* whether the mesh may be shut down

ASSUME TargetAssumption == Target \in [Asks -> Nodes]
ASSUME DeadlinedAssumption == Deadlined \subseteq Asks
ASSUME BoundsAssumption == MaxAttempts \in Nat /\ MaxConns \in [Nodes -> Nat]
ASSUME FlagsAssumption ==
  Inbound \subseteq Nodes /\ Others \in BOOLEAN /\ Stops \in BOOLEAN

VARIABLES
  pc,       \* pc[a]: where route_ask_impl stands
  out,      \* out[a]: what the caller got
  via,      \* via[a]: generation of the peer route_async picked and holds
  chan,     \* chan[a]: the ask's oneshot: "open" until answered
  pending,  \* CorrelationTable.pending
  targets,  \* CorrelationTable.targets
  cut,      \* <<v, a>>: the task that will answer v took a out of targets
  held,     \* held[a]: the verdict of the task that took a's sender
  link,     \* link[n]: the peer installed for n: "none", "up", "half" (its
            \* reader ended), "down" (its writer ended)
  gen,      \* gen[n]: generation of that peer
  req, rep, \* req[n], rep[n]: asks and replies in flight on that peer
  raw,      \* replies between a reader and the demultiplexer
  demux,    \* the demultiplexer: "recv", "forward" (it waits for room in the
            \* inbox), "ended" (the inbox was dropped)
  dial,     \* dial[n]: where the dialer task of n stands
  was,      \* was[n]: the dialer's was_connected
  attempt,  \* attempt[n]: the dialer's failed attempts
  failing,  \* failing[n]: ids fail_targeting_node collected, not yet failed
  sd,       \* the shutdown: "no", "collect", "fail", "done"
  sdIds     \* ids fail_all_with collected, not yet failed

askVars == <<pc, out, via>>
tableVars == <<chan, pending, targets, cut, held>>
linkVars == <<link, gen, req, rep, raw, demux>>
dialVars == <<dial, was, attempt, failing>>
sdVars == <<sd, sdIds>>
vars == <<askVars, tableVars, linkVars, dialVars, sdVars>>

Verdicts == {"reply", "peer_disconnected", "mesh_shutdown"}
\* "leaving", "left": the guard is about to clean targets, then pending.
AskPcs == {"idle", "registered", "targeted", "routing", "waiting", "leaving",
           "left", "done"}

TypeOK ==
  /\ pc \in [Asks -> AskPcs]
  /\ out \in [Asks -> Verdicts \cup {"none", "route_error", "deadline"}]
  /\ via \in [Asks -> Nat]
  /\ chan \in [Asks -> Verdicts \cup {"open"}]
  /\ pending \subseteq Asks /\ targets \subseteq Asks /\ raw \subseteq Asks
  /\ cut \subseteq Verdicts \X Asks /\ held \in [Asks -> Verdicts \cup {"none"}]
  /\ demux \in {"recv", "forward", "ended"}
  /\ link \in [Nodes -> {"none", "up", "half", "down"}]
  /\ gen \in [Nodes -> Nat] /\ \A n \in Nodes : gen[n] <= MaxConns[n]
  /\ req \in [Nodes -> SUBSET Asks] /\ rep \in [Nodes -> SUBSET Asks]
  /\ dial \in [Nodes -> {"poll", "collect", "fail", "connect", "stopped"}]
  /\ was \in [Nodes -> BOOLEAN]
  /\ attempt \in [Nodes -> 0 .. MaxAttempts + 1]
  /\ failing \in [Nodes -> SUBSET Asks]
  /\ sd \in {"no", "collect", "fail", "done"} /\ sdIds \subseteq Asks

Init ==
  /\ pc = [a \in Asks |-> "idle"] /\ out = [a \in Asks |-> "none"]
  /\ via = [a \in Asks |-> 0]
  /\ chan = [a \in Asks |-> "open"] /\ pending = {} /\ targets = {}
  /\ cut = {} /\ held = [a \in Asks |-> "none"] /\ demux = "recv"
  /\ link = [n \in Nodes |-> "none"] /\ gen = [n \in Nodes |-> 0]
  /\ req = [n \in Nodes |-> {}] /\ rep = [n \in Nodes |-> {}] /\ raw = {}
  /\ dial = [n \in Nodes |-> "poll"] /\ was = [n \in Nodes |-> FALSE]
  /\ attempt = [n \in Nodes |-> 0] /\ failing = [n \in Nodes |-> {}]
  /\ sd = "no" /\ sdIds = {}

-----------------------------------------------------------------------------
(* The correlation table. *)

\* The task with verdict v is between two steps of answering an ask of S.
Busy(v, S) == \E a \in S : <<v, a>> \in cut \/ held[a] = v

\* complete, fail_targeting_node, fail_all_with: out of the side map ...
CutTarget(v, a) ==
  /\ targets' = targets \ {a} /\ cut' = cut \cup {<<v, a>>}
  /\ UNCHANGED <<chan, pending, held>>

\* Mutant: the entry is removed and its sender dropped unsent.
TakeSenderDrops(v, a) ==
  /\ <<v, a>> \in cut /\ cut' = cut \ {<<v, a>>}
  /\ pending' = pending \ {a}
  /\ UNCHANGED <<chan, targets, held, askVars, linkVars, dialVars, sdVars>>

\* ... out of `pending', where at most one task finds the sender ...
TakeSender(v, a) ==
  /\ <<v, a>> \in cut /\ cut' = cut \ {<<v, a>>}
  /\ pending' = pending \ {a}
  /\ held' = IF a \in pending THEN [held EXCEPT ![a] = v] ELSE held
  /\ UNCHANGED <<chan, targets, askVars, linkVars, dialVars, sdVars>>

\* ... and answer.
SendVerdict(a) ==
  /\ held[a] # "none"
  /\ chan' = [chan EXCEPT ![a] = held[a]]
  /\ held' = [held EXCEPT ![a] = "none"]
  /\ UNCHANGED <<pending, targets, cut, askVars, linkVars, dialVars, sdVars>>

-----------------------------------------------------------------------------
(* An ask: route_ask_impl under the caller's optional deadline. *)

Connected(n) == link[n] \in {"up", "half"}

\* Mutant: register instead of register_for_node.
RegisterUntargeted(a) ==
  /\ pc[a] = "idle"
  /\ pc' = [pc EXCEPT ![a] = "targeted"]
  /\ pending' = pending \cup {a}
  /\ UNCHANGED <<out, via, chan, targets, cut, held, linkVars, dialVars, sdVars>>

\* register, then the entry in the side map.
Register(a) ==
  /\ pc[a] = "idle"
  /\ pc' = [pc EXCEPT ![a] = "registered"]
  /\ pending' = pending \cup {a}
  /\ UNCHANGED <<out, via, chan, targets, cut, held, linkVars, dialVars, sdVars>>

RegisterTarget(a) ==
  /\ pc[a] = "registered"
  /\ pc' = [pc EXCEPT ![a] = "targeted"]
  /\ targets' = targets \cup {a}
  /\ UNCHANGED <<out, via, chan, pending, cut, held, linkVars, dialVars, sdVars>>

\* The ask ends with o.  Unless it received a verdict, its guard is dropped:
\* AskGuard cleans targets, then pending.
Return(a, o, next) ==
  /\ pc' = [pc EXCEPT ![a] = next]
  /\ out' = [out EXCEPT ![a] = o]
  /\ via' = [via EXCEPT ![a] = 0]

CleanTarget(a) ==
  /\ pc[a] = "leaving"
  /\ pc' = [pc EXCEPT ![a] = "left"]
  /\ targets' = targets \ {a}
  /\ UNCHANGED <<out, via, chan, pending, cut, held, linkVars, dialVars, sdVars>>

CleanPending(a) ==
  /\ pc[a] = "left"
  /\ pc' = [pc EXCEPT ![a] = "done"]
  /\ pending' = pending \ {a}
  /\ UNCHANGED <<out, via, chan, targets, cut, held, linkVars, dialVars, sdVars>>

\* Mutant: no guard around the table entry when routing fails.
PickPeerUnguarded(a) ==
  /\ pc[a] = "targeted"
  /\ IF Connected(Target[a])
     THEN /\ pc' = [pc EXCEPT ![a] = "routing"]
          /\ via' = [via EXCEPT ![a] = gen[Target[a]]]
          /\ UNCHANGED out
     ELSE Return(a, "route_error", "done")
  /\ UNCHANGED <<tableVars, linkVars, dialVars, sdVars>>

\* route_async picks the installed peer, if it is connected ...
PickPeer(a) ==
  /\ pc[a] = "targeted"
  /\ IF Connected(Target[a])
     THEN /\ pc' = [pc EXCEPT ![a] = "routing"]
          /\ via' = [via EXCEPT ![a] = gen[Target[a]]]
          /\ UNCHANGED out
     ELSE Return(a, "route_error", "leaving")
  /\ UNCHANGED <<tableVars, linkVars, dialVars, sdVars>>

\* The peer the ask picked is the installed one.
SamePeer(a) == via[a] = gen[Target[a]] /\ link[Target[a]] # "none"

\* ... and hands it the frame, waiting while its queue is full.  The ask
\* keeps a replaced peer alive until then: that one may still take the
\* frame, which dies with it, or have ended as any other.
HandOff(a) ==
  /\ pc[a] = "routing"
  /\ SamePeer(a) => Connected(Target[a])
  /\ pc' = [pc EXCEPT ![a] = "waiting"] /\ via' = [via EXCEPT ![a] = 0]
  /\ req' = IF SamePeer(a) THEN [req EXCEPT ![Target[a]] = @ \cup {a}] ELSE req
  /\ UNCHANGED <<out, tableVars, link, gen, rep, raw, demux, dialVars, sdVars>>

HandOffRefused(a) ==
  /\ pc[a] = "routing"
  /\ SamePeer(a) => ~Connected(Target[a])
  /\ Return(a, "route_error", "leaving")
  /\ UNCHANGED <<tableVars, linkVars, dialVars, sdVars>>

\* The oneshot resolves; the guard is forgotten.
Resolve(a) ==
  /\ pc[a] = "waiting" /\ chan[a] # "open"
  /\ Return(a, chan[a], "done")
  /\ UNCHANGED <<tableVars, linkVars, dialVars, sdVars>>

\* The caller's timeout drops the future, and with it the guard.
Timeout(a) ==
  /\ a \in Deadlined
  /\ pc[a] \in {"routing", "waiting"}
  /\ Return(a, "deadline", "leaving")
  /\ UNCHANGED <<tableVars, linkVars, dialVars, sdVars>>

-----------------------------------------------------------------------------
(* Connections, and the node at the other end (external): it answers an ask *)
(* on the connection the ask came in on.                                    *)

Answer(n, a) ==
  /\ link[n] = "up" /\ a \in req[n]
  /\ req' = [req EXCEPT ![n] = @ \ {a}] /\ rep' = [rep EXCEPT ![n] = @ \cup {a}]
  /\ UNCHANGED <<askVars, tableVars, link, gen, raw, demux, dialVars, sdVars>>

\* The reader task passes a reply on.
ReadReply(n, a) ==
  /\ link[n] = "up" /\ a \in rep[n] /\ demux # "ended"
  /\ rep' = [rep EXCEPT ![n] = @ \ {a}] /\ raw' = raw \cup {a}
  /\ UNCHANGED <<askVars, tableVars, link, gen, req, demux, dialVars, sdVars>>

\* The demultiplexer takes a reply.  Shutdown aborts it when it next waits.
Demux(a) ==
  /\ demux = "recv" /\ ~Busy("reply", Asks) /\ a \in raw
  /\ raw' = raw \ {a}
  /\ CutTarget("reply", a)
  /\ UNCHANGED <<askVars, link, gen, req, rep, demux, dialVars, sdVars>>

\* It takes any other frame, for the inbox, which may be full ...
DemuxOther ==
  /\ Others /\ \E n \in Nodes : gen[n] > 0
  /\ demux = "recv" /\ ~Busy("reply", Asks)
  /\ demux' = "forward"
  /\ UNCHANGED <<askVars, tableVars, link, gen, req, rep, raw, dialVars, sdVars>>

\* ... until the inbox's owner takes a frame out, or ends it for good.
Forward ==
  /\ demux = "forward"
  /\ demux' \in {"recv", "ended"}
  /\ UNCHANGED <<askVars, tableVars, link, gen, req, rep, raw, dialVars, sdVars>>

\* The remote closes: the reader sees Goodbye or the end of the stream; or the
\* demultiplexer is gone.
ReaderEnds(n) ==
  /\ link[n] = "up"
  /\ link' = [link EXCEPT ![n] = "half"]
  /\ req' = [req EXCEPT ![n] = {}] /\ rep' = [rep EXCEPT ![n] = {}]
  /\ UNCHANGED <<askVars, tableVars, gen, raw, demux, dialVars, sdVars>>

\* A frame or a heartbeat cannot be written.
WriterEnds(n) ==
  /\ link[n] \in {"up", "half"}
  /\ link' = [link EXCEPT ![n] = "down"]
  /\ req' = [req EXCEPT ![n] = {}] /\ rep' = [rep EXCEPT ![n] = {}]
  /\ UNCHANGED <<askVars, tableVars, gen, raw, demux, dialVars, sdVars>>

\* install_peer: the new peer replaces the old one, whose tasks are aborted.
InstallPeer(n) ==
  /\ gen[n] < MaxConns[n]
  /\ gen' = [gen EXCEPT ![n] = @ + 1]
  /\ link' = [link EXCEPT ![n] = "up"]
  /\ req' = [req EXCEPT ![n] = {}] /\ rep' = [rep EXCEPT ![n] = {}]

\* The listener accepted a connection from n; a handshake under way survives
\* the listener's abort.
Accept(n) ==
  /\ n \in Inbound /\ InstallPeer(n)
  /\ UNCHANGED <<askVars, tableVars, raw, demux, dialVars, sdVars>>

-----------------------------------------------------------------------------
(* The dialer task of a node. *)

\* Look at the peer; after a failed look, give up or dial.
DialPoll(n) ==
  /\ sd = "no" /\ dial[n] = "poll"
  /\ IF Connected(n)
     THEN was' = [was EXCEPT ![n] = TRUE] /\ UNCHANGED <<dial, attempt>>
     ELSE IF was[n]
     THEN dial' = [dial EXCEPT ![n] = "collect"] /\ UNCHANGED <<was, attempt>>
     ELSE /\ attempt' = [attempt EXCEPT ![n] = @ + 1]
          /\ dial' = [dial EXCEPT ![n] = IF attempt[n] + 1 > MaxAttempts
                                         THEN "stopped" ELSE "connect"]
          /\ UNCHANGED was
  /\ UNCHANGED <<askVars, tableVars, linkVars, failing, sdVars>>

\* Mutant: a disconnect fails the asks of every node.
DialCollectAll(n) ==
  /\ dial[n] = "collect"
  /\ failing' = [failing EXCEPT ![n] = targets]
  /\ dial' = [dial EXCEPT ![n] = "fail"]
  /\ UNCHANGED <<askVars, tableVars, linkVars, was, attempt, sdVars>>

\* Mutant: a disconnect fails nobody.
DialCollectNothing(n) ==
  /\ dial[n] = "collect"
  /\ dial' = [dial EXCEPT ![n] = "fail"]
  /\ UNCHANGED <<askVars, tableVars, linkVars, was, attempt, failing, sdVars>>

\* fail_targeting_node: collect the ids, then fail them one by one, without a
\* wait at which an abort could land ...
DialCollect(n) ==
  /\ dial[n] = "collect"
  /\ failing' = [failing EXCEPT ![n] = {a \in targets : Target[a] = n}]
  /\ dial' = [dial EXCEPT ![n] = "fail"]
  /\ UNCHANGED <<askVars, tableVars, linkVars, was, attempt, sdVars>>

DialFail(n, a) ==
  /\ dial[n] = "fail" /\ a \in failing[n]
  /\ ~Busy("peer_disconnected", {b \in Asks : Target[b] = n})
  /\ failing' = [failing EXCEPT ![n] = @ \ {a}]
  /\ CutTarget("peer_disconnected", a)
  /\ UNCHANGED <<askVars, linkVars, dial, was, attempt, sdVars>>

\* ... then the supervisors were notified, and the task dials again.
DialFailed(n) ==
  /\ sd = "no" /\ dial[n] = "fail" /\ failing[n] = {}
  /\ ~Busy("peer_disconnected", {b \in Asks : Target[b] = n})
  /\ was' = [was EXCEPT ![n] = FALSE]
  /\ attempt' = [attempt EXCEPT ![n] = @ + 1]
  /\ dial' = [dial EXCEPT ![n] = IF attempt[n] + 1 > MaxAttempts
                                 THEN "stopped" ELSE "connect"]
  /\ UNCHANGED <<askVars, tableVars, linkVars, failing, sdVars>>

DialSucceeds(n) ==
  /\ sd = "no" /\ dial[n] = "connect" /\ InstallPeer(n)
  /\ attempt' = [attempt EXCEPT ![n] = 0]
  /\ dial' = [dial EXCEPT ![n] = "poll"]
  /\ UNCHANGED <<askVars, tableVars, raw, demux, was, failing, sdVars>>

DialErrs(n) ==
  /\ sd = "no" /\ dial[n] = "connect"
  /\ dial' = [dial EXCEPT ![n] = "poll"]
  /\ UNCHANGED <<askVars, tableVars, linkVars, was, attempt, failing, sdVars>>

-----------------------------------------------------------------------------
(* Shutdown: the tasks are aborted, the pending asks failed, and then the   *)
(* peers dropped.                                                           *)

ShutdownStart ==
  /\ Stops /\ sd = "no" /\ sd' = "collect"
  /\ UNCHANGED <<askVars, tableVars, linkVars, dialVars, sdIds>>

ShutdownCollect ==
  /\ sd = "collect" /\ sd' = "fail" /\ sdIds' = pending
  /\ UNCHANGED <<askVars, tableVars, linkVars, dialVars>>

ShutdownFail(a) ==
  /\ sd = "fail" /\ a \in sdIds /\ ~Busy("mesh_shutdown", Asks)
  /\ sdIds' = sdIds \ {a}
  /\ CutTarget("mesh_shutdown", a)
  /\ UNCHANGED <<askVars, linkVars, dialVars, sd>>

AllFailed == sd = "fail" /\ sdIds = {} /\ ~Busy("mesh_shutdown", Asks)

ShutdownPeer(n) ==
  /\ AllFailed /\ link[n] # "none"
  /\ link' = [link EXCEPT ![n] = "none"]
  /\ req' = [req EXCEPT ![n] = {}] /\ rep' = [rep EXCEPT ![n] = {}]
  /\ UNCHANGED <<askVars, tableVars, gen, raw, demux, dialVars, sdVars>>

ShutdownDone ==
  /\ AllFailed /\ \A n \in Nodes : link[n] = "none"
  /\ sd' = "done"
  /\ UNCHANGED <<askVars, tableVars, linkVars, dialVars, sdIds>>

-----------------------------------------------------------------------------
Ask(a) == \/ Register(a) \/ RegisterTarget(a) \/ PickPeer(a) \/ HandOff(a)
          \/ HandOffRefused(a) \/ Resolve(a) \/ Timeout(a)
          \/ CleanTarget(a) \/ CleanPending(a)
Table(a) == SendVerdict(a) \/ \E v \in Verdicts : TakeSender(v, a)
Remote(n) == \E a \in Asks : Answer(n, a) \/ ReadReply(n, a)
Dialer(n) == \/ DialPoll(n) \/ DialCollect(n) \/ DialFailed(n)
             \/ DialSucceeds(n) \/ DialErrs(n)
             \/ \E a \in Asks : DialFail(n, a)

Next ==
  \/ \E a \in Asks : Ask(a) \/ Table(a) \/ Demux(a) \/ ShutdownFail(a)
  \/ \E n \in Nodes : \/ Remote(n) \/ ReaderEnds(n) \/ WriterEnds(n)
                      \/ Accept(n) \/ Dialer(n) \/ ShutdownPeer(n)
  \/ DemuxOther \/ Forward
  \/ ShutdownStart \/ ShutdownCollect \/ ShutdownDone

(* Every task is polled while it can step, and the steps of one removal     *)
(* follow each other without a wait.  The queue to the demultiplexer is     *)
(* first in, first out: it reaches every reply if it keeps coming back for  *)
(* more.  The remote answers while the connection lasts.  When it has       *)
(* closed the connection, the next heartbeats fail; nothing makes a write   *)
(* fail if it is only our demultiplexer that is gone, and nothing makes     *)
(* room in a peer's queue or in the inbox.                                  *)
Fairness ==
  /\ \A a \in Asks : /\ WF_vars(RegisterTarget(a)) /\ WF_vars(PickPeer(a))
                     /\ WF_vars(Resolve(a)) /\ WF_vars(Table(a))
                     /\ WF_vars(CleanTarget(a)) /\ WF_vars(CleanPending(a))
                     /\ SF_vars(Demux(a))
  /\ \A n \in Nodes : /\ WF_vars(Remote(n)) /\ WF_vars(Dialer(n))
                      /\ WF_vars(link[n] = "half" /\ demux # "ended" /\ WriterEnds(n))

Spec == Init /\ [][Next]_vars
FairSpec == Spec /\ Fairness

-----------------------------------------------------------------------------
(* While an ask waits unanswered, its sender is in the table, or with a     *)
(* task about to send: no path drops it unanswered (the demultiplexer, a    *)
(* disconnect, a shutdown and the ask's own guard all remove entries).      *)
WaitingAskHasEntry ==
  \A a \in Asks : (pc[a] \in {"registered", "targeted", "routing", "waiting"}
                     /\ chan[a] = "open") => a \in pending \/ held[a] # "none"

(* The table does not leak: an ask that is over has left both maps, by the  *)
(* reply, by the guard on an error or a timeout, or by the disconnect.      *)
NoEntryLeft ==
  sd = "no" => \A a \in Asks : pc[a] = "done" => a \notin pending \cup targets

(* The side map and the map of senders change in separate steps, and yet a  *)
(* disconnect cannot miss an ask: from before its frame is handed to a      *)
(* connection, an unanswered ask is listed under its node, or a task that   *)
(* took it off the list is about to answer it.                              *)
InFlightIsTargeted ==
  \A a \in Asks : (pc[a] \in {"routing", "waiting"} /\ chan[a] = "open") =>
    a \in targets \/ held[a] # "none" \/ \E v \in Verdicts : <<v, a>> \in cut

(* The dialer's look at a node, the ids it collects and the verdicts it     *)
(* hands out are separate steps, and yet the verdict is never stale for a   *)
(* node that only we dial: an ask is failed with "peer disconnected" only   *)
(* while there is no connection to its own node.                            *)
DisconnectIsCurrent ==
  [][\A a \in Asks :
       (chan[a] = "open" /\ chan'[a] = "peer_disconnected" /\ Target[a] \notin Inbound)
         => ~Connected(Target[a])]_vars

(* As long as the inbox's owner keeps taking frames, so that the            *)
(* demultiplexer keeps coming back to its queue, an ask whose frame is on a *)
(* connection the dialer has seen up is answered, or failed once that       *)
(* connection dies.                                                         *)
WatchedAskResolves ==
  []<>(demux = "recv") =>
    \A a \in Asks :
      (a \in req[Target[a]] \cup rep[Target[a]] /\ was[Target[a]]) ~> (pc[a] = "done")
=============================================================================
