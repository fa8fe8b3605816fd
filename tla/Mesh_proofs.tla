---------------------------- MODULE Mesh_proofs ----------------------------
(***************************************************************************)
(* The cluster's asks, for any asks, nodes and targets, any number of      *)
(* reconnections, with and without shutdown: no table entry is dropped     *)
(* unanswered, none is left behind, and a disconnect fails only asks of    *)
(* the node that is gone.                                                  *)
(***************************************************************************)
EXTENDS Mesh, TLAPS

USE TargetAssumption, DeadlinedAssumption, BoundsAssumption, FlagsAssumption

Started == {"registered", "targeted", "routing", "waiting"}

(* An id is known to nobody before it is in the side map: not to the        *)
(* dialers or the demultiplexer, and no frame or reply carries it.          *)
UnsentIsUnknown ==
  \A a \in Asks : pc[a] \in {"idle", "registered"} =>
    /\ a \notin targets /\ a \notin raw
    /\ \A n \in Nodes : a \notin req[n] /\ a \notin rep[n] /\ a \notin failing[n]
    /\ \A v \in {"reply", "peer_disconnected"} : <<v, a>> \notin cut /\ held[a] # v

(* Until an ask's oneshot is answered its sender is in the table or with    *)
(* one task, and in neither once the ask is over.                           *)
PendingIsOpen ==
  \A a \in Asks :
    /\ pc[a] = "idle" => chan[a] = "open" /\ held[a] = "none"
    /\ pc[a] \in {"idle", "done"} => a \notin pending
    /\ a \in pending => chan[a] = "open" /\ held[a] = "none"
    /\ held[a] # "none" => chan[a] = "open"
    /\ pc[a] \in Started /\ chan[a] = "open" => a \in pending \/ held[a] # "none"

(* A task has taken a out of the side map and is about to answer it. *)
InHand(a) == held[a] # "none" \/ \E v \in Verdicts : <<v, a>> \in cut

(* Until shutdown, an id that anybody has touched is out of the side map    *)
(* for good, and so is that of an ask that is over.                         *)
SideMapFollows ==
  sd = "no" => \A a \in Asks :
    /\ pc[a] \in {"idle", "registered"} => chan[a] = "open" /\ ~InHand(a)
    /\ chan[a] # "open" \/ InHand(a) => a \notin targets
    /\ pc[a] \in {"left", "done"} => a \notin targets

(* With or without shutdown, an unanswered ask that is past registration is *)
(* in the side map or in somebody's hand.                                   *)
NobodyMissed ==
  \A a \in Asks :
    pc[a] \in Started \ {"registered"} /\ chan[a] = "open" => a \in targets \/ InHand(a)

(* The shutdown answers nobody before it has collected the ids. *)
ShutdownFollows ==
  sd \in {"no", "collect"} =>
    \A a \in Asks : <<"mesh_shutdown", a>> \notin cut /\ held[a] # "mesh_shutdown"

(* A dialer that is still trying has attempts left; the ids it collected    *)
(* are its node's; it stays in its failing phase until the last verdict is  *)
(* sent; and from its look at the peer until then there is no connection,   *)
(* unless the node dials us.                                                *)
DialerIsCurrent ==
  /\ \A n \in Nodes :
       /\ dial[n] # "stopped" => attempt[n] <= MaxAttempts
       /\ \A a \in failing[n] : Target[a] = n
       /\ dial[n] \in {"collect", "fail"} /\ n \notin Inbound => ~Connected(n)
  /\ \A a \in Asks :
       <<"peer_disconnected", a>> \in cut \/ held[a] = "peer_disconnected"
         => dial[Target[a]] = "fail"

IInv == /\ TypeOK /\ UnsentIsUnknown /\ PendingIsOpen /\ SideMapFollows
        /\ NobodyMissed /\ ShutdownFollows /\ DialerIsCurrent

USE DEF askVars, tableVars, linkVars, dialVars, sdVars

-----------------------------------------------------------------------------
(* Type correctness. *)

(* An ask that ends, ends with a verdict or an error of its own. *)
LEMMA ReturnTypes ==
  ASSUME TypeOK, NEW a \in Asks, NEW p \in AskPcs,
         NEW o \in Verdicts \cup {"route_error", "deadline"}, Return(a, o, p)
  PROVE  /\ pc' \in [Asks -> AskPcs]
         /\ out' \in [Asks -> Verdicts \cup {"none", "route_error", "deadline"}]
         /\ via' \in [Asks -> Nat]
  BY DEF TypeOK, Return

(* A new connection is one more generation, within the bound. *)
LEMMA InstallTypes ==
  ASSUME TypeOK, NEW n \in Nodes, InstallPeer(n)
  PROVE  /\ gen' \in [Nodes -> Nat] /\ \A k \in Nodes : gen'[k] <= MaxConns[k]
         /\ link' \in [Nodes -> {"none", "up", "half", "down"}]
         /\ req' \in [Nodes -> SUBSET Asks] /\ rep' \in [Nodes -> SUBSET Asks]
  BY DEF TypeOK, InstallPeer

(* Every step keeps the shape of the state; that a dialer that has not      *)
(* stopped has attempts left bounds its counter.                            *)
LEMMA NextTypeOK == TypeOK /\ DialerIsCurrent /\ [Next]_vars => TypeOK'
<1> SUFFICES ASSUME TypeOK, DialerIsCurrent, [Next]_vars PROVE TypeOK'
  OBVIOUS
<1>1. ASSUME NEW a \in Asks, Register(a) PROVE TypeOK'
  BY <1>1 DEF Register, TypeOK, AskPcs
<1>2. ASSUME NEW a \in Asks, RegisterTarget(a) PROVE TypeOK'
  BY <1>2 DEF RegisterTarget, TypeOK, AskPcs
<1>3. ASSUME NEW a \in Asks, PickPeer(a) PROVE TypeOK'
  <2>1. CASE Connected(Target[a])
    <3>1. /\ pc' = [pc EXCEPT ![a] = "routing"] /\ via' = [via EXCEPT ![a] = gen[Target[a]]]
          /\ UNCHANGED <<out, tableVars, linkVars, dialVars, sdVars>>
      BY <1>3, <2>1 DEF PickPeer
    <3> QED BY <3>1, TargetAssumption DEF TypeOK, AskPcs
  <2>2. CASE ~Connected(Target[a])
    BY <1>3, <2>2, ReturnTypes DEF PickPeer, TypeOK, AskPcs
  <2> QED BY <2>1, <2>2
<1>4. ASSUME NEW a \in Asks, HandOff(a) PROVE TypeOK'
  <2>1. req' \in [Nodes -> SUBSET Asks]
    BY <1>4 DEF HandOff, TypeOK
  <2>2. pc' = [pc EXCEPT ![a] = "waiting"] /\ via' = [via EXCEPT ![a] = 0]
    BY <1>4 DEF HandOff
  <2>3. UNCHANGED <<out, tableVars, link, gen, rep, raw, demux, dialVars, sdVars>>
    BY <1>4 DEF HandOff
  <2> QED BY <2>1, <2>2, <2>3 DEF TypeOK, AskPcs
<1>5. ASSUME NEW a \in Asks, Resolve(a) PROVE TypeOK'
  <2>1. chan[a] \in Verdicts
    BY <1>5 DEF Resolve, TypeOK
  <2> QED BY <1>5, <2>1, ReturnTypes DEF Resolve, TypeOK, AskPcs
<1>6. ASSUME NEW a \in Asks, Timeout(a) \/ HandOffRefused(a) PROVE TypeOK'
  BY <1>6, ReturnTypes DEF Timeout, HandOffRefused, TypeOK, AskPcs
<1>7. ASSUME NEW n \in Nodes, NEW a \in Asks, Answer(n, a) PROVE TypeOK'
  BY <1>7 DEF Answer, TypeOK
<1>8. ASSUME NEW n \in Nodes, NEW a \in Asks, ReadReply(n, a) PROVE TypeOK'
  BY <1>8 DEF ReadReply, TypeOK
<1>9. ASSUME NEW a \in Asks, Demux(a) PROVE TypeOK'
  BY <1>9 DEF Demux, CutTarget, TypeOK, Verdicts
<1>10. ASSUME NEW n \in Nodes, ReaderEnds(n) PROVE TypeOK'
  BY <1>10 DEF ReaderEnds, TypeOK
<1>11. ASSUME NEW n \in Nodes, WriterEnds(n) PROVE TypeOK'
  BY <1>11 DEF WriterEnds, TypeOK
<1>12. ASSUME NEW n \in Nodes, Accept(n) PROVE TypeOK'
  BY <1>12, InstallTypes DEF Accept, TypeOK
<1>13. ASSUME NEW n \in Nodes, DialPoll(n) PROVE TypeOK'
  <2>1. attempt[n] + 1 \in 0 .. MaxAttempts + 1
    BY SMTT(30), <1>13 DEF DialPoll, TypeOK, DialerIsCurrent
  <2>2. UNCHANGED <<askVars, tableVars, linkVars, failing, sdVars>>
    BY <1>13 DEF DialPoll
  <2>3. /\ was' \in [Nodes -> BOOLEAN] /\ attempt' \in [Nodes -> 0 .. MaxAttempts + 1]
        /\ dial' \in [Nodes -> {"poll", "collect", "fail", "connect", "stopped"}]
    <3>1. CASE Connected(n)
      BY <1>13, <3>1 DEF DialPoll, TypeOK
    <3>2. CASE ~Connected(n) /\ was[n]
      BY <1>13, <3>2 DEF DialPoll, TypeOK
    <3>3. CASE ~Connected(n) /\ ~was[n]
      BY SMTT(30), <1>13, <2>1, <3>3 DEF DialPoll, TypeOK
    <3> QED BY <3>1, <3>2, <3>3
  <2> QED BY <2>2, <2>3 DEF TypeOK
<1>14. ASSUME NEW n \in Nodes, DialCollect(n) PROVE TypeOK'
  BY <1>14 DEF DialCollect, TypeOK
<1>15. ASSUME NEW n \in Nodes, NEW a \in Asks, DialFail(n, a) PROVE TypeOK'
  BY <1>15 DEF DialFail, CutTarget, TypeOK, Verdicts
<1>16. ASSUME NEW n \in Nodes, DialFailed(n) PROVE TypeOK'
  <2>1. attempt[n] + 1 \in 0 .. MaxAttempts + 1
    BY <1>16 DEF DialFailed, TypeOK, DialerIsCurrent
  <2> QED BY <1>16, <2>1 DEF DialFailed, TypeOK
<1>17. ASSUME NEW n \in Nodes, DialSucceeds(n) PROVE TypeOK'
  BY <1>17, InstallTypes DEF DialSucceeds, TypeOK
<1>18. ASSUME NEW n \in Nodes, DialErrs(n) PROVE TypeOK'
  BY <1>18 DEF DialErrs, TypeOK
<1>19. CASE ShutdownStart
  BY <1>19 DEF ShutdownStart, TypeOK
<1>20. CASE ShutdownCollect
  BY <1>20 DEF ShutdownCollect, TypeOK
<1>21. ASSUME NEW a \in Asks, ShutdownFail(a) PROVE TypeOK'
  BY <1>21 DEF ShutdownFail, CutTarget, TypeOK, Verdicts
<1>22. ASSUME NEW n \in Nodes, ShutdownPeer(n) PROVE TypeOK'
  BY <1>22 DEF ShutdownPeer, TypeOK
<1>23. CASE ShutdownDone
  BY <1>23 DEF ShutdownDone, TypeOK
<1>24. CASE UNCHANGED vars
  BY <1>24 DEF vars, TypeOK
<1>25. ASSUME NEW a \in Asks, CleanTarget(a) \/ CleanPending(a) PROVE TypeOK'
  <2>1. CASE CleanTarget(a)
    BY <2>1 DEF CleanTarget, TypeOK, AskPcs
  <2>2. CASE CleanPending(a)
    BY <2>2 DEF CleanPending, TypeOK, AskPcs
  <2> QED BY <1>25, <2>1, <2>2
<1>26. ASSUME NEW a \in Asks, SendVerdict(a) PROVE TypeOK'
  <2>1. held[a] \in Verdicts
    BY <1>26 DEF SendVerdict, TypeOK
  <2> QED BY <1>26, <2>1 DEF SendVerdict, TypeOK
<1>27. ASSUME NEW a \in Asks, NEW v \in Verdicts, TakeSender(v, a) PROVE TypeOK'
  BY <1>27 DEF TakeSender, TypeOK
<1>28. CASE DemuxOther \/ Forward
  BY <1>28 DEF DemuxOther, Forward, TypeOK
<1> QED
  BY <1>1, <1>2, <1>3, <1>4, <1>5, <1>6, <1>7, <1>8, <1>9, <1>10, <1>11, <1>12,
     <1>13, <1>14, <1>15, <1>16, <1>17, <1>18, <1>19, <1>20, <1>21, <1>22, <1>23,
     <1>24, <1>25, <1>26, <1>27, <1>28 DEF Next, Ask, Table, Remote, Dialer

-----------------------------------------------------------------------------
(* The inductive invariant, one conjunct at a time: first the steps that    *)
(* touch its variables, then all the others together.                       *)

(* The steps that leave asks and table alone. *)
Elsewhere ==
  \/ \E n \in Nodes : \/ Remote(n) \/ ReaderEnds(n) \/ WriterEnds(n) \/ Accept(n)
                      \/ DialPoll(n) \/ DialCollect(n) \/ DialFailed(n)
                      \/ DialSucceeds(n) \/ DialErrs(n) \/ ShutdownPeer(n)
  \/ DemuxOther \/ Forward
  \/ ShutdownStart \/ ShutdownCollect \/ ShutdownDone \/ UNCHANGED vars

(* They do. *)
LEMMA ElsewhereFrame ==
  ASSUME Elsewhere PROVE UNCHANGED <<pc, tableVars>>
<1>1. ASSUME NEW n \in Nodes,
             \/ Remote(n) \/ ReaderEnds(n) \/ WriterEnds(n) \/ Accept(n)
             \/ DialPoll(n) \/ DialCollect(n) \/ DialFailed(n)
             \/ DialSucceeds(n) \/ DialErrs(n) \/ ShutdownPeer(n)
      PROVE  UNCHANGED <<pc, tableVars>>
  BY <1>1 DEF Remote, Answer, ReadReply, ReaderEnds, WriterEnds, Accept, DialPoll,
     DialCollect, DialFailed, DialSucceeds, DialErrs, ShutdownPeer
<1>2. ASSUME \/ DemuxOther \/ Forward \/ ShutdownStart \/ ShutdownCollect
             \/ ShutdownDone \/ UNCHANGED vars
      PROVE  UNCHANGED <<pc, tableVars>>
  BY <1>2 DEF DemuxOther, Forward, ShutdownStart, ShutdownCollect, ShutdownDone, vars
<1> QED BY <1>1, <1>2 DEF Elsewhere

(* The three tasks that take an id out of the side map, and for what. *)
LEMMA CutCases ==
  ASSUME NEW a \in Asks,
         Demux(a) \/ ShutdownFail(a) \/ \E n \in Nodes : DialFail(n, a)
  PROVE  /\ \E v \in Verdicts : CutTarget(v, a)
         /\ UNCHANGED <<askVars, sd>>
  BY DEF Demux, ShutdownFail, DialFail, Verdicts

(* Every step is one of these. *)
LEMMA StepCases ==
  ASSUME [Next]_vars
  PROVE  \/ \E a \in Asks : Ask(a) \/ Table(a)
         \/ \E a \in Asks : Demux(a) \/ ShutdownFail(a) \/ \E n \in Nodes : DialFail(n, a)
         \/ Elsewhere
  BY DEF Next, Dialer, Elsewhere

(* What the steps of an ask do to its place and to the table. *)
LEMMA AskCases ==
  ASSUME TypeOK, NEW a \in Asks, Ask(a)
  PROVE  /\ \A b \in Asks \ {a} : pc'[b] = pc[b]
         /\ UNCHANGED <<chan, cut, held, sd, raw, rep, failing, dial>>
         /\ \/ /\ pc[a] = "idle" /\ pc'[a] = "registered"
               /\ pending' = pending \cup {a} /\ targets' = targets /\ req' = req
            \/ /\ pc[a] = "registered" /\ pc'[a] = "targeted"
               /\ targets' = targets \cup {a} /\ pending' = pending /\ req' = req
            \/ /\ pc[a] \in {"targeted", "routing"} /\ pc'[a] \in {"routing", "waiting"}
               /\ UNCHANGED <<pending, targets>>
               /\ \A n \in Nodes : req'[n] \subseteq req[n] \cup {a}
            \/ /\ pc[a] \in {"targeted", "routing", "waiting"} /\ pc'[a] = "leaving"
               /\ UNCHANGED <<pending, targets, req>>
            \/ /\ pc[a] = "waiting" /\ chan[a] # "open" /\ pc'[a] = "done"
               /\ UNCHANGED <<pending, targets, req>>
            \/ /\ pc[a] = "leaving" /\ pc'[a] = "left"
               /\ targets' = targets \ {a} /\ pending' = pending /\ req' = req
            \/ /\ pc[a] = "left" /\ pc'[a] = "done"
               /\ pending' = pending \ {a} /\ targets' = targets /\ req' = req
<1>1. CASE Register(a)
  BY <1>1 DEF Register, TypeOK
<1>2. CASE RegisterTarget(a)
  BY <1>2 DEF RegisterTarget, TypeOK
<1>3. CASE PickPeer(a)
  BY <1>3 DEF PickPeer, Return, TypeOK
<1>4. CASE HandOff(a)
  BY <1>4 DEF HandOff, TypeOK
<1>5. CASE HandOffRefused(a)
  BY <1>5 DEF HandOffRefused, Return, TypeOK
<1>6. CASE Resolve(a)
  BY <1>6 DEF Resolve, Return, TypeOK
<1>7. CASE Timeout(a)
  BY <1>7 DEF Timeout, Return, TypeOK
<1>8. CASE CleanTarget(a)
  BY <1>8 DEF CleanTarget, TypeOK
<1>9. CASE CleanPending(a)
  BY <1>9 DEF CleanPending, TypeOK
<1> QED BY <1>1, <1>2, <1>3, <1>4, <1>5, <1>6, <1>7, <1>8, <1>9 DEF Ask

(* An id becomes known only by RegisterTarget. *)
LEMMA NextUnsent == TypeOK /\ UnsentIsUnknown /\ [Next]_vars => UnsentIsUnknown'
<1> SUFFICES ASSUME TypeOK, UnsentIsUnknown, [Next]_vars PROVE UnsentIsUnknown'
  OBVIOUS
<1>1. ASSUME NEW a \in Asks, Ask(a) PROVE UnsentIsUnknown'
  BY <1>1, AskCases DEF UnsentIsUnknown
<1>2. ASSUME NEW a \in Asks, SendVerdict(a) PROVE UnsentIsUnknown'
  BY <1>2 DEF SendVerdict, UnsentIsUnknown, TypeOK
<1>3. ASSUME NEW a \in Asks, NEW v \in Verdicts, TakeSender(v, a) PROVE UnsentIsUnknown'
  BY <1>3 DEF TakeSender, UnsentIsUnknown, TypeOK
<1>4. ASSUME NEW a \in Asks, Demux(a) PROVE UnsentIsUnknown'
  BY <1>4 DEF Demux, CutTarget, UnsentIsUnknown
<1>5. ASSUME NEW a \in Asks, ShutdownFail(a) PROVE UnsentIsUnknown'
  BY <1>5 DEF ShutdownFail, CutTarget, UnsentIsUnknown
<1>6. ASSUME NEW n \in Nodes, NEW a \in Asks, DialFail(n, a) PROVE UnsentIsUnknown'
  BY <1>6 DEF DialFail, CutTarget, UnsentIsUnknown, TypeOK
<1>7. CASE Elsewhere
  <2>0. UNCHANGED <<pc, tableVars>>
    BY <1>7, ElsewhereFrame
  <2>1. ASSUME NEW n \in Nodes, NEW a \in Asks, Answer(n, a) PROVE UnsentIsUnknown'
    BY <2>1 DEF Answer, UnsentIsUnknown, TypeOK
  <2>2. ASSUME NEW n \in Nodes, NEW a \in Asks, ReadReply(n, a) PROVE UnsentIsUnknown'
    BY <2>2 DEF ReadReply, UnsentIsUnknown, TypeOK
  <2>3. ASSUME NEW n \in Nodes,
               \/ ReaderEnds(n) \/ WriterEnds(n) \/ Accept(n)
               \/ DialSucceeds(n) \/ ShutdownPeer(n)
        PROVE  UnsentIsUnknown'
    <3>1. /\ UNCHANGED <<raw, failing>>
          /\ \A k \in Nodes : req'[k] \subseteq req[k] /\ rep'[k] \subseteq rep[k]
      <4>1. \/ ReaderEnds(n) \/ WriterEnds(n) \/ ShutdownPeer(n)
            \/ Accept(n) \/ DialSucceeds(n)
        BY <2>3
      <4>2. /\ req' = [req EXCEPT ![n] = {}] /\ rep' = [rep EXCEPT ![n] = {}]
            /\ UNCHANGED <<raw, failing>>
        BY <4>1 DEF ReaderEnds, WriterEnds, Accept, DialSucceeds, ShutdownPeer, InstallPeer
      <4> QED BY <4>2 DEF TypeOK
    <3> QED BY <2>0, <3>1 DEF UnsentIsUnknown
  <2>4. ASSUME NEW n \in Nodes, DialCollect(n) PROVE UnsentIsUnknown'
    BY <2>4 DEF DialCollect, UnsentIsUnknown, TypeOK
  <2>5. ASSUME UNCHANGED <<raw, req, rep, failing>> PROVE UnsentIsUnknown'
    BY <2>0, <2>5 DEF UnsentIsUnknown
  <2>6. ASSUME NEW n \in Nodes, DialPoll(n) \/ DialFailed(n) \/ DialErrs(n)
        PROVE  UNCHANGED <<raw, req, rep, failing>>
    BY <2>6 DEF DialPoll, DialFailed, DialErrs
  <2>7. ASSUME \/ DemuxOther \/ Forward \/ ShutdownStart \/ ShutdownCollect
               \/ ShutdownDone \/ UNCHANGED vars
        PROVE  UNCHANGED <<raw, req, rep, failing>>
    BY <2>7 DEF DemuxOther, Forward, ShutdownStart, ShutdownCollect, ShutdownDone, vars
  <2> QED BY <1>7, <2>1, <2>2, <2>3, <2>4, <2>5, <2>6, <2>7 DEF Elsewhere, Remote
<1> QED BY <1>1, <1>2, <1>3, <1>4, <1>5, <1>6, <1>7, StepCases DEF Table

(* Who removes a sender from the table holds it until it has sent. *)
LEMMA NextPending == TypeOK /\ PendingIsOpen /\ [Next]_vars => PendingIsOpen'
<1> SUFFICES ASSUME TypeOK, PendingIsOpen, [Next]_vars PROVE PendingIsOpen'
  OBVIOUS
<1>1. ASSUME NEW a \in Asks, Ask(a) PROVE PendingIsOpen'
  BY <1>1, AskCases DEF PendingIsOpen, Started
<1>2. ASSUME NEW a \in Asks, SendVerdict(a) PROVE PendingIsOpen'
  <2>1. held[a] \in Verdicts /\ chan[a] = "open" /\ a \notin pending
    BY <1>2 DEF SendVerdict, PendingIsOpen, TypeOK
  <2>2. chan'[a] # "open"
    BY <1>2, <2>1 DEF SendVerdict, Verdicts, TypeOK
  <2> QED BY <1>2, <2>1, <2>2 DEF SendVerdict, PendingIsOpen, TypeOK, Started
<1>3. ASSUME NEW a \in Asks, NEW v \in Verdicts, TakeSender(v, a) PROVE PendingIsOpen'
  <2>1. v # "none" /\ UNCHANGED <<pc, chan>> /\ pending' = pending \ {a}
    BY <1>3 DEF TakeSender, Verdicts
  <2>2. /\ \A b \in Asks \ {a} : held'[b] = held[b]
        /\ held'[a] = IF a \in pending THEN v ELSE held[a]
    BY <1>3 DEF TakeSender, TypeOK
  <2> QED BY <2>1, <2>2 DEF PendingIsOpen, Started
<1>4. ASSUME NEW a \in Asks, Demux(a) \/ ShutdownFail(a) \/ \E n \in Nodes : DialFail(n, a)
      PROVE  PendingIsOpen'
  BY <1>4, CutCases DEF CutTarget, PendingIsOpen
<1>5. CASE Elsewhere
  BY <1>5, ElsewhereFrame DEF PendingIsOpen
<1> QED BY <1>1, <1>2, <1>3, <1>4, <1>5, StepCases DEF Table

(* Only the shutdown hands out its verdict. *)
LEMMA NextShutdown == TypeOK /\ ShutdownFollows /\ [Next]_vars => ShutdownFollows'
<1> SUFFICES ASSUME TypeOK, ShutdownFollows, [Next]_vars PROVE ShutdownFollows'
  OBVIOUS
<1>1. ASSUME NEW a \in Asks, Ask(a) PROVE ShutdownFollows'
  BY <1>1, AskCases DEF ShutdownFollows
<1>2. ASSUME NEW a \in Asks, SendVerdict(a) PROVE ShutdownFollows'
  BY <1>2 DEF SendVerdict, ShutdownFollows, TypeOK
<1>3. ASSUME NEW a \in Asks, NEW v \in Verdicts, TakeSender(v, a) PROVE ShutdownFollows'
  BY <1>3 DEF TakeSender, ShutdownFollows, TypeOK
<1>4. ASSUME NEW a \in Asks, Demux(a) PROVE ShutdownFollows'
  BY <1>4 DEF Demux, CutTarget, ShutdownFollows
<1>5. ASSUME NEW a \in Asks, ShutdownFail(a) PROVE ShutdownFollows'
  BY <1>5 DEF ShutdownFail, ShutdownFollows
<1>6. ASSUME NEW n \in Nodes, NEW a \in Asks, DialFail(n, a) PROVE ShutdownFollows'
  BY <1>6 DEF DialFail, CutTarget, ShutdownFollows
<1>7. CASE Elsewhere
  <2>1. ASSUME NEW n \in Nodes,
               \/ Remote(n) \/ ReaderEnds(n) \/ WriterEnds(n) \/ Accept(n)
               \/ DialPoll(n) \/ DialCollect(n) \/ DialFailed(n)
               \/ DialSucceeds(n) \/ DialErrs(n) \/ ShutdownPeer(n)
        PROVE  sd' = sd
    BY <2>1 DEF Remote, Answer, ReadReply, ReaderEnds, WriterEnds, Accept, DialPoll,
       DialCollect, DialFailed, DialSucceeds, DialErrs, ShutdownPeer
  <2>2. sd' \in {"no", "collect"} => sd \in {"no", "collect"}
    BY <1>7, <2>1 DEF Elsewhere, DemuxOther, Forward, ShutdownStart, ShutdownCollect,
       ShutdownDone, vars
  <2> QED BY <1>7, <2>2, ElsewhereFrame DEF ShutdownFollows
<1> QED BY <1>1, <1>2, <1>3, <1>4, <1>5, <1>6, <1>7, StepCases DEF Table

(* A shutdown is never undone. *)
LEMMA ShutdownStays == ASSUME [Next]_vars, TypeOK, sd' = "no" PROVE sd = "no"
<1>1. ASSUME NEW a \in Asks, Ask(a) PROVE sd' = sd
  BY <1>1, AskCases
<1>2. ASSUME NEW a \in Asks, Table(a) \/ Demux(a) \/ ShutdownFail(a) PROVE sd' = sd
  BY <1>2 DEF Table, SendVerdict, TakeSender, Demux, ShutdownFail
<1>3. ASSUME NEW n \in Nodes,
             \/ Remote(n) \/ ReaderEnds(n) \/ WriterEnds(n)
             \/ Accept(n) \/ Dialer(n) \/ ShutdownPeer(n)
      PROVE  sd' = sd
  BY <1>3 DEF Remote, Answer, ReadReply, ReaderEnds, WriterEnds, Accept, Dialer,
     DialPoll, DialCollect, DialFail, DialFailed, DialSucceeds, DialErrs, ShutdownPeer
<1>4. CASE DemuxOther \/ Forward \/ UNCHANGED vars
  BY <1>4 DEF DemuxOther, Forward, vars
<1>5. ASSUME ShutdownStart \/ ShutdownCollect \/ ShutdownDone PROVE FALSE
  BY <1>5 DEF ShutdownStart, ShutdownCollect, ShutdownDone
<1> QED BY <1>1, <1>2, <1>3, <1>4, <1>5 DEF Next

(* Until shutdown nobody touches an id before it is in the side map, and    *)
(* who does takes it out of there first.                                    *)
LEMMA NextSideMap ==
  TypeOK /\ UnsentIsUnknown /\ SideMapFollows /\ [Next]_vars => SideMapFollows'
<1> SUFFICES ASSUME TypeOK, UnsentIsUnknown, SideMapFollows, [Next]_vars, sd' = "no"
             PROVE  SideMapFollows'
  BY DEF SideMapFollows
<1>0. sd = "no"
  BY ShutdownStays
<1>1. ASSUME NEW a \in Asks, Ask(a) PROVE SideMapFollows'
  <2>1. \A b \in Asks : InHand(b)' = InHand(b)
    BY <1>1, AskCases DEF InHand
  <2> QED BY <1>0, <1>1, <2>1, AskCases DEF SideMapFollows
<1>2. ASSUME NEW a \in Asks, SendVerdict(a) PROVE SideMapFollows'
  <2>1. InHand(a) /\ UNCHANGED <<pc, targets>>
        /\ \A b \in Asks \ {a} : chan'[b] = chan[b] /\ InHand(b)' = InHand(b)
    BY <1>2 DEF SendVerdict, InHand, TypeOK
  <2> QED BY <1>0, <2>1 DEF SideMapFollows
<1>3. ASSUME NEW a \in Asks, NEW v \in Verdicts, TakeSender(v, a) PROVE SideMapFollows'
  <2>1. UNCHANGED <<pc, chan, targets>> /\ \A b \in Asks : InHand(b)' => InHand(b)
    BY <1>3 DEF TakeSender, InHand, TypeOK
  <2> QED BY <1>0, <2>1 DEF SideMapFollows
<1>4. ASSUME NEW a \in Asks, Demux(a) \/ ShutdownFail(a) \/ \E n \in Nodes : DialFail(n, a)
      PROVE  SideMapFollows'
  <2>1. pc[a] \notin {"idle", "registered"}
    BY <1>0, <1>4 DEF Demux, ShutdownFail, DialFail, UnsentIsUnknown
  <2>2. /\ UNCHANGED <<pc, chan>> /\ targets' = targets \ {a}
        /\ \A b \in Asks \ {a} : InHand(b)' = InHand(b)
    BY SMTT(30), <1>4, CutCases DEF CutTarget, InHand
  <2> QED BY <1>0, <2>1, <2>2 DEF SideMapFollows
<1>5. CASE Elsewhere
  BY <1>0, <1>5, ElsewhereFrame DEF SideMapFollows, InHand
<1> QED BY <1>1, <1>2, <1>3, <1>4, <1>5, StepCases DEF Table

(* Who takes an id out of the side map has it in hand until it is answered, *)
(* by that task or by the one that was quicker to take the sender.          *)
LEMMA NextNobodyMissed ==
  TypeOK /\ PendingIsOpen /\ NobodyMissed /\ [Next]_vars => NobodyMissed'
<1> SUFFICES ASSUME TypeOK, PendingIsOpen, NobodyMissed, [Next]_vars
             PROVE  NobodyMissed'
  OBVIOUS
<1>1. ASSUME NEW a \in Asks, Ask(a) PROVE NobodyMissed'
  <2>1. \A b \in Asks : InHand(b)' = InHand(b)
    BY <1>1, AskCases DEF InHand
  <2> QED BY <1>1, <2>1, AskCases DEF NobodyMissed, Started
<1>2. ASSUME NEW a \in Asks, SendVerdict(a) PROVE NobodyMissed'
  <2>1. chan'[a] # "open" /\ UNCHANGED <<pc, targets>>
        /\ \A b \in Asks \ {a} : chan'[b] = chan[b] /\ InHand(b)' = InHand(b)
    BY <1>2 DEF SendVerdict, InHand, TypeOK, Verdicts
  <2> QED BY <2>1 DEF NobodyMissed
<1>3. ASSUME NEW a \in Asks, NEW v \in Verdicts, TakeSender(v, a) PROVE NobodyMissed'
  <2>1. UNCHANGED <<pc, chan, targets>> /\ \A b \in Asks \ {a} : InHand(b)' = InHand(b)
    BY <1>3 DEF TakeSender, InHand, TypeOK
  <2>2. pc[a] \in Started /\ chan[a] = "open" => held'[a] # "none"
    <3>1. a \in pending => held'[a] = v
      BY <1>3 DEF TakeSender, TypeOK
    <3>2. a \notin pending => held'[a] = held[a]
      BY <1>3 DEF TakeSender
    <3> QED BY <3>1, <3>2 DEF PendingIsOpen, Verdicts
  <2> QED BY <2>1, <2>2 DEF NobodyMissed, InHand
<1>4. ASSUME NEW a \in Asks, Demux(a) \/ ShutdownFail(a) \/ \E n \in Nodes : DialFail(n, a)
      PROVE  NobodyMissed'
  <2>1. /\ UNCHANGED <<pc, chan>> /\ targets' = targets \ {a} /\ InHand(a)'
        /\ \A b \in Asks \ {a} : InHand(b)' = InHand(b)
    BY <1>4, CutCases DEF CutTarget, InHand
  <2> QED BY <2>1 DEF NobodyMissed
<1>5. CASE Elsewhere
  BY <1>5, ElsewhereFrame DEF NobodyMissed, InHand
<1> QED BY <1>1, <1>2, <1>3, <1>4, <1>5, StepCases DEF Table

(* Only the node's own dialer, or the node dialling us, installs a peer. *)
LEMMA NextDialer == TypeOK /\ DialerIsCurrent /\ [Next]_vars => DialerIsCurrent'
<1> SUFFICES ASSUME TypeOK, DialerIsCurrent, [Next]_vars PROVE DialerIsCurrent'
  OBVIOUS
<1> DEFINE Mine(a) == <<"peer_disconnected", a>> \in cut \/ held[a] = "peer_disconnected"
<1>a. \A a \in Asks : Mine(a) => dial[Target[a]] = "fail"
  BY DEF DialerIsCurrent
<1>b. ASSUME \A a \in Asks : Mine(a)' => dial'[Target[a]] = "fail",
             \A n \in Nodes :
               /\ dial'[n] # "stopped" => attempt'[n] <= MaxAttempts
               /\ \A a \in failing'[n] : Target[a] = n
               /\ dial'[n] \in {"collect", "fail"} /\ n \notin Inbound => ~Connected(n)'
      PROVE  DialerIsCurrent'
  BY <1>b DEF DialerIsCurrent
<1>1. ASSUME NEW n \in Nodes, ReaderEnds(n) \/ WriterEnds(n) \/ ShutdownPeer(n) \/ Accept(n)
      PROVE  DialerIsCurrent'
  <2>1. /\ UNCHANGED <<dialVars, tableVars>>
        /\ \A k \in Nodes \ Inbound : Connected(k)' => Connected(k)
    BY <1>1 DEF ReaderEnds, WriterEnds, ShutdownPeer, Accept, InstallPeer, Connected, TypeOK
  <2> QED BY <2>1 DEF DialerIsCurrent
<1>3. ASSUME NEW n \in Nodes, DialPoll(n) PROVE DialerIsCurrent'
  <2>0. attempt[n] \in Nat /\ UNCHANGED <<link, failing, tableVars>>
    BY <1>3 DEF DialPoll, TypeOK
  <2>1. \A k \in Nodes : dial'[k] # "stopped" => attempt'[k] <= MaxAttempts
    BY <1>3 DEF DialPoll, DialerIsCurrent, TypeOK
  <2>2. \A k \in Nodes : dial'[k] \in {"collect", "fail"}
          => dial[k] = dial'[k] \/ ~Connected(k)
    BY <1>3 DEF DialPoll, TypeOK
  <2>3. \A k \in Nodes : dial[k] = "fail" => dial'[k] = "fail"
    BY <1>3 DEF DialPoll, TypeOK
  <2> QED BY <2>0, <2>1, <2>2, <2>3 DEF DialerIsCurrent, Connected
<1>4. ASSUME NEW n \in Nodes, DialCollect(n) PROVE DialerIsCurrent'
  <2>1. \A k \in Nodes : \A a \in failing'[k] : Target[a] = k
    BY <1>4 DEF DialCollect, DialerIsCurrent, TypeOK
  <2>2. \A k \in Nodes : /\ dial'[k] \in {"collect", "fail"} => dial[k] \in {"collect", "fail"}
                         /\ dial'[k] # "stopped" => dial[k] # "stopped"
                         /\ dial[k] = "fail" => dial'[k] = "fail"
    BY <1>4 DEF DialCollect, TypeOK
  <2>3. UNCHANGED <<link, attempt, tableVars>>
    BY <1>4 DEF DialCollect
  <2> QED BY <2>1, <2>2, <2>3 DEF DialerIsCurrent, Connected
<1>5. ASSUME NEW n \in Nodes, NEW b \in Asks, DialFail(n, b) PROVE DialerIsCurrent'
  <2>1. \A k \in Nodes : failing'[k] \subseteq failing[k]
    BY <1>5 DEF DialFail, TypeOK
  <2>2. UNCHANGED <<link, dial, attempt>> /\ dial[n] = "fail" /\ Target[b] = n
    BY <1>5 DEF DialFail, DialerIsCurrent
  <2>3. \A a \in Asks : Mine(a)' => Mine(a) \/ a = b
    BY <1>5 DEF DialFail, CutTarget
  <2> QED BY <1>a, <2>1, <2>2, <2>3 DEF DialerIsCurrent, Connected
<1>6. ASSUME NEW n \in Nodes, DialFailed(n) PROVE DialerIsCurrent'
  <2>1. \A k \in Nodes : dial'[k] # "stopped" => attempt'[k] <= MaxAttempts
    BY <1>6 DEF DialFailed, DialerIsCurrent, TypeOK
  <2>2. \A k \in Nodes : /\ dial'[k] \in {"collect", "fail"} => dial[k] = dial'[k]
                         /\ k # n => dial'[k] = dial[k]
    BY <1>6 DEF DialFailed, TypeOK
  <2>3. UNCHANGED <<link, failing, tableVars>>
    BY <1>6 DEF DialFailed
  <2>4. \A a \in Asks : Mine(a) => Target[a] # n
    BY <1>6 DEF DialFailed, Busy
  <2>5. \A a \in Asks : Mine(a)' => dial'[Target[a]] = "fail"
    BY <1>a, <2>2, <2>3, <2>4
  <2> QED BY <1>b, <2>1, <2>2, <2>3, <2>5 DEF DialerIsCurrent, Connected
<1>7. ASSUME NEW n \in Nodes, DialSucceeds(n) PROVE DialerIsCurrent'
  <2>1. \A k \in Nodes : dial'[k] # "stopped" => attempt'[k] <= MaxAttempts
    BY <1>7 DEF DialSucceeds, DialerIsCurrent, TypeOK
  <2>2. \A k \in Nodes : /\ dial'[k] \in {"collect", "fail"}
                              => dial[k] = dial'[k] /\ link'[k] = link[k]
                         /\ dial[k] = "fail" => dial'[k] = "fail"
    BY <1>7 DEF DialSucceeds, InstallPeer, TypeOK
  <2>3. UNCHANGED <<failing, tableVars>>
    BY <1>7 DEF DialSucceeds
  <2> QED BY <2>1, <2>2, <2>3 DEF DialerIsCurrent, Connected
<1>8. ASSUME NEW n \in Nodes, DialErrs(n) PROVE DialerIsCurrent'
  <2>1. \A k \in Nodes : /\ dial'[k] # "stopped" => dial[k] # "stopped"
                         /\ dial'[k] \in {"collect", "fail"} => dial[k] = dial'[k]
                         /\ dial[k] = "fail" => dial'[k] = "fail"
    BY <1>8 DEF DialErrs, TypeOK
  <2>2. UNCHANGED <<link, attempt, failing, tableVars>>
    BY <1>8 DEF DialErrs
  <2> QED BY <2>1, <2>2 DEF DialerIsCurrent, Connected
<1>9. ASSUME UNCHANGED <<link, dialVars>>, \A a \in Asks : Mine(a)' => Mine(a)
      PROVE  DialerIsCurrent'
  BY <1>9 DEF DialerIsCurrent, Connected
<1>10. ASSUME NEW b \in Asks, Ask(b)
       PROVE  UNCHANGED <<link, dialVars>> /\ \A a \in Asks : Mine(a)' => Mine(a)
  <2>1. UNCHANGED <<link, dialVars, cut, held>>
    BY <1>10 DEF Ask, Register, RegisterTarget, PickPeer, HandOff, HandOffRefused,
       Resolve, Timeout, CleanTarget, CleanPending
  <2> QED BY <2>1
<1>11. ASSUME NEW b \in Asks, Demux(b) \/ ShutdownFail(b)
       PROVE  UNCHANGED <<link, dialVars>> /\ \A a \in Asks : Mine(a)' => Mine(a)
  BY <1>11 DEF Demux, ShutdownFail, CutTarget
<1>12. ASSUME NEW b \in Asks, Table(b)
       PROVE  UNCHANGED <<link, dialVars>> /\ \A a \in Asks : Mine(a)' => Mine(a)
  BY ZenonT(60), <1>12 DEF Table, SendVerdict, TakeSender, TypeOK
<1>13. ASSUME \/ \E n \in Nodes : Remote(n)
              \/ DemuxOther \/ Forward
              \/ ShutdownStart \/ ShutdownCollect \/ ShutdownDone \/ UNCHANGED vars
       PROVE  UNCHANGED <<link, dialVars>> /\ \A a \in Asks : Mine(a)' => Mine(a)
  <2>1. UNCHANGED <<link, dialVars, cut, held>>
    BY <1>13 DEF Remote, Answer, ReadReply, DemuxOther, Forward, ShutdownStart,
       ShutdownCollect, ShutdownDone, vars
  <2> QED BY <2>1
<1> HIDE DEF Mine
<1> QED
  BY <1>1, <1>3, <1>4, <1>5, <1>6, <1>7, <1>8, <1>9, <1>10, <1>11, <1>12, <1>13
  DEF Next, Dialer

(* The empty table satisfies the invariant. *)
LEMMA InitIInv == Init => IInv
  BY DEF Init, IInv, TypeOK, UnsentIsUnknown, PendingIsOpen, SideMapFollows, InHand,
     NobodyMissed, ShutdownFollows, DialerIsCurrent, Started, Verdicts, AskPcs

(* Every step keeps it. *)
LEMMA NextIInv == IInv /\ [Next]_vars => IInv'
  BY NextTypeOK, NextUnsent, NextPending, NextSideMap, NextNobodyMissed, NextShutdown,
     NextDialer DEF IInv

(* The invariant holds throughout. *)
LEMMA Invariance == Spec => []IInv
  BY InitIInv, NextIInv, PTL DEF Spec

-----------------------------------------------------------------------------
(* The theorems. *)

(* Asks, table, connections, dialers and shutdown keep their shape; a       *)
(* dialer's attempt counter stays within RECONNECT_MAX_ATTEMPTS + 1.        *)
THEOREM TypeCorrect == Spec => []TypeOK
<1>1. IInv => TypeOK
  BY DEF IInv
<1> QED BY Invariance, <1>1, PTL

(* No path removes a waiting ask's sender without answering it.             *)
THEOREM NoSenderDropped == Spec => []WaitingAskHasEntry
<1>1. IInv => WaitingAskHasEntry
  BY DEF IInv, PendingIsOpen, Started, WaitingAskHasEntry
<1> QED BY Invariance, <1>1, PTL

(* The correlation table does not leak: an ask that is over has left both   *)
(* maps, however it ended.                                                  *)
THEOREM NoLeak == Spec => []NoEntryLeft
<1>1. IInv => NoEntryLeft
  BY DEF IInv, PendingIsOpen, SideMapFollows, NoEntryLeft
<1> QED BY Invariance, <1>1, PTL

(* From before its frame is handed to a connection, an unanswered ask is in *)
(* the side map, where a disconnect finds it, or with a task that is about  *)
(* to answer it; the two maps are changed one after the other.              *)
THEOREM DisconnectFindsAsk == Spec => []InFlightIsTargeted
<1>1. IInv => InFlightIsTargeted
  BY DEF IInv, NobodyMissed, InHand, Started, InFlightIsTargeted
<1> QED BY Invariance, <1>1, PTL

(* A disconnect verdict is never stale for a node that only we dial.        *)
THEOREM VerdictIsCurrent == Spec => DisconnectIsCurrent
<1> DEFINE Current(a) ==
      (chan[a] = "open" /\ chan'[a] = "peer_disconnected" /\ Target[a] \notin Inbound)
        => ~Connected(Target[a])
<1>1. IInv /\ [Next]_vars => \A a \in Asks : Current(a)
  <2> SUFFICES ASSUME IInv, [Next]_vars PROVE \A a \in Asks : Current(a)
    OBVIOUS
  <2>1. ASSUME NEW b \in Asks, SendVerdict(b) PROVE \A a \in Asks : Current(a)
    <3>1. chan' = [chan EXCEPT ![b] = held[b]]
      BY <2>1 DEF SendVerdict
    <3>2. \A a \in Asks \ {b} : chan'[a] = chan[a]
      BY <3>1 DEF IInv, TypeOK
    <3>3. chan'[b] = held[b]
      BY <3>1 DEF IInv, TypeOK
    <3>4. held[b] = "peer_disconnected" /\ Target[b] \notin Inbound
            => ~Connected(Target[b])
      BY TargetAssumption DEF IInv, DialerIsCurrent
    <3> QED BY <3>2, <3>3, <3>4
  <2>2. ASSUME chan' = chan PROVE \A a \in Asks : Current(a)
    BY <2>2
  <2>3. ASSUME NEW b \in Asks, Ask(b) PROVE chan' = chan
    BY <2>3, AskCases DEF IInv
  <2>4. ASSUME NEW b \in Asks, NEW v \in Verdicts, TakeSender(v, b) PROVE chan' = chan
    BY <2>4 DEF TakeSender
  <2>5. ASSUME NEW b \in Asks, Demux(b) \/ ShutdownFail(b) \/ \E n \in Nodes : DialFail(n, b)
        PROVE  chan' = chan
    BY <2>5, CutCases DEF CutTarget
  <2>6. ASSUME Elsewhere PROVE chan' = chan
    BY <2>6, ElsewhereFrame
  <2> HIDE DEF Current
  <2> QED BY <2>1, <2>2, <2>3, <2>4, <2>5, <2>6, StepCases DEF Table
<1>2. IInv /\ [Next]_vars => [\A a \in Asks : Current(a)]_vars
  BY <1>1
<1> QED BY Invariance, <1>2, PTL DEF Spec, DisconnectIsCurrent
=============================================================================
