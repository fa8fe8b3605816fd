---------------------------- MODULE Agent_proofs ----------------------------
(***************************************************************************)
(* One agent and its callers, for any set of calls, any capacity and every *)
(* send policy: turns never overlap, an ok is stored and traced before it  *)
(* is seen, a reply is sent at most once, no waiting ask is orphaned, the  *)
(* slab is conserved, and the agent implements AgentCalls.                 *)
(***************************************************************************)
EXTENDS Agent, SeqFacts

USE MsgsAssumption

-----------------------------------------------------------------------------
(* Type correctness. *)

(* Taking a reply only writes a reply. *)
LEMMA TakeReplyTypes ==
  ASSUME TypeOK, NEW m, NEW v \in Replies, TakeReply(m, v)
  PROVE  chan' \in [Msgs -> Replies \cup {"open", "none"}]
  BY DEF TypeOK, TakeReply, Replies

(* Dropping replies only closes channels. *)
LEMMA DropRepliesTypes ==
  ASSUME TypeOK, NEW S, DropReplies(S)
  PROVE  chan' \in [Msgs -> Replies \cup {"open", "none"}]
  BY DEF TypeOK, DropReplies, Replies

(* Dropping frames returns slots, and only slots. *)
LEMMA SlotTypes ==
  ASSUME TypeOK, NEW S \in SUBSET Msgs, ReleaseSlots(S)
  PROVE  slot' \in [Msgs -> Slots \cup {NoSlot}] /\ free' \in SUBSET Slots
<1>1. slot' \in [Msgs -> Slots \cup {NoSlot}]
  BY DEF TypeOK, ReleaseSlots
<1>2. {slot[m] : m \in S} \subseteq Slots \cup {NoSlot}
  BY DEF TypeOK
<1>3. free' \in SUBSET Slots
  BY <1>2 DEF TypeOK, ReleaseSlots
<1> QED BY <1>1, <1>3

(* Admitting a frame takes a free slot or none. *)
LEMMA AdmitTypes ==
  ASSUME TypeOK, NEW m \in Msgs, \E s \in AdmitSlots(m) : Admit(m, s)
  PROVE  slot' \in [Msgs -> Slots \cup {NoSlot}] /\ free' \in SUBSET Slots
  BY DEF TypeOK, AdmitSlots, Admit

(* A sender that stops waiting leaves all the others where they are. *)
LEMMA WaiterLeaves ==
  ASSUME TypeOK, NEW m \in Msgs, Unblock(m) \/ UnblockClosed(m)
  PROVE  waiters' \in Seq(Msgs) /\ Range(waiters) = Range(waiters') \cup {m}
<1>1. PICK i \in 1 .. Len(waiters) :
        /\ waiters[i] = m
        /\ waiters' = SubSeq(waiters, 1, i - 1)
                        \o SubSeq(waiters, i + 1, Len(waiters))
  BY DEF Unblock, UnblockClosed
<1>2. waiters \in Seq(Msgs)
  BY DEF TypeOK
<1> QED BY <1>1, <1>2, RemoveFacts

(* Every step keeps the shape of the agent's state. *)
LEMMA NextTypeOK == TypeOK /\ [Next]_vars => TypeOK'
<1> SUFFICES ASSUME TypeOK, [Next]_vars PROVE TypeOK'
  OBVIOUS
<1> USE DEF callerVars, boxVars, jobVars, loopVars, rtVars
<1>1. ASSUME NEW m \in Msgs, Enqueue(m) PROVE TypeOK'
  <2>1. queue' \in Seq(Msgs)
    BY <1>1, PushFacts DEF Enqueue, TypeOK
  <2> QED BY <1>1, <2>1 DEF Enqueue, SendReturnsOk, TypeOK, Outcomes
<1>2. ASSUME NEW m \in Msgs, BlockOnFull(m) PROVE TypeOK'
  <2>1. waiters' \in Seq(Msgs)
    BY <1>2, PushFacts DEF BlockOnFull, TypeOK
  <2> QED BY <1>2, <2>1 DEF BlockOnFull, TypeOK
<1>3. ASSUME NEW m \in Msgs, RejectFrame(m) PROVE TypeOK'
  <2>1. chan' \in [Msgs -> Replies \cup {"open", "none"}]
    BY <1>3, DropRepliesTypes DEF RejectFrame
  <2>2. SendReturnsOk(m) \/ SendReturnsErr(m, "notfound") \/ SendReturnsErr(m, "full")
    BY <1>3 DEF RejectFrame
  <2>3. /\ pc' \in [Msgs -> {"idle", "admitted", "blocked", "waiting", "done"}]
        /\ out' \in [Msgs -> Outcomes]
    <3>1. CASE SendReturnsOk(m)
      BY <3>1 DEF SendReturnsOk, TypeOK, Outcomes
    <3>2. CASE SendReturnsErr(m, "notfound")
      BY <3>2 DEF SendReturnsErr, TypeOK, Outcomes
    <3>3. CASE SendReturnsErr(m, "full")
      BY <3>3 DEF SendReturnsErr, TypeOK, Outcomes
    <3> QED BY <2>2, <3>1, <3>2, <3>3
  <2>4. slot' \in [Msgs -> Slots \cup {NoSlot}] /\ free' \in SUBSET Slots
    BY <1>3, SlotTypes DEF RejectFrame
  <2>5. UNCHANGED <<queue, waiters, jobVars, loopVars, rtVars>>
    BY <1>3 DEF RejectFrame
  <2> QED BY <2>1, <2>3, <2>4, <2>5 DEF TypeOK
<1>4. ASSUME NEW m \in Msgs, Unblock(m) PROVE TypeOK'
  <2>1. waiters' \in Seq(Msgs)
    BY <1>4, WaiterLeaves
  <2>2. queue' \in Seq(Msgs)
    BY <1>4, PushFacts DEF Unblock, TypeOK
  <2> QED BY <1>4, <2>1, <2>2 DEF Unblock, SendReturnsOk, TypeOK, Outcomes
<1>5. ASSUME NEW m \in Msgs, UnblockClosed(m) PROVE TypeOK'
  <2>1. waiters' \in Seq(Msgs)
    BY <1>5, WaiterLeaves
  <2>2. chan' \in [Msgs -> Replies \cup {"open", "none"}]
    BY <1>5, DropRepliesTypes DEF UnblockClosed
  <2>3. slot' \in [Msgs -> Slots \cup {NoSlot}] /\ free' \in SUBSET Slots
    BY <1>5, SlotTypes DEF UnblockClosed
  <2> QED BY <1>5, <2>1, <2>2, <2>3 DEF UnblockClosed, SendReturnsErr, TypeOK, Outcomes
<1>6. ASSUME NEW m \in Msgs, ReplyArrives(m) PROVE TypeOK'
  <2>1. chan[m] \in Outcomes
    BY <1>6 DEF ReplyArrives, TypeOK, Outcomes
  <2> QED BY <1>6, <2>1 DEF ReplyArrives, TypeOK
<1>7. ASSUME NEW m \in Msgs, DeadlineExpires(m) PROVE TypeOK'
  BY <1>7 DEF DeadlineExpires, TypeOK, Outcomes
<1>8. ASSUME NEW m \in Msgs, JobStart(m) PROVE TypeOK'
  <2>1. chan' \in [Msgs -> Replies \cup {"open", "none"}]
    BY <1>8, TakeReplyTypes DEF JobStart, Replies, TypeOK
  <2>2. job' \in [Msgs -> JobPcs] /\ res' \in [Msgs -> {"none", "ok", "error"}]
    BY <1>8 DEF JobStart, TypeOK, JobPcs
  <2>3. seen' \in [Msgs -> Seq(Msgs)]
    <3>1. state \in Seq(Msgs) /\ seen \in [Msgs -> Seq(Msgs)]
      BY DEF TypeOK
    <3>2. seen' = seen \/ seen' = [seen EXCEPT ![m] = state]
      BY <1>8 DEF JobStart
    <3> QED BY <3>1, <3>2, Zenon
  <2> QED BY <1>8, <2>1, <2>2, <2>3 DEF JobStart, TypeOK
<1>9. ASSUME NEW m \in Msgs, JobRan(m) PROVE TypeOK'
  <2>1. trace' \in Seq(Msgs)
    BY <1>9, PushFacts DEF JobRan, TypeOK
  <2>2. res' \in [Msgs -> {"none", "ok", "error"}]
    BY <1>9 DEF JobRan, TypeOK
  <2>3. job' \in [Msgs -> JobPcs]
    BY <1>9 DEF JobRan, TypeOK, JobPcs
  <2> QED BY <1>9, <2>1, <2>2, <2>3 DEF JobRan, TypeOK
<1>10. ASSUME NEW m \in Msgs, JobStore(m) PROVE TypeOK'
  <2>1. state' \in Seq(Msgs)
    BY <1>10, PushFacts DEF JobStore, TypeOK
  <2> QED BY <1>10, <2>1 DEF JobStore, TypeOK, JobPcs
<1>11. ASSUME NEW m \in Msgs, JobReply(m) PROVE TypeOK'
  <2>1. chan' \in [Msgs -> Replies \cup {"open", "none"}]
    BY <1>11 DEF JobReply, TakeReply, TypeOK, Replies
  <2> QED BY <1>11, <2>1 DEF JobReply, TypeOK, JobPcs
<1>12. ASSUME NEW m \in Msgs, JobReturn(m) PROVE TypeOK'
  <2>1. slot' \in [Msgs -> Slots \cup {NoSlot}] /\ free' \in SUBSET Slots
    BY <1>12, SlotTypes DEF JobReturn
  <2> QED BY <1>12, <2>1 DEF JobReturn, TypeOK, JobPcs
<1>13. ASSUME NEW m \in Msgs, JobLost(m) PROVE TypeOK'
  <2>1. slot' \in [Msgs -> Slots \cup {NoSlot}] /\ free' \in SUBSET Slots
    BY <1>13, SlotTypes DEF JobLost
  <2>2. chan' \in [Msgs -> Replies \cup {"open", "none"}]
    BY <1>13, DropRepliesTypes DEF JobLost, TypeOK
  <2> QED BY <1>13, <2>1, <2>2 DEF JobLost, TypeOK, JobPcs
<1>14. CASE Recv
  <2>1. Head(queue) \in Msgs /\ queue' \in Seq(Msgs)
    BY <1>14, TakeFacts DEF Recv, TypeOK
  <2> QED BY <1>14, <2>1 DEF Recv, TypeOK, JobPcs
<1>15. CASE TurnCancelled
  <2>1. chan' \in [Msgs -> Replies \cup {"open", "none"}]
    BY <1>15, TakeReplyTypes DEF TurnCancelled, Replies
  <2> QED BY <1>15, <2>1 DEF TurnCancelled, TypeOK
<1>16. CASE TurnJoined
  <2>1. chan' \in [Msgs -> Replies \cup {"open", "none"}]
    BY <1>16, TakeReplyTypes DEF TurnJoined, Replies, TypeOK
  <2>2. registered' \in BOOLEAN /\ loop' \in {"idle", "exiting"}
    BY <1>16 DEF TurnJoined, TypeOK
  <2> QED BY <1>16, <2>1, <2>2 DEF TurnJoined, TypeOK
<1>17. ASSUME DropReceiver
       PROVE  /\ loop' = "dead" /\ turn' = NoMsg /\ queue' \in Seq(Msgs)
              /\ slot' \in [Msgs -> Slots \cup {NoSlot}] /\ free' \in SUBSET Slots
  <2>1. Range(queue) \in SUBSET Msgs
    BY DEF TypeOK, Range
  <2> QED BY <1>17, <2>1, SlotTypes DEF DropReceiver
<1>18. CASE LoopExit
  <2>1. chan' \in [Msgs -> Replies \cup {"open", "none"}]
    BY <1>18, DropRepliesTypes DEF LoopExit
  <2> QED BY <1>17, <1>18, <2>1 DEF LoopExit, DropReceiver, TypeOK
<1>19. CASE LoopAborted
  <2>1. chan' \in [Msgs -> Replies \cup {"open", "none"}]
    BY <1>19, DropRepliesTypes DEF LoopAborted
  <2> QED BY <1>17, <1>19, <2>1 DEF LoopAborted, DropReceiver, TypeOK
<1>20. CASE WallBudgetFires \/ Shutdown \/ AbortTasks
  BY <1>20 DEF WallBudgetFires, Shutdown, AbortTasks, TypeOK
<1>21. CASE UNCHANGED vars
  BY <1>21 DEF vars, TypeOK
<1>22. ASSUME NEW m \in Msgs, \E s \in AdmitSlots(m) : Admit(m, s) PROVE TypeOK'
  <2>1. slot' \in [Msgs -> Slots \cup {NoSlot}] /\ free' \in SUBSET Slots
    BY <1>22, AdmitTypes
  <2> QED BY <1>22, <2>1 DEF Admit, TypeOK
<1> QED
  BY <1>1, <1>2, <1>3, <1>4, <1>5, <1>6, <1>7, <1>8, <1>9, <1>10, <1>11, <1>12,
     <1>13, <1>14, <1>15, <1>16, <1>18, <1>19, <1>20, <1>21, <1>22
  DEF Next, Caller, Offer, Job, Loop

(* A fresh agent has the declared shape. *)
LEMMA InitTypeOK == Init => TypeOK
<1> SUFFICES ASSUME Init PROVE TypeOK
  OBVIOUS
<1>1. /\ slot \in [Msgs -> Slots \cup {NoSlot}] /\ free \in SUBSET Slots
      /\ chan \in [Msgs -> Replies \cup {"open", "none"}]
  BY DEF Init
<1>2. job \in [Msgs -> JobPcs] /\ out \in [Msgs -> Outcomes]
  BY DEF Init, JobPcs, Outcomes
<1>3. /\ queue \in Seq(Msgs) /\ waiters \in Seq(Msgs) /\ state \in Seq(Msgs)
      /\ trace \in Seq(Msgs) /\ seen \in [Msgs -> Seq(Msgs)]
  BY DEF Init
<1> QED BY <1>1, <1>2, <1>3 DEF Init, TypeOK

(* runtime.rs, agent.rs, mailbox.rs: the agent's state keeps its shape. *)
THEOREM TypeCorrect == Spec => []TypeOK
  BY InitTypeOK, NextTypeOK, PTL DEF Spec

-----------------------------------------------------------------------------
(* Replies are sent once. *)

(* An answered channel never changes, whoever tries. *)
LEMMA NextAnsweredStays ==
  ASSUME TypeOK, [Next]_vars, NEW m \in Msgs, chan[m] # "open"
  PROVE  chan'[m] = chan[m]
<1> USE DEF callerVars, boxVars, jobVars, loopVars, rtVars
<1>1. ASSUME NEW n, NEW v, TakeReply(n, v) PROVE chan'[m] = chan[m]
  BY <1>1 DEF TakeReply, TypeOK
<1>2. ASSUME NEW S, DropReplies(S) PROVE chan'[m] = chan[m]
  BY <1>2 DEF DropReplies, TypeOK
<1>3. ASSUME NEW n \in Msgs, Caller(n) PROVE chan'[m] = chan[m]
  BY <1>2, <1>3 DEF Caller, Offer, Admit, Enqueue, BlockOnFull, RejectFrame, Unblock, UnblockClosed,
                    ReplyArrives, DeadlineExpires
<1>4. ASSUME NEW n \in Msgs, Job(n) PROVE chan'[m] = chan[m]
  BY <1>1, <1>2, <1>4 DEF Job, JobStart, JobRan, JobStore, JobReply, JobReturn, JobLost
<1>5. CASE Loop
  BY <1>1, <1>2, <1>5 DEF Loop, Recv, TurnCancelled, TurnJoined, LoopExit, LoopAborted
<1>6. CASE WallBudgetFires \/ Shutdown \/ AbortTasks \/ UNCHANGED vars
  BY <1>6 DEF WallBudgetFires, Shutdown, AbortTasks, vars
<1> QED BY <1>3, <1>4, <1>5, <1>6 DEF Next

(* agent.rs, SharedReply: the blocking thread, the cancellation arm, the    *)
(* join arm and the dropped mailbox answer an ask at most once between them.*)
THEOREM RepliesAreFinal == Spec => ReplySentOnce
<1>1. TypeOK /\ [Next]_vars
        => [\A m \in Asks : chan[m] # "open" => chan'[m] = chan[m]]_vars
  BY NextAnsweredStays
<1> QED BY <1>1, TypeCorrect, PTL DEF Spec, ReplySentOnce

-----------------------------------------------------------------------------
(* Turns do not overlap. *)

(* Where an active thread can be: under the turn the loop is in, or left    *)
(* behind by a loop that will take no further message.                      *)
TurnInv ==
  /\ TurnsDoNotOverlap
  /\ loop = "idle" => \A m \in Msgs : ~ActiveJob(m)
  /\ loop = "turn" => /\ turn \in Msgs /\ job[turn] # "none"
                      /\ \A m \in Msgs : ActiveJob(m) => m = turn

(* A fresh agent runs nothing. *)
LEMMA InitTurnInv == Init => TurnInv
  BY DEF Init, TurnInv, TurnsDoNotOverlap, ActiveJob

(* Only Recv makes a thread active, and only an idle loop receives. *)
LEMMA NextTurnInv == TypeOK /\ TurnInv /\ [Next]_vars => TurnInv'
<1> SUFFICES ASSUME TypeOK, TurnInv, [Next]_vars PROVE TurnInv'
  OBVIOUS
<1> USE DEF callerVars, boxVars, jobVars, loopVars, rtVars
<1>1. ASSUME NEW m \in Msgs, Caller(m) PROVE TurnInv'
  <2>1. UNCHANGED <<job, loop, turn>>
    BY <1>1 DEF Caller, Offer, Admit, Enqueue, BlockOnFull, RejectFrame, Unblock, UnblockClosed,
                ReplyArrives, DeadlineExpires
  <2> QED BY <2>1 DEF TurnInv, TurnsDoNotOverlap, ActiveJob
<1>2. ASSUME NEW m \in Msgs, Job(m) PROVE TurnInv'
  <2>1. /\ UNCHANGED <<loop, turn>> /\ ActiveJob(m) /\ job'[m] # "none"
        /\ \A n \in Msgs \ {m} : job'[n] = job[n]
    BY <1>2 DEF Job, JobStart, JobRan, JobStore, JobReply, JobReturn, JobLost, TypeOK,
                ActiveJob
  <2> QED BY <2>1 DEF TurnInv, TurnsDoNotOverlap, ActiveJob
<1>3. CASE Recv
  <2>1. Head(queue) \in Msgs
    BY <1>3, TakeFacts DEF Recv, TypeOK
  <2> QED BY <1>3, <2>1 DEF Recv, TypeOK, TurnInv, TurnsDoNotOverlap, ActiveJob
<1>4. CASE TurnCancelled \/ LoopExit \/ LoopAborted
  BY <1>4 DEF TurnCancelled, LoopExit, LoopAborted, DropReceiver, TurnInv,
              TurnsDoNotOverlap, ActiveJob
<1>5. CASE TurnJoined
  BY <1>5 DEF TurnJoined, TurnInv, TurnsDoNotOverlap, ActiveJob
<1>6. CASE WallBudgetFires \/ Shutdown \/ AbortTasks \/ UNCHANGED vars
  BY <1>6 DEF WallBudgetFires, Shutdown, AbortTasks, vars, TurnInv, TurnsDoNotOverlap,
              ActiveJob
<1> QED BY <1>1, <1>2, <1>3, <1>4, <1>5, <1>6 DEF Next, Loop

(* runtime.rs, spawn_agent_loop: however turns are cancelled and their      *)
(* threads detached, two handlers of an agent never run at once.            *)
THEOREM NoOverlap == Spec => []TurnsDoNotOverlap
<1>1. TurnInv => TurnsDoNotOverlap
  BY DEF TurnInv
<1> QED BY <1>1, InitTurnInv, NextTurnInv, TypeCorrect, PTL DEF Spec

-----------------------------------------------------------------------------
(* An ok is stored and traced. *)

(* What a thread has done by the time it stands somewhere: the state it was *)
(* given is still the agent's state when it writes it back, because no      *)
(* other turn runs; it is traced before it stores, and has stored before it *)
(* replies.                                                                 *)
EffectInv ==
  /\ \A m \in Msgs :
       /\ job[m] \in {"running", "ran"} => seen[m] = state
       /\ job[m] \in {"ran", "stored"} => m \in Range(trace)
       /\ job[m] = "stored" => m \in Range(state)
  /\ OkIsStoredAndTraced

(* A fresh agent has answered nobody. *)
LEMMA InitEffectInv == Init => EffectInv
  BY DEF Init, EffectInv, OkIsStoredAndTraced

(* A step that changes neither threads, state nor trace, and sends no ok,   *)
(* keeps the invariant.                                                     *)
LEMMA EffectFrame ==
  ASSUME EffectInv, UNCHANGED <<seen, state, trace>>,
         \A m \in Msgs : job'[m] \in {"running", "ran", "stored"} => job'[m] = job[m],
         \A m \in Asks : chan'[m] = "ok" => chan[m] = "ok"
  PROVE  EffectInv'
  BY DEF EffectInv, OkIsStoredAndTraced

(* Taking a reply with anything but ok, or dropping replies, sends no ok. *)
LEMMA NoNewOk ==
  ASSUME TypeOK,
         \/ UNCHANGED chan
         \/ \E n \in Msgs \cup {NoMsg}, v \in Replies \ {"ok"} : TakeReply(n, v)
         \/ \E S \in SUBSET Msgs : DropReplies(S)
  PROVE  \A m \in Asks : chan'[m] = "ok" => chan[m] = "ok"
  BY DEF TypeOK, TakeReply, DropReplies, Replies

(* Every step keeps effects behind answers. *)
LEMMA NextEffectInv ==
  TypeOK /\ TurnInv /\ EffectInv /\ [Next]_vars => EffectInv'
<1> SUFFICES ASSUME TypeOK, TurnInv, EffectInv, [Next]_vars PROVE EffectInv'
  OBVIOUS
<1> USE DEF callerVars, boxVars, jobVars, loopVars, rtVars
<1>0. Range(queue) \in SUBSET Msgs
  BY DEF TypeOK, Range
<1>1. ASSUME NEW m \in Msgs, Caller(m) PROVE EffectInv'
  <2>1. UNCHANGED jobVars
    BY <1>1 DEF Caller, Offer, Admit, Enqueue, BlockOnFull, RejectFrame, Unblock, UnblockClosed,
                ReplyArrives, DeadlineExpires
  <2>2. UNCHANGED chan \/ DropReplies({m})
    BY <1>1 DEF Caller, Offer, Admit, Enqueue, BlockOnFull, RejectFrame, Unblock, UnblockClosed,
                ReplyArrives, DeadlineExpires
  <2>3. \A n \in Asks : chan'[n] = "ok" => chan[n] = "ok"
    BY <2>2, NoNewOk
  <2> QED BY <2>1, <2>3, EffectFrame
<1>2. ASSUME NEW m \in Msgs, JobStart(m) PROVE EffectInv'
  <2>1. CASE m \in Unhandled
    <3>1. /\ TakeReply(m, "error") /\ job' = [job EXCEPT ![m] = "replied"]
          /\ UNCHANGED <<seen, state, trace>>
      BY <1>2, <2>1 DEF JobStart
    <3>2. \A n \in Asks : chan'[n] = "ok" => chan[n] = "ok"
      BY <3>1, NoNewOk DEF Replies
    <3>3. \A n \in Msgs : job'[n] \in {"running", "ran", "stored"} => job'[n] = job[n]
      BY <3>1 DEF TypeOK
    <3> QED BY <3>1, <3>2, <3>3, EffectFrame
  <2>2. CASE m \notin Unhandled
    <3>1. /\ seen' = [seen EXCEPT ![m] = state] /\ job' = [job EXCEPT ![m] = "running"]
          /\ UNCHANGED <<chan, state, trace>>
      BY <1>2, <2>2 DEF JobStart
    <3> QED BY <3>1 DEF EffectInv, OkIsStoredAndTraced, TypeOK
  <2> QED BY <2>1, <2>2
<1>3. ASSUME NEW m \in Msgs, JobRan(m) PROVE EffectInv'
  <2>1. /\ job[m] = "running" /\ job' = [job EXCEPT ![m] = "ran"]
        /\ trace' = Append(trace, m) /\ UNCHANGED <<chan, seen, state>>
    BY <1>3 DEF JobRan
  <2>2. Range(trace') = Range(trace) \cup {m}
    BY <2>1, PushFacts DEF TypeOK
  <2> QED BY <2>1, <2>2 DEF EffectInv, OkIsStoredAndTraced, TypeOK
<1>4. ASSUME NEW m \in Msgs, JobStore(m) PROVE EffectInv'
  <2>1. /\ job[m] = "ran" /\ job' = [job EXCEPT ![m] = "stored"]
        /\ state' = Append(state, m) /\ UNCHANGED <<chan, seen, trace>>
    BY <1>4 DEF JobStore, EffectInv
  <2>2. Range(state') = Range(state) \cup {m}
    BY <2>1, PushFacts DEF TypeOK
  <2>3. \A n \in Msgs \ {m} : job'[n] = job[n] /\ ~ActiveJob(n)
    BY <2>1 DEF TypeOK, TurnInv, TurnsDoNotOverlap, ActiveJob
  <2>4. job'[m] = "stored"
    BY <2>1 DEF TypeOK
  <2>5. \A n \in Msgs : job'[n] \notin {"running", "ran"}
    BY <2>3, <2>4 DEF ActiveJob
  <2>6. \A n \in Msgs : job'[n] = "stored" => n = m
    BY <2>3 DEF ActiveJob
  <2>7. m \in Range(trace')
    BY <2>1 DEF EffectInv
  <2> QED BY <2>1, <2>2, <2>5, <2>6, <2>7 DEF EffectInv, OkIsStoredAndTraced
<1>5. ASSUME NEW m \in Msgs, JobReply(m) PROVE EffectInv'
  <2>1. /\ job' = [job EXCEPT ![m] = "replied"] /\ UNCHANGED <<seen, state, trace>>
        /\ TakeReply(m, res[m])
        /\ job[m] = "stored" \/ res[m] = "error"
    BY <1>5 DEF JobReply
  <2>2. ASSUME NEW n \in Asks, chan'[n] = "ok"
        PROVE  n \in Range(state) /\ n \in Range(trace)
    <3>1. CASE chan[n] = "ok"
      BY <3>1 DEF EffectInv, OkIsStoredAndTraced
    <3>2. CASE chan[n] # "ok"
      <4>1. n = m /\ res[m] = "ok"
        BY <2>1, <2>2, <3>2 DEF TakeReply, TypeOK
      <4> QED BY <2>1, <4>1 DEF EffectInv
    <3> QED BY <3>1, <3>2
  <2> QED BY <2>1, <2>2 DEF EffectInv, OkIsStoredAndTraced, TypeOK
<1>6. ASSUME NEW m \in Msgs, JobReturn(m) \/ JobLost(m) PROVE EffectInv'
  <2>1. /\ UNCHANGED <<seen, state, trace>>
        /\ \A n \in Msgs : job'[n] \in {"running", "ran", "stored"} => job'[n] = job[n]
    BY <1>6 DEF JobReturn, JobLost, TypeOK
  <2>2. UNCHANGED chan \/ DropReplies({m})
    BY <1>6 DEF JobReturn, JobLost
  <2>3. \A n \in Asks : chan'[n] = "ok" => chan[n] = "ok"
    BY <2>2, NoNewOk
  <2> QED BY <2>1, <2>3, EffectFrame
<1>7. CASE Loop
  <2>1. /\ UNCHANGED <<seen, state, trace>>
        /\ \A n \in Msgs : job'[n] \in {"running", "ran", "stored"} => job'[n] = job[n]
    BY <1>7 DEF Loop, Recv, TurnCancelled, TurnJoined, LoopExit, LoopAborted, TypeOK
  <2>2. \/ UNCHANGED chan
        \/ \E n \in Msgs \cup {NoMsg}, v \in Replies \ {"ok"} : TakeReply(n, v)
        \/ \E S \in SUBSET Msgs : DropReplies(S)
    <3>1. CASE Recv
      BY <3>1 DEF Recv
    <3>2. CASE TurnCancelled
      BY <3>2 DEF TurnCancelled, Replies, TypeOK
    <3>3. CASE TurnJoined
      BY <3>3 DEF TurnJoined, Replies, TypeOK
    <3>4. CASE LoopExit
      BY <1>0, <3>4 DEF LoopExit
    <3>5. CASE LoopAborted
      <4> DEFINE S == Range(queue) \cup {m \in Msgs : m = turn /\ job[m] = "lost"}
      <4>1. S \in SUBSET Msgs /\ DropReplies(S)
        BY <1>0, <3>5 DEF LoopAborted
      <4> QED BY <4>1
    <3> QED BY <1>7, <3>1, <3>2, <3>3, <3>4, <3>5 DEF Loop
  <2>3. \A n \in Asks : chan'[n] = "ok" => chan[n] = "ok"
    BY <2>2, NoNewOk
  <2> QED BY <2>1, <2>3, EffectFrame
<1>8. CASE WallBudgetFires \/ Shutdown \/ AbortTasks \/ UNCHANGED vars
  BY <1>8, EffectFrame DEF WallBudgetFires, Shutdown, AbortTasks, vars
<1> QED BY <1>1, <1>2, <1>3, <1>4, <1>5, <1>6, <1>7, <1>8 DEF Next, Job

(* agent.rs, run_one_turn_with_shared_reply: a caller that sees Ok sees it  *)
(* after the state was stored and the trace has the handled record.         *)
THEOREM OkIsDurable == Spec => []OkIsStoredAndTraced
<1>1. EffectInv => OkIsStoredAndTraced
  BY DEF EffectInv
<1> QED BY <1>1, InitTurnInv, NextTurnInv, InitEffectInv, NextEffectInv, TypeCorrect,
           PTL DEF Spec

-----------------------------------------------------------------------------
(* No waiting ask is orphaned. *)

OrphanInv ==
  /\ NoOrphanedAsk
  /\ \A m \in Msgs : job[m] \in {"replied", "finished"} => chan[m] # "open"

(* Nobody waits for a fresh agent. *)
LEMMA InitOrphanInv == Init => OrphanInv
  BY DEF Init, OrphanInv, NoOrphanedAsk

(* An open channel was open before. *)
LEMMA OpenWasOpen ==
  ASSUME TypeOK, [Next]_vars
  PROVE  \A m \in Msgs : chan'[m] = "open" => chan[m] = "open"
  BY NextAnsweredStays

(* Frames leave the callers and the queue only towards a turn, and every    *)
(* other way out of a turn or of the mailbox answers the ask.               *)
LEMMA NextOrphanInv ==
  TypeOK /\ TurnInv /\ OrphanInv /\ [Next]_vars => OrphanInv'
<1> SUFFICES ASSUME TypeOK, TurnInv, OrphanInv, [Next]_vars PROVE OrphanInv'
  OBVIOUS
<1> USE OpenWasOpen DEF callerVars, boxVars, jobVars, loopVars, rtVars, HasFrame
<1>1. ASSUME NEW m \in Msgs, Enqueue(m) PROVE OrphanInv'
  <2>1. Range(queue') = Range(queue) \cup {m}
    BY <1>1, PushFacts DEF Enqueue, TypeOK
  <2> QED BY <1>1, <2>1 DEF Enqueue, SendReturnsOk, TypeOK, OrphanInv, NoOrphanedAsk,
                            ActiveJob
<1>2. ASSUME NEW m \in Msgs, BlockOnFull(m) PROVE OrphanInv'
  <2>1. Range(waiters') = Range(waiters) \cup {m}
    BY <1>2, PushFacts DEF BlockOnFull, TypeOK
  <2> QED BY <1>2, <2>1 DEF BlockOnFull, TypeOK, OrphanInv, NoOrphanedAsk, ActiveJob
<1>3. ASSUME NEW m \in Msgs, RejectFrame(m) PROVE OrphanInv'
  <2>1. chan'[m] # "open"
    BY <1>3 DEF RejectFrame, DropReplies, TypeOK
  <2>2. /\ \A n \in Msgs \ {m} : pc'[n] = pc[n]
        /\ UNCHANGED <<queue, waiters, job, loop, turn>>
    BY <1>3 DEF RejectFrame, SendReturnsOk, SendReturnsErr, TypeOK
  <2> QED BY <2>1, <2>2 DEF OrphanInv, NoOrphanedAsk, ActiveJob
<1>4. ASSUME NEW m \in Msgs, Unblock(m) PROVE OrphanInv'
  <2>1. Range(queue') = Range(queue) \cup {m}
    BY <1>4, PushFacts DEF Unblock, TypeOK
  <2>2. Range(waiters) = Range(waiters') \cup {m}
    BY <1>4, WaiterLeaves
  <2>3. /\ \A n \in Msgs \ {m} : pc'[n] = pc[n]
        /\ UNCHANGED <<chan, job, loop, turn>>
    BY <1>4 DEF Unblock, SendReturnsOk, TypeOK
  <2> QED BY <2>1, <2>2, <2>3 DEF OrphanInv, NoOrphanedAsk, ActiveJob
<1>5. ASSUME NEW m \in Msgs, UnblockClosed(m) PROVE OrphanInv'
  <2>1. Range(waiters) = Range(waiters') \cup {m}
    BY <1>5, WaiterLeaves
  <2>2. chan'[m] # "open"
    BY <1>5 DEF UnblockClosed, DropReplies, TypeOK
  <2>3. /\ \A n \in Msgs \ {m} : pc'[n] = pc[n]
        /\ UNCHANGED <<queue, job, loop, turn>>
    BY <1>5 DEF UnblockClosed, SendReturnsErr, TypeOK
  <2> QED BY <2>1, <2>2, <2>3 DEF OrphanInv, NoOrphanedAsk, ActiveJob
<1>6. ASSUME NEW m \in Msgs, ReplyArrives(m) \/ DeadlineExpires(m) PROVE OrphanInv'
  BY <1>6 DEF ReplyArrives, DeadlineExpires, TypeOK, OrphanInv, NoOrphanedAsk, ActiveJob
<1>7. ASSUME NEW m \in Msgs,
             JobStart(m) \/ JobRan(m) \/ JobStore(m) \/ JobReply(m)
      PROVE  OrphanInv'
  <2>1. /\ ActiveJob(m) /\ ActiveJob(m)' /\ \A n \in Msgs \ {m} : job'[n] = job[n]
        /\ UNCHANGED <<pc, queue, waiters, loop, turn>>
    BY <1>7 DEF JobStart, JobRan, JobStore, JobReply, TypeOK, ActiveJob
  <2>2. job'[m] # "finished" /\ (job'[m] = "replied" => chan'[m] # "open")
    BY <1>7 DEF JobStart, JobRan, JobStore, JobReply, TakeReply, TypeOK
  <2> QED BY <2>1, <2>2 DEF OrphanInv, NoOrphanedAsk, ActiveJob
<1>8. ASSUME NEW m \in Msgs, JobReturn(m) PROVE OrphanInv'
  BY <1>8 DEF JobReturn, TypeOK, OrphanInv, NoOrphanedAsk, ActiveJob
<1>9. ASSUME NEW m \in Msgs, JobLost(m) PROVE OrphanInv'
  <2>1. /\ job' = [job EXCEPT ![m] = "lost"]
        /\ UNCHANGED <<pc, queue, waiters, loop, turn>>
    BY <1>9 DEF JobLost
  <2>2. chan'[m] # "open" \/ (loop = "turn" /\ turn = m)
    BY <1>9 DEF JobLost, LoopLeft, DropReplies, TypeOK
  <2> QED BY <2>1, <2>2 DEF TypeOK, OrphanInv, NoOrphanedAsk, ActiveJob
<1>10. CASE Recv
  <2>1. Head(queue) \in Msgs /\ Range(queue) = Range(queue') \cup {Head(queue)}
    BY <1>10, TakeFacts DEF Recv, TypeOK
  <2>2. /\ loop = "idle" /\ loop' = "turn" /\ turn' = Head(queue)
        /\ job' = [job EXCEPT ![Head(queue)] = "queued"]
        /\ UNCHANGED <<pc, waiters, chan>>
    BY <1>10 DEF Recv
  <2> QED BY <2>1, <2>2 DEF TypeOK, OrphanInv, NoOrphanedAsk, ActiveJob
<1>11. CASE TurnCancelled \/ TurnJoined
  <2>1. loop = "turn" /\ turn \in Msgs /\ UNCHANGED <<pc, queue, waiters, job>>
    BY <1>11 DEF TurnCancelled, TurnJoined, TurnInv
  <2>2. chan'[turn] # "open"
    BY <1>11, <2>1 DEF TurnCancelled, TurnJoined, TakeReply, TypeOK, OrphanInv
  <2> QED BY <2>1, <2>2 DEF OrphanInv, NoOrphanedAsk, ActiveJob
<1>12. CASE LoopExit \/ LoopAborted
  <2>1. UNCHANGED <<pc, waiters, job>>
    BY <1>12 DEF LoopExit, LoopAborted, DropReceiver
  <2>2. \A n \in Range(queue) : n \in Msgs => chan'[n] # "open"
    BY <1>12 DEF LoopExit, LoopAborted, DropReplies
  <2>3. ASSUME NEW n \in Msgs, loop = "turn", turn = n, chan'[n] = "open"
        PROVE  ActiveJob(n)
    <3>1. LoopAborted /\ job[n] \in JobPcs /\ job[n] # "none"
      BY <1>12, <2>3 DEF LoopExit, TypeOK, TurnInv
    <3>2. job[n] # "lost"
      BY <2>3, <3>1 DEF LoopAborted, DropReplies
    <3>3. job[n] # "finished"
      BY <2>3 DEF OrphanInv
    <3> QED BY <3>1, <3>2, <3>3 DEF JobPcs, ActiveJob
  <2> QED BY <2>1, <2>2, <2>3 DEF OrphanInv, NoOrphanedAsk, ActiveJob
<1>13. CASE WallBudgetFires \/ Shutdown \/ AbortTasks \/ UNCHANGED vars
  BY <1>13 DEF WallBudgetFires, Shutdown, AbortTasks, vars, OrphanInv, NoOrphanedAsk,
               ActiveJob
<1>14. ASSUME NEW m \in Msgs, \E s \in AdmitSlots(m) : Admit(m, s) PROVE OrphanInv'
  BY <1>14 DEF Admit, TypeOK, OrphanInv, NoOrphanedAsk, ActiveJob
<1> QED
  BY <1>1, <1>2, <1>3, <1>4, <1>5, <1>6, <1>7, <1>8, <1>9, <1>10, <1>11, <1>12, <1>13,
     <1>14
  DEF Next, Caller, Offer, Job, Loop

(* runtime.rs, ask: an ask that waits on an open reply channel always has   *)
(* someone left to answer it, through cancelled and panicked turns, closed  *)
(* mailboxes and shutdown.                                                  *)
THEOREM NoOrphans == Spec => []NoOrphanedAsk
<1>1. OrphanInv => NoOrphanedAsk
  BY DEF OrphanInv
<1> QED BY <1>1, InitTurnInv, NextTurnInv, InitOrphanInv, NextOrphanInv, TypeCorrect,
           PTL DEF Spec

-----------------------------------------------------------------------------
(* The slab is conserved. *)

SlabInv ==
  /\ SlabConserved
  /\ \A m \in Msgs : pc[m] = "idle" => ~HasFrame(m)

(* A fresh slab is free. *)
LEMMA InitSlabInv == Init => SlabInv
  BY DEF Init, SlabInv, SlabConserved, HasFrame, ActiveJob, Range

(* Releasing the slots of frames that go away keeps the slab conserved if   *)
(* every other frame stays.                                                 *)
LEMMA ReleaseKeepsSlab ==
  ASSUME TypeOK, SlabConserved, NEW S \in SUBSET Msgs, ReleaseSlots(S),
         \A m \in Msgs \ S : HasFrame(m) => HasFrame(m)'
  PROVE  SlabConserved'
<1>0. NoSlot \notin Slots
  BY DEF Slots, NoSlot
<1>1. /\ \A m \in Msgs : slot'[m] = IF m \in S THEN NoSlot ELSE slot[m]
      /\ free' = (free \cup {slot[m] : m \in S}) \ {NoSlot}
  BY DEF ReleaseSlots
<1>2. ASSUME NEW m \in Msgs, slot'[m] # NoSlot PROVE HasFrame(m)' /\ slot'[m] \notin free'
  BY <1>1, <1>2 DEF SlabConserved
<1>3. ASSUME NEW m \in Msgs, NEW n \in Msgs, slot'[m] = slot'[n], slot'[m] # NoSlot
      PROVE  m = n
  BY <1>1, <1>3 DEF SlabConserved
<1>4. ASSUME NEW s \in Slots PROVE s \in free' \/ \E m \in Msgs : slot'[m] = s
  BY <1>0, <1>1, <1>4 DEF SlabConserved
<1> QED BY <1>2, <1>3, <1>4 DEF SlabConserved

(* Admitting a frame that had none takes a slot nobody has. *)
LEMMA AdmitKeepsSlab ==
  ASSUME TypeOK, SlabConserved, NEW m \in Msgs, slot[m] = NoSlot,
         \E s \in AdmitSlots(m) : Admit(m, s),
         HasFrame(m)', \A n \in Msgs : HasFrame(n) => HasFrame(n)'
  PROVE  SlabConserved'
<1>1. PICK s \in AdmitSlots(m) : Admit(m, s)
  OBVIOUS
<1>2. s = NoSlot \/ s \in free
  BY <1>1 DEF AdmitSlots
<1>3. NoSlot \notin Slots /\ free \subseteq Slots
  BY DEF Slots, NoSlot, TypeOK
<1>4. /\ slot'[m] = s /\ \A n \in Msgs \ {m} : slot'[n] = slot[n]
      /\ free' = free \ {s}
  BY <1>1 DEF Admit, TypeOK
<1>5. ASSUME NEW n \in Msgs, slot'[n] # NoSlot PROVE HasFrame(n)' /\ slot'[n] \notin free'
  BY <1>4, <1>5 DEF SlabConserved
<1>6. ASSUME NEW k \in Msgs, NEW n \in Msgs, slot'[k] = slot'[n], slot'[k] # NoSlot
      PROVE  k = n
  BY <1>2, <1>4, <1>6 DEF SlabConserved
<1>7. ASSUME NEW r \in Slots PROVE r \in free' \/ \E n \in Msgs : slot'[n] = r
  BY <1>3, <1>4, <1>7 DEF SlabConserved
<1> QED BY <1>5, <1>6, <1>7 DEF SlabConserved

(* A step that moves frames about without touching the slab. *)
LEMMA MoveKeepsSlab ==
  ASSUME SlabConserved, UNCHANGED <<slot, free>>,
         \A m \in Msgs : HasFrame(m) => HasFrame(m)'
  PROVE  SlabConserved'
  BY DEF SlabConserved

(* Every step keeps each slot free or with exactly one frame. *)
LEMMA NextSlabInv == TypeOK /\ SlabInv /\ [Next]_vars => SlabInv'
<1> SUFFICES ASSUME TypeOK, SlabInv, [Next]_vars PROVE SlabInv'
  OBVIOUS
<1> USE DEF callerVars, boxVars, jobVars, loopVars, rtVars, SlabInv
<1>1. ASSUME NEW m \in Msgs, Enqueue(m) PROVE SlabInv'
  <2>1. Range(queue') = Range(queue) \cup {m}
    BY <1>1, PushFacts DEF Enqueue, TypeOK
  <2>2. UNCHANGED <<waiters, job, slot, free>> /\ pc'[m] # "idle"
        /\ \A n \in Msgs \ {m} : pc'[n] = pc[n]
    BY <1>1 DEF Enqueue, SendReturnsOk, TypeOK
  <2>3. /\ HasFrame(m)' /\ \A n \in Msgs \ {m} : HasFrame(n)' = HasFrame(n)
    BY <2>1, <2>2 DEF HasFrame, ActiveJob
  <2> QED BY <2>2, <2>3, MoveKeepsSlab
<1>2. ASSUME NEW m \in Msgs, BlockOnFull(m) PROVE SlabInv'
  <2>1. Range(waiters') = Range(waiters) \cup {m}
    BY <1>2, PushFacts DEF BlockOnFull, TypeOK
  <2>2. UNCHANGED <<queue, job, slot, free>> /\ pc'[m] # "idle"
        /\ \A n \in Msgs \ {m} : pc'[n] = pc[n]
    BY <1>2 DEF BlockOnFull, TypeOK
  <2>3. /\ HasFrame(m)' /\ \A n \in Msgs \ {m} : HasFrame(n)' = HasFrame(n)
    BY <2>1, <2>2 DEF HasFrame, ActiveJob
  <2> QED BY <2>2, <2>3, MoveKeepsSlab
<1>3. ASSUME NEW m \in Msgs, ReplyArrives(m) \/ DeadlineExpires(m)
      PROVE  SlabInv'
  <2>1. /\ UNCHANGED <<queue, waiters, slot, free, job>>
        /\ \A n \in Msgs : /\ pc'[n] = "idle" => pc[n] = "idle"
                           /\ (pc'[n] = "admitted") = (pc[n] = "admitted")
    BY <1>3 DEF ReplyArrives, DeadlineExpires, TypeOK
  <2>2. \A n \in Msgs : HasFrame(n)' = HasFrame(n)
    BY <2>1 DEF HasFrame, ActiveJob
  <2> QED BY <2>1, <2>2, MoveKeepsSlab
<1>4. ASSUME NEW m \in Msgs, Unblock(m) PROVE SlabInv'
  <2>1. Range(queue') = Range(queue) \cup {m}
    BY <1>4, PushFacts DEF Unblock, TypeOK
  <2>2. Range(waiters) = Range(waiters') \cup {m}
    BY <1>4, WaiterLeaves
  <2>3. UNCHANGED <<slot, free, job>> /\ pc'[m] # "idle"
        /\ \A n \in Msgs \ {m} : pc'[n] = pc[n]
    BY <1>4 DEF Unblock, SendReturnsOk, TypeOK
  <2>4. HasFrame(m)' /\ \A n \in Msgs \ {m} : HasFrame(n)' = HasFrame(n)
    BY <2>1, <2>2, <2>3 DEF HasFrame, ActiveJob
  <2> QED BY <2>3, <2>4, MoveKeepsSlab
<1>5. ASSUME NEW m \in Msgs, UnblockClosed(m) PROVE SlabInv'
  <2>1. Range(waiters) = Range(waiters') \cup {m}
    BY <1>5, WaiterLeaves
  <2>2. UNCHANGED <<queue, job>> /\ pc'[m] # "idle"
        /\ \A n \in Msgs \ {m} : pc'[n] = pc[n]
    BY <1>5 DEF UnblockClosed, SendReturnsErr, TypeOK
  <2>3. \A n \in Msgs \ {m} : HasFrame(n)' = HasFrame(n)
    BY <2>1, <2>2 DEF HasFrame, ActiveJob
  <2>4. SlabConserved'
    BY <1>5, <2>3, ReleaseKeepsSlab DEF UnblockClosed
  <2> QED BY <2>2, <2>3, <2>4
<1>6. ASSUME NEW m \in Msgs,
             JobStart(m) \/ JobRan(m) \/ JobStore(m) \/ JobReply(m)
      PROVE  SlabInv'
  <2>1. /\ ActiveJob(m) /\ ActiveJob(m)' /\ \A n \in Msgs \ {m} : job'[n] = job[n]
        /\ UNCHANGED <<pc, queue, waiters, slot, free>>
    BY <1>6 DEF JobStart, JobRan, JobStore, JobReply, TypeOK, ActiveJob
  <2>2. \A n \in Msgs : HasFrame(n)' = HasFrame(n)
    BY <2>1 DEF HasFrame, ActiveJob
  <2> QED BY <2>1, <2>2, MoveKeepsSlab
<1>7. ASSUME NEW m \in Msgs, JobReturn(m) \/ JobLost(m) PROVE SlabInv'
  <2>1. /\ ActiveJob(m) /\ \A n \in Msgs \ {m} : job'[n] = job[n]
        /\ UNCHANGED <<pc, queue, waiters>> /\ ReleaseSlots({m})
    BY <1>7 DEF JobReturn, JobLost, TypeOK, ActiveJob
  <2>2. \A n \in Msgs \ {m} : HasFrame(n)' = HasFrame(n)
    BY <2>1 DEF HasFrame, ActiveJob
  <2>3. SlabConserved'
    BY <2>1, <2>2, ReleaseKeepsSlab
  <2>4. pc[m] # "idle"
    BY <2>1 DEF HasFrame
  <2> QED BY <2>1, <2>2, <2>3, <2>4
<1>8. CASE Recv
  <2>1. Head(queue) \in Msgs /\ Range(queue) = Range(queue') \cup {Head(queue)}
    BY <1>8, TakeFacts DEF Recv, TypeOK
  <2>2. /\ job' = [job EXCEPT ![Head(queue)] = "queued"]
        /\ UNCHANGED <<pc, waiters, slot, free>>
    BY <1>8 DEF Recv
  <2>3. \A n \in Msgs : HasFrame(n) = HasFrame(n)'
    BY <2>1, <2>2 DEF HasFrame, ActiveJob, TypeOK
  <2> QED BY <2>2, <2>3, MoveKeepsSlab
<1>9. CASE LoopExit \/ LoopAborted
  <2>1. /\ UNCHANGED <<pc, waiters, job>> /\ ReleaseSlots(Range(queue))
        /\ queue' = << >>
    BY <1>9 DEF LoopExit, LoopAborted, DropReceiver
  <2>2. Range(queue) \in SUBSET Msgs /\ Range(queue') = {}
    BY <2>1 DEF TypeOK, Range
  <2>3. /\ \A n \in Msgs \ Range(queue) : HasFrame(n)' = HasFrame(n)
        /\ \A n \in Msgs : HasFrame(n)' => HasFrame(n)
    BY <2>1, <2>2 DEF HasFrame, ActiveJob
  <2>4. SlabConserved'
    BY <2>1, <2>2, <2>3, ReleaseKeepsSlab
  <2> QED BY <2>1, <2>3, <2>4
<1>10. CASE \/ TurnCancelled \/ TurnJoined \/ WallBudgetFires \/ Shutdown \/ AbortTasks
            \/ UNCHANGED vars
  <2>1. UNCHANGED <<pc, queue, waiters, slot, free, job>>
    BY <1>10 DEF TurnCancelled, TurnJoined, WallBudgetFires, Shutdown, AbortTasks, vars
  <2>2. \A n \in Msgs : HasFrame(n)' = HasFrame(n)
    BY <2>1 DEF HasFrame, ActiveJob
  <2> QED BY <2>1, <2>2, MoveKeepsSlab
<1>11. ASSUME NEW m \in Msgs, \E s \in AdmitSlots(m) : Admit(m, s) PROVE SlabInv'
  <2>1. UNCHANGED <<queue, waiters, job>> /\ pc[m] = "idle" /\ pc'[m] = "admitted"
        /\ \A n \in Msgs \ {m} : pc'[n] = pc[n]
    BY <1>11 DEF Admit, TypeOK
  <2>2. HasFrame(m)' /\ \A n \in Msgs \ {m} : HasFrame(n)' = HasFrame(n)
    BY <2>1 DEF HasFrame, ActiveJob
  <2>3. slot[m] = NoSlot
    BY <2>1 DEF SlabConserved
  <2>4. SlabConserved'
    BY <1>11, <2>2, <2>3, AdmitKeepsSlab
  <2> QED BY <2>1, <2>2, <2>4
<1>12. ASSUME NEW m \in Msgs, RejectFrame(m) PROVE SlabInv'
  <2>1. UNCHANGED <<queue, waiters, job>> /\ pc'[m] # "idle"
        /\ \A n \in Msgs \ {m} : pc'[n] = pc[n]
    BY <1>12 DEF RejectFrame, SendReturnsOk, SendReturnsErr, TypeOK
  <2>2. \A n \in Msgs \ {m} : HasFrame(n)' = HasFrame(n)
    BY <2>1 DEF HasFrame, ActiveJob
  <2>3. SlabConserved'
    BY <1>12, <2>2, ReleaseKeepsSlab DEF RejectFrame
  <2> QED BY <2>1, <2>2, <2>3
<1> QED
  BY <1>1, <1>2, <1>3, <1>4, <1>5, <1>6, <1>7, <1>8, <1>9, <1>10, <1>11, <1>12
  DEF Next, Caller, Offer, Job, Loop

(* mailbox.rs, slab_pool.rs: across blocked, refused, discarded, detached   *)
(* and panicked frames, every slab slot is free or with exactly one frame.  *)
THEOREM SlabNeverLeaks == Spec => []SlabConserved
<1>1. SlabInv => SlabConserved
  BY DEF SlabInv
<1> QED BY <1>1, InitSlabInv, NextSlabInv, TypeCorrect, PTL DEF Spec

-----------------------------------------------------------------------------
(* The promise to the callers is kept. *)

(* A message has at most one frame, and one that has not been sent, or is   *)
(* not yet received, has not been worked on.                                *)
OneFrame ==
  /\ IsInjective(queue) /\ IsInjective(waiters)
  /\ \A m \in Range(waiters) : pc[m] = "blocked"
  /\ \A m \in Range(queue) : pc[m] \notin {"idle", "admitted", "blocked"} /\ job[m] = "none"
  /\ \A m \in Msgs : pc[m] \in {"idle", "admitted", "blocked"} => job[m] = "none"

(* No handler of m has stored its effect, and none ever will. *)
Barred(m) ==
  /\ m \notin Range(state) /\ m \notin Range(queue)
  /\ pc[m] \notin {"idle", "admitted", "blocked"}
  /\ \/ job[m] \in {"none", "lost"}
     \/ job[m] \in {"ran", "replied", "finished"} /\ res[m] = "error"

(* Only a good turn stores, and a message whose effect is there has its     *)
(* handler behind it.                                                       *)
StoredOnce ==
  \A m \in Msgs :
    /\ m \in Range(state) => job[m] \in {"stored", "replied", "finished"}
    /\ job[m] = "stored" => res[m] = "ok"

(* Who waits for what. *)
CallersWait ==
  \A m \in Msgs :
    /\ chan[m] = "none" <=> m \notin Asks
    /\ pc[m] # "done" => out[m] = "none"
    /\ pc[m] = "waiting" => m \in Asks

(* An answer that promises no effect is given to barred messages only. *)
RefusalIsFinal ==
  \A m \in Msgs :
    chan[m] \in Promise!NoEffect \/ out[m] \in Promise!NoEffect => Barred(m)

PromiseInv == OneFrame /\ StoredOnce /\ CallersWait /\ RefusalIsFinal

(* A fresh agent has promised nothing. *)
LEMMA InitPromiseInv == Init => PromiseInv
<1> SUFFICES ASSUME Init PROVE PromiseInv
  OBVIOUS
<1>1. Range(queue) = {} /\ Range(waiters) = {} /\ Range(state) = {}
  BY DEF Init, Range
<1>2. IsInjective(queue) /\ IsInjective(waiters)
  BY DEF Init, IsInjective
<1> QED BY <1>1, <1>2 DEF Init, PromiseInv, OneFrame, StoredOnce, CallersWait,
                          RefusalIsFinal, Promise!NoEffect

(* A waiting sender leaves for good. *)
LEMMA WaiterLeavesOnce ==
  ASSUME TypeOK, OneFrame, NEW m \in Msgs, Unblock(m) \/ UnblockClosed(m)
  PROVE  /\ IsInjective(waiters') /\ pc[m] = "blocked"
         /\ Range(waiters') = Range(waiters) \ {m}
<1>1. PICK i \in 1 .. Len(waiters) :
        /\ waiters[i] = m
        /\ waiters' = SubSeq(waiters, 1, i - 1)
                        \o SubSeq(waiters, i + 1, Len(waiters))
  BY DEF Unblock, UnblockClosed
<1>2. waiters \in Seq(Msgs) /\ IsInjective(waiters)
  BY DEF TypeOK, OneFrame
<1>3. /\ IsInjective(waiters') /\ m \notin Range(waiters')
      /\ Range(waiters) = Range(waiters') \cup {m}
  BY <1>1, <1>2, RemoveFacts
<1> QED BY <1>3 DEF OneFrame

(* No step makes a second frame of a message. *)
LEMMA NextOneFrame == TypeOK /\ OneFrame /\ [Next]_vars => OneFrame'
<1> SUFFICES ASSUME TypeOK, OneFrame, [Next]_vars PROVE OneFrame'
  OBVIOUS
<1> USE DEF callerVars, boxVars, jobVars, loopVars, rtVars
<1>0. Range(queue) \subseteq Msgs /\ Range(waiters) \subseteq Msgs
  BY DEF TypeOK, Range
<1>1. ASSUME NEW m \in Msgs, Enqueue(m) PROVE OneFrame'
  <2>1. m \notin Range(queue) /\ m \notin Range(waiters) /\ job[m] = "none"
    BY <1>1 DEF Enqueue, OneFrame
  <2>2. Range(queue') = Range(queue) \cup {m} /\ IsInjective(queue')
    BY <1>1, <2>1, PushFacts DEF Enqueue, TypeOK, OneFrame
  <2>3. /\ UNCHANGED <<waiters, job>> /\ pc'[m] \in {"waiting", "done"}
        /\ \A n \in Msgs \ {m} : pc'[n] = pc[n]
    BY <1>1 DEF Enqueue, SendReturnsOk, TypeOK
  <2> QED BY <1>0, <2>1, <2>2, <2>3 DEF OneFrame
<1>2. ASSUME NEW m \in Msgs, BlockOnFull(m) PROVE OneFrame'
  <2>1. m \notin Range(queue) /\ m \notin Range(waiters) /\ job[m] = "none"
    BY <1>2 DEF BlockOnFull, OneFrame
  <2>2. Range(waiters') = Range(waiters) \cup {m} /\ IsInjective(waiters')
    BY <1>2, <2>1, PushFacts DEF BlockOnFull, TypeOK, OneFrame
  <2>3. UNCHANGED <<queue, job>> /\ pc' = [pc EXCEPT ![m] = "blocked"]
    BY <1>2 DEF BlockOnFull
  <2> QED BY <1>0, <2>1, <2>2, <2>3 DEF OneFrame, TypeOK
<1>3. ASSUME NEW m \in Msgs, RejectFrame(m) \/ ReplyArrives(m) \/ DeadlineExpires(m)
      PROVE  OneFrame'
  <2>1. /\ UNCHANGED <<queue, waiters, job>> /\ pc'[m] \in {"waiting", "done"}
        /\ pc[m] # "blocked" /\ \A n \in Msgs \ {m} : pc'[n] = pc[n]
    BY <1>3 DEF RejectFrame, SendReturnsOk, SendReturnsErr, ReplyArrives,
                DeadlineExpires, TypeOK
  <2> QED BY <1>0, <2>1 DEF OneFrame
<1>4. ASSUME NEW m \in Msgs, Unblock(m) PROVE OneFrame'
  <2>1. /\ IsInjective(waiters') /\ pc[m] = "blocked"
        /\ Range(waiters') = Range(waiters) \ {m}
    BY <1>4, WaiterLeavesOnce
  <2>2. m \notin Range(queue) /\ job[m] = "none"
    BY <2>1 DEF OneFrame
  <2>3. Range(queue') = Range(queue) \cup {m} /\ IsInjective(queue')
    BY <1>4, <2>2, PushFacts DEF Unblock, TypeOK, OneFrame
  <2>4. /\ UNCHANGED job /\ pc'[m] \in {"waiting", "done"}
        /\ \A n \in Msgs \ {m} : pc'[n] = pc[n]
    BY <1>4 DEF Unblock, SendReturnsOk, TypeOK
  <2> QED BY <1>0, <2>1, <2>2, <2>3, <2>4 DEF OneFrame
<1>5. ASSUME NEW m \in Msgs, UnblockClosed(m) PROVE OneFrame'
  <2>1. /\ IsInjective(waiters') /\ pc[m] = "blocked"
        /\ Range(waiters') = Range(waiters) \ {m}
    BY <1>5, WaiterLeavesOnce
  <2>2. /\ UNCHANGED <<queue, job>> /\ pc'[m] = "done"
        /\ \A n \in Msgs \ {m} : pc'[n] = pc[n]
    BY <1>5 DEF UnblockClosed, SendReturnsErr, TypeOK
  <2> QED BY <1>0, <2>1, <2>2 DEF OneFrame
<1>6. ASSUME NEW m \in Msgs, Job(m) PROVE OneFrame'
  <2>1. /\ UNCHANGED <<pc, queue, waiters>> /\ job[m] # "none"
        /\ \A n \in Msgs \ {m} : job'[n] = job[n]
    BY <1>6 DEF Job, JobStart, JobRan, JobStore, JobReply, JobReturn, JobLost, TypeOK
  <2> QED BY <1>0, <2>1 DEF OneFrame
<1>7. CASE Recv
  <2>1. /\ Head(queue) \in Msgs /\ Range(queue) = Range(queue') \cup {Head(queue)}
        /\ IsInjective(queue') /\ Head(queue) \notin Range(queue')
    BY <1>7, TakeFacts DEF Recv, TypeOK, OneFrame
  <2>2. /\ job' = [job EXCEPT ![Head(queue)] = "queued"]
        /\ UNCHANGED <<pc, waiters>>
    BY <1>7 DEF Recv
  <2> QED BY <1>0, <2>1, <2>2 DEF OneFrame, TypeOK
<1>8. CASE LoopExit \/ LoopAborted
  <2>1. UNCHANGED <<pc, waiters, job>> /\ queue' = << >>
    BY <1>8 DEF LoopExit, LoopAborted, DropReceiver
  <2>2. Range(queue') = {} /\ IsInjective(queue')
    BY <2>1 DEF Range, IsInjective
  <2> QED BY <2>1, <2>2 DEF OneFrame
<1>9. CASE \/ TurnCancelled \/ TurnJoined \/ WallBudgetFires \/ Shutdown \/ AbortTasks
           \/ UNCHANGED vars
  <2>1. UNCHANGED <<pc, queue, waiters, job>>
    BY <1>9 DEF TurnCancelled, TurnJoined, WallBudgetFires, Shutdown, AbortTasks, vars
  <2> QED BY <2>1 DEF OneFrame
<1>10. ASSUME NEW m \in Msgs, \E s \in AdmitSlots(m) : Admit(m, s) PROVE OneFrame'
  <2>1. /\ UNCHANGED <<queue, waiters, job>> /\ pc[m] = "idle" /\ pc'[m] = "admitted"
        /\ \A n \in Msgs \ {m} : pc'[n] = pc[n]
    BY <1>10 DEF Admit, TypeOK
  <2> QED BY <1>0, <2>1 DEF OneFrame
<1> QED
  BY <1>1, <1>2, <1>3, <1>4, <1>5, <1>6, <1>7, <1>8, <1>9, <1>10
  DEF Next, Caller, Offer, Job, Loop

(* The effects only grow, and only by a turn that stores. *)
LEMMA EffectsGrow ==
  ASSUME TypeOK, EffectInv, [Next]_vars
  PROVE  \/ Range(state') = Range(state)
         \/ \E m \in Msgs : JobStore(m) /\ Range(state') = Range(state) \cup {m}
<1> USE DEF callerVars, boxVars, jobVars, loopVars, rtVars
<1>1. ASSUME NEW m \in Msgs, JobStore(m) PROVE Range(state') = Range(state) \cup {m}
  <2>1. state' = Append(state, m)
    BY <1>1 DEF JobStore, EffectInv
  <2> QED BY <2>1, PushFacts DEF TypeOK
<1>2. ASSUME NEW m \in Msgs, Caller(m) PROVE UNCHANGED state
  BY <1>2 DEF Caller, Offer, Admit, Enqueue, BlockOnFull, RejectFrame, Unblock, UnblockClosed,
              ReplyArrives, DeadlineExpires
<1>3. ASSUME NEW m \in Msgs, Job(m), ~JobStore(m) PROVE UNCHANGED state
  BY <1>3 DEF Job, JobStart, JobRan, JobReply, JobReturn, JobLost
<1>4. CASE Loop
  BY <1>4 DEF Loop, Recv, TurnCancelled, TurnJoined, LoopExit, LoopAborted
<1>5. CASE WallBudgetFires \/ Shutdown \/ AbortTasks \/ UNCHANGED vars
  BY <1>5 DEF WallBudgetFires, Shutdown, AbortTasks, vars
<1> QED BY <1>1, <1>2, <1>3, <1>4, <1>5 DEF Next

(* Every step keeps effects behind good turns. *)
LEMMA NextStoredOnce ==
  TypeOK /\ EffectInv /\ OneFrame /\ StoredOnce /\ [Next]_vars => StoredOnce'
<1> SUFFICES ASSUME TypeOK, EffectInv, OneFrame, StoredOnce, [Next]_vars
             PROVE  StoredOnce'
  OBVIOUS
<1> USE DEF callerVars, boxVars, jobVars, loopVars, rtVars
<1>1. ASSUME NEW m \in Msgs, JobStore(m) PROVE StoredOnce'
  <2>1. Range(state') = Range(state) \cup {m}
    <3>1. state' = Append(state, m)
      BY <1>1 DEF JobStore, EffectInv
    <3> QED BY <3>1, PushFacts DEF TypeOK
  <2>2. /\ res[m] = "ok" /\ job' = [job EXCEPT ![m] = "stored"] /\ UNCHANGED res
    BY <1>1 DEF JobStore
  <2> QED BY <2>1, <2>2 DEF StoredOnce, TypeOK
<1>2. ASSUME NEW m \in Msgs, JobStart(m) \/ JobRan(m) \/ JobReply(m) \/ JobReturn(m)
                             \/ JobLost(m)
      PROVE  StoredOnce'
  <2>1. /\ UNCHANGED state
        /\ \A n \in Msgs \ {m} : job'[n] = job[n] /\ res'[n] = res[n]
    BY <1>2 DEF JobStart, JobRan, JobReply, JobReturn, JobLost, TypeOK
  <2>2. /\ job[m] \in {"stored", "replied"} => job'[m] \in {"replied", "finished"}
        /\ job[m] \in {"queued", "running", "ran", "stored", "replied"}
        /\ job'[m] # "stored"
    BY <1>2 DEF JobStart, JobRan, JobReply, JobReturn, JobLost, TypeOK
  <2> QED BY <2>1, <2>2 DEF StoredOnce
<1>3. CASE Recv
  <2>1. Head(queue) \in Range(queue) /\ Head(queue) \in Msgs
    BY <1>3, TakeFacts DEF Recv, TypeOK
  <2>2. Head(queue) \notin Range(state)
    BY <2>1 DEF OneFrame, StoredOnce
  <2>3. job' = [job EXCEPT ![Head(queue)] = "queued"] /\ UNCHANGED <<res, state>>
    BY <1>3 DEF Recv
  <2> QED BY <2>1, <2>2, <2>3 DEF StoredOnce, TypeOK
<1>4. CASE \/ \E m \in Msgs : Caller(m)
           \/ TurnCancelled \/ TurnJoined \/ LoopExit \/ LoopAborted
           \/ WallBudgetFires \/ Shutdown \/ AbortTasks \/ UNCHANGED vars
  <2>1. UNCHANGED <<state, job, res>>
    BY <1>4 DEF Caller, Offer, Admit, Enqueue, BlockOnFull, RejectFrame, Unblock, UnblockClosed,
                ReplyArrives, DeadlineExpires, TurnCancelled, TurnJoined, LoopExit,
                LoopAborted, WallBudgetFires, Shutdown, AbortTasks, vars
  <2> QED BY <2>1 DEF StoredOnce
<1> QED BY <1>1, <1>2, <1>3, <1>4 DEF Next, Job, Loop

(* What a step does to the reply channels: taking one sends into it if it   *)
(* is open, dropping some closes the open ones.                             *)
LEMMA ReplyFacts ==
  ASSUME TypeOK, NEW m \in Msgs, chan'[m] # chan[m]
  PROVE  /\ \A n, v : TakeReply(n, v) => n = m /\ chan'[m] = v
         /\ \A S : DropReplies(S) => m \in S /\ chan'[m] = "closed"
  BY DEF TypeOK, TakeReply, DropReplies

(* A step sends replies into channels that exist. *)
LEMMA NextChannels ==
  ASSUME TypeOK, StoredOnce, [Next]_vars, NEW m \in Msgs
  PROVE  chan'[m] = "none" <=> chan[m] = "none"
<1> USE DEF callerVars, boxVars, jobVars, loopVars, rtVars
<1>1. ASSUME NEW n, NEW v \in Replies, TakeReply(n, v)
      PROVE  chan'[m] = "none" <=> chan[m] = "none"
  BY <1>1 DEF TakeReply, TypeOK, Replies
<1>2. ASSUME NEW S, DropReplies(S) PROVE chan'[m] = "none" <=> chan[m] = "none"
  BY <1>2 DEF DropReplies, TypeOK
<1>3. ASSUME NEW n \in Msgs, Caller(n) PROVE chan'[m] = "none" <=> chan[m] = "none"
  BY <1>2, <1>3 DEF Caller, Offer, Admit, Enqueue, BlockOnFull, RejectFrame, Unblock, UnblockClosed,
                    ReplyArrives, DeadlineExpires
<1>4. ASSUME NEW n \in Msgs, Job(n) PROVE chan'[m] = "none" <=> chan[m] = "none"
  <2>1. CASE JobReply(n)
    BY <2>1 DEF JobReply, TakeReply, TypeOK, StoredOnce
  <2>2. CASE ~JobReply(n)
    BY <1>1, <1>2, <1>4, <2>2
    DEF Job, JobStart, JobRan, JobStore, JobReturn, JobLost, Replies
  <2> QED BY <2>1, <2>2
<1>5. CASE Loop
  BY <1>1, <1>2, <1>5 DEF Loop, Recv, TurnCancelled, TurnJoined, LoopExit, LoopAborted,
                          Replies
<1>6. CASE WallBudgetFires \/ Shutdown \/ AbortTasks \/ UNCHANGED vars
  BY <1>6 DEF WallBudgetFires, Shutdown, AbortTasks, vars
<1> QED BY <1>3, <1>4, <1>5, <1>6 DEF Next

(* Every step keeps unfinished calls unanswered. *)
LEMMA NextCallersWait ==
  TypeOK /\ StoredOnce /\ CallersWait /\ [Next]_vars => CallersWait'
<1> SUFFICES ASSUME TypeOK, StoredOnce, CallersWait, [Next]_vars PROVE CallersWait'
  OBVIOUS
<1> USE DEF callerVars, boxVars, jobVars, loopVars, rtVars
<1>1. \A m \in Msgs : chan'[m] = "none" <=> m \notin Asks
  BY NextChannels DEF CallersWait
<1>2. ASSUME NEW m \in Msgs, Caller(m)
      PROVE  \A n \in Msgs : /\ pc'[n] # "done" => out'[n] = "none"
                             /\ pc'[n] = "waiting" => n \in Asks
  <2>1. \/ /\ pc' = [pc EXCEPT ![m] = "done"] /\ \E a : out' = [out EXCEPT ![m] = a]
        \/ /\ m \in Asks /\ pc' = [pc EXCEPT ![m] = "waiting"]
           /\ out' = [out EXCEPT ![m] = "none"]
        \/ /\ pc[m] \in {"idle", "admitted"} /\ out' = out
           /\ \E p \in {"admitted", "blocked"} : pc' = [pc EXCEPT ![m] = p]
    <3>1. CASE Enqueue(m) \/ Unblock(m)
      BY <3>1 DEF Enqueue, Unblock, SendReturnsOk
    <3>2. CASE RejectFrame(m)
      BY <3>2 DEF RejectFrame, SendReturnsOk, SendReturnsErr
    <3>3. CASE BlockOnFull(m) \/ UnblockClosed(m) \/ ReplyArrives(m) \/ DeadlineExpires(m)
      BY <3>3 DEF BlockOnFull, UnblockClosed, ReplyArrives, DeadlineExpires, SendReturnsErr
    <3>4. CASE \E s \in AdmitSlots(m) : Admit(m, s)
      BY <3>4 DEF Admit
    <3> QED BY <1>2, <3>1, <3>2, <3>3, <3>4 DEF Caller, Offer
  <2>2. \A n \in Msgs \ {m} : pc'[n] = pc[n] /\ out'[n] = out[n]
    BY <2>1 DEF TypeOK
  <2>3. \/ pc'[m] = "done"
        \/ pc'[m] = "waiting" /\ m \in Asks /\ out'[m] = "none"
        \/ /\ pc[m] \in {"idle", "admitted"} /\ pc'[m] \in {"admitted", "blocked"}
           /\ out'[m] = out[m]
    BY <2>1 DEF TypeOK
  <2> QED BY <2>2, <2>3 DEF CallersWait
<1>3. CASE ~\E m \in Msgs : Caller(m)
  <2>1. UNCHANGED <<pc, out>>
    BY <1>3 DEF Next, Job, JobStart, JobRan, JobStore, JobReply, JobReturn, JobLost,
                Loop, Recv, TurnCancelled, TurnJoined, LoopExit, LoopAborted,
                WallBudgetFires, Shutdown, AbortTasks, vars
  <2> QED BY <1>1, <2>1 DEF CallersWait
<1> QED BY <1>1, <1>2, <1>3 DEF CallersWait

(* A barred message stays barred. *)
LEMMA BarredStays ==
  ASSUME TypeOK, EffectInv, OneFrame, [Next]_vars, NEW m \in Msgs, Barred(m)
  PROVE  Barred(m)'
<1> USE DEF callerVars, boxVars, jobVars, loopVars, rtVars
<1>0. m \notin Range(waiters)
  BY DEF OneFrame, Barred
<1>1. m \notin Range(state')
  <2>1. ASSUME JobStore(m) PROVE FALSE
    BY <2>1 DEF JobStore, Barred
  <2> QED BY <2>1, EffectsGrow DEF Barred
<1>2. ASSUME NEW n \in Msgs, Caller(n)
      PROVE  /\ UNCHANGED <<job, res>> /\ m \notin Range(queue')
             /\ pc'[m] \notin {"idle", "admitted", "blocked"}
  <2>1. UNCHANGED <<job, res>>
    BY <1>2 DEF Caller, Offer, Admit, Enqueue, BlockOnFull, RejectFrame, Unblock, UnblockClosed,
                ReplyArrives, DeadlineExpires
  <2>2. pc'[m] \notin {"idle", "admitted", "blocked"}
    BY <1>2 DEF Caller, Offer, Admit, Enqueue, BlockOnFull, RejectFrame, Unblock, UnblockClosed,
                ReplyArrives, DeadlineExpires, SendReturnsOk, SendReturnsErr, TypeOK,
                Barred
  <2>3. CASE Enqueue(n) \/ Unblock(n)
    <3>0. queue' = Append(queue, n) /\ queue \in Seq(Msgs)
      BY <2>3 DEF Enqueue, Unblock, TypeOK
    <3>1. Range(queue') = Range(queue) \cup {n}
      BY <3>0, PushFacts
    <3>2. n # m
      BY <1>0, <2>3, WaiterLeaves DEF Enqueue, Barred
    <3> QED BY <2>1, <2>2, <3>1, <3>2 DEF Barred
  <2>4. CASE ~(Enqueue(n) \/ Unblock(n))
    <3>1. UNCHANGED queue
      BY <1>2, <2>4 DEF Caller, Offer, Admit, BlockOnFull, RejectFrame, UnblockClosed, ReplyArrives,
                        DeadlineExpires
    <3> QED BY <2>1, <2>2, <3>1 DEF Barred
  <2> QED BY <2>3, <2>4
<1>3. ASSUME NEW n \in Msgs, Job(n)
      PROVE  /\ UNCHANGED <<pc, queue>>
             /\ \/ job'[m] \in {"none", "lost"}
                \/ job'[m] \in {"ran", "replied", "finished"} /\ res'[m] = "error"
  BY <1>3 DEF Job, JobStart, JobRan, JobStore, JobReply, JobReturn, JobLost, TypeOK,
              Barred
<1>4. CASE Recv
  <2>1. Head(queue) \in Msgs /\ Range(queue) = Range(queue') \cup {Head(queue)}
    BY <1>4, TakeFacts DEF Recv, TypeOK
  <2>2. job'[m] = job[m] /\ UNCHANGED <<pc, res>>
    BY <1>4, <2>1 DEF Recv, TypeOK, Barred
  <2> QED BY <1>1, <2>1, <2>2 DEF Barred
<1>5. CASE LoopExit \/ LoopAborted
  <2>1. UNCHANGED <<pc, job, res>> /\ queue' = << >>
    BY <1>5 DEF LoopExit, LoopAborted, DropReceiver
  <2>2. Range(queue') = {}
    BY <2>1 DEF Range
  <2> QED BY <1>1, <2>1, <2>2 DEF Barred
<1>6. CASE \/ TurnCancelled \/ TurnJoined \/ WallBudgetFires \/ Shutdown \/ AbortTasks
           \/ UNCHANGED vars
  <2>1. UNCHANGED <<pc, queue, job, res>>
    BY <1>6 DEF TurnCancelled, TurnJoined, WallBudgetFires, Shutdown, AbortTasks, vars
  <2> QED BY <1>1, <2>1 DEF Barred
<1>7. CASE \E n \in Msgs : Caller(n) \/ Job(n)
  BY <1>1, <1>2, <1>3, <1>7 DEF Barred
<1> QED BY <1>4, <1>5, <1>6, <1>7 DEF Next, Loop

(* A reply that promises no effect is only sent to a barred message. *)
LEMMA RefusedIsBarred ==
  ASSUME TypeOK, TurnInv, EffectInv, PromiseInv, [Next]_vars, NEW m \in Msgs,
         chan'[m] \in Promise!NoEffect, chan'[m] # chan[m]
  PROVE  Barred(m)'
<1> USE DEF callerVars, boxVars, jobVars, loopVars, rtVars
<1>1. ASSUME NEW n \in Msgs, RejectFrame(n) \/ UnblockClosed(n) PROVE Barred(m)'
  <2>1. n = m
    BY <1>1, ReplyFacts DEF RejectFrame, UnblockClosed
  <2>2. pc[m] \in {"idle", "admitted", "blocked"}
    BY <1>1, <2>1, WaiterLeavesOnce DEF RejectFrame, PromiseInv
  <2>3. job[m] = "none" /\ m \notin Range(queue) /\ m \notin Range(state)
    BY <2>2 DEF PromiseInv, OneFrame, StoredOnce
  <2>4. /\ UNCHANGED <<queue, state, job>> /\ pc'[m] \in {"waiting", "done"}
    BY <1>1, <2>1 DEF RejectFrame, UnblockClosed, SendReturnsOk, SendReturnsErr, TypeOK
  <2> QED BY <2>3, <2>4 DEF Barred
<1>2. ASSUME NEW n \in Msgs, JobStart(n) PROVE Barred(m)'
  <2>1. m \in Unhandled /\ n = m
    BY <1>2, ReplyFacts DEF JobStart
  <2>2. /\ job[m] = "queued" /\ UNCHANGED <<pc, queue, state>>
        /\ job'[m] = "replied" /\ res'[m] = "error"
    BY <1>2, <2>1 DEF JobStart, TypeOK
  <2> QED BY <2>2 DEF PromiseInv, OneFrame, StoredOnce, Barred
<1>3. ASSUME NEW n \in Msgs, JobReply(n) PROVE Barred(m)'
  <2>1. n = m /\ chan'[m] = res[m]
    BY <1>3, ReplyFacts DEF JobReply
  <2>2. res[m] = "error"
    BY <2>1 DEF TypeOK, Promise!NoEffect
  <2>3. job[m] = "ran"
    BY <1>3, <2>1, <2>2 DEF JobReply, PromiseInv, StoredOnce
  <2>4. UNCHANGED <<pc, queue, state, res>> /\ job'[m] = "replied"
    BY <1>3, <2>1 DEF JobReply, TypeOK
  <2> QED BY <2>2, <2>3, <2>4 DEF PromiseInv, OneFrame, StoredOnce, Barred
<1>4. ASSUME NEW n \in Msgs, JobLost(n) PROVE Barred(m)'
  <2>1. n = m
    BY <1>4, ReplyFacts DEF JobLost
  <2>2. /\ UNCHANGED <<pc, queue, state>> /\ job'[m] = "lost"
        /\ job[m] \in {"queued", "running"}
    BY <1>4, <2>1 DEF JobLost, TypeOK
  <2> QED BY <2>2 DEF PromiseInv, OneFrame, StoredOnce, Barred
<1>5. CASE TurnCancelled
  BY <1>5, ReplyFacts DEF TurnCancelled, Promise!NoEffect
<1>6. CASE TurnJoined
  <2>1. m = turn /\ job[m] = "lost" /\ UNCHANGED <<pc, queue, state, job>>
    BY <1>6, ReplyFacts DEF TurnJoined
  <2> QED BY <2>1 DEF PromiseInv, OneFrame, StoredOnce, Barred
<1>7. CASE LoopExit \/ LoopAborted
  <2>1. UNCHANGED <<pc, state, job>> /\ queue' = << >>
    BY <1>7 DEF LoopExit, LoopAborted, DropReceiver
  <2>2. Range(queue') = {}
    BY <2>1 DEF Range
  <2>3. m \in Range(queue) \/ job[m] = "lost"
    BY <1>7, ReplyFacts DEF LoopExit, LoopAborted
  <2> QED BY <2>1, <2>2, <2>3 DEF PromiseInv, OneFrame, StoredOnce, Barred
<1>8. ASSUME \/ \E n \in Msgs : \/ \E s \in AdmitSlots(n) : Admit(n, s)
                                \/ Enqueue(n) \/ BlockOnFull(n) \/ Unblock(n)
                                \/ ReplyArrives(n) \/ DeadlineExpires(n)
                                \/ JobRan(n) \/ JobStore(n) \/ JobReturn(n)
             \/ Recv \/ WallBudgetFires \/ Shutdown \/ AbortTasks \/ UNCHANGED vars
      PROVE  FALSE
  BY <1>8 DEF Admit, Enqueue, BlockOnFull, Unblock, ReplyArrives, DeadlineExpires, JobRan,
              JobStore, JobReturn, Recv, WallBudgetFires, Shutdown, AbortTasks, vars
<1> QED BY <1>1, <1>2, <1>3, <1>4, <1>5, <1>6, <1>7, <1>8
        DEF Next, Caller, Offer, Job, Loop

(* Every step keeps refusals final. *)
LEMMA NextPromiseInv ==
  TypeOK /\ TurnInv /\ EffectInv /\ PromiseInv /\ [Next]_vars => PromiseInv'
<1> SUFFICES ASSUME TypeOK, TurnInv, EffectInv, PromiseInv, [Next]_vars
             PROVE  PromiseInv'
  OBVIOUS
<1> USE DEF callerVars, boxVars, jobVars, loopVars, rtVars
<1>1. OneFrame' /\ StoredOnce' /\ CallersWait'
  BY NextOneFrame, NextStoredOnce, NextCallersWait DEF PromiseInv
<1>2. ASSUME NEW m \in Msgs, chan'[m] \in Promise!NoEffect PROVE Barred(m)'
  BY <1>2, BarredStays, RefusedIsBarred DEF PromiseInv, RefusalIsFinal
<1>3. ASSUME NEW m \in Msgs, out'[m] \in Promise!NoEffect PROVE Barred(m)'
  <2>1. CASE out'[m] = out[m]
    BY <1>3, <2>1, BarredStays DEF PromiseInv, RefusalIsFinal
  <2>2. CASE out'[m] # out[m]
    <3>1. PICK n \in Msgs : Caller(n)
      BY <2>2 DEF Next, Job, JobStart, JobRan, JobStore, JobReply, JobReturn, JobLost,
                  Loop, Recv, TurnCancelled, TurnJoined, LoopExit, LoopAborted,
                  WallBudgetFires, Shutdown, AbortTasks, vars
    <3>2. CASE ReplyArrives(n)
      <4>1. n = m /\ chan[m] = out'[m]
        BY <2>2, <3>2 DEF ReplyArrives, TypeOK
      <4> QED BY <1>3, <4>1, BarredStays DEF PromiseInv, RefusalIsFinal
    <3>3. CASE RejectFrame(n) \/ UnblockClosed(n)
      <4>1. n = m
        BY <2>2, <3>3 DEF RejectFrame, UnblockClosed, SendReturnsOk, SendReturnsErr, TypeOK
      <4>2. pc[m] \in {"idle", "admitted", "blocked"}
        BY <3>3, <4>1, WaiterLeavesOnce DEF RejectFrame, PromiseInv
      <4>3. job[m] = "none" /\ m \notin Range(queue) /\ m \notin Range(state)
        BY <4>2 DEF PromiseInv, OneFrame, StoredOnce
      <4>4. UNCHANGED <<queue, state, job>>
        BY <3>3 DEF RejectFrame, UnblockClosed
      <4>5. pc'[m] \in {"waiting", "done"}
        <5>1. pc' = [pc EXCEPT ![m] = "waiting"] \/ pc' = [pc EXCEPT ![m] = "done"]
          BY <3>3, <4>1 DEF RejectFrame, UnblockClosed, SendReturnsOk, SendReturnsErr
        <5> QED BY <5>1 DEF TypeOK
      <4> QED BY <4>3, <4>4, <4>5 DEF Barred
    <3>4. CASE Enqueue(n) \/ BlockOnFull(n) \/ Unblock(n) \/ DeadlineExpires(n)
      <4>1. \/ UNCHANGED out
            \/ \E a \in {"none", "sent", "deadline"} : out' = [out EXCEPT ![n] = a]
        BY <3>4 DEF Enqueue, BlockOnFull, Unblock, DeadlineExpires, SendReturnsOk
      <4>2. out'[m] \in {"none", "sent", "deadline"}
        BY <2>2, <4>1 DEF TypeOK
      <4> QED BY <1>3, <4>2 DEF Promise!NoEffect
    <3>5. CASE \E s \in AdmitSlots(n) : Admit(n, s)
      BY <2>2, <3>5 DEF Admit
    <3> QED BY <3>1, <3>2, <3>3, <3>4, <3>5 DEF Caller, Offer
  <2> QED BY <2>1, <2>2
<1> QED BY <1>1, <1>2, <1>3 DEF PromiseInv, RefusalIsFinal

(* A caller's step answers its call, or says nothing; an ok comes with the  *)
(* effect and a refusal without.                                            *)
LEMMA CallerAnswers ==
  ASSUME TypeOK, EffectInv, PromiseInv, [Next]_vars, NEW m \in Msgs, Caller(m)
  PROVE  UNCHANGED out \/ \E a \in Promise!Answers : Promise!Answer(m, a)
<1> USE DEF callerVars, boxVars, jobVars, loopVars, rtVars
<1>0. state' = state
  BY DEF Caller, Offer, Admit, Enqueue, BlockOnFull, RejectFrame, Unblock, UnblockClosed,
         ReplyArrives, DeadlineExpires
<1>1. CASE ReplyArrives(m)
  <2>1. /\ pc[m] = "waiting" /\ chan[m] # "open" /\ out' = [out EXCEPT ![m] = chan[m]]
    BY <1>1 DEF ReplyArrives
  <2>2. out[m] = "none" /\ m \in Asks /\ chan[m] # "none"
    BY <2>1 DEF PromiseInv, CallersWait
  <2>3. chan[m] \in Promise!Answers
    BY <2>1, <2>2 DEF TypeOK, Replies, Promise!Answers, Promise!NoEffect
  <2>4. chan[m] = "ok" => m \in Range(state)
    BY <2>2 DEF EffectInv, OkIsStoredAndTraced
  <2>5. chan[m] \in Promise!NoEffect => m \notin Range(state)
    BY DEF PromiseInv, RefusalIsFinal, Barred
  <2> QED BY <1>0, <2>1, <2>2, <2>3, <2>4, <2>5 DEF Promise!Answer
<1>2. CASE DeadlineExpires(m)
  <2>1. pc[m] = "waiting" /\ out' = [out EXCEPT ![m] = "deadline"]
    BY <1>2 DEF DeadlineExpires
  <2>2. out[m] = "none"
    BY <2>1 DEF PromiseInv, CallersWait
  <2>3. "deadline" \in Promise!Answers /\ "deadline" \notin Promise!NoEffect
    BY DEF Promise!Answers, Promise!NoEffect
  <2> QED BY <1>0, <2>1, <2>2, <2>3 DEF Promise!Answer
<1>3. ASSUME pc[m] \in {"idle", "admitted", "blocked"}
      PROVE  /\ out[m] = "none" /\ m \notin Range(state)
             /\ SendReturnsOk(m) =>
                  UNCHANGED out \/ \E a \in Promise!Answers : Promise!Answer(m, a)
             /\ \A e \in {"notfound", "full"} : SendReturnsErr(m, e) =>
                  \E a \in Promise!Answers : Promise!Answer(m, a)
  <2>1. out[m] = "none" /\ m \notin Range(state)
    BY <1>3 DEF PromiseInv, CallersWait, OneFrame, StoredOnce
  <2>2. ASSUME SendReturnsOk(m), m \in Asks PROVE UNCHANGED out
    BY <2>1, <2>2 DEF SendReturnsOk, TypeOK
  <2>3. ASSUME SendReturnsOk(m), m \notin Asks
        PROVE  "sent" \in Promise!Answers /\ Promise!Answer(m, "sent")
    BY <1>0, <2>1, <2>3 DEF SendReturnsOk, Promise!Answers, Promise!NoEffect,
                            Promise!Answer
  <2>4. ASSUME NEW e \in {"notfound", "full"}, SendReturnsErr(m, e)
        PROVE  e \in Promise!Answers /\ Promise!Answer(m, e)
    BY <1>0, <2>1, <2>4 DEF SendReturnsErr, Promise!Answers, Promise!NoEffect,
                            Promise!Answer
  <2> QED BY <2>1, <2>2, <2>3, <2>4
<1>4. CASE Enqueue(m) \/ BlockOnFull(m)
  BY <1>3, <1>4 DEF Enqueue, BlockOnFull
<1>5. CASE RejectFrame(m)
  <2>1. \/ SendReturnsOk(m)
        \/ \E e \in {"notfound", "full"} : SendReturnsErr(m, e)
    BY <1>5 DEF RejectFrame
  <2>2. pc[m] = "admitted"
    BY <1>5 DEF RejectFrame
  <2> QED BY <1>3, <2>1, <2>2
<1>6. CASE Unblock(m) \/ UnblockClosed(m)
  <2>1. pc[m] = "blocked"
    BY <1>6, WaiterLeavesOnce DEF PromiseInv
  <2>2. SendReturnsOk(m) \/ \E e \in {"notfound", "full"} : SendReturnsErr(m, e)
    BY <1>6 DEF Unblock, UnblockClosed
  <2> QED BY <1>3, <2>1, <2>2
<1>7. CASE \E s \in AdmitSlots(m) : Admit(m, s)
  BY <1>7 DEF Admit
<1> QED BY <1>1, <1>2, <1>4, <1>5, <1>6, <1>7 DEF Caller, Offer

(* Every step of the agent is a step of the promise, or none. *)
LEMMA StepKeepsPromise ==
  ASSUME TypeOK, EffectInv, PromiseInv, [Next]_vars
  PROVE  [Promise!Next]_<<out, Range(state)>>
<1> USE DEF callerVars, boxVars, jobVars, loopVars, rtVars
<1>1. ASSUME NEW m \in Msgs, JobStore(m) PROVE Promise!Next
  <2>1. state' = Append(state, m) /\ UNCHANGED out /\ job[m] = "ran" /\ res[m] = "ok"
    BY <1>1 DEF JobStore, EffectInv
  <2>2. Range(state') = Range(state) \cup {m}
    BY <2>1, PushFacts DEF TypeOK
  <2>3. m \notin Range(state) /\ ~Barred(m)
    BY <2>1 DEF PromiseInv, StoredOnce, Barred
  <2>4. out[m] \notin Promise!NoEffect
    BY <2>3 DEF PromiseInv, RefusalIsFinal
  <2>5. Promise!Apply(m)
    BY <2>1, <2>2, <2>3, <2>4 DEF Promise!Apply
  <2> QED BY <2>5 DEF Promise!Next
<1>2. ASSUME NEW m \in Msgs, Caller(m) PROVE Promise!Next \/ UNCHANGED <<out, Range(state)>>
  <2>1. state' = state
    BY <1>2 DEF Caller, Offer, Admit, Enqueue, BlockOnFull, RejectFrame, Unblock, UnblockClosed,
                ReplyArrives, DeadlineExpires
  <2> QED BY <1>2, <2>1, CallerAnswers DEF Promise!Next
<1>3. CASE ~\E m \in Msgs : Caller(m) \/ JobStore(m)
  BY <1>3 DEF Next, Job, JobStart, JobRan, JobReply, JobReturn, JobLost, Loop, Recv,
              TurnCancelled, TurnJoined, LoopExit, LoopAborted, WallBudgetFires, Shutdown,
              AbortTasks, vars
<1> QED BY <1>1, <1>2, <1>3

(* agent.rs, runtime.rs, mailbox.rs: whatever interleaving of callers,      *)
(* turns, cancellations, panics and shutdown, the agent implements what     *)
(* AgentCalls promises: one answer per call, an ok only with the effect in  *)
(* the state, a refusal or a failure only without it and for ever, and no   *)
(* effect undone.                                                           *)
THEOREM PromiseIsKept == Spec => PromiseKept
<1>1. Init => Promise!Init
  BY DEF Init, Promise!Init, Range
<1>2. TypeOK /\ EffectInv /\ PromiseInv /\ [Next]_vars
        => [Promise!Next]_<<out, Range(state)>>
  BY StepKeepsPromise
<1> QED BY <1>1, <1>2, InitTurnInv, NextTurnInv, InitEffectInv, NextEffectInv,
           InitPromiseInv, NextPromiseInv, TypeCorrect, PTL
        DEF Spec, PromiseKept, Promise!Spec
=============================================================================
