-------------------------------- MODULE Agent --------------------------------
(***************************************************************************)
(* One agent of the Mighty runtime and the callers that send to it and ask *)
(* it: its bounded mailbox and the payload slab behind it (mailbox.rs), the *)
(* agent loop (runtime.rs, spawn_agent_loop), the turn that runs a handler *)
(* on a blocking thread while the loop races it against a cancellation     *)
(* token (agent.rs, cancel.rs), and the runtime's shutdown.  Handlers do   *)
(* not reach other agents, so agents meet only in shutdown and one agent   *)
(* stands for all.                                                         *)
(*                                                                         *)
(* A message m is one call of `send' or `ask'.  Its frame is, in turn, with*)
(* a blocked sender, in the queue, and inside the turn; it owns a slab slot*)
(* (or none) and, for an ask, the sending half of a oneshot channel.  The  *)
(* handler's effect is abstracted to "m was applied": the agent's state is *)
(* the sequence of messages applied, and a handler that read state s       *)
(* leaves s followed by m.                                                 *)
(***************************************************************************)
EXTENDS Integers, Sequences, Functions

CONSTANTS Msgs,       \* the calls made
          NoMsg,      \* the absence of a call
          Asks,       \* the ones that wait for a reply
          Deadlined,  \* the asks that carry a deadline
          Empties,    \* messages with no payload (they take no slab slot)
          Unhandled,  \* messages the agent has no handler for
          Capacity,   \* mailbox capacity, which is also the slab's
          Policies,   \* the policies mailboxes are made with
          WallBudget  \* whether turns run under a wall-clock budget

ASSUME MsgsAssumption ==
  /\ NoMsg \notin Msgs
  /\ Asks \subseteq Msgs /\ Deadlined \subseteq Asks
  /\ Empties \subseteq Msgs /\ Unhandled \subseteq Msgs
ASSUME CapacityAssumption == Capacity \in Nat \ {0}
ASSUME PoliciesAssumption == Policies \subseteq {"Block", "Drop", "Fail"}
ASSUME WallBudgetAssumption == WallBudget \in BOOLEAN

Slots == 0 .. Capacity - 1
NoSlot == -1

VARIABLES
  policy,    \* SendPolicy of the mailbox, fixed when it is made
  pc,        \* pc[m]: where the caller of m stands
  out,       \* out[m]: what the caller was told, "none" until then
  queue,     \* the mpsc channel
  waiters,   \* senders waiting for a permit, in arrival order
  slot,      \* slot[m]: the slab slot m's frame holds
  free,      \* free slab slots
  chan,      \* chan[m]: the oneshot of an ask: "open" while unsent
  loop,      \* the agent loop: awaiting a message, in a turn, leaving, gone
  turn,      \* the message of the loop's current turn
  fired,     \* the per-turn token was fired by the wall-budget timer
  job,       \* job[m]: where the blocking thread of m's turn stands
  res,       \* res[m]: the handler's result
  seen,      \* seen[m]: the state the handler of m was given
  state,     \* desc.state: the messages applied, in order
  trace,     \* MessageHandled events recorded, in order
  registered,\* the registry has the agent
  shutdown,  \* the runtime's root token has been cancelled
  aborted    \* shutdown has aborted the agent loops

callerVars == <<pc, out>>
boxVars == <<queue, waiters, slot, free>>
jobVars == <<job, res, seen, state, trace>>
loopVars == <<loop, turn, fired, registered>>
rtVars == <<policy, shutdown, aborted>>
vars == <<callerVars, boxVars, chan, jobVars, loopVars, rtVars>>

Replies == {"ok", "error", "panic", "cancelled", "closed"}
Outcomes == Replies \cup {"none", "sent", "notfound", "full", "deadline"}
\* "queued": handed to spawn_blocking; "running": the handler executes;
\* "ran": it ended and was recorded; "stored": its state was written back;
\* "replied": past the reply; "finished": the closure returned;
\* "lost": it panicked, or was dropped before it started.
JobPcs == {"none", "queued", "running", "ran", "stored", "replied",
           "finished", "lost"}

TypeOK ==
  /\ policy \in Policies
  /\ pc \in [Msgs -> {"idle", "admitted", "blocked", "waiting", "done"}]
  /\ out \in [Msgs -> Outcomes]
  /\ queue \in Seq(Msgs) /\ waiters \in Seq(Msgs)
  /\ slot \in [Msgs -> Slots \cup {NoSlot}]
  /\ free \in SUBSET Slots
  /\ chan \in [Msgs -> Replies \cup {"open", "none"}]
  /\ loop \in {"idle", "turn", "exiting", "dead"}
  /\ turn \in Msgs \cup {NoMsg}
  /\ fired \in BOOLEAN
  /\ job \in [Msgs -> JobPcs]
  /\ res \in [Msgs -> {"none", "ok", "error"}]
  /\ seen \in [Msgs -> Seq(Msgs)]
  /\ state \in Seq(Msgs) /\ trace \in Seq(Msgs)
  /\ registered \in BOOLEAN /\ shutdown \in BOOLEAN /\ aborted \in BOOLEAN

(* spawn_agent_with_affinity: a fresh mailbox, the registry entry, the      *)
(* loop started.                                                            *)
Init ==
  /\ policy \in Policies
  /\ pc = [m \in Msgs |-> "idle"]
  /\ out = [m \in Msgs |-> "none"]
  /\ queue = << >> /\ waiters = << >>
  /\ slot = [m \in Msgs |-> NoSlot]
  /\ free = Slots
  /\ chan = [m \in Msgs |-> IF m \in Asks THEN "open" ELSE "none"]
  /\ loop = "idle" /\ turn = NoMsg /\ fired = FALSE
  /\ job = [m \in Msgs |-> "none"]
  /\ res = [m \in Msgs |-> "none"]
  /\ seen = [m \in Msgs |-> << >>]
  /\ state = << >> /\ trace = << >>
  /\ registered = TRUE /\ shutdown = FALSE /\ aborted = FALSE

-----------------------------------------------------------------------------
\* Mutant: the sender is not taken out of the shared slot.
TakeReplyUnguarded(m, v) == chan' = [chan EXCEPT ![m] = v]

(* The shared reply slot.  Whoever finds the sender still there takes it    *)
(* and sends; everyone later finds the slot empty.                          *)
TakeReply(m, v) ==
  chan' = IF chan[m] = "open" THEN [chan EXCEPT ![m] = v] ELSE chan

(* Dropping the last owner of an unsent sender closes the channel. *)
DropReplies(S) ==
  chan' = [m \in Msgs |-> IF m \in S /\ chan[m] = "open" THEN "closed"
                                                         ELSE chan[m]]

(* Dropping frames returns their slots to the slab. *)
ReleaseSlots(S) ==
  /\ slot' = [m \in Msgs |-> IF m \in S THEN NoSlot ELSE slot[m]]
  /\ free' = (free \cup {slot[m] : m \in S}) \ {NoSlot}

-----------------------------------------------------------------------------
(* Callers: Mailbox::send and try_send, Runtime::send and ask.              *)

\* The receiver is gone.
Closed == loop = "dead"

\* Permits freed by the receiver go to the waiting senders first.
HasPermit == Len(queue) + Len(waiters) < Capacity

\* `admit': no slot for an empty payload or when the slab is exhausted.
AdmitSlots(m) == IF m \in Empties \/ free = {} THEN {NoSlot} ELSE free

\* The frame takes its slot before the channel is known to have room; other
\* threads move between the two.
Admit(m, s) ==
  /\ pc[m] = "idle"
  /\ slot' = [slot EXCEPT ![m] = s]
  /\ free' = free \ {s}
  /\ pc' = [pc EXCEPT ![m] = "admitted"]
  /\ UNCHANGED <<out, queue, waiters, chan, jobVars, loopVars, rtVars>>

\* `send' returned Ok: a send is over, an ask goes on to await its reply.
SendReturnsOk(m) ==
  /\ pc' = [pc EXCEPT ![m] = IF m \in Asks THEN "waiting" ELSE "done"]
  /\ out' = [out EXCEPT ![m] = IF m \in Asks THEN "none" ELSE "sent"]

SendReturnsErr(m, e) ==
  /\ pc' = [pc EXCEPT ![m] = "done"]
  /\ out' = [out EXCEPT ![m] = e]

Enqueue(m) ==
  /\ pc[m] = "admitted" /\ ~Closed /\ HasPermit
  /\ queue' = Append(queue, m)
  /\ SendReturnsOk(m)
  /\ UNCHANGED <<waiters, slot, free, chan, jobVars, loopVars, rtVars>>

\* SendPolicy::Block on a full channel: the frame, slot included, waits.
BlockOnFull(m) ==
  /\ pc[m] = "admitted" /\ ~Closed /\ ~HasPermit /\ policy = "Block"
  /\ waiters' = Append(waiters, m)
  /\ pc' = [pc EXCEPT ![m] = "blocked"]
  /\ UNCHANGED <<out, queue, slot, free, chan, jobVars, loopVars, rtVars>>

\* Mutant: a refused frame does not give its slot back.
RejectFrameLeaks(m) ==
  /\ pc[m] = "admitted" /\ (Closed \/ (~HasPermit /\ policy # "Block"))
  /\ DropReplies({m})
  /\ IF policy = "Drop" THEN SendReturnsOk(m)
     ELSE SendReturnsErr(m, IF Closed THEN "notfound" ELSE "full")
  /\ UNCHANGED <<boxVars, jobVars, loopVars, rtVars>>

\* The frame comes back from the channel and is dropped, slot and reply
\* sender with it.  SendPolicy::Drop still answers Ok.
RejectFrame(m) ==
  /\ pc[m] = "admitted" /\ (Closed \/ (~HasPermit /\ policy # "Block"))
  /\ ReleaseSlots({m})
  /\ DropReplies({m})
  /\ IF policy = "Drop" THEN SendReturnsOk(m)
     ELSE SendReturnsErr(m, IF Closed THEN "notfound" ELSE "full")
  /\ UNCHANGED <<queue, waiters, jobVars, loopVars, rtVars>>

\* A waiting sender that was granted a permit pushes its frame; senders
\* granted at the same time may push in any order.
Unblock(m) ==
  /\ ~Closed
  /\ \E i \in 1 .. Len(waiters) :
       /\ waiters[i] = m /\ i + Len(queue) <= Capacity
       /\ waiters' = SubSeq(waiters, 1, i - 1)
                       \o SubSeq(waiters, i + 1, Len(waiters))
  /\ queue' = Append(queue, m)
  /\ SendReturnsOk(m)
  /\ UNCHANGED <<slot, free, chan, jobVars, loopVars, rtVars>>

\* The channel closed under a waiting sender.
UnblockClosed(m) ==
  /\ Closed
  /\ \E i \in 1 .. Len(waiters) :
       /\ waiters[i] = m
       /\ waiters' = SubSeq(waiters, 1, i - 1)
                       \o SubSeq(waiters, i + 1, Len(waiters))
  /\ ReleaseSlots({m})
  /\ DropReplies({m})
  /\ SendReturnsErr(m, "notfound")
  /\ UNCHANGED <<queue, jobVars, loopVars, rtVars>>

\* The ask resolves with what the oneshot carries (closed: MT5020).
ReplyArrives(m) ==
  /\ pc[m] = "waiting" /\ chan[m] # "open"
  /\ pc' = [pc EXCEPT ![m] = "done"]
  /\ out' = [out EXCEPT ![m] = chan[m]]
  /\ UNCHANGED <<boxVars, chan, jobVars, loopVars, rtVars>>

\* with_deadline: it covers the wait for the reply, not the send before it.
DeadlineExpires(m) ==
  /\ pc[m] = "waiting" /\ m \in Deadlined /\ chan[m] = "open"
  /\ pc' = [pc EXCEPT ![m] = "done"]
  /\ out' = [out EXCEPT ![m] = "deadline"]
  /\ UNCHANGED <<boxVars, chan, jobVars, loopVars, rtVars>>

-----------------------------------------------------------------------------
(* The blocking thread of a turn: run_one_turn_with_shared_reply under the  *)
(* agent's host lock.                                                       *)

HostLockHeld == \E n \in Msgs : job[n] \in {"running", "ran", "stored", "replied"}

\* The loop has let go of m's reply slot, so the thread's drop is the last.
LoopLeft(m) == ~(loop = "turn" /\ turn = m)

JobStart(m) ==
  /\ job[m] = "queued" /\ ~HostLockHeld
  /\ IF m \in Unhandled
     THEN /\ TakeReply(m, "error")
          /\ job' = [job EXCEPT ![m] = "replied"]
          /\ res' = [res EXCEPT ![m] = "error"]
          /\ UNCHANGED seen
     ELSE /\ seen' = [seen EXCEPT ![m] = state]
          /\ job' = [job EXCEPT ![m] = "running"]
          /\ UNCHANGED <<chan, res>>
  /\ UNCHANGED <<callerVars, boxVars, state, trace, loopVars, rtVars>>

\* The handler ends (normally, by trap, or by its step or memory budget) and
\* the turn is recorded before anyone is told.
JobRan(m) ==
  /\ job[m] = "running"
  /\ \E r \in {"ok", "error"} : res' = [res EXCEPT ![m] = r]
  /\ trace' = Append(trace, m)
  /\ job' = [job EXCEPT ![m] = "ran"]
  /\ UNCHANGED <<callerVars, boxVars, chan, seen, state, loopVars, rtVars>>

\* Mutant: the new state is stored whatever the handler's result.
JobStoreAlways(m) ==
  /\ job[m] = "ran"
  /\ state' = Append(seen[m], m)
  /\ job' = [job EXCEPT ![m] = "stored"]
  /\ UNCHANGED <<callerVars, boxVars, chan, res, seen, trace, loopVars, rtVars>>

JobStore(m) ==
  /\ job[m] = "ran" /\ res[m] = "ok"
  /\ state' = Append(seen[m], m)
  /\ job' = [job EXCEPT ![m] = "stored"]
  /\ UNCHANGED <<callerVars, boxVars, chan, res, seen, trace, loopVars, rtVars>>

\* Mutant: the reply goes out before the state is stored.
JobReplyEarly(m) ==
  /\ job[m] = "ran"
  /\ TakeReply(m, res[m])
  /\ job' = [job EXCEPT ![m] = "replied"]
  /\ UNCHANGED <<callerVars, boxVars, res, seen, state, trace, loopVars, rtVars>>

JobReply(m) ==
  /\ job[m] = "stored" \/ (job[m] = "ran" /\ res[m] = "error")
  /\ TakeReply(m, res[m])
  /\ job' = [job EXCEPT ![m] = "replied"]
  /\ UNCHANGED <<callerVars, boxVars, res, seen, state, trace, loopVars, rtVars>>

JobReturn(m) ==
  /\ job[m] = "replied"
  /\ ReleaseSlots({m})
  /\ job' = [job EXCEPT ![m] = "finished"]
  /\ UNCHANGED <<callerVars, queue, waiters, chan, res, seen, state, trace,
                 loopVars, rtVars>>

\* The handler panics, or the pool goes away before the closure starts: the
\* captured slot and the thread's half of the reply slot are dropped.
JobLost(m) ==
  /\ job[m] = "running" \/ (job[m] = "queued" /\ aborted)
  /\ ReleaseSlots({m})
  /\ IF LoopLeft(m) THEN DropReplies({m}) ELSE UNCHANGED chan
  /\ job' = [job EXCEPT ![m] = "lost"]
  /\ UNCHANGED <<callerVars, queue, waiters, res, seen, state, trace,
                 loopVars, rtVars>>

-----------------------------------------------------------------------------
(* The agent loop. *)

Recv ==
  /\ loop = "idle" /\ queue # << >>
  /\ loop' = "turn" /\ turn' = Head(queue) /\ fired' = FALSE
  /\ queue' = Tail(queue)
  /\ job' = [job EXCEPT ![Head(queue)] = "queued"]
  /\ UNCHANGED <<callerVars, waiters, slot, free, chan, res, seen, state, trace,
                 registered, rtVars>>

WallBudgetFires ==
  /\ WallBudget /\ loop = "turn" /\ ~fired
  /\ fired' = TRUE
  /\ UNCHANGED <<callerVars, boxVars, chan, jobVars, loop, turn, registered, rtVars>>

\* Mutant: the loop goes on after a cancelled turn.
TurnCancelledGoesOn ==
  /\ loop = "turn" /\ (fired \/ shutdown)
  /\ TakeReply(turn, "cancelled")
  /\ loop' = "idle" /\ turn' = NoMsg
  /\ UNCHANGED <<callerVars, boxVars, jobVars, fired, registered, rtVars>>

\* The biased select sees the per-turn token, a child of the root token,
\* fired: answer the caller if nobody has, detach the thread, die.
TurnCancelled ==
  /\ loop = "turn" /\ (fired \/ shutdown)
  /\ TakeReply(turn, "cancelled")
  /\ loop' = "exiting" /\ turn' = NoMsg /\ registered' = FALSE
  /\ UNCHANGED <<callerVars, boxVars, jobVars, fired, rtVars>>

\* Mutant: a join error ends the agent without answering the caller.
TurnJoinedSilently ==
  /\ loop = "turn" /\ job[turn] \in {"finished", "lost"}
  /\ LET good == job[turn] = "finished" /\ res[turn] = "ok"
     IN /\ loop' = IF good /\ ~shutdown THEN "idle" ELSE "exiting"
        /\ registered' = (registered /\ good)
  /\ turn' = NoMsg
  /\ UNCHANGED <<callerVars, boxVars, chan, jobVars, fired, rtVars>>

\* The thread was joined.  Any error ends the agent; after a good turn the
\* loop leaves only if the runtime is shutting down.  The token may fire
\* between the two polls of the select, so this is not excluded by it.
TurnJoined ==
  /\ loop = "turn" /\ job[turn] \in {"finished", "lost"}
  /\ IF job[turn] = "lost" THEN TakeReply(turn, "panic") ELSE UNCHANGED chan
  /\ LET good == job[turn] = "finished" /\ res[turn] = "ok"
     IN /\ loop' = IF good /\ ~shutdown THEN "idle" ELSE "exiting"
        /\ registered' = (registered /\ good)
  /\ turn' = NoMsg
  /\ UNCHANGED <<callerVars, boxVars, jobVars, fired, rtVars>>

\* Dropping the receiver drops every frame still queued.
DropReceiver ==
  /\ loop' = "dead" /\ turn' = NoMsg /\ queue' = << >>
  /\ ReleaseSlots(Range(queue))
  /\ UNCHANGED <<waiters, fired, registered>>

\* Mutant: the reply senders of the frames still queued stay open.
LoopExitSilent ==
  /\ loop = "exiting"
  /\ DropReceiver
  /\ UNCHANGED <<callerVars, chan, jobVars, rtVars>>

LoopExit ==
  /\ loop = "exiting"
  /\ DropReceiver
  /\ DropReplies(Range(queue))
  /\ UNCHANGED <<callerVars, jobVars, rtVars>>

-----------------------------------------------------------------------------
(* Runtime::shutdown: fire the root token, then abort the loops.  An abort  *)
(* drops the loop at the await it sits in, the turn's select included.      *)

Shutdown ==
  /\ ~shutdown /\ shutdown' = TRUE
  /\ UNCHANGED <<callerVars, boxVars, chan, jobVars, loopVars, policy, aborted>>

AbortTasks ==
  /\ shutdown /\ ~aborted /\ aborted' = TRUE
  /\ UNCHANGED <<callerVars, boxVars, chan, jobVars, loopVars, policy, shutdown>>

LoopAborted ==
  /\ aborted /\ loop \in {"idle", "turn"}
  /\ DropReceiver
  /\ DropReplies(Range(queue) \cup {m \in Msgs : m = turn /\ job[m] = "lost"})
  /\ UNCHANGED <<callerVars, jobVars, rtVars>>

-----------------------------------------------------------------------------
\* What becomes of an admitted frame.
Offer(m) == Enqueue(m) \/ BlockOnFull(m) \/ RejectFrame(m)
Caller(m) ==
  \/ \E s \in AdmitSlots(m) : Admit(m, s)
  \/ Offer(m)
  \/ Unblock(m) \/ UnblockClosed(m) \/ ReplyArrives(m) \/ DeadlineExpires(m)
Job(m) ==
  \/ JobStart(m) \/ JobRan(m) \/ JobStore(m) \/ JobReply(m) \/ JobReturn(m)
  \/ JobLost(m)
Loop == Recv \/ TurnCancelled \/ TurnJoined \/ LoopExit \/ LoopAborted

Next ==
  \/ \E m \in Msgs : Caller(m) \/ Job(m)
  \/ Loop \/ WallBudgetFires \/ Shutdown \/ AbortTasks

(* The loop and the callers are tokio tasks, polled whenever they are ready;*)
(* there is no await between admission and the offer to the channel; a      *)
(* handler ends because its step budget does; nothing makes a call, a       *)
(* deadline, a wall budget or a shutdown happen.                            *)
Fairness ==
  /\ WF_vars(Loop)
  /\ WF_vars(AbortTasks)
  /\ \A m \in Msgs :
       /\ WF_vars(Offer(m)) /\ WF_vars(Unblock(m)) /\ WF_vars(UnblockClosed(m))
       /\ WF_vars(ReplyArrives(m)) /\ WF_vars(Job(m))

Spec == Init /\ [][Next]_vars
FairSpec == Spec /\ Fairness

-----------------------------------------------------------------------------
(* A frame of m exists: it is on its way to the channel, with a blocked     *)
(* sender, in the queue, or in a turn whose thread has not let go of it.     *)
ActiveJob(m) == job[m] \in {"queued", "running", "ran", "stored", "replied"}
HasFrame(m) ==
  pc[m] = "admitted" \/ m \in Range(waiters) \/ m \in Range(queue) \/ ActiveJob(m)

(* Turns of one agent never overlap: a cancelled turn detaches its thread,  *)
(* and no further message is handed to a thread while that one is alive, so *)
(* two handlers never work from the same state.                             *)
TurnsDoNotOverlap ==
  \A m, n \in Msgs : (ActiveJob(m) /\ ActiveJob(n)) => m = n

(* An ask that is still waiting has someone left who will answer it: its    *)
(* unsent reply is with a live frame, or with the loop that is about to     *)
(* join a lost thread.  An orphaned sender would leave the caller hanging,  *)
(* which agent.rs says never happens.                                       *)
NoOrphanedAsk ==
  \A m \in Asks : (pc[m] \in {"admitted", "blocked", "waiting"} /\ chan[m] = "open")
                  => HasFrame(m) \/ (loop = "turn" /\ turn = m)

(* A caller that sees Ok sees it after the new state was stored and after   *)
(* the MessageHandled event was recorded.                                   *)
OkIsStoredAndTraced ==
  \A m \in Asks : chan[m] = "ok" => m \in Range(state) /\ m \in Range(trace)

(* Every slab slot is free or belongs to exactly one existing frame, across *)
(* blocked, refused, discarded, detached and panicked frames.               *)
SlabConserved ==
  /\ \A m \in Msgs : slot[m] # NoSlot => HasFrame(m) /\ slot[m] \notin free
  /\ \A m, n \in Msgs : (slot[m] = slot[n] /\ slot[m] # NoSlot) => m = n
  /\ \A s \in Slots : s \in free \/ \E m \in Msgs : slot[m] = s

(* The reply of an ask is sent at most once, whichever of the thread, the   *)
(* cancellation arm, the join arm and the dropped mailbox gets there first. *)
ReplySentOnce ==
  [][\A m \in Asks : chan[m] # "open" => chan'[m] = chan[m]]_vars

(* The agent implements what AgentCalls promises its callers. *)
Promise == INSTANCE AgentCalls WITH applied <- Range(state)
PromiseKept == Promise!Spec

(* Every send and ask that was started returns, whatever happens to the     *)
(* agent: handled, cancelled, discarded with the mailbox or refused.        *)
EveryCallReturns ==
  \A m \in Msgs : pc[m] \in {"admitted", "blocked", "waiting"} ~> pc[m] = "done"
=============================================================================
