---------------------------- MODULE TraceReplay ----------------------------
(***************************************************************************)
(* Recording a run and re-executing it: mty-runtime/src/replay.  A run is   *)
(* recorded while several clients spawn agents and call them; its trace is  *)
(* flushed at shutdown, and ReplayDriver::replay_all feeds it, one ask at a *)
(* time, to a fresh runtime whose own recording it then compares with the   *)
(* trace.  The runtime is the same in both phases; it is modelled here as   *)
(* far as the recorder sees it (mailboxes, turns and cancellation in full   *)
(* are in Agent).  A handler is deterministic: its outcome and its reads of *)
(* the host depend on the message.  What is asked of the two event streams  *)
(* is in TraceChecks, with the variables it reads.                          *)
(***************************************************************************)
EXTENDS TraceChecks, SequencesExt

CONSTANTS Scripts,    \* runs to record: what each client does, in order
          Ids,        \* the agent ids there is room for, 1 and up
          Traps,      \* messages whose handler traps
          Unhandled,  \* messages the agents have no handler for
          Reads,      \* messages whose handler reads the clock
          Clock,      \* the values a clock read may return
          MailCap,    \* the capacity of a mailbox
          Driver,     \* the one client of the replay
          NoMsg

ASSUME IdsAssumption == IsFiniteSet(Ids) /\ Ids = 1..Cardinality(Ids)
ASSUME OutcomeAssumption == Reads \cap Unhandled = {} /\ Traps \cap Unhandled = {}
ASSUME KeysAssumption ==
  \A s \in Scripts : \A c, d \in DOMAIN s : \A i \in DOMAIN s[c], j \in DOMAIN s[d] :
    s[c][i].op = "spawn" /\ s[d][j].op = "spawn" /\ s[c][i].key = s[d][j].key => c = d /\ i = j
ASSUME MailCapAssumption == MailCap \in Nat \ {0}

VARIABLES stopping,   \* the shutdown token is cancelled
          todo,       \* per client, the operations left
          at,         \* per client: "ready", "alloc" (the agent is registered, its
                      \* spawn not recorded), "send", "wait"
          nextId,     \* AgentRegistry::next_id
          loop,       \* per agent, where its task is
          job,        \* per agent, where the blocking closure of its turn is
          cur,        \* per agent, the message of the turn
          why,        \* per agent, the error that ends its loop
          box,        \* per agent, its mailbox
          count,      \* Recorder::counters
          history,    \* per agent, what it handled; then, of the recorded run
          before,
          late        \* an ask of the replay ran into its deadline

vars == <<phase, stopping, todo, at, handle, nextId, loop, job, cur, why, box,
          count, buffer, recorded, early, history, before, late>>

agentVars == <<loop, job, cur, why, box, count, history>>
traceVars == <<phase, recorded, early, before, late>>

Event(kind, a, what, arg, n) ==
  [kind |-> kind, agent |-> a, what |-> what, arg |-> arg, n |-> n]
Record(e) == buffer' = Append(buffer, e)

(* Values on the wire.  A value that holds a live reference is recorded as   *)
(* its Debug rendering, and comes back as a string.                          *)
FromRuntimeValue(v) == IF v = "ref" THEN "opaque" ELSE v
ToRuntimeValue(w) == IF w = "opaque" THEN "string" ELSE w

Fresh(clients) ==
  /\ stopping' = FALSE
  /\ todo' = clients
  /\ at' = [c \in DOMAIN clients |-> "ready"]
  /\ handle' = << >> /\ nextId' = 1
  /\ loop' = [a \in Ids |-> "none"] /\ job' = [a \in Ids |-> "none"]
  /\ cur' = [a \in Ids |-> NoMsg] /\ why' = [a \in Ids |-> "normal"]
  /\ box' = [a \in Ids |-> << >>] /\ count' = [a \in Ids |-> 0]
  /\ history' = [a \in Ids |-> << >>]

Init ==
  /\ phase = "record" /\ stopping = FALSE
  /\ todo \in Scripts /\ at = [c \in DOMAIN todo |-> "ready"]
  /\ handle = << >> /\ nextId = 1
  /\ loop = [a \in Ids |-> "none"] /\ job = [a \in Ids |-> "none"]
  /\ cur = [a \in Ids |-> NoMsg] /\ why = [a \in Ids |-> "normal"]
  /\ box = [a \in Ids |-> << >>] /\ count = [a \in Ids |-> 0]
  /\ buffer = << >> /\ recorded = << >> /\ early = {}
  /\ history = [a \in Ids |-> << >>] /\ before = [a \in Ids |-> << >>]
  /\ late = FALSE

-----------------------------------------------------------------------------
(* The clients: calls into the runtime.                                      *)

Doing(c, op) == todo[c] # << >> /\ Head(todo[c]).op = op

(* The operation that each of the clients cs is at returns.                  *)
Return(cs) ==
  /\ todo' = [c \in DOMAIN todo |-> IF c \in cs THEN Tail(todo[c]) ELSE todo[c]]
  /\ at' = [c \in DOMAIN at |-> IF c \in cs THEN "ready" ELSE at[c]]

(* Mutant: the loop is started before the spawn is recorded.                 *)
AllocAgentStarts(c) ==
  /\ Doing(c, "spawn") /\ at[c] = "ready" /\ nextId \in Ids
  /\ at' = [at EXCEPT ![c] = "alloc"]
  /\ handle' = [k \in DOMAIN handle \cup {Head(todo[c]).key} |->
                  IF k = Head(todo[c]).key THEN nextId ELSE handle[k]]
  /\ nextId' = nextId + 1
  /\ loop' = [loop EXCEPT ![nextId] = "recv"]
  /\ UNCHANGED <<stopping, todo, buffer, job, cur, why, box, count, history, traceVars>>

(* spawn_agent_with_affinity runs on the caller's thread.  The agent gets its *)
(* id and enters the registry, where an address finds it ...                 *)
AllocAgent(c) ==
  /\ Doing(c, "spawn") /\ at[c] = "ready" /\ nextId \in Ids
  /\ at' = [at EXCEPT ![c] = "alloc"]
  /\ handle' = [k \in DOMAIN handle \cup {Head(todo[c]).key} |->
                  IF k = Head(todo[c]).key THEN nextId ELSE handle[k]]
  /\ nextId' = nextId + 1
  /\ UNCHANGED <<stopping, todo, buffer, agentVars, traceVars>>

(* ... then its spawn is recorded, its loop is started and the handle        *)
(* returned.  The id is new: a script gives each of its agents a key once.   *)
SpawnAgent(c) ==
  LET a == handle[Head(todo[c]).key] IN
  /\ Doing(c, "spawn") /\ at[c] = "alloc" /\ loop[a] = "none"
  /\ Record(Event("Spawn", a, Head(todo[c]).what, "", 0))
  /\ loop' = [loop EXCEPT ![a] = "recv"]
  /\ Return({c})
  /\ UNCHANGED <<stopping, handle, nextId, job, cur, why, box, count, history, traceVars>>

(* An agent that has failed leaves the registry before its Exit is recorded. *)
Registered(a) == ~(loop[a] \in {"exiting", "gone"} /\ why[a] \in {"trap", "cancelled"})

(* send and ask take a handle, which spawn returns; send_addr and ask_addr   *)
(* look an id up in the registry.  The driver of a replay has handles.       *)
Finds(o, a) == IF phase = "record" /\ o.addr THEN Registered(a) ELSE loop[a] # "none"

(* Runtime::send and Runtime::ask: the record first, the mailbox after it.   *)
RecordSent(c) ==
  LET o == Head(todo[c]) IN
  /\ Doing(c, "call") /\ at[c] = "ready"
  /\ o.key \in DOMAIN handle /\ Finds(o, handle[o.key])
  /\ Record(Event("MessageSent", handle[o.key], o.what, FromRuntimeValue(o.arg), 0))
  /\ early' = IF loop[handle[o.key]] = "none" THEN early \cup {Len(buffer) + 1} ELSE early
  /\ at' = [at EXCEPT ![c] = "send"]
  /\ UNCHANGED <<stopping, todo, handle, nextId, agentVars, phase, recorded, before, late>>

(* The address is not found any more; the driver passes over a message to an *)
(* agent it has not spawned.                                                 *)
NotFound(c) ==
  LET o == Head(todo[c]) IN
  /\ Doing(c, "call") /\ at[c] = "ready"
  /\ IF o.key \in DOMAIN handle THEN o.addr /\ ~Registered(handle[o.key])
                                ELSE phase = "replay"
  /\ Return({c})
  /\ UNCHANGED <<stopping, handle, nextId, buffer, agentVars, traceVars>>

(* The mailbox is bounded: send waits for room, and the deadline of an ask    *)
(* runs only once the frame is in.                                           *)
Enqueue(c) ==
  LET o == Head(todo[c])
      a == handle[o.key] IN
  /\ at[c] = "send"
  /\ \/ loop[a] = "gone" /\ Return({c}) /\ UNCHANGED box
     \/ /\ loop[a] # "gone" /\ Len(box[a]) < MailCap
        /\ box' = [box EXCEPT ![a] = Append(@, [what |-> o.what, arg |-> o.arg, by |-> c, left |-> Len(todo[c])])]
        /\ IF o.ask THEN at' = [at EXCEPT ![c] = "wait"] /\ UNCHANGED todo
                    ELSE Return({c})
  /\ UNCHANGED <<stopping, handle, nextId, loop, job, cur, why, count, buffer, history, traceVars>>

(* The asks of the replay carry a deadline.                                  *)
Deadline(c) ==
  /\ phase = "replay" /\ at[c] = "wait"
  /\ Return({c}) /\ late' = TRUE
  /\ UNCHANGED <<stopping, handle, nextId, buffer, agentVars, phase, recorded, early, before>>

-----------------------------------------------------------------------------
(* The agent's loop, and the closure that runs a turn on a blocking thread.  *)

Recv(a) ==
  /\ loop[a] = "recv" /\ box[a] # << >>
  /\ cur' = [cur EXCEPT ![a] = Head(box[a])]
  /\ box' = [box EXCEPT ![a] = Tail(@)]
  /\ loop' = [loop EXCEPT ![a] = "turn"] /\ job' = [job EXCEPT ![a] = "run"]
  /\ UNCHANGED <<stopping, todo, at, handle, nextId, why, count, buffer, history, traceVars>>

(* StdHost::effect_call calls the live host, in the replay as well.          *)
ReadClock(a) ==
  /\ job[a] = "run" /\ cur[a].what \in Reads
  /\ \E v \in Clock : Record(Event("ClockRead", a, "std.time", v, 0))
  /\ job' = [job EXCEPT ![a] = "read"]
  /\ UNCHANGED <<stopping, todo, at, handle, nextId, loop, cur, why, box, count, history, traceVars>>

(* run_one_turn_with_shared_reply, to the record of the turn: the agent's    *)
(* counter is bumped ...                                                     *)
CountTurn(a) ==
  LET m == cur[a] IN
  /\ m # NoMsg /\ m.what \notin Unhandled
  /\ job[a] = (IF m.what \in Reads THEN "read" ELSE "run")
  /\ count' = [count EXCEPT ![a] = @ + 1]
  /\ job' = [job EXCEPT ![a] = "counted"]
  /\ UNCHANGED <<stopping, todo, at, handle, nextId, loop, cur, why, box, buffer, history,
                 traceVars>>

(* ... and the event pushed with the number it had.  Nobody else bumps it:   *)
(* the loop ends with the turn it gives up, so an agent has one closure.      *)
Handle(a) ==
  LET m == cur[a] IN
  /\ job[a] = "counted"
  /\ Record(Event("MessageHandled", a, m.what, "", count[a] - 1))
  /\ history' = [history EXCEPT ![a] = Append(@, [what |-> m.what, arg |-> m.arg])]
  /\ job' = [job EXCEPT ![a] = "ran"]
  /\ UNCHANGED <<stopping, todo, at, handle, nextId, loop, cur, why, box, count, traceVars>>

(* The clients that wait for the reply to one of the frames fs.              *)
Waiting(fs) == {c \in DOMAIN at : at[c] = "wait" /\
                  \E f \in fs : f.by = c /\ f.left = Len(todo[c])}

Reply(a) ==
  /\ \/ job[a] = "ran"
     \/ job[a] = "run" /\ cur[a].what \in Unhandled
  /\ IF loop[a] = "turn" THEN Return(Waiting({cur[a]})) ELSE UNCHANGED <<todo, at>>
  /\ job' = [job EXCEPT ![a] = "done"]
  /\ UNCHANGED <<stopping, handle, nextId, loop, cur, why, box, count, buffer, history, traceVars>>

(* The loop sees the turn end: by its result ...                             *)
TurnEnds(a) ==
  /\ loop[a] = "turn" /\ job[a] = "done"
  /\ IF cur[a].what \in Traps \cup Unhandled
     THEN loop' = [loop EXCEPT ![a] = "failed"] /\ why' = [why EXCEPT ![a] = "trap"]
     ELSE IF stopping
     THEN loop' = [loop EXCEPT ![a] = "exiting"] /\ why' = [why EXCEPT ![a] = "shutdown"]
     ELSE loop' = [loop EXCEPT ![a] = "recv"] /\ UNCHANGED why
  /\ job' = [job EXCEPT ![a] = "none"]
  /\ UNCHANGED <<stopping, todo, at, handle, nextId, cur, box, count, buffer, history, traceVars>>

(* ... or cancelled by the shutdown, which leaves the closure running, and    *)
(* wins over a result as the select is biased.                               *)
TurnCancelled(a) ==
  /\ stopping /\ loop[a] = "turn"
  /\ loop' = [loop EXCEPT ![a] = "failed"] /\ why' = [why EXCEPT ![a] = "cancelled"]
  /\ Return(Waiting({cur[a]}))
  /\ UNCHANGED <<stopping, handle, nextId, job, cur, box, count, buffer, history, traceVars>>

ReportBudget(a) ==
  /\ loop[a] = "failed"
  /\ Record(Event("BudgetExhausted", a, why[a], "", 0))
  /\ loop' = [loop EXCEPT ![a] = "exiting"]
  /\ UNCHANGED <<stopping, todo, at, handle, nextId, job, cur, why, box, count, history, traceVars>>

(* Mutant: the receiver outlives the task.                                   *)
LoopExitKeepsReceiver(a) ==
  /\ loop[a] = "exiting"
  /\ Record(Event("Exit", a, why[a], "", 0))
  /\ loop' = [loop EXCEPT ![a] = "ended"]
  /\ UNCHANGED <<stopping, todo, at, handle, nextId, job, cur, why, box, count, history, traceVars>>

(* The task ends: the receiver goes, and with it the frames it holds.        *)
LoopExit(a) ==
  /\ loop[a] = "exiting"
  /\ Record(Event("Exit", a, why[a], "", 0))
  /\ loop' = [loop EXCEPT ![a] = "gone"]
  /\ box' = [box EXCEPT ![a] = << >>]
  /\ Return(Waiting(Range(box[a])))
  /\ UNCHANGED <<stopping, handle, nextId, job, cur, why, count, history, traceVars>>

-----------------------------------------------------------------------------
(* Shutdown, flush, and the replay driver.                                   *)

Shutdown ==
  /\ phase # "done" /\ ~stopping /\ \A c \in DOMAIN todo : todo[c] = << >>
  /\ stopping' = TRUE
  /\ UNCHANGED <<todo, at, handle, nextId, buffer, agentVars, traceVars>>

(* Mutant: the driver sends where it should ask, and runs ahead.             *)
RefeedSends(t) ==
  LET ops == SelectSeq(t, LAMBDA e : e.kind \in {"Spawn", "MessageSent"}) IN
  [i \in DOMAIN ops |->
     [op   |-> IF ops[i].kind = "Spawn" THEN "spawn" ELSE "call",
      key  |-> ops[i].agent, what |-> ops[i].what,
      arg  |-> ToRuntimeValue(ops[i].arg), ask |-> FALSE, addr |-> FALSE]]

(* What replay_all does with the trace: it spawns, and asks, in its order.   *)
Refeed(t) ==
  LET ops == SelectSeq(t, LAMBDA e : e.kind \in {"Spawn", "MessageSent"}) IN
  [i \in DOMAIN ops |->
     [op   |-> IF ops[i].kind = "Spawn" THEN "spawn" ELSE "call",
      key  |-> ops[i].agent, what |-> ops[i].what,
      arg  |-> ToRuntimeValue(ops[i].arg), ask |-> TRUE, addr |-> FALSE]]

(* The tasks are aborted wherever they are, and the trace is written.        *)
Flush ==
  /\ phase = "record" /\ stopping
  /\ phase' = "replay" /\ recorded' = buffer /\ before' = history
  /\ buffer' = << >> /\ UNCHANGED <<early, late>>
  /\ Fresh([c \in {Driver} |-> Refeed(buffer)])

(* The driver's shutdown has dropped the runtime, whose worker threads wait   *)
(* for the closures under way: only then is the recorder read and uninstalled. *)
Finish ==
  /\ phase = "replay" /\ stopping /\ \A a \in Ids : job[a] \in {"none", "done"}
  /\ phase' = "done"
  /\ UNCHANGED <<stopping, todo, at, handle, nextId, buffer, agentVars, recorded, early,
                 before, late>>

-----------------------------------------------------------------------------
ClientStep(c) == \/ AllocAgent(c) \/ SpawnAgent(c) \/ RecordSent(c) \/ NotFound(c)
                 \/ Enqueue(c) \/ Deadline(c)

ClosureStep(a) == ReadClock(a) \/ CountTurn(a) \/ Handle(a) \/ Reply(a)
LoopStep(a) == Recv(a) \/ TurnEnds(a) \/ TurnCancelled(a) \/ ReportBudget(a) \/ LoopExit(a)
AgentStep(a) == ClosureStep(a) \/ LoopStep(a)

Next ==
  \/ phase # "done" /\ (\E c \in DOMAIN todo : ClientStep(c))
  \/ phase # "done" /\ (\E a \in Ids : AgentStep(a))
  \/ Shutdown \/ Flush \/ Finish

Spec == Init /\ [][Next]_vars

(* The driver runs on block_on, and its asks have a timer.  An agent's turn   *)
(* ends (its steps are budgeted), and its loop runs until it is aborted.      *)
DriverStep == phase = "replay" /\ ((\E c \in DOMAIN todo : ClientStep(c)) \/ Shutdown \/ Finish)

FairSpec ==
  /\ Spec /\ WF_vars(DriverStep)
  /\ \A a \in Ids : /\ WF_vars(phase = "replay" /\ ClosureStep(a))
                     /\ WF_vars(phase = "replay" /\ ~stopping /\ LoopStep(a))
-----------------------------------------------------------------------------
(* What the recorder and the driver promise.                                 *)

Kinds == Soft \cup {"Spawn", "MessageSent", "MessageHandled", "ClockRead"}

TypeOK ==
  /\ phase \in {"record", "replay", "done"}
  /\ {stopping, late} \subseteq BOOLEAN /\ early \subseteq Nat
  /\ DOMAIN todo = DOMAIN at
  /\ Range(at) \subseteq {"ready", "alloc", "send", "wait"}
  /\ Range(handle) \subseteq Ids /\ nextId \in 1..(Cardinality(Ids) + 1)
  /\ loop \in [Ids -> {"none", "recv", "turn", "failed", "exiting", "gone"}]
  /\ job \in [Ids -> {"none", "run", "read", "counted", "ran", "done"}]
  /\ why \in [Ids -> {"normal", "trap", "shutdown", "cancelled"}]
  /\ count \in [Ids -> Nat]
  /\ \A e \in Range(buffer) \cup Range(recorded) : e.kind \in Kinds /\ e.agent \in Ids

(* A trace in which no call and no spawn was made while a message was still  *)
(* to be handled: each turn's record follows that of its own message.         *)
Serial(t) ==
  LET p == SelectSeq(t, LAMBDA e : e.kind \in {"Spawn", "MessageSent", "MessageHandled"}) IN
  \A i \in DOMAIN p : p[i].kind = "MessageHandled" =>
    /\ i > 1 /\ p[i - 1].kind = "MessageSent" /\ p[i - 1].agent = p[i].agent
    /\ p[i].n + 1 = Cardinality({j \in 1..(i - 1) :
                         p[j].kind = "MessageSent" /\ p[j].agent = p[i].agent})

SoftLast(t) == \A i, j \in DOMAIN t : i < j /\ t[i].kind \in Soft => t[j].kind \in Soft
HostFree(t) == \A e \in Range(t) : e.kind # "ClockRead" /\ e.arg # "opaque"

(* A serial run that verifies, without reads of the host and without live     *)
(* references in its messages, whose agents end after everything else, replays *)
(* without a mismatch, and each agent handles again, in order, what it handled *)
(* then.                                                                      *)
SerialRunReplays ==
  phase = "done" /\ ~late /\ VerifySelfConsistent(recorded) /\ Serial(recorded) /\ SoftLast(recorded) /\ HostFree(recorded) =>
    /\ Mismatches = 0
    /\ \A id \in DOMAIN handle : IsPrefix(before[id], history[handle[id]])

(* A replay ends: no send waits for ever on the mailbox of an agent that has  *)
(* ended, in the middle of a turn or not, and the drop of the runtime waits    *)
(* for turns that end.                                                        *)
ReplayEnds == (phase = "replay") ~> (phase = "done")

=============================================================================
