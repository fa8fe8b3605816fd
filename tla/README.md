# Mighty runtime: TLA+ models, checks and proofs

Mighty is a statically typed agent language. Its repository is a Rust workspace
of 21 crates (`crates/mty-*`) plus parsers in Python and Go and a self-hosted
compiler. Most of what is hard to test is in the runtime, `crates/mty-runtime`:
agents with bounded mailboxes, handlers on blocking threads that are raced
against cancellation, timers, a cluster mesh with reconnecting peers, supervision
across nodes, live migration, hot reload, a work-stealing pool, and recording
with replay. The compiler crates are sequential passes; one of them, the borrow
checker (`crates/mty-borrow`), makes a promise about every program it accepts, and
is checked against it. This project models that core. Paths below are relative to
`crates/mty-runtime/src/` unless they start with `docs/` or `crates/`.

## 1. Inventory

| Part | State it keeps | Operations | Hard behaviour | What makes it correct |
|---|---|---|---|---|
| Payload slab (`slab_pool.rs`) | slots, LIFO free list, two counters, each under its own lock | acquire (pooled, empty, overflow), read, drop | steps of several threads between the locks | no slot lost or shared; a frame reads back its own bytes |
| Mailbox (`mailbox.rs`) | bounded mpsc channel, slab, `SendPolicy` | `send`, `try_send`, `take_receiver` | full and closed channels, waiting senders | refused, dropped and queued frames give back slot and reply |
| Agent loop and turns (`agent.rs`, `runtime.rs`, `cancel.rs`, `timer.rs`) | registry, descriptor state, per-turn token, shared reply slot, trace | `spawn_agent`, `send`, `ask`, loop, turn, `shutdown` | a turn detached by cancellation, panic, abort, deadline | one turn at a time; one reply per ask; Ok means stored and traced; every call returns |
| Deadline scheduler (`delay_timers.rs`) | DelayQueue, command channel, channel of fired ids, key slots | `schedule`, handle drop, `next_fired` | keys are recycled, channels fill up | fires once; a key cancels its own deadline |
| Cluster mesh (`cluster/mesh.rs`, `correlation.rs`, `peer.rs`) | peers, correlation table (two maps), dialer flags | `route_ask`, demux, dial, accept, shutdown | replies against disconnects, reconnects, deadlines | no waiting ask without entry; no entry left; asks resolve |
| Cluster supervisor (`cluster/supervisor.rs`, `placement.rs`) | child records, restart history, available nodes, event channel | `add_child`, `on_node_disconnect`, `on_child_exit`, `next_event`, policy setters | concurrent reports, strategies, breaker | a down child is announced; the drainer catches up; NoProc is not hidden |
| Live migration (`cluster/migration.rs`) | pending map, routing rewrites, metrics | `migrate_agent`, `handle_inbound` | lost and late answers, overlapping calls | the agent is somewhere; waiters are answered; counts balance |
| Hot reload (`reload/`, `control_socket.rs`) | dispatch gate, drain signal, program slot, schema registry, typed cell | plan, drain, pause, snapshot, swap, migrate, resume | a loop that looks at neither gate nor drain, error exits, overlapping reloads | a reload that fails early leaves the agent running; what may lose a handler's work; the chain of migrations; module and state agree |
| Work-stealing scheduler (`scheduler/`) | injector, deques, depth counters, permits, shutdown flags | `submit`, `submit_to`, pop, steal, park, execute, `shutdown` | contended steals, wake-ups, counters in separate steps | no task lost or run twice; no wake-up missed; every task runs |
| In-process supervision (`supervisor.rs`, `supervisor_orchestrator.rs`) | restart trackers | record failure, decide | backoff arithmetic | intensity and backoff bounds |
| Record and replay (`replay/`, hooks in `runtime.rs`, `agent.rs`) | event buffer, turn counters, trace file, replay cursor | record, seal, verify, re-execute, compare | records and effects in different orders, an agent found before its spawn is recorded, a recording cut off by shutdown | a trace verifies but for messages ahead of their agent's spawn; a serial one replays; a clean report means something |
| Borrow checker (`crates/mty-borrow`) | ownership of each local, borrow ledger, last uses | walk, join, loop passes, decay, scope end | the order of moves, loans, branches and last uses | what it accepts does not use a moved value or a dangling reference |
| Budgets, introspection, telemetry, wire format, TLS, ABI, HTTP | - | - | counters, encoding, I/O | - |
| Compiler, formatter, package manager, LSP, docs, CLI, stdlib | - | sequential passes | - | - |

How they interact. `Runtime::send` and `ask` find an agent in the registry and
go through its mailbox, which admits the payload into the slab and pushes a
frame; the agent loop receives the frame and runs the handler on a blocking
thread; the thread, the cancellation arm, the join arm and the destruction of
the mailbox share one reply sender. `ask_addr` for a remote address goes to the
mesh, which registers the ask in the correlation table and hands the frame to a
peer; the demultiplexer or the dialer answers it. The dialer reports lost nodes
to the cluster supervisor, which emits restart requests. Migration ships a
snapshot over the mesh and installs a routing rewrite. In-process supervisors
are not wired to the agent loop: a failed turn ends the agent. A reload comes in
through the control socket and works on the agent's gate, slot and state. The
recorder sees spawns, sends, turns, host reads and exits; the replay driver feeds
them to a fresh runtime. The work-stealing pool is a library the runtime starts
and shuts down, but agents run on tokio tasks: nothing in the runtime submits to it.

`PROJECT.json` lists every component and every hazard with its line.

## 2. Modules

| Module | What it models | Checked by |
|---|---|---|
| `SlabPool` | the slab at the granularity of its locks | `slab_pool`, `Services_proofs` |
| `AgentCalls` | abstract: what a caller of an agent may rely on | implemented by `Agent` (`PromiseKept`, run and theorem) |
| `Agent` | one agent, its mailbox, loop, turns and callers, shutdown | `agent`, `Agent_proofs` |
| `DelayQueue` | what a deadline passes through: commands, the DelayQueue with its recycled keys, fired ids | through `DelayScheduler` |
| `DelayScheduler` | handles, background task, consumer | `delay`, `Services_proofs` |
| `Mesh` | remote asks, correlation table, peers, dialers, shutdown | `mesh_safety`, `mesh_watched`, `Mesh_proofs` |
| `ClusterSupervisor` | children, strategies, breaker, placement, events | `supervisor`, `ClusterSupervisor_proofs` |
| `Migration` | `migrate_agent` and `handle_inbound` over a lossy wire | `migration`, `Migration_proofs` |
| `SchemaChain` | breadth-first search for a chain of state migrations, in any order of the edges | through `Reload` |
| `Reload` | `SimpleReloadHook::reload` and `ReloadRunner::run` against the agent loop | `reload`, `Reload_proofs` |
| `StealOrder` | the loop that sorts a worker's siblings into tiers | through `WorkStealing` |
| `WorkStealing` | submitters, workers and shutdown callers | `scheduler`, `WorkStealing_proofs` |
| `TraceChecks` | verification of a trace, comparison of two event streams | through `TraceReplay` |
| `TraceReplay` | a run recorded, sealed, re-executed and compared | `replay`, `Services_proofs` |
| `BorrowFlow` | the borrow checker's walker as operators | through `BorrowCheck` |
| `BorrowCheck` | bodies, what running them does, and the checker's verdict | `borrow`, `borrow_branches` |
| `SeqFacts` | facts about sequences, least elements and iteration the proofs share | tlapm |
| `*_proofs` (seven modules) | theorems about the module they extend; `Services_proofs` also about `DelayScheduler` and `TraceReplay`, as instances | tlapm |

`MC*` modules give small instances, each `.cfg` is one run. Operators commented
`Mutant:` are deliberately wrong variants of the definition that follows them,
used to show that a property notices the bug; no specification uses them.

### State and actions against the code

*SlabPool.* `pc[h]` is where a thread stands between the locks of `try_acquire`
(`PopFree`, `WriteSlot`, `CountAcquired`) and of `Drop` (`ResetSlot`, `PushFree`,
`CountReleased`). Empty payloads and overflow frames own no slot. The bytes of a
slot are one value; inline or spilled storage is not distinguished.

*Agent.* `policy` is the mailbox's `SendPolicy`. (The runtime itself only makes mailboxes that
block; the other two are reachable through the public `Mailbox` API.) A message is one call of
`send` or `ask`. `Admit` takes the slot of the slab, before the channel is looked at, as
`Mailbox::admit` does; `Enqueue`, `BlockOnFull` and `RejectFrame` are what the channel then makes
of the frame, and a refused one gives its slot back. `Unblock` and `UnblockClosed` end the wait of
a blocked sender; `Recv` to `LoopExit` the agent loop; `JobStart` to `JobLost` the blocking
closure in the order the code has: clone the state, run, record, store, reply, drop. `fired` and
`shutdown` are the two ways the per-turn token fires. `chan[m]` is the oneshot, `"open"` while
unsent. The handler's effect is "m was applied" and the agent's state the sequence of messages
applied, so a lost update shows. Handlers end by themselves or by their step budget.

*DelayQueue, DelayScheduler.* `cmds`, `entry`, `fired` are the command channel, the
DelayQueue and the fired channel. A DelayQueue key is a slab index (external):
the last vacated one is given out next. Durations are abstracted away: any
pending entry may expire next.

*Mesh.* `pending` and `targets` are the two maps of the table, and each lock of one of them is a
step: a reply, a disconnect and a shutdown take the id out of the side map (`CutTarget`, in
`cut`), then the sender out of the other one (`TakeSender`, in `held`), then send (`SendVerdict`);
the guard of an ask does `CleanTarget`, then `CleanPending`. `demux` is the demultiplexer: at its
queue, waiting in `inbox_tx.send` with a frame that is no reply (`DemuxOther`, `Forward`; `Others`
says whether such frames come), or ended because the inbox was dropped. `link[n]` tells a peer
whose reader has ended (`"half"`, which `is_connected` still reports as up) from one whose writer
has ended. `gen[n]` tells a peer picked before a replacement from the new one: the old one's
channel may still take the frame (`HandOff`) or be closed (`HandOffRefused`). `dial[n]`, `was[n]`,
`attempt[n]` are the dialer task; `DialCollect` and `DialFail` are the two phases of
`fail_targeting_node`. The remote end and the inbox's owner are external.

*ClusterSupervisor.* `lock`, `todo`, `why` are a report inside the critical
section: the lost children of a node are planned one by one in the order of a
hash map, i.e. any order. `backlog[c]` are the events computed and not yet sent.
`hist[x]` counts the restarts within the window; `WindowPasses` lets the oldest
one age. `told[x]` (history) is the last event computed about a child, `heard[x]` the last
one received about it, and `crossed[x]` says that one was computed while another report still
had one about it to send.

*Migration.* `pc[a]` follows one call of `migrate_agent`; every way out of it is
an action. `pending` has at most one entry because the code's map is keyed by
the agent. `copies` are snapshots restored on a target. The snapshot hooks are
traits, implemented in tests only, and are modelled by their documented contract. The
rewrite (`InstallRewrite`) and the awaited `finalize` (`Finalize`) are two steps.
`overlapped` (history) remembers that two calls were under way at once.

*Reload.* `pc[r]` follows one call from the plan to its end: `Drained` waits on the drain signal,
`Pause` closes the gate, then snapshot, swap of the program slot, migration and restore, resume;
each failure is an action and leaves behind what the code leaves. `plan[r].installs` is false for
a module without a program slot, for which the swap does nothing (`swap.rs:504`). `state` is the
typed cell: the schema its value is shaped by and the messages whose effects it holds. The agent
loop is the one of `runtime.rs:624-739` (`TakeFrame`, `LoadState`, `StoreState`, `TurnFails`,
`LoopEnds`): it looks at neither the gate nor the drain signal, which only whoever else holds it
may mark (`Mark`). `overwritten` and `straddled` (history) remember that a turn stored between a
snapshot and its restore, and that a call restored while a turn was between its load and its
store. `SchemaChain` also has the reference the search is compared with: `IsPath`, `IsShortest`,
`Reaches`.

*WorkStealing.* `injector` and `deque[w]` are sets of tasks. A steal is two steps, and a Retry
when somebody else took from the source in between (`stale[w]`), which is crossbeam's contract. A
submission pushes (`PushTask`) and then notifies worker after worker (`NotifyNext`, `woken[t]` so
far); a pinned one raises the depth, pushes, and notifies its worker (`RaiseDepth`, `PushPinned`,
`NotifyPinned`). `permit[w]` is the permit of a `Notify`. `ReadDepth` reads the depth (`prev[w]`),
and `Execute` subtracts in a step of its own, modulo `DepthMod` (2^64 in the code). `Hogs` are
tasks that never give their worker back.

*TraceChecks, TraceReplay.* One runtime, first with the clients of a script, then with `Driver` as
its only client. `buffer` is the installed recorder's, `recorded` the file's, `count` the turn
counters. A spawn, a send and a turn each take the steps between which other threads can move: id
and registry entry, record and start of the loop; lookup, record, enqueue; start, host read,
counter, record, exit. A call by address (`addr`) finds the agent in the registry as soon as it is
there (`Registered`, `Finds`, `NotFound`), so its `MessageSent` may come before the `Spawn`:
`early` (history) holds the places of such events. A mailbox holds `MailCap` frames, and `Enqueue`
waits for room, outside the deadline of an ask as in the code. `Finish` waits for the closures, as
the drop of the runtime does. `CompareOne` is the greedy walk of `compare_streams`. `Ids` bounds
the agents of a run: a spawn needs a free id (`AllocAgent`), and the ids are given out from 1 up
as the registry does. A live reference in a payload is recorded as its rendering and comes back as
a string.

*BorrowFlow, BorrowCheck.* An expression is a record with a kind; kinds the walker
treats alike are one. `Walk` threads ownership states, ledger and diagnostics
through a body as `flow.rs` does, after the pre-pass that counts each local's reads.
The specification writes a body statement by statement (`Write`) out of a *kit*, a set of
statements, and checks it after each. `Outcomes` is the reference, written from what
Rust-like moves and loans mean and not from the checker: every way the body can run,
with what goes wrong on the way, and whether on a later turn of a loop (`AtOnce`, `Ever`).

## 3. Runs

| Run | Question | Instance |
|---|---|---|
| `slab_pool` | does any interleaving lose, share or overwrite a slot? | 3 threads, 2 slots, 4 acquisitions |
| `agent` | do the agent's invariants and the `AgentCalls` promise hold for every policy, failure and shutdown, and does every call return? | an ask, an ask with deadline, a payload-free send without handler, capacity 1, all policies; 0.19 M states |
| `delay` | does a deadline fire twice, or hold another's key? | 3 deadlines, channels of 2 and 1 |
| `mesh_safety` | is the table kept through replies, disconnects, inbound replacement, deadlines and shutdown? | 2 asks to one node, 2 connections; 2.3 M states |
| `mesh_watched` | is a "peer disconnected" ever stale, and does a watched ask resolve? | 2 nodes, 2 asks, 2 connections to one and 1 to the other, frames for the inbox; 0.34 M states |
| `supervisor` | are down children announced, does the drainer hear the last word, is NoProc kept, under every strategy? | 2 children on 2 nodes, 2 reporters, 3 adds, 2 settings, 2 reports; 1.1 M states |
| `migration` | is the agent always somewhere and every caller answered, serial or overlapping? | 2 calls, 2 messages; 59 k states |
| `reload` | what may close the gate, lose a handler's work, or choose the chain? | 2 reloads, 3 schemas with 3 possible migrations, 2 messages; 2.6 M states |
| `scheduler` | is a task lost, run twice, or left while workers sleep? | 2 workers on different sockets, 3 tasks (one pinned, one that never returns), 2 callers of shutdown; 1.2 M states |
| `replay` | which recordings replay, and what does a clean report mean? | 6 scripts of one or two clients and one or two agents, mailboxes of 1; 0.62 M states |
| `borrow` | does the checker accept a body that goes wrong, or report a move that cannot? | all bodies of 3 statements with moves and branches, all of 4 with loans, blocks and loops, each loop up to two turns; 0.23 M bodies |
| `borrow_branches` | expected violation, section 6 | bodies of 3 statements with a borrow on one branch |

What the properties of some of the runs say:

* `PausedHasCause`: the gate is closed only by a reload between its pause and its
  resume, or one that failed there. `LossNeedsRace`: what a handler did is forgotten only if
  a turn stored between a snapshot and its restore; reloads that overlap, fail half-way or
  restore under a running handler lose nothing by themselves. `OneReloadAgrees`:
  after a first completed reload the installed module and the state have one schema, unless it
  restored under a running handler. `ChainIsShortest`: the migrations a reload runs are a shortest
  registered path, whatever order the map yields its edges in, and it is refused only if there is
  no path.
* `DrainerCatchesUp`: a drainer that has received every event about a child was told the last
  decision last, unless two reports had events about that child to send at once.
* `InFlightIsTargeted`: from before its frame is handed to a connection, an ask can be found
  under its node, or a task that took it off the list is about to answer it.
  `WatchedAskResolves`: as long as the inbox's owner keeps taking frames.
* `TaskInOnePlace`, `WorkIsAttended` (from the first notification of a task until it is taken,
  some worker is awake or holds a permit, so the 50 ms timeout is only a second line),
  `DepthNeverWraps`
  although check and subtraction are two steps, `QuietAfterShutdown`, `EveryTaskRuns`.
* `TraceVerifies`: wherever the shutdown cuts, the events the replayer's own check rejects are
  exactly the messages recorded ahead of their agent's `Spawn`.
  `SerialRunReplays`: calls that do not overlap, without host reads and live references,
  with the lifecycle events last, replay without a mismatch and in order.
  `CleanReportIsOrdered`: the greedy comparison agrees with the definition of embedding
  one event sequence in the other. `ReplayEnds`, with mailboxes that fill up.
* `MovesAreTracked`, `LoansAreHonoured`: what is accepted does not go wrong, at the earliest
  on a later turn of a loop (section 6).
  `AlarmsAreReal`: a reported use after move, or without a value, can happen.

Every component's module but `BorrowCheck` also states a type invariant `TypeOK`; all of these
are theorems, for every value of the constants.

Why the bounds are enough to reach the interesting cases. With capacity 1 and three calls there is
a message in a turn, one queued and one blocked at the same time. Two slots for three threads make
the free list run empty and an index travel between threads. Three deadlines are the fewest for
which a stale key meets a recycled one while a third is pending; the short channels make every
full-channel branch happen. Two connections per node let a connection die and be replaced while an
ask is between the steps of its registration and while the dialer is between its look and its
verdicts; `MaxAttempts` (10 in the code) of 1 lets the dialer give up. `MaxRestarts = 1` with two
reports makes a restart be followed by a tripped breaker; the event channel of one (256 in the
code) makes reporters wait and interleave. Two migration calls are what it takes to share a
pending entry. Two reloads overlap, or follow one another with a chain of two migrations between
them. Two workers are enough for a contended steal, since the injector is a third source; the task
that never returns strands what its worker batched. The scripts of `replay` have an agent that
traps between others' events, concurrent spawns, pipelined asks, host reads, a message without a
handler, and calls by address while the agent is being spawned and after it has trapped. Three
statements suffice for a value moved on one path, given back on another and used on a third; four
for lend, lend again, move, use. Loops go round twice at most (`Turns = 2`), the fewest for which
what a turn leaves behind meets the next. Symmetry is used where the permuted values are
interchangeable and no liveness is checked.

`CHECK_DEADLOCK FALSE` is set where the system may stop: an agent that has died
and whose calls have returned, a mesh that was shut down, workers that were joined,
a replay that has ended, bounds that are used up.

### Fairness

Liveness is checked in `agent`, `mesh_watched`, `scheduler` and `replay`,
under weak fairness, but for one queue:

* the agent loop and callers waiting on a permit or a reply are tokio tasks, polled
  when they are ready; between the admission of a frame and the offer to the channel there is
  no `.await`; `AbortTasks` follows the token in the same function;
* a turn's thread goes on, because a handler ends by its step budget;
* mesh tasks (ask, dialer, whoever is between the locks of the table) are polled; the remote
  answers while the connection lasts. The raw frames are a FIFO queue, so the
  demultiplexer reaches every frame if it comes back to its queue for ever (strong
  fairness of `Demux`). That it comes back is not assumed: its `inbox_tx.send` waits for the
  inbox's owner, so nothing makes `Forward` happen and `WatchedAskResolves` has the premise
  `[]<>(demux = "recv")`. A heartbeat on a closed connection fails (`WriterEnds` from
  `"half"`), unless the demultiplexer has ended;
* each worker thread runs, its park ends after 50 ms at the latest, and a submitter that
  has raised the depth pushes its task (no `.await` in between); nothing makes the task
  in `Hogs` return, and nothing makes a submitter notify;
* the replay driver runs, and its asks have a timer. Of the agents it re-executes, a turn ends
  by its step budget and a loop goes on until it is aborted; this is what empties a full mailbox
  the driver waits on, and what the drop of the runtime waits for.

Nothing makes a call, a deadline, a wall budget, a panic, a disconnect, a reload or a
shutdown happen.

## 4. Proofs

`Services_proofs` has the three services that agents and clients use: the slab, the deadline
scheduler and the recorder. They share no state. `SlabPool` is extended; the other two are
the instances `Delay` and `Trace`, with every constant and variable left open, so the
theorems say of them what a module that extends them would. The properties proved of them
are the ones the runs check, from `DelayQueue` and `TraceChecks`.

The slab (any capacity, any finite set of threads, any payloads):
`TypeCorrect`, `Conservation`, `FrameIntegrity`, `CountersNeverCross`. The inductive
invariant is `IInv`: the type invariant, `SlotsConserved`, `HasSlotInside` (a thread
between the locks still owns its index) and `SlotCarriesBytes` (a slot already
written holds its frame's bytes). Without the last two, another thread's push could
not be told from a theft. `CountersNeverCross` rests on `CountersExact`: the gap between
the counters is the number of frames counted out, so it never goes below zero.

The deadline scheduler (any deadlines, any capacities of the two channels):

| Theorem | Argument |
|---|---|
| `DeadlineFiresOnce` | `DelayInv`: a deadline that was not scheduled is nowhere, and its Insert is queued once, so the Insert, the queue, the fired channel and the consumer have it one after the other and never two of them at once |
| `CancelFindsItsOwn` | the same invariant: every key in a Cancel, in a key slot or on the free list was given out (`KeysGivenOut`), and the free list holds a key once and only while nothing is behind it. A recycled key is therefore new to the deadline that gets it, although an old handle may still carry it |
| `DelayTypeCorrect` | with the two channels within their capacities (`CapsAssumption`: both hold at least one) |

The recorder (any scripts, agents, messages and handlers):

| Theorem | Argument |
|---|---|
| `TraceIsAccepted` | `TraceInv`: exactly the agents whose spawn is recorded have had a task, and a loop that waits for mail has no closure (`TasksAreSpawned`); each turn counter is the number of turns recorded, or one ahead while a closure is between counter and push (`CountersAgree`); `early` names places of the recording (`EarlyIsRecorded`). An event that `Fits` is then accepted, one that does not is a message and is remembered in `early`, and neither changes the verdict on those before it (`RecordFacts`); the shutdown cuts between events. Assumes `KeysAssumption`, that a script spawns a key once |
| `ReportIsSound` | of the comparison of any two streams. `Embeds` keeps every place at which the events so far may end, `compare_streams` keeps one. `WalkIsGreedy`: the walk stands no further than right behind the first of those places, so what can be embedded is found. `WalkIsHonest`: while no mismatch is counted, the place right before the walk's is one of them when lifecycle events may be skipped |
| `TraceTypeCorrect` | `TraceShape`: a client between the id and the record of a spawn holds a handle; assumes `IdsAssumption`, that the ids are 1 to some number |

`Agent_proofs` (any calls, any capacity, every policy, with or without wall budget):

| Theorem | Argument |
|---|---|
| `TypeCorrect` | step by step over the actions |
| `RepliesAreFinal` | every writer of a oneshot goes through `TakeReply` or `DropReplies`, which leave an answered one alone |
| `NoOverlap` | `TurnInv`: while the loop is idle no thread is active, and in a turn only that turn's; a cancelled turn leaves its thread to a loop that takes no further message |
| `OkIsDurable` | `EffectInv`, on top of `TurnInv`: the state a thread was given is still the agent's state when it writes back, since no other turn runs; it is traced before it stores and stores before it replies |
| `NoOrphans` | `OrphanInv`: a thread past its reply has an answered channel, so the loop may let go of it |
| `SlabNeverLeaks` | `SlabInv`: a call that was not made has no frame, so an admitted slot is new to its owner; a frame between admission and channel counts as one, and gives the slot back if it is refused |
| `PromiseIsKept` | refinement of `AgentCalls`, below |

*`PromiseIsKept`* shows that `Agent` implements `AgentCalls` with `applied` read as the
range of `state`. `JobStore` is the promise's `Apply`, a caller's step is an `Answer` or
nothing, and every other step is invisible. What has to be known for that is `PromiseInv`:
a message has one frame at most, so it is handed to one thread (`OneFrame`, which needs that
queue and waiters have no repetitions); an effect has a good turn behind it (`StoredOnce`);
and whoever was told, or is about to be told, that the message was refused, discarded or
failed holds a message that is `Barred`: neither queued nor with a sender, and its
thread, if it had one, is lost or past a bad result. `Barred` is stable, which is
the "never will be" of the promise. `EffectInv` supplies that a thread appends to the very
state it was given, so an effect is never undone.

`Mesh_proofs` (any asks, nodes, bounds, watched or dialled from the other side):

| Theorem | Argument |
|---|---|
| `TypeCorrect` | with `DialerIsCurrent`, which bounds the attempts of a dialer that has not stopped |
| `NoSenderDropped`, `NoLeak` | `PendingIsOpen`: until its oneshot is answered, the sender of an ask is in the table or with one task (`held`), and in neither once the ask is over. `SideMapFollows`: until shutdown, an id that somebody has taken out of the side map, or whose ask is over, does not come back. Both rest on `UnsentIsUnknown`: before an id is in the side map no frame, reply, dialer or demultiplexer has it |
| `DisconnectFindsAsk` | `NobodyMissed`: past its registration an unanswered ask is in the side map or in somebody's hand, shutdown or not. Each of the three steps passes the ask on to the next, and the guard's two removals come when the ask has stopped waiting; `ShutdownFollows` says who may hold a verdict |
| `VerdictIsCurrent` (action property) | `DialerIsCurrent`: from the dialer's look to its last verdict nothing but the dialer itself could connect the node, unless the node dials us |

`ClusterSupervisor_proofs` (any finite set of children, any nodes, reporters and settings):

| Theorem | Argument |
|---|---|
| `TypeCorrect` | with `LeastLoadedIsAvailable`: a placement hint is an available node |
| `DownIsAnnounced` | `PlannedIsAnnounced`: every child not in the planner's hands is announced; `LockCoversTodo`: outside the critical section that is every child |
| `DrainerIsCurrent` | `LatestIsLast`: unless reports crossed, the last decision about a child is the last event about it of the only backlog that has one, else of the channel, else what the drainer heard |
| `NoProcSticks` (action property) | `NextSeqIsNew`: a child added again gets a number it has not had, so a child whose number stays was not added |

`Migration_proofs` (any calls, any messages, a wire that loses and delays):

| Theorem | Argument |
|---|---|
| `TypeCorrect`, `PendingIsServed` | `CallsAndPending`: the entry is the open channel of exactly one waiting call |
| `NeverNowhere` | `AcksNameCopies`: what an ack names was restored, on every leg of its way; `PauseHasOwner`: the pause belongs to a call that will end it |
| `MetricsAddUp` | each way out counts once; the sets counted differ by the one call that moved |
| `SerialMovesClean` | `SerialInv`: while no calls overlapped and none timed out, the wire carries only what the one waiting call is about to hear, a copy is that call's or the completed one's, and what the source handled is in the shipped state |

`Reload_proofs` (any finite set of schemas, any calls and messages):

| Theorem | Argument |
|---|---|
| `PlansAreRegistered` | of the search: `BfsFindsPath`, every chain it returns, in whatever order the edges come, is a path of registered edges from the old to the new hash. The invariant on the search (`Searches`: every front of the queue carries the path to it) goes through one edge, one pop and the whole loop |
| `TypeCorrect` | with `LoopHoldsFrame` and the search's result |
| `PauseIsExplained` | with `OutcomeAtEnd`: only a call that has ended has an outcome |
| `NothingForgotten` | `RaceFree`: as long as no turn stored between a snapshot and its restore, three things hold everything handled: the cell, the clone a running handler will store, and each snapshot still to be restored. Any of the three may be written over any other, by overlapping calls too |
| `SingleReloadAgrees` | `SingleCall`: the only call so far finds the schema the hook was built with, and takes module and state to its own one after the other, and a handler running meanwhile works on a clone of the cell's schema; the chain ends there by `PlansAreRegistered` |

`WorkStealing_proofs` (any topology, any tasks, pinned or not, any callers of shutdown):

| Theorem | Argument |
|---|---|
| `StealOrderIsComplete` | of `build_steal_order`: N - 1 entries, none of them the worker itself, and every other worker among them, hence each once. The invariant of its loop is `TiersUpto` |
| `TypeCorrect` | with `LoopHolds` (a worker that probes is at a valid index), `DepthsAreCounted` and the theorem above |
| `NoTaskLostOrDoubled` | `TasksArePlaced`: stated by cases instead of by counting, so that a steal of a batch moves each task by itself |
| `NoWakeUpMissed` | `ScannersAreEmpty`: a worker looks elsewhere only with an empty deque, so a task in a deque has an awake owner; `InjectorIsAttended`: a task in the injector that was announced has an awake worker or a permit; `NotifiedAfterPush`: nobody is notified before the push, and then worker after worker |
| `DepthStaysCounted` | `DepthsAreCounted`: only the worker itself lowers its depth, so what it read is a lower bound when it subtracts |
| `NothingRunsAfterShutdown` (action property) | `CallersJoin`: the joining caller has seen every worker before its next one exit |

How the proofs are built. Each inductive invariant is a conjunction of named parts, was
checked by TLC on the instance of the component's run before it was proved, and is shown
to be preserved action by action. The proofs assume only the named assumptions on the
constants. The ones that restrict them say what every running program satisfies: the children
of a supervisor, the calls of `migrate_agent`, the schemas and the tasks are finitely many
(`FiniteAssumption`, `SchemasAssumption`, `TasksAssumption`), which is needed where they are
counted; there is at least one worker (`TopologyAssumption`); and the pinned tasks are fewer
than the depth counter's modulus (`DepthAssumption`, 2^64 in the code).

Four operators are loops over data: `SchemaChain!Bfs`, `StealOrder!Tiers`, and in `TraceChecks`
the walk of `Mismatches` and its reference `Embeds`. They are written as recursive functions. The
library's induction rules take an operator as a parameter, which the provers here cannot
instantiate, so `SeqFacts` has an induction of its own: a set of naturals that is not empty has a
least element (`LeastNatural`, from the well-foundedness of `<` on `Nat`), hence what holds at 0
and passes from each step to the next holds along the run of a loop (`Climb`), and the function
defined by the loop exists and keeps to an invariant set (`Iterate`, `IterateStays`). The rest of
`SeqFacts` is what pushing, popping, taking and removing do to the range of a sequence and to its
being free of repetitions.

Only model-checked:

* liveness (`EveryCallReturns`, `WatchedAskResolves`, `EveryTaskRuns`, `ReplayEnds`), which is
  beyond the prover;
* `SerialRunReplays`. It relates two whole runs by a condition on the finished recording
  (`Serial`, `SoftLast`, `HostFree`, read off a `SelectSeq`): a proof has to follow the
  replay along the recording and to show at the same time, of the recorded run, what the
  condition on its later end says about each of its states. `ReportIsSound` proves the
  part of it that is about the comparison;
* `ChainIsShortest`. `PlansAreRegistered` proves that a chain is a registered path to the new
  schema; that none is shorter, and that a refusal means there is none, needs an induction over
  the levels of the search;
* `BorrowCheck`, a recursion over syntax trees of which the prover can show nothing
  for every input.

## 5. What is abstracted or left out

* tokio's channels: a push and the receiver's final drain are one step each; a
  permit granted to a waiting sender is not reordered with closing.
* Agents reach each other only through callers: the interpreter's handlers do not
  send, so one agent stands for all.
* Static placement (a fixed node) and restart timestamps; TLS, the Hello handshake
  and wire encoding; fire-and-forget routing.
* Hot reload: parsing of `.wasm` files, the bytes of a snapshot, rendering of plans.
* Scheduler: the load monitor, which samples counters, and the route of an agent id to a
  worker; the order inside a deque; a task that panics, which ends its worker's thread
  (`scheduler/work_stealing.rs:373`). Two merges lose no order another thread could tell: the worker's
  look at its shutdown flag, its yield and its pop (only its own deque is touched, and a flag
  raised in between is one raised after the look), and setting a flag with the permit that
  announces it (a worker that parks in between is woken by that permit).
* Replay: LLM turns, the byte codec and its versions, two runtimes in one process.
* Borrow checker: lambdas, arenas and their escape check, sendability, mutability codes,
  patterns other than a name, dereferences; shadowing across scopes, references to
  references, and more than two turns of a loop.

Not modelled. In-process supervision (`supervisor.rs`, `supervisor_orchestrator.rs`) is sequential
and wired to nothing. Budgets, introspection, telemetry, ABI and HTTP are counters,
output or I/O. Of the compiler, lexing, parsing, resolution, typing, the interpreter and
three code generators transform trees of unbounded depth without state between
calls: a model of them would be the same program in another notation, with no
interleaving, failure or ordering for a model checker to find; together with
diagnostics, documentation, CLI and editor support they are by far most of the
repository's lines, so the models cover a small share of the lines and the part
where the hard behaviour is. The borrow checker is the exception among them because it has a
reference to be compared with.

## 6. Disagreements between code and documents

Checked as a run that must fail:

* `borrow_branches`: `crates/mty-borrow/src/state.rs:163` keeps the first side when one
  is Owned and the other Borrowed, where its comment (141) says the more restrictive side
  wins; the then-branch's borrow is forgotten and the owner can be moved under the reference.

Met while modelling. The models contain these behaviours, unless it says otherwise, and
no property claims them away:

*Agents and timers*

* A detached thread still stores its state (`agent.rs:143, 175`) after the registry entry is gone
  and the caller was told "cancelled", where `cancel.rs:46-48` says it cannot affect agent
  state. It is harmless to other turns (`NoOverlap`).
* Slab exhaustion overflows to the heap where `mailbox.rs:11-13, 32-34` says it surfaces through
  the policy; the deadline of an ask does not cover its blocking send (`runtime.rs:419`).
* A handle that outlives its deadline keeps a key the queue recycles; dropping it cancels
  another deadline (`delay_timers.rs:67` against 164-165). A handle dropped before its Insert was
  processed, or while the command channel is full, leaves its deadline pending (67-68).

*Cluster*

* Asks on a connection that comes and goes between two looks of the dialer, or that an
  inbound connection replaces, are never failed (`cluster/mesh.rs:552` against 548-549).
  An ask that registers after shutdown collected the pending ids is not failed (427).
* The demultiplexer awaits the inbox for a frame that is no reply (`cluster/mesh.rs:216`), and
  nothing outside the tests takes the inbox: once it is full, replies stop until deadlines or
  disconnects, and `WatchedAskResolves` holds only while somebody empties it.
* A dead child is set to Restarting and announced again (`cluster/supervisor.rs:501` against
  141-143 and `docs/internals/cluster.md:428-429`).
* The restart hint may name the node just lost, because nothing in the crate updates the
  available nodes (`cluster/supervisor.rs:347` against 229-230); with a policy and no available
  node the hint is the old node, where 227-229 says it is absent.
* A full event channel makes `on_node_disconnect` wait where the comment at
  `cluster/supervisor.rs:371-373` says the event is dropped; events of two reports
  leave after the lock and may overtake each other, so that the drainer hears a restart after
  the breaker has tripped (`DrainerCatchesUp` has the case as its exception).
* A failing drain ends `migrate_agent` without the rollback hook (`cluster/migration.rs:401-405`),
  where 372-374 says that on error the hook is called. The model takes it that a drain that fails
  leaves the agent as it found it; if it left it paused, nobody would resume it.
* A migration whose ack is late leaves a live copy on the target while the source
  resumes (`cluster/migration.rs:477`), and that ack is taken for the answer to a later attempt
  (624); a message enqueued between the drain and the rewrite stays on the source (513).
  `SerialInTimeIsClean` says that overlap and deadlines are the only ways to an agent that lives
  twice.

*Hot reload*

* The agent loop (`runtime.rs:624-739`) looks at neither the gate nor the drain signal, where
  `reload/swap.rs:53-55, 484-485` and `condvar_drain.rs:78-88` say that it does. A reload can
  therefore run beside a turn, with two consequences: a turn that stores between the snapshot
  and the restore (`swap.rs:491-521`) is overwritten, and one that loaded before the restore and
  stores after it puts back a state of the old schema under the new module.
* The drain ends before the pause (`reload/swap.rs:465-486`), so a loop that did mark itself
  busy could start a handler in between.
* Errors after the pause do not resume the gate (493, 517, 520), the last two with the new
  module already installed, against the step list at 391-394.
* The hook compares a new module with the schema hash it was built with
  (`control_socket.rs:160`), so a second reload runs its chain on a state already migrated.

*Scheduler*

* The depth is raised for the preferred worker and lowered for whichever executes
  (`scheduler/work_stealing.rs:369-371`), so it drops to 0 with a pinned task still queued,
  where the comment in `submit_to` says the monitor sees the load.

*Record and replay*

* Recordings with overlapping sends, pipelined asks or a spawn while a message is being
  handled do not replay: `MessageSent` is recorded before the frame is enqueued
  (`runtime.rs:403`), and the driver waits for each message.
* An agent is in the registry (`runtime.rs:324`) before its `Spawn` is recorded (343). A call by
  address in between records its `MessageSent` first, and `verify_self_consistent` rejects the
  trace, where the spawn is recorded early for the sake of that check (337-339, which think of
  `MessageHandled` and exits only).
* The driver's ask waits for room in a full mailbox outside its deadline (`runtime.rs:419`): a handler
  that never returned would block the replay. The model has the wait, and handlers that end by
  their step budget.
* A late exit or budget event carries the comparison's cursor past strict events
  (`replay/replay_driver.rs:433-445`), where 388-397 accepts such races.
* The mocked host values are stored and never read (125 against 157-161): a replay reads the
  live clock. Live references come back as strings.
* A clean report of a run that was not serial can hide that payloads were handled in
  another order, since `MessageHandled` carries only the message's name.
* There is one recorder per process (`replay/recorder.rs:41`): another runtime's shutdown, or a
  replay, takes it away. (Not in the model, which has one runtime.)

*Borrow checker* (`crates/mty-borrow/src/`). Of these only the loops are in the kits of `borrow`.

* A loop is usually walked once (`flow.rs:342`), and the states at its breaks are not joined: a
  move in the body, or a use of a reference before the conflicting borrow that ends the body, is
  accepted, where `docs/internals/borrowck.md:394-397` says the scheme is sound and 402-406
  describes the join. Such a body goes wrong from the second turn on: `Outcomes` tells a later
  turn from a first one, and `MovesAreTracked` and `LoansAreHonoured` say that this is the only
  gap of the kind among the kits' bodies. (Drop the distinction and both properties are violated.)
* Assigning to a borrowed local makes it Owned, so that it can be moved under the reference;
  copying a reference (`let s = r`) does not copy the borrow.
* `u = u` of a local without a value is accepted, because the target is given its value first
  (`flow.rs:655`); a local declared without a value, and every handler parameter, has type unit
  and so counts as Copy.
* A local that shadows an outer one removes it at the end of its scope (`flow.rs:243`).
* The deadline of a task scope is counted by the pre-pass and not visited by the walker.
* `docs/spec/borrow-model-v0.3.md`, section 9, calls such gaps "a known over-restriction,
  not a soundness hole".

*In-process supervision* (not modelled)

* The backoff span is an unsigned subtraction that wraps, or panics in a debug build, when
  `backoff_max` is below `backoff_min` (`supervisor_orchestrator.rs:132`).

## 7. Plan

Done: `SlabPool`, `AgentCalls`, `Agent`, `DelayScheduler`, `Mesh`, `ClusterSupervisor`,
`Migration`, `Reload`, `WorkStealing`, `TraceReplay`, `BorrowCheck`; theorems for all of them but
`BorrowCheck`, the refinement of `AgentCalls` included. Every invariant and action property that
a run checks is a theorem, but for `SerialRunReplays`, `ChainIsShortest` and those of `BorrowCheck`.

Next, in this order:

1. Proofs: `SerialRunReplays`, by an invariant that maps the driver's place to a place of the
   recording; first the facts about `SelectSeq` it needs.
2. `MeshSupervisor`: composition of a dialer with the supervisor's bounded event
   channel (a slow drainer stalls reconnection).
3. Lambdas and arenas in `BorrowFlow`; assignments to borrowed locals in a kit.
4. Restart tracker and backoff, the package resolver, the standard library's budget helpers:
   bounded operator checks.
