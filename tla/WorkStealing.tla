---------------------------- MODULE WorkStealing ----------------------------
(***************************************************************************)
(* The work-stealing pool                                                  *)
(* (crates/mty-runtime/src/scheduler/mod.rs, work_stealing.rs,             *)
(* locality.rs): submitters push tasks on the global injector, N worker    *)
(* threads run worker_loop_async, shutdown() flags and joins them.         *)
(*                                                                         *)
(* crossbeam_deque and tokio's Notify are external.  A deque is the set of *)
(* its tasks (no property depends on the order they leave it in); a steal  *)
(* takes two steps, and is a Retry when somebody removed a task from its   *)
(* source in between.  A Notify is one permit.                             *)
(***************************************************************************)
EXTENDS Integers, Sequences, FiniteSets, StealOrder

CONSTANTS Tasks,    \* SpawnTasks
          NoTask,
          Pinned,   \* tasks submitted with submit_to or submit_pinned
          Target,   \* Target[t]: the worker preferred for t \in Pinned
          Hogs,     \* tasks that never give their worker back
          Topology, \* Topology[w]: [node, socket] of worker w
          Callers,  \* threads that call shutdown(), Drop included
          DepthMod  \* current_queue_depth wraps at this value (2^64)

Workers == DOMAIN Topology

\* steal_order, computed once per worker by launch_pool.
StealOrderOf == [w \in Workers |-> BuildStealOrder(w, Topology)]

ASSUME TopologyAssumption ==
  LET n == Cardinality(Workers)
  IN n \in Nat \ {0} /\ Topology \in [0 .. n - 1 -> [node : Nat, socket : Nat]]
ASSUME TasksAssumption ==
  /\ NoTask \notin Tasks /\ IsFiniteSet(Tasks)
  /\ Pinned \subseteq Tasks /\ Hogs \subseteq Tasks
  /\ Target \in [Pinned -> Workers]
ASSUME DepthAssumption == DepthMod \in Nat /\ DepthMod > Cardinality(Pinned)

VARIABLES
  injector,  \* the global injector
  deque,     \* deque[w]: the local LIFO of worker w
  submit,    \* submit[t]: "no", "raised" (depth counted, not yet pushed), "pushed"
             \* (on the injector, workers still to be notified), "yes"
  woken,     \* woken[t]: how many workers submit(t) has notified
  depth,     \* depth[w]: current_queue_depth
  permit,    \* permit[w]: the permit of w's Notify
  pc,        \* pc[w]: where the loop of w stands
  probe,     \* probe[w]: index of the sibling w is trying
  retry,     \* retry[w]: retry_needed
  stale,     \* stale[w]: the source of w's steal has lost a task since w read it
  job,       \* job[w]: the task w executes
  prev,      \* prev[w]: the depth execute() has read
  ran,       \* ran[t]: how often t has been run
  stop,      \* stop[w]: the shutdown flag of w
  started,   \* shutdown_started
  caller     \* caller[c]: [at, next] of a thread in shutdown()

queueVars == <<injector, deque>>
submitVars == <<submit, woken>>
loopVars == <<pc, probe, retry, stale, job, prev>>
closeVars == <<stop, started, caller>>
vars == <<queueVars, submitVars, depth, permit, loopVars, ran, closeVars>>

Pcs == {"top", "scan", "steal", "inject", "injsteal", "park", "exec", "sub",
        "stuck", "exited"}

TypeOK ==
  /\ injector \subseteq Tasks /\ deque \in [Workers -> SUBSET Tasks]
  /\ submit \in [Tasks -> {"no", "raised", "pushed", "yes"}]
  /\ woken \in [Tasks -> Nat]
  /\ depth \in [Workers -> 0 .. DepthMod - 1] /\ permit \in [Workers -> BOOLEAN]
  /\ pc \in [Workers -> Pcs] /\ probe \in [Workers -> Nat \ {0}]
  /\ retry \in [Workers -> BOOLEAN] /\ stale \in [Workers -> BOOLEAN]
  /\ job \in [Workers -> Tasks \cup {NoTask}]
  /\ prev \in [Workers -> 0 .. DepthMod - 1]
  /\ ran \in [Tasks -> Nat]
  /\ stop \in [Workers -> BOOLEAN] /\ started \in BOOLEAN
  /\ caller \in [Callers -> [at : {"idle", "flag", "join", "returned"}, next : Nat]]

Init ==
  /\ injector = {} /\ deque = [w \in Workers |-> {}]
  /\ submit = [t \in Tasks |-> "no"] /\ woken = [t \in Tasks |-> 0]
  /\ depth = [w \in Workers |-> 0] /\ permit = [w \in Workers |-> FALSE]
  /\ pc = [w \in Workers |-> "top"] /\ probe = [w \in Workers |-> 1]
  /\ retry = [w \in Workers |-> FALSE] /\ stale = [w \in Workers |-> FALSE]
  /\ job = [w \in Workers |-> NoTask] /\ prev = [w \in Workers |-> 0]
  /\ ran = [t \in Tasks |-> 0]
  /\ stop = [w \in Workers |-> FALSE] /\ started = FALSE
  /\ caller = [c \in Callers |-> [at |-> "idle", next |-> 0]]

-----------------------------------------------------------------------------
(* Submitters. *)

\* submit: push ...
PushTask(t) ==
  /\ t \notin Pinned /\ submit[t] = "no"
  /\ injector' = injector \cup {t}
  /\ submit' = [submit EXCEPT ![t] = "pushed"]
  /\ UNCHANGED <<deque, woken, depth, permit, loopVars, ran, closeVars>>

\* ... then notify worker after worker.
NotifyNext(t) ==
  LET w == woken[t] IN
  /\ t \notin Pinned /\ submit[t] = "pushed"
  /\ permit' = [permit EXCEPT ![w] = TRUE]
  /\ woken' = [woken EXCEPT ![t] = w + 1]
  /\ submit' = [submit EXCEPT ![t] = IF w + 1 \in Workers THEN "pushed" ELSE "yes"]
  /\ UNCHANGED <<queueVars, depth, loopVars, ran, closeVars>>

\* Mutant: the workers are notified before the task is pushed.
SubmitNotifiesFirst(t) ==
  /\ t \notin Pinned /\ submit[t] = "no"
  /\ IF woken[t] \in Workers
     THEN /\ permit' = [permit EXCEPT ![woken[t]] = TRUE]
          /\ woken' = [woken EXCEPT ![t] = @ + 1]
          /\ UNCHANGED <<injector, submit>>
     ELSE /\ injector' = injector \cup {t}
          /\ submit' = [submit EXCEPT ![t] = "yes"]
          /\ UNCHANGED <<permit, woken>>
  /\ UNCHANGED <<deque, depth, loopVars, ran, closeVars>>

Submit(t) == PushTask(t) \/ NotifyNext(t)

\* submit_to and submit_pinned: raise the depth of the preferred worker ...
RaiseDepth(t) ==
  /\ t \in Pinned /\ submit[t] = "no"
  /\ depth' = [depth EXCEPT ![Target[t]] = (@ + 1) % DepthMod]
  /\ submit' = [submit EXCEPT ![t] = "raised"]
  /\ UNCHANGED <<queueVars, woken, permit, loopVars, ran, closeVars>>

\* ... then push ...
PushPinned(t) ==
  /\ t \in Pinned /\ submit[t] = "raised"
  /\ injector' = injector \cup {t}
  /\ submit' = [submit EXCEPT ![t] = "pushed"]
  /\ UNCHANGED <<deque, woken, depth, permit, loopVars, ran, closeVars>>

\* ... and notify that worker only.
NotifyPinned(t) ==
  /\ t \in Pinned /\ submit[t] = "pushed"
  /\ permit' = [permit EXCEPT ![Target[t]] = TRUE]
  /\ submit' = [submit EXCEPT ![t] = "yes"]
  /\ UNCHANGED <<queueVars, woken, depth, loopVars, ran, closeVars>>

-----------------------------------------------------------------------------
(* crossbeam_deque: the outcomes of steal_batch_and_pop, and what a removal   *)
(* does to the steals under way on the same source.                           *)

SiblingOf(w) == StealOrderOf[w][probe[w]]

\* The thieves that have read the deque of worker v, or the injector.
OnDeque(v) == {w \in Workers : pc[w] = "steal" /\ SiblingOf(w) = v}
OnInjector == {w \in Workers : pc[w] = "injsteal"}

Disturb(thieves) == [w \in Workers |-> stale[w] \/ w \in thieves]

\* The steal of w is over.
Settle(w, s) == [s EXCEPT ![w] = FALSE]

\* A batch takes at most half of the source, rounded up.
Batches(source) == {b \in SUBSET source :
                      b # {} /\ Cardinality(b) <= (Cardinality(source) + 1) \div 2}

-----------------------------------------------------------------------------
(* worker_loop_async. *)

\* The task w has in hand goes to execute().
Take(w, t) == /\ job' = [job EXCEPT ![w] = t]
              /\ pc' = [pc EXCEPT ![w] = "exec"]

\* The next scan starts with the first sibling and no retry.
EndScan(w) == /\ probe' = [probe EXCEPT ![w] = 1]
              /\ retry' = [retry EXCEPT ![w] = FALSE]

\* The shutdown flag is seen at the top of the loop only.
ExitLoop(w) ==
  /\ pc[w] = "top" /\ stop[w]
  /\ pc' = [pc EXCEPT ![w] = "exited"]
  /\ UNCHANGED <<queueVars, submitVars, depth, permit, probe, retry, stale, job, prev,
                 ran, closeVars>>

\* The flag was not set: the loop yields to the futures of its thread and pops.
\* The three are one step: neither the yield nor the pop reads the flag, so a
\* flag set in between might as well be set after the pop.
PopLocal(w) ==
  /\ pc[w] = "top" /\ ~stop[w]
  /\ \E t \in deque[w] :
       /\ deque' = [deque EXCEPT ![w] = @ \ {t}]
       /\ stale' = Disturb(OnDeque(w))
       /\ Take(w, t)
  /\ UNCHANGED <<injector, submitVars, depth, permit, probe, retry, prev, ran, closeVars>>

LocalEmpty(w) ==
  /\ pc[w] = "top" /\ ~stop[w] /\ deque[w] = {}
  /\ pc' = [pc EXCEPT ![w] = "scan"]
  /\ UNCHANGED <<queueVars, submitVars, depth, permit, probe, retry, stale, job, prev,
                 ran, closeVars>>

\* The steal from the next sibling of steal_order begins.
Probe(w) ==
  /\ pc[w] = "scan" /\ probe[w] <= Len(StealOrderOf[w])
  /\ pc' = [pc EXCEPT ![w] = "steal"]
  /\ UNCHANGED <<queueVars, submitVars, depth, permit, probe, retry, stale, job, prev,
                 ran, closeVars>>

\* Mutant: the popped task stays in the stolen batch.
StealKeeps(w) ==
  /\ pc[w] = "steal" /\ ~stale[w]
  /\ \E b \in Batches(deque[SiblingOf(w)]) : \E t \in b :
       /\ deque' = [deque EXCEPT ![SiblingOf(w)] = @ \ b, ![w] = @ \cup b]
       /\ stale' = Settle(w, Disturb(OnDeque(SiblingOf(w))))
       /\ Take(w, t)
  /\ EndScan(w)
  /\ UNCHANGED <<injector, submitVars, depth, permit, prev, ran, closeVars>>

\* Steal::Success: a batch moves to the local deque, one task of it is run.
StealSucceeds(w) ==
  /\ pc[w] = "steal" /\ ~stale[w]
  /\ \E b \in Batches(deque[SiblingOf(w)]) : \E t \in b :
       /\ deque' = [deque EXCEPT ![SiblingOf(w)] = @ \ b,
                                 ![w] = @ \cup (b \ {t})]
       /\ stale' = Settle(w, Disturb(OnDeque(SiblingOf(w))))
       /\ Take(w, t)
  /\ EndScan(w)
  /\ UNCHANGED <<injector, submitVars, depth, permit, prev, ran, closeVars>>

\* Steal::Retry and Steal::Empty: the next sibling is tried.
StealFails(w) ==
  /\ pc[w] = "steal" /\ (stale[w] \/ deque[SiblingOf(w)] = {})
  /\ retry' = [retry EXCEPT ![w] = @ \/ stale[w]]
  /\ probe' = [probe EXCEPT ![w] = @ + 1]
  /\ pc' = [pc EXCEPT ![w] = "scan"]
  /\ stale' = Settle(w, stale)
  /\ UNCHANGED <<queueVars, submitVars, depth, permit, job, prev, ran, closeVars>>

\* No sibling had work: back to the top if one was contended, else the
\* injector.
ScanEnds(w) ==
  /\ pc[w] = "scan" /\ probe[w] > Len(StealOrderOf[w])
  /\ pc' = [pc EXCEPT ![w] = IF retry[w] THEN "top" ELSE "inject"]
  /\ EndScan(w)
  /\ UNCHANGED <<queueVars, submitVars, depth, permit, stale, job, prev, ran, closeVars>>

ProbeInjector(w) ==
  /\ pc[w] = "inject"
  /\ pc' = [pc EXCEPT ![w] = "injsteal"]
  /\ UNCHANGED <<queueVars, submitVars, depth, permit, probe, retry, stale, job, prev,
                 ran, closeVars>>

InjectorSucceeds(w) ==
  /\ pc[w] = "injsteal" /\ ~stale[w]
  /\ \E b \in Batches(injector) : \E t \in b :
       /\ injector' = injector \ b
       /\ deque' = [deque EXCEPT ![w] = @ \cup (b \ {t})]
       /\ stale' = Settle(w, Disturb(OnInjector))
       /\ Take(w, t)
  /\ UNCHANGED <<submitVars, depth, permit, probe, retry, prev, ran, closeVars>>

\* Retry starts over, Empty parks.
InjectorFails(w) ==
  /\ pc[w] = "injsteal" /\ (stale[w] \/ injector = {})
  /\ pc' = [pc EXCEPT ![w] = IF stale[w] THEN "top" ELSE "park"]
  /\ stale' = Settle(w, stale)
  /\ UNCHANGED <<queueVars, submitVars, depth, permit, probe, retry, job, prev, ran,
                 closeVars>>

\* notified() returns with the permit, or the 50 ms timeout without it.
Wake(w) ==
  /\ pc[w] = "park"
  /\ permit' = [permit EXCEPT ![w] = FALSE]
  /\ pc' = [pc EXCEPT ![w] = "top"]
  /\ UNCHANGED <<queueVars, submitVars, depth, probe, retry, stale, job, prev, ran,
                 closeVars>>

\* execute: the depth is read ...
ReadDepth(w) ==
  /\ pc[w] = "exec"
  /\ prev' = [prev EXCEPT ![w] = depth[w]]
  /\ pc' = [pc EXCEPT ![w] = "sub"]
  /\ UNCHANGED <<queueVars, submitVars, depth, permit, probe, retry, stale, job, ran,
                 closeVars>>

\* Mutant: the depth is lowered whatever it was.
ExecuteUnchecked(w) ==
  /\ pc[w] = "sub"
  /\ depth' = [depth EXCEPT ![w] = (@ + DepthMod - 1) % DepthMod]
  /\ ran' = [ran EXCEPT ![job[w]] = @ + 1]
  /\ job' = [job EXCEPT ![w] = NoTask] /\ prev' = [prev EXCEPT ![w] = 0]
  /\ pc' = [pc EXCEPT ![w] = IF job[w] \in Hogs THEN "stuck" ELSE "top"]
  /\ UNCHANGED <<queueVars, submitVars, permit, probe, retry, stale, closeVars>>

\* ... lowered if it was not 0, and the task is run.
Execute(w) ==
  /\ pc[w] = "sub"
  /\ depth' = [depth EXCEPT ![w] = IF prev[w] > 0 THEN (@ + DepthMod - 1) % DepthMod
                                   ELSE @]
  /\ ran' = [ran EXCEPT ![job[w]] = @ + 1]
  /\ job' = [job EXCEPT ![w] = NoTask] /\ prev' = [prev EXCEPT ![w] = 0]
  /\ pc' = [pc EXCEPT ![w] = IF job[w] \in Hogs THEN "stuck" ELSE "top"]
  /\ UNCHANGED <<queueVars, submitVars, permit, probe, retry, stale, closeVars>>

-----------------------------------------------------------------------------
(* shutdown(). *)

\* Only the first caller goes on; the others return at once.
BeginShutdown(c) ==
  /\ caller[c].at = "idle"
  /\ caller' = [caller EXCEPT ![c].at = IF started THEN "returned" ELSE "flag"]
  /\ started' = TRUE
  /\ UNCHANGED <<queueVars, submitVars, depth, permit, loopVars, ran, stop>>

\* Worker after worker: set the flag and wake the loop (one step: once shutdown
\* has started, a permit only shortens a park), then join.
FlagWorker(c) ==
  LET w == caller[c].next IN
  /\ caller[c].at = "flag"
  /\ stop' = [stop EXCEPT ![w] = TRUE] /\ permit' = [permit EXCEPT ![w] = TRUE]
  /\ caller' = [caller EXCEPT ![c] = IF w + 1 \in Workers
                                     THEN [at |-> "flag", next |-> w + 1]
                                     ELSE [at |-> "join", next |-> 0]]
  /\ UNCHANGED <<queueVars, submitVars, depth, loopVars, ran, started>>

\* Mutant: the threads are not joined.
JoinNobody(c) ==
  LET w == caller[c].next IN
  /\ caller[c].at = "join"
  /\ caller' = [caller EXCEPT ![c] = IF w + 1 \in Workers
                                     THEN [at |-> "join", next |-> w + 1]
                                     ELSE [at |-> "returned", next |-> w + 1]]
  /\ UNCHANGED <<queueVars, submitVars, depth, permit, loopVars, ran, stop, started>>

JoinWorker(c) ==
  LET w == caller[c].next IN
  /\ caller[c].at = "join" /\ pc[w] = "exited"
  /\ caller' = [caller EXCEPT ![c] = IF w + 1 \in Workers
                                     THEN [at |-> "join", next |-> w + 1]
                                     ELSE [at |-> "returned", next |-> w + 1]]
  /\ UNCHANGED <<queueVars, submitVars, depth, permit, loopVars, ran, stop, started>>

-----------------------------------------------------------------------------

Worker(w) == \/ ExitLoop(w) \/ PopLocal(w) \/ LocalEmpty(w)
             \/ Probe(w) \/ StealSucceeds(w) \/ StealFails(w) \/ ScanEnds(w)
             \/ ProbeInjector(w) \/ InjectorSucceeds(w) \/ InjectorFails(w)
             \/ Wake(w) \/ ReadDepth(w) \/ Execute(w)

Shutdown(c) == BeginShutdown(c) \/ FlagWorker(c) \/ JoinWorker(c)

Next == \/ \E t \in Tasks : Submit(t) \/ RaiseDepth(t) \/ PushPinned(t) \/ NotifyPinned(t)
        \/ \E w \in Workers : Worker(w)
        \/ \E c \in Callers : Shutdown(c)

Spec == Init /\ [][Next]_vars

\* A worker thread that can take a step takes it (its park ends with the
\* timeout at the latest); a submission that has begun is finished.
Fairness == /\ \A w \in Workers : WF_vars(Worker(w))
            /\ \A t \in Pinned : WF_vars(PushPinned(t))
FairSpec == Spec /\ Fairness

-----------------------------------------------------------------------------
(* Properties. *)

Pushed(t) == submit[t] \in {"pushed", "yes"}
Queued(t) == t \in injector \/ \E w \in Workers : t \in deque[w]
Places(t) == Cardinality({w \in Workers : t \in deque[w]})
               + Cardinality({w \in Workers : job[w] = t})
               + Cardinality({t} \cap injector)

\* However the thieves interleave, a submitted task is in exactly one queue or
\* worker until it is run, and is run once.
TaskInOnePlace ==
  \A t \in Tasks :
    Places(t) + ran[t] = IF Pushed(t) THEN 1 ELSE 0

\* Somebody has been told of t.
Announced(t) == submit[t] = "yes" \/ woken[t] > 0

\* No wake-up is missed: as soon as the submitter of a queued task has made its
\* first notification, and until the task is taken, some worker that has not
\* left its loop is awake, or parked with a permit: a worker that goes to park
\* meanwhile has seen the injector empty, or finds the permit.  The 50 ms timeout
\* is needed only when every such worker is held up by the task it runs.
WorkIsAttended ==
  \A t \in Tasks :
    Queued(t) /\ Announced(t) /\ ~started
      => \E w \in Workers : pc[w] \notin {"park", "exited"} \/ permit[w]

\* The check and the subtraction of execute() are two operations, but only the
\* worker itself lowers its depth: it never wraps below 0 and never exceeds what
\* submit_to has added to it.
DepthNeverWraps ==
  \A w \in Workers :
    depth[w] <= Cardinality({t \in Pinned : Target[t] = w /\ submit[t] # "no"})

\* Once the shutdown() that joins the threads has returned, no task is run.
QuietAfterShutdown ==
  [][(\E c \in Callers : caller[c].at = "returned" /\ caller[c].next # 0)
       => ran' = ran]_vars

\* A worker that is held up by a task does not hold up the others: again and
\* again everything submitted so far has been run, unless the pool is shut down.
EveryTaskRuns ==
  []<>(started \/ \A t \in Tasks : submit[t] # "no" => ran[t] = 1)

=============================================================================
