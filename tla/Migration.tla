----------------------------- MODULE Migration -----------------------------
(***************************************************************************)
(* Live migration of one agent off its node                                *)
(* (crates/mty-runtime/src/cluster/migration.rs): migrate_agent on the     *)
(* source, handle_inbound on both sides, and between them a wire that      *)
(* delays and loses frames.  Each call of migrate_agent is an attempt.     *)
(* Replies name the agent only, not the attempt, and the pending map has   *)
(* one entry per agent.                                                    *)
(*                                                                         *)
(* The SnapshotSource and SnapshotSink hooks are external and modelled by  *)
(* their contract: draining stops dispatch (new messages keep enqueueing), *)
(* rollback resumes it, finalize marks the agent REMOTE, restore makes a   *)
(* live copy.  The agent's state is the set of messages it has handled.    *)
(***************************************************************************)
EXTENDS Integers, FiniteSets

CONSTANTS Attempts,  \* calls of migrate_agent for the agent
          NoAttempt,
          Msgs       \* messages sent to the agent's original address

ASSUME NoAttemptAssumption == NoAttempt \notin Attempts
ASSUME FiniteAssumption == IsFiniteSet(Attempts)

VARIABLES
  pc,       \* pc[a]: where the call stands
  out,      \* out[a]: how it ends
  rx,       \* rx[a]: its oneshot: "open", "closed", "ack" or "err"
  acked,    \* acked[a]: the attempt whose copy the ack named
  pending,  \* the attempt that owns the agent's pending entry, at most one
  source,   \* the agent on the source: "running", "migrating", "remote"
  snap,     \* snap[a]: the state a shipped
  ships,    \* snapshots on the wire
  answers,  \* acks and errors on the wire
  copies,   \* attempts whose snapshot was restored on their target
  rewrite,  \* the copy the routing rewrite points to
  mail,     \* mail[m]: where message m is
  taken,    \* taken[a]: queued messages a is forwarding
  metrics,  \* MigrationMetrics
  overlapped \* a call has started before another one returned (history)

callVars == <<pc, out, rx, acked, pending, taken>>
wireVars == <<ships, answers, copies>>
vars == <<callVars, source, snap, wireVars, rewrite, mail, metrics, overlapped>>

Pcs == {"idle", "snapshot", "ship", "wait", "undo", "drain", "forward", "finalize", "done"}
Ends == {"none", "unreachable", "drain_error", "too_large", "mesh", "closed",
         "deadline", "rejected", "completed"}

TypeOK ==
  /\ pc \in [Attempts -> Pcs] /\ out \in [Attempts -> Ends]
  /\ rx \in [Attempts -> {"open", "closed", "ack", "err"}]
  /\ acked \in [Attempts -> Attempts \cup {NoAttempt}]
  /\ pending \subseteq Attempts /\ Cardinality(pending) <= 1
  /\ source \in {"running", "migrating", "remote"}
  /\ snap \in [Attempts -> SUBSET Msgs]
  /\ ships \subseteq Attempts /\ answers \subseteq [att : Attempts, ok : BOOLEAN]
  /\ copies \subseteq Attempts /\ rewrite \in Attempts \cup {NoAttempt}
  /\ mail \in [Msgs -> {"none", "queued", "taken", "local", "remote", "lost"}]
  /\ taken \in [Attempts -> SUBSET Msgs]
  /\ metrics \in [{"started", "completed", "failed", "rolled_back"} -> Nat]
  /\ overlapped \in BOOLEAN

Init ==
  /\ pc = [a \in Attempts |-> "idle"] /\ out = [a \in Attempts |-> "none"]
  /\ rx = [a \in Attempts |-> "open"]
  /\ acked = [a \in Attempts |-> NoAttempt]
  /\ pending = {} /\ source = "running"
  /\ snap = [a \in Attempts |-> {}] /\ taken = [a \in Attempts |-> {}]
  /\ ships = {} /\ answers = {} /\ copies = {} /\ rewrite = NoAttempt
  /\ mail = [m \in Msgs |-> "none"]
  /\ metrics = [k \in {"started", "completed", "failed", "rolled_back"} |-> 0]
  /\ overlapped = FALSE

-----------------------------------------------------------------------------
(* migrate_agent. *)

InProgress(a) == pc[a] \notin {"idle", "done"}
Count(ks) == metrics' = [k \in DOMAIN metrics |->
                           IF k \in ks THEN metrics[k] + 1 ELSE metrics[k]]
Handled == {m \in Msgs : mail[m] = "local"}

\* No peer for the target (or the target is this node): nothing is counted.
Refuse(a) ==
  /\ pc[a] = "idle"
  /\ pc' = [pc EXCEPT ![a] = "done"] /\ out' = [out EXCEPT ![a] = "unreachable"]
  /\ UNCHANGED <<rx, acked, pending, taken, source, snap, wireVars, rewrite, mail,
                 metrics, overlapped>>

Start(a) ==
  /\ pc[a] = "idle"
  /\ overlapped' = (overlapped \/ \E b \in Attempts : InProgress(b))
  /\ pc' = [pc EXCEPT ![a] = "snapshot"]
  /\ Count({"started"})
  /\ UNCHANGED <<out, rx, acked, pending, taken, source, snap, wireVars, rewrite,
                 mail>>

\* drain_and_snapshot succeeds; the pending entry replaces, and so drops,
\* one that is there already.
DrainAndSnapshot(a) ==
  /\ pc[a] = "snapshot" /\ source # "remote"
  /\ source' = "migrating" /\ snap' = [snap EXCEPT ![a] = Handled]
  /\ pc' = [pc EXCEPT ![a] = "ship"]
  /\ pending' = {a}
  /\ rx' = [b \in Attempts |-> IF b \in pending \ {a} THEN "closed" ELSE rx[b]]
  /\ UNCHANGED <<out, acked, taken, wireVars, rewrite, mail, metrics,
                 overlapped>>

\* Mutant: a failed drain is not counted.
DrainFailsUncounted(a) ==
  /\ pc[a] = "snapshot"
  /\ pc' = [pc EXCEPT ![a] = "done"] /\ out' = [out EXCEPT ![a] = "drain_error"]
  /\ UNCHANGED <<rx, acked, pending, taken, source, snap, wireVars, rewrite, mail,
                 metrics, overlapped>>

\* It fails (always, once the agent is REMOTE), and is left without a rollback,
\* whatever the doc of migrate_agent says; the hook is trusted to leave the agent
\* as it found it.
DrainFails(a) ==
  /\ pc[a] = "snapshot"
  /\ pc' = [pc EXCEPT ![a] = "done"] /\ out' = [out EXCEPT ![a] = "drain_error"]
  /\ Count({"failed"})
  /\ UNCHANGED <<rx, acked, pending, taken, source, snap, wireVars, rewrite, mail,
                 overlapped>>

\* A failed attempt ends in the rollback hook.
GiveUp(a, why) ==
  /\ pc' = [pc EXCEPT ![a] = "undo"] /\ out' = [out EXCEPT ![a] = why]

TooLarge(a) ==
  /\ pc[a] = "snapshot" /\ source # "remote"
  /\ source' = "migrating"
  /\ GiveUp(a, "too_large")
  /\ UNCHANGED <<rx, acked, pending, taken, snap, wireVars, rewrite, mail, metrics,
                 overlapped>>

Ship(a) ==
  /\ pc[a] = "ship"
  /\ ships' = ships \cup {a}
  /\ pc' = [pc EXCEPT ![a] = "wait"]
  /\ UNCHANGED <<out, rx, acked, pending, taken, source, snap, answers, copies,
                 rewrite, mail, metrics, overlapped>>

\* Every failure path after that removes the agent's entry, whoever owns it.
RemovePending ==
  /\ pending' = {}
  /\ rx' = [b \in Attempts |-> IF b \in pending THEN "closed" ELSE rx[b]]

ShipFails(a) ==
  /\ pc[a] = "ship"
  /\ RemovePending /\ GiveUp(a, "mesh")
  /\ UNCHANGED <<acked, taken, source, snap, wireVars, rewrite, mail, metrics,
                 overlapped>>

ReplyClosed(a) ==
  /\ pc[a] = "wait" /\ rx[a] = "closed"
  /\ RemovePending /\ GiveUp(a, "closed")
  /\ UNCHANGED <<acked, taken, source, snap, wireVars, rewrite, mail, metrics,
                 overlapped>>

DeadlineExpires(a) ==
  /\ pc[a] = "wait" /\ rx[a] = "open"
  /\ RemovePending /\ GiveUp(a, "deadline")
  /\ UNCHANGED <<acked, taken, source, snap, wireVars, rewrite, mail, metrics,
                 overlapped>>

ReplyRejects(a) ==
  /\ pc[a] = "wait" /\ rx[a] = "err"
  /\ GiveUp(a, "rejected")
  /\ UNCHANGED <<rx, acked, pending, taken, source, snap, wireVars, rewrite, mail,
                 metrics, overlapped>>

\* Mutant: a rejected migration is counted and reported, but not rolled back.
RollbackOmitted(a) ==
  /\ pc[a] = "undo"
  /\ pc' = [pc EXCEPT ![a] = "done"]
  /\ Count({"failed", "rolled_back"})
  /\ UNCHANGED <<out, rx, acked, pending, taken, source, snap, wireVars, rewrite,
                 mail, overlapped>>

Rollback(a) ==
  /\ pc[a] = "undo"
  /\ source' = "running" /\ pc' = [pc EXCEPT ![a] = "done"]
  /\ Count({"failed", "rolled_back"})
  /\ UNCHANGED <<out, rx, acked, pending, taken, snap, wireVars, rewrite, mail,
                 overlapped>>

ReplyAcks(a) ==
  /\ pc[a] = "wait" /\ rx[a] = "ack"
  /\ pc' = [pc EXCEPT ![a] = "drain"]
  /\ UNCHANGED <<out, rx, acked, pending, taken, source, snap, wireVars, rewrite,
                 mail, metrics, overlapped>>

\* Mutant: an error of drain_queued_messages fails the migration.
DrainQueuedOrUndo(a) ==
  /\ pc[a] = "drain"
  /\ \/ /\ taken' = [taken EXCEPT ![a] = {m \in Msgs : mail[m] = "queued"}]
        /\ mail' = [m \in Msgs |-> IF mail[m] = "queued" THEN "taken" ELSE mail[m]]
        /\ pc' = [pc EXCEPT ![a] = "forward"]
        /\ UNCHANGED out
     \/ GiveUp(a, "drain_error") /\ UNCHANGED <<taken, mail>>
  /\ UNCHANGED <<rx, acked, pending, source, snap, wireVars, rewrite, metrics,
                 overlapped>>

\* drain_queued_messages, once; an error counts as an empty queue.
DrainQueued(a) ==
  /\ pc[a] = "drain"
  /\ LET queued == {m \in Msgs : mail[m] = "queued"} IN
     \E T \in {queued, {}} :
       /\ taken' = [taken EXCEPT ![a] = T]
       /\ mail' = [m \in Msgs |-> IF m \in T THEN "taken" ELSE mail[m]]
  /\ pc' = [pc EXCEPT ![a] = "forward"]
  /\ UNCHANGED <<out, rx, acked, pending, source, snap, wireVars, rewrite, metrics,
                 overlapped>>

\* Best effort: a message whose forward fails is gone.
Forward(a, m) ==
  /\ pc[a] = "forward" /\ m \in taken[a]
  /\ taken' = [taken EXCEPT ![a] = @ \ {m}]
  /\ \E p \in {"remote", "lost"} : mail' = [mail EXCEPT ![m] = p]
  /\ UNCHANGED <<pc, out, rx, acked, pending, source, snap, wireVars, rewrite,
                 metrics, overlapped>>

\* The rewrite is installed, then the source's finalize hook awaited.
InstallRewrite(a) ==
  /\ pc[a] = "forward" /\ taken[a] = {}
  /\ rewrite' = acked[a]
  /\ pc' = [pc EXCEPT ![a] = "finalize"]
  /\ UNCHANGED <<out, rx, acked, pending, taken, source, snap, wireVars, mail,
                 metrics, overlapped>>

Finalize(a) ==
  /\ pc[a] = "finalize"
  /\ source' = "remote"
  /\ pc' = [pc EXCEPT ![a] = "done"] /\ out' = [out EXCEPT ![a] = "completed"]
  /\ Count({"completed"})
  /\ UNCHANGED <<rx, acked, pending, taken, snap, wireVars, rewrite, mail, overlapped>>

-----------------------------------------------------------------------------
(* handle_inbound. *)

\* On the target: restore, and answer either way.
Restore(a) ==
  /\ a \in ships /\ ships' = ships \ {a}
  /\ \E ok \in BOOLEAN :
       /\ copies' = IF ok THEN copies \cup {a} ELSE copies
       /\ answers' = answers \cup {[att |-> a, ok |-> ok]}
  /\ UNCHANGED <<callVars, source, snap, rewrite, mail, metrics, overlapped>>

\* Mutant: an answer to an earlier call takes the entry and tells nobody.
InboundDropsStale(f) ==
  /\ f \in answers /\ answers' = answers \ {f}
  /\ rx' = [b \in Attempts |-> IF b \notin pending \/ b # f.att THEN rx[b]
                               ELSE IF f.ok THEN "ack" ELSE "err"]
  /\ acked' = [b \in Attempts |-> IF b \in pending /\ f.ok THEN f.att ELSE acked[b]]
  /\ pending' = {}
  /\ UNCHANGED <<pc, out, taken, source, snap, ships, copies, rewrite, mail, metrics,
                 overlapped>>

\* On the source: whoever owns the agent's entry gets the answer.
Inbound(f) ==
  /\ f \in answers /\ answers' = answers \ {f}
  /\ rx' = [b \in Attempts |-> IF b \notin pending THEN rx[b]
                               ELSE IF f.ok THEN "ack" ELSE "err"]
  /\ acked' = [b \in Attempts |-> IF b \in pending /\ f.ok THEN f.att ELSE acked[b]]
  /\ pending' = {}
  /\ UNCHANGED <<pc, out, taken, source, snap, ships, copies, rewrite, mail, metrics,
                 overlapped>>

LoseFrame ==
  /\ \/ \E a \in ships : ships' = ships \ {a} /\ UNCHANGED answers
     \/ \E f \in answers : answers' = answers \ {f} /\ UNCHANGED ships
  /\ UNCHANGED <<callVars, source, snap, copies, rewrite, mail, metrics,
                 overlapped>>

-----------------------------------------------------------------------------
(* Senders and the agent on the source. *)

\* The rewrite takes over once the agent is REMOTE.
Send(m) ==
  /\ mail[m] = "none"
  /\ mail' = [mail EXCEPT ![m] = IF source = "remote" THEN "remote" ELSE "queued"]
  /\ UNCHANGED <<callVars, source, snap, wireVars, rewrite, metrics,
                 overlapped>>

Handle(m) ==
  /\ source = "running" /\ mail[m] = "queued"
  /\ mail' = [mail EXCEPT ![m] = "local"]
  /\ UNCHANGED <<callVars, source, snap, wireVars, rewrite, metrics,
                 overlapped>>

-----------------------------------------------------------------------------
Attempt(a) ==
  \/ Refuse(a) \/ Start(a) \/ DrainAndSnapshot(a) \/ DrainFails(a) \/ TooLarge(a)
  \/ Ship(a) \/ ShipFails(a) \/ ReplyClosed(a) \/ DeadlineExpires(a)
  \/ ReplyRejects(a) \/ Rollback(a) \/ ReplyAcks(a) \/ DrainQueued(a)
  \/ (\E m \in Msgs : Forward(a, m)) \/ InstallRewrite(a) \/ Finalize(a)

Next ==
  \/ \E a \in Attempts : Attempt(a) \/ Restore(a)
  \/ \E f \in answers : Inbound(f)
  \/ LoseFrame
  \/ \E m \in Msgs : Send(m) \/ Handle(m)

Spec == Init /\ [][Next]_vars

-----------------------------------------------------------------------------
(* The agent is never left nowhere: while it is not dispatched on the       *)
(* source, a call is under way that will roll it back or move it, and once  *)
(* it is REMOTE, the rewrite points to a copy that was restored.            *)
AgentIsSomewhere ==
  /\ source = "migrating" => \E a \in Attempts : InProgress(a)
  /\ source = "remote" => rewrite \in copies

(* The pending map serves the calls: one that waits for its answer owns the *)
(* agent's entry, unless its channel has been answered or closed under it by *)
(* another call or by a frame meant for another one; and no entry is left   *)
(* behind when the last call has returned.                                  *)
PendingServesCalls ==
  /\ \A a \in Attempts : (pc[a] \in {"ship", "wait"} /\ rx[a] = "open") => a \in pending
  /\ (\A a \in Attempts : ~InProgress(a)) => pending = {}

(* Every started migration is counted once as completed or as failed, and   *)
(* every failure but a failed drain as rolled back, on each of the seven    *)
(* ways out.                                                                *)
MetricsBalance ==
  /\ metrics["started"] = metrics["completed"] + metrics["failed"]
       + Cardinality({a \in Attempts : InProgress(a)})
  /\ metrics["failed"] = metrics["rolled_back"]
       + Cardinality({a \in Attempts : out[a] = "drain_error"})

(* As long as calls did not overlap and none gave up at its deadline, the   *)
(* agent never runs on its source and on a target, and it moves with all of *)
(* its state: refused and failed attempts before the one that succeeds      *)
(* leave nothing that could be taken for its answer.                        *)
TimedOut == \E a \in Attempts : out[a] = "deadline"
SerialInTimeIsClean ==
  (~overlapped /\ ~TimedOut) =>
    /\ source = "running" => copies = {}
    /\ source = "remote" => Handled \subseteq snap[rewrite]
=============================================================================
