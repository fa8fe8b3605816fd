------------------------------- MODULE Reload -------------------------------
(***************************************************************************)
(* Hot reload of one agent (crates/mty-runtime/src/reload/swap.rs,         *)
(* condvar_drain.rs, resumable.rs and the op=reload hook of                *)
(* control_socket.rs).  A call is one run of SimpleReloadHook::reload and  *)
(* of ReloadRunner::run under it; calls may overlap, since nothing in the  *)
(* pipeline excludes a second one.  What the agent's state holds is the    *)
(* set of messages it has handled, and the schema its value is shaped by.  *)
(* The cell is the one the agent's turns load and store (swap.rs:339-342,  *)
(* 348-351: an adapter over the descriptor's Value cell).                  *)
(*                                                                         *)
(* The agent loop is that of runtime.rs: it takes the next frame whether   *)
(* or not the gate is paused, and never marks the gate or the drain signal *)
(* busy, although swap.rs:53-55, swap.rs:484-485 and condvar_drain.rs:     *)
(* 78-88 say it does both.  Whoever else holds the signal may mark it.     *)
(***************************************************************************)
EXTENDS Integers, Sequences, FiniteSets, SchemaChain

CONSTANTS Calls,         \* reloads of the agent
          Msgs,          \* messages sent to it
          NoMsg,
          InitialSchema, \* the hook's current_schema_hash
          AllEdges       \* migrations that may get registered

ASSUME SchemasAssumption == IsFiniteSet(Schemas)
ASSUME NoMsgAssumption == NoMsg \notin Msgs
ASSUME InitialSchemaAssumption == InitialSchema \in Schemas
ASSUME AllEdgesAssumption == AllEdges \subseteq Schemas \X Schemas

VARIABLES
  paused,   \* ReloadGate.paused
  busy,     \* ReloadGate.busy, or DrainState.busy where the hook has a signal
  state,    \* the typed cell: [shape, seen]
  slot,     \* schema hash of the installed module (the agent's Program slot)
  edges,    \* SchemaRegistry.edges
  mail,     \* the mailbox
  loop,     \* [at, msg, cell, open]: the turn under way, the state its handler
            \* works on, and whether the loop still takes frames
  handled,  \* messages whose handler has stored its state
  pc,       \* pc[r]: where the call stands
  plan,     \* plan[r]: [new, installs, chain]: the SwapPlan and its migrations;
            \* installs: a wasm module and a program slot to put it in
  snap,     \* snap[r]: the snapshot bytes
  out,      \* out[r]: how it ended
  overwritten, \* a turn stored between some call's snapshot and the end of its
               \* restore (history)
  straddled    \* a call restored while a turn was between load and store (history)

agentVars == <<busy, mail, loop, handled>>
histVars == <<overwritten, straddled>>
vars == <<paused, state, slot, edges, agentVars, pc, plan, snap, out, histVars>>

Cells == [shape : Schemas, seen : SUBSET Msgs]
Plans == [new : Schemas, installs : BOOLEAN, chain : Seq(Schemas)]
Pcs == {"idle", "drain", "pause", "snapshot", "swap", "restore", "resume", "done"}
EarlyErrors == {"refused", "incompatible", "deadline"}
LateErrors == {"encode_error", "decode_error"}

TypeOK ==
  /\ paused \in BOOLEAN /\ busy \in BOOLEAN
  /\ state \in Cells /\ slot \in Schemas /\ edges \subseteq AllEdges
  /\ mail \subseteq Msgs /\ handled \subseteq Msgs
  /\ loop \in [at : {"idle", "taken", "running"}, msg : Msgs \cup {NoMsg}, cell : Cells,
              open : BOOLEAN]
  /\ pc \in [Calls -> Pcs] /\ plan \in [Calls -> Plans]
  /\ snap \in [Calls -> Cells]
  /\ out \in [Calls -> {"none", "completed"} \cup EarlyErrors \cup LateErrors]
  /\ overwritten \in BOOLEAN /\ straddled \in BOOLEAN

Init ==
  /\ paused = FALSE /\ busy = FALSE
  /\ state = [shape |-> InitialSchema, seen |-> {}] /\ slot = InitialSchema
  /\ edges = {} /\ mail = {} /\ handled = {}
  /\ loop = [at |-> "idle", msg |-> NoMsg, cell |-> state, open |-> TRUE]
  /\ pc = [r \in Calls |-> "idle"]
  /\ plan = [r \in Calls |-> [new |-> InitialSchema, installs |-> FALSE, chain |-> <<>>]]
  /\ snap = [r \in Calls |-> [shape |-> InitialSchema, seen |-> {}]]
  /\ out = [r \in Calls |-> "none"]
  /\ overwritten = FALSE /\ straddled = FALSE

-----------------------------------------------------------------------------
(* The agent: producers, and its loop. *)

Send(m) ==
  /\ m \notin mail \cup handled /\ loop.msg # m
  /\ mail' = mail \cup {m}
  /\ UNCHANGED <<paused, state, slot, edges, busy, loop, handled, pc, plan, snap,
                 out, histVars>>

\* recv: neither the gate nor the drain signal is looked at.
TakeFrame ==
  /\ loop.at = "idle" /\ loop.open
  /\ \E m \in mail : /\ mail' = mail \ {m}
                     /\ loop' = [loop EXCEPT !.at = "taken", !.msg = m]
  /\ UNCHANGED <<paused, state, slot, edges, busy, handled, pc, plan, snap, out,
                 histVars>>

\* The turn's thread clones the cell and runs the handler on the clone.
LoadState ==
  /\ loop.at = "taken"
  /\ loop' = [loop EXCEPT !.at = "running", !.cell = state]
  /\ UNCHANGED <<paused, state, slot, edges, busy, mail, handled, pc, plan, snap, out,
                 histVars>>

\* The handler returned: what it made of the clone is stored over the cell.
StoreState ==
  /\ loop.at = "running"
  /\ state' = [loop.cell EXCEPT !.seen = @ \cup {loop.msg}]
  /\ handled' = handled \cup {loop.msg}
  /\ loop' = [loop EXCEPT !.at = "idle", !.msg = NoMsg]
  /\ overwritten' = (overwritten \/ \E r \in Calls : pc[r] \in {"swap", "restore"})
  /\ UNCHANGED <<paused, slot, edges, busy, mail, pc, plan, snap, out, straddled>>

\* A trap, an unknown handler, or an exhausted budget: nothing is stored, and
\* the loop breaks.
TurnFails ==
  /\ loop.at # "idle"
  /\ loop' = [loop EXCEPT !.at = "idle", !.msg = NoMsg, !.open = FALSE]
  /\ UNCHANGED <<paused, state, slot, edges, busy, mail, handled, pc, plan, snap, out,
                 histVars>>

\* Shutdown, a closed mailbox, or a cancelled turn, whose thread runs on.
LoopEnds ==
  /\ loop.open
  /\ loop' = [loop EXCEPT !.open = FALSE]
  /\ UNCHANGED <<paused, state, slot, edges, busy, mail, handled, pc, plan, snap, out,
                 histVars>>

\* mark_busy and mark_idle, of the gate or of the signal, by whoever holds it.
Mark ==
  /\ busy' = ~busy
  /\ UNCHANGED <<paused, state, slot, edges, mail, loop, handled, pc, plan, snap, out,
                 histVars>>

-----------------------------------------------------------------------------
(* The schema registry. *)

Register(e) ==
  /\ e \notin edges
  /\ edges' = edges \cup {e}
  /\ UNCHANGED <<paused, state, slot, agentVars, pc, plan, snap, out, histVars>>

-----------------------------------------------------------------------------
(* A reload. *)

InProgress(r) == pc[r] \notin {"idle", "done"}

End(r, how) == /\ pc' = [pc EXCEPT ![r] = "done"]
               /\ out' = [out EXCEPT ![r] = how]

\* No hook, another agent type, or a module that does not load.
Refuse(r) ==
  /\ pc[r] = "idle"
  /\ End(r, "refused")
  /\ UNCHANGED <<paused, state, slot, edges, agentVars, plan, snap, histVars>>

\* Mutant: the registry is asked for the way back.
SchemaCheckSwapped(new) ==
  IF new = InitialSchema THEN {<<>>} ELSE Chains(edges, new, InitialSchema)

\* The outcomes of schema_check: <<>> is Direct for equal hashes, and
\* Incompatible for others.
SchemaCheck(new) ==
  IF new = InitialSchema THEN {<<>>} ELSE Chains(edges, InitialSchema, new)

\* The module is loaded and its hash checked against the hash the hook was
\* built with, before anything is touched.
Start(r) ==
  /\ pc[r] = "idle"
  /\ \E new \in Schemas, installs \in BOOLEAN : \E chain \in SchemaCheck(new) :
       /\ plan' = [plan EXCEPT ![r] = [new |-> new, installs |-> installs, chain |-> chain]]
       /\ IF chain = <<>> /\ new # InitialSchema
          THEN End(r, "incompatible")
          ELSE pc' = [pc EXCEPT ![r] = "drain"] /\ UNCHANGED out
  /\ UNCHANGED <<paused, state, slot, edges, agentVars, snap, histVars>>

\* Mutant: the deadline passes with the gate already paused.
DrainDeadlinePaused(r) ==
  /\ pc[r] = "drain" /\ busy
  /\ paused' = TRUE
  /\ End(r, "deadline")
  /\ UNCHANGED <<state, slot, edges, agentVars, plan, snap, histVars>>

\* wait_until_idle, or the polling of is_busy: the flag is looked at again
\* after every wake-up.
Drained(r) ==
  /\ pc[r] = "drain" /\ ~busy
  /\ pc' = [pc EXCEPT ![r] = "pause"]
  /\ UNCHANGED <<paused, state, slot, edges, agentVars, plan, snap, out, histVars>>

DrainDeadline(r) ==
  /\ pc[r] = "drain" /\ busy
  /\ End(r, "deadline")
  /\ UNCHANGED <<paused, state, slot, edges, agentVars, plan, snap, histVars>>

Pause(r) ==
  /\ pc[r] = "pause"
  /\ paused' = TRUE
  /\ pc' = [pc EXCEPT ![r] = "snapshot"]
  /\ UNCHANGED <<state, slot, edges, agentVars, plan, snap, out, histVars>>

Snapshot(r) ==
  /\ pc[r] = "snapshot"
  /\ snap' = [snap EXCEPT ![r] = state]
  /\ pc' = [pc EXCEPT ![r] = "swap"]
  /\ UNCHANGED <<paused, state, slot, edges, agentVars, plan, out, histVars>>

\* The state does not encode, or is larger than max_snapshot_bytes.
SnapshotFails(r) ==
  /\ pc[r] = "snapshot"
  /\ End(r, "encode_error")
  /\ UNCHANGED <<paused, state, slot, edges, agentVars, plan, snap, histVars>>

\* Mutant: the module is not installed.
SwapSlotSkipped(r) ==
  /\ pc[r] = "swap"
  /\ pc' = [pc EXCEPT ![r] = "restore"]
  /\ UNCHANGED <<paused, state, slot, edges, agentVars, plan, snap, out, histVars>>

\* Without a program slot the module is silently left out.
SwapSlot(r) ==
  /\ pc[r] = "swap"
  /\ slot' = IF plan[r].installs THEN plan[r].new ELSE slot
  /\ pc' = [pc EXCEPT ![r] = "restore"]
  /\ UNCHANGED <<paused, state, edges, agentVars, plan, snap, out, histVars>>

\* apply_chain: every hop reads its input as its own old schema and writes its
\* new one.
ApplyChain(chain, cell) ==
  IF chain = <<>> THEN cell ELSE [cell EXCEPT !.shape = chain[Len(chain)]]

Restore(r) ==
  /\ pc[r] = "restore"
  /\ state' = ApplyChain(plan[r].chain, snap[r])
  /\ pc' = [pc EXCEPT ![r] = "resume"]
  /\ straddled' = (straddled \/ loop.at = "running")
  /\ UNCHANGED <<paused, slot, edges, agentVars, plan, snap, out, overwritten>>

\* Mutant: the cell was emptied for the decoder, which fails.
RestoreFailsResets(r) ==
  /\ pc[r] = "restore"
  /\ state' = [state EXCEPT !.seen = {}]
  /\ End(r, "decode_error")
  /\ UNCHANGED <<paused, slot, edges, agentVars, plan, snap, histVars>>

\* A migration or the decoder fails.
RestoreFails(r) ==
  /\ pc[r] = "restore"
  /\ End(r, "decode_error")
  /\ UNCHANGED <<paused, state, slot, edges, agentVars, plan, snap, histVars>>

Resume(r) ==
  /\ pc[r] = "resume"
  /\ paused' = FALSE
  /\ End(r, "completed")
  /\ UNCHANGED <<state, slot, edges, agentVars, plan, snap, histVars>>

-----------------------------------------------------------------------------

Loop == TakeFrame \/ LoadState \/ StoreState \/ TurnFails \/ LoopEnds

Step(r) == \/ Drained(r) \/ DrainDeadline(r) \/ Pause(r)
           \/ Snapshot(r) \/ SnapshotFails(r) \/ SwapSlot(r)
           \/ Restore(r) \/ RestoreFails(r) \/ Resume(r)

Next == \/ Loop
        \/ Mark
        \/ \E m \in Msgs : Send(m)
        \/ \E e \in AllEdges : Register(e)
        \/ \E r \in Calls : Refuse(r) \/ Start(r) \/ Step(r)

Spec == Init /\ [][Next]_vars

-----------------------------------------------------------------------------
(* Properties. *)

Swapping(r) == pc[r] \in {"snapshot", "swap", "restore", "resume"}
LateFailed(r) == out[r] \in LateErrors

\* The gate is closed only by a call that is between its pause and its resume,
\* or that failed there: a module that does not load, an incompatible schema or
\* a handler that outlasts the deadline leaves the agent running.
PausedHasCause ==
  paused => \E r \in Calls : Swapping(r) \/ LateFailed(r)

\* A reload forgets what a handler did only if the handler stored its state
\* between the snapshot and the restore (swap.rs:491-521), which neither the
\* drain nor the gate prevents: reloads that overlap, fail in the middle, or
\* restore under a running handler lose nothing by themselves.
LossNeedsRace ==
  handled \ state.seen # {} => overwritten

\* After a first and only reload that completed, the schema of the installed
\* module is the one the state was migrated to, unless it restored under a
\* running handler, whose turn puts back a state of the old schema.
OneReloadAgrees ==
  \A r \in Calls :
    (/\ \A q \in Calls \ {r} : pc[q] = "idle"
     /\ out[r] = "completed" /\ plan[r].installs /\ ~straddled)
      => slot = state.shape

\* A reload that goes ahead runs a path of registered migrations from the
\* schema of the hook to the schema of the new module, and no registered path
\* is shorter (resumable.rs:210-211), whatever order the map yields its edges
\* in; one is refused as incompatible only if there is no path at all.
ChainIsShortest ==
  [][\A r \in Calls : pc[r] = "idle" /\ pc'[r] # "idle" /\ out'[r] # "refused" =>
       LET p == plan'[r]
       IN  IF out'[r] = "incompatible" THEN ~Reaches(edges, InitialSchema, p.new)
           ELSE IsShortest(edges, InitialSchema, p.new, p.chain)]_vars

=============================================================================
