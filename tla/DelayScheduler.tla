--------------------------- MODULE DelayScheduler ---------------------------
(***************************************************************************)
(* The batched deadline scheduler (crates/mty-runtime/src/delay_timers.rs).*)
(* Callers talk to one background task through a bounded command channel;  *)
(* the task owns a tokio-util DelayQueue and forwards the ids of expired   *)
(* entries through a bounded channel.  A handle shares a key slot with the *)
(* Insert command: the task fills it in once the entry has a key, and      *)
(* dropping the handle sends Cancel for the key found there.               *)
(* Durations are arbitrary, so any entry may be the next to expire.        *)
(*                                                                         *)
(* The queue, the channels and what must hold of a deadline on its way     *)
(* through them are in DelayQueue; this module is the callers, the         *)
(* background task and the consumer.                                       *)
(***************************************************************************)
EXTENDS DelayQueue

CONSTANTS CmdCap,    \* capacity of the command channel
          FiredCap   \* capacity of the channel of fired ids

ASSUME CapsAssumption == CmdCap \in Nat \ {0} /\ FiredCap \in Nat \ {0}

VARIABLE handle   \* handle[id]: "none" before schedule, then "live", then "dropped"

vars == <<handle, keySlot, cmds, entry, vacant, fired, got>>

TypeOK ==
  /\ handle \in [Ids -> {"none", "live", "dropped"}]
  /\ keySlot \in [Ids -> Nat \cup {NoKey}]
  /\ \A i \in DOMAIN cmds : \/ \E id \in Ids : cmds[i] = Insert(id)
                            \/ \E k \in DOMAIN entry : cmds[i] = Cancel(k)
  /\ Len(cmds) <= CmdCap
  /\ \A k \in DOMAIN entry : entry[k] = {} \/ \E id \in Ids : entry[k] = {id}
  /\ \A i \in DOMAIN vacant : vacant[i] \in DOMAIN entry /\ entry[vacant[i]] = {}
  /\ fired \in Seq(Ids) /\ Len(fired) <= FiredCap
  /\ got \subseteq Ids

Init ==
  /\ handle = [id \in Ids |-> "none"]
  /\ keySlot = [id \in Ids |-> NoKey]
  /\ cmds = << >> /\ entry = << >> /\ vacant = << >>
  /\ fired = << >> /\ got = {}

(* schedule: waits for room in the command channel, then returns a handle   *)
(* whose key slot is still empty.                                           *)
Schedule(id) ==
  /\ handle[id] = "none" /\ Len(cmds) < CmdCap
  /\ cmds' = Append(cmds, Insert(id))
  /\ handle' = [handle EXCEPT ![id] = "live"]
  /\ UNCHANGED <<keySlot, entry, vacant, fired, got>>

(* Drop for DeadlineHandle (and cancel, which only drops): no key, nothing  *)
(* to send; try_send gives up when the channel is full.                     *)
DropHandle(id) ==
  /\ handle[id] = "live"
  /\ handle' = [handle EXCEPT ![id] = "dropped"]
  /\ keySlot' = [keySlot EXCEPT ![id] = NoKey]
  /\ cmds' = IF keySlot[id] # NoKey /\ Len(cmds) < CmdCap
             THEN Append(cmds, Cancel(keySlot[id])) ELSE cmds
  /\ UNCHANGED <<entry, vacant, fired, got>>

\* Mutant: the key slot gets a key counted by the scheduler, as if keys were
\* never given out again.
ProcessInsertFreshKey ==
  /\ cmds # << >> /\ Head(cmds).op = "insert"
  /\ LET id == Head(cmds).arg IN
     \E k \in 1 .. Len(entry) + 1 :
       /\ InsertEntry(id, k)
       /\ keySlot' = [keySlot EXCEPT ![id] = Len(entry')]
  /\ cmds' = Tail(cmds)
  /\ UNCHANGED <<handle, fired, got>>

(* The background task takes an Insert ... *)
ProcessInsert ==
  /\ cmds # << >> /\ Head(cmds).op = "insert"
  /\ LET id == Head(cmds).arg IN
     \E k \in 1 .. Len(entry) + 1 :
       /\ InsertEntry(id, k)
       /\ keySlot' = [keySlot EXCEPT ![id] = k]
  /\ cmds' = Tail(cmds)
  /\ UNCHANGED <<handle, fired, got>>

(* ... or a Cancel ... *)
ProcessCancel ==
  /\ cmds # << >> /\ Head(cmds).op = "cancel"
  /\ RemoveEntry(Head(cmds).arg)
  /\ cmds' = Tail(cmds)
  /\ UNCHANGED <<handle, keySlot, fired, got>>

\* Mutant: an expired entry is peeked at, not removed.
ExpireKeepsEntry(k) ==
  /\ k \in DOMAIN entry /\ entry[k] # {}
  /\ \E id \in entry[k] :
       fired' = IF Len(fired) < FiredCap THEN Append(fired, id) ELSE fired
  /\ UNCHANGED <<handle, keySlot, cmds, entry, vacant, got>>

(* ... or sees an entry expire: its id is forwarded unless the channel of   *)
(* fired ids is full.  The key slot keeps the key.                          *)
Expire(k) ==
  /\ k \in DOMAIN entry /\ entry[k] # {}
  /\ RemoveEntry(k)
  /\ \E id \in entry[k] :
       fired' = IF Len(fired) < FiredCap THEN Append(fired, id) ELSE fired
  /\ UNCHANGED <<handle, keySlot, cmds, got>>

NextFired ==
  /\ fired # << >>
  /\ got' = got \cup {Head(fired)} /\ fired' = Tail(fired)
  /\ UNCHANGED <<handle, keySlot, cmds, entry, vacant>>

Next ==
  \/ \E id \in Ids : Schedule(id) \/ DropHandle(id)
  \/ ProcessInsert \/ ProcessCancel \/ NextFired
  \/ \E k \in DOMAIN entry : Expire(k)

Spec == Init /\ [][Next]_vars

=============================================================================
