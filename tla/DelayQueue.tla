----------------------------- MODULE DelayQueue -----------------------------
(***************************************************************************)
(* What a deadline passes through (crates/mty-runtime/src/delay_timers.rs): *)
(* the command channel, the DelayQueue of tokio-util, the channel of fired  *)
(* ids and the consumer.  DelayScheduler moves deadlines along.             *)
(*                                                                         *)
(* DelayQueue keys are indices of a slab (external): a key is vacant again *)
(* once its entry leaves, and the last vacated key is the next given out.  *)
(***************************************************************************)
EXTENDS Integers, Sequences, Functions

CONSTANTS Ids,       \* the deadlines scheduled
          NoKey

ASSUME NoKeyAssumption == NoKey \notin Nat

VARIABLES
  keySlot,  \* keySlot[id]: the key slot the handle and the Insert share
  cmds,     \* the command channel
  entry,    \* entry[k]: the ids behind key k, one or none
  vacant,   \* keys given out before and vacant now, the last vacated on top
  fired,    \* the channel of fired ids
  got       \* ids returned by next_fired

Insert(id) == [op |-> "insert", arg |-> id]
Cancel(k) == [op |-> "cancel", arg |-> k]

\* The ids the DelayQueue holds.
Pending == {id \in Ids : \E k \in DOMAIN entry : entry[k] = {id}}

(* DelayQueue::insert: reuse the last vacated key, else a new one. *)
InsertEntry(id, k) ==
  /\ k = IF vacant = << >> THEN Len(entry) + 1 ELSE vacant[Len(vacant)]
  /\ entry' = IF vacant = << >> THEN Append(entry, {id})
                                ELSE [entry EXCEPT ![k] = {id}]
  /\ vacant' = IF vacant = << >> THEN vacant ELSE SubSeq(vacant, 1, Len(vacant) - 1)

(* DelayQueue::try_remove, and the removal of an expired entry. *)
RemoveEntry(k) ==
  /\ entry' = [entry EXCEPT ![k] = {}]
  /\ vacant' = IF entry[k] = {} THEN vacant ELSE Append(vacant, k)

-----------------------------------------------------------------------------
(* A deadline fires at most once: an id is never in two of the command      *)
(* channel, the queue, the fired channel and the consumer's hands, nor      *)
(* twice in one, however keys are recycled by cancels and expirations.      *)
FiresAtMostOnce ==
  /\ IsInjective(fired)
  /\ \A j, k \in DOMAIN entry : (entry[j] = entry[k] /\ entry[j] # {}) => j = k
  /\ got \cap Range(fired) = {}
  /\ Pending \cap (got \cup Range(fired)) = {}
  /\ \A i \in DOMAIN cmds : cmds[i].op = "insert" =>
       cmds[i].arg \notin Pending \cup got \cup Range(fired)

(* While a deadline is pending, a key its handle holds is the key of that   *)
(* very deadline, so the Cancel of a live deadline removes the right entry. *)
OwnKeyWhilePending ==
  \A id \in Pending : keySlot[id] # NoKey => entry[keySlot[id]] = {id}
=============================================================================
