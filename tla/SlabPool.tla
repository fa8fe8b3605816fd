------------------------------ MODULE SlabPool ------------------------------
(***************************************************************************)
(* The payload slab of a mailbox (crates/mty-runtime/src/slab_pool.rs) at  *)
(* the granularity of its locks.  `free' (the LIFO free list), every       *)
(* slot and the two counters each sit behind a mutex of their own, and no  *)
(* operation holds two of them at once: acquiring a frame pops the free    *)
(* list, then writes the slot, then counts; dropping one resets the slot,  *)
(* then pushes the index, then counts.  Frames are acquired and dropped    *)
(* from any thread, so those steps interleave.                             *)
(*                                                                         *)
(* A slot's bytes (inline or spilled to a heap buffer inside the slot) are *)
(* one abstract value; Blank is the empty slot that `reset' leaves.        *)
(***************************************************************************)
EXTENDS Integers, Sequences, FiniteSets, Functions

CONSTANTS Holders,   \* threads that acquire a frame, read it and drop it
          Capacity,  \* number of slots
          Bytes,     \* non-empty payload descriptors
          Blank,     \* contents of a slot after reset
          MaxGrabs   \* bound on the pooled acquisitions a behaviour makes

ASSUME HoldersAssumption == IsFiniteSet(Holders)
ASSUME CapacityAssumption == Capacity \in Nat \ {0}
ASSUME BlankAssumption == Blank \notin Bytes
ASSUME MaxGrabsAssumption == MaxGrabs \in Nat

Slots == 0 .. Capacity - 1
NoSlot == -1

VARIABLES slots,     \* slots[i]: the bytes in slot i
          free,      \* stack of free indices, the top at the end
          acquired,  \* lifetime counter of pooled acquisitions
          released,  \* lifetime counter of pooled releases
          pc,        \* where each holder stands in acquire or drop
          idx,       \* slot_idx of the holder's frame, NoSlot if it has none
          data       \* the bytes the holder's frame was built from

vars == <<slots, free, acquired, released, pc, idx, data>>

\* "none": no frame;  "popped", "written": inside try_acquire;
\* "held": the frame is out;  "reset", "pushed": inside Drop.
Pcs == {"none", "popped", "written", "held", "reset", "pushed"}

TypeOK ==
  /\ slots \in [Slots -> Bytes \cup {Blank}]
  /\ free \in Seq(Slots)
  /\ acquired \in Nat /\ released \in Nat
  /\ pc \in [Holders -> Pcs]
  /\ idx \in [Holders -> Slots \cup {NoSlot}]
  /\ data \in [Holders -> Bytes \cup {Blank}]

-----------------------------------------------------------------------------
(* The free list is filled so that index 0 is popped first. *)
Init ==
  /\ slots = [i \in Slots |-> Blank]
  /\ free = [k \in 1 .. Capacity |-> Capacity - k]
  /\ acquired = 0 /\ released = 0
  /\ pc = [h \in Holders |-> "none"]
  /\ idx = [h \in Holders |-> NoSlot]
  /\ data = [h \in Holders |-> Blank]

(* acquire_empty, and acquire_or_overflow of no bytes: a frame with neither *)
(* a slot nor a buffer.                                                     *)
AcquireEmpty(h) ==
  /\ pc[h] = "none"
  /\ pc' = [pc EXCEPT ![h] = "held"]
  /\ UNCHANGED <<slots, free, acquired, released, idx, data>>

\* Mutant: the index is read with last() and never popped.
PopFreePeeks(h, b) ==
  /\ pc[h] = "none" /\ free # << >> /\ acquired < MaxGrabs
  /\ idx' = [idx EXCEPT ![h] = free[Len(free)]]
  /\ data' = [data EXCEPT ![h] = b]
  /\ pc' = [pc EXCEPT ![h] = "popped"]
  /\ UNCHANGED <<slots, free, acquired, released>>

(* try_acquire found an index: it leaves the free list before the slot is  *)
(* written.                                                                *)
PopFree(h, b) ==
  /\ pc[h] = "none" /\ free # << >> /\ acquired < MaxGrabs
  /\ idx' = [idx EXCEPT ![h] = free[Len(free)]]
  /\ free' = SubSeq(free, 1, Len(free) - 1)
  /\ data' = [data EXCEPT ![h] = b]
  /\ pc' = [pc EXCEPT ![h] = "popped"]
  /\ UNCHANGED <<slots, acquired, released>>

WriteSlot(h) ==
  /\ pc[h] = "popped"
  /\ slots' = [slots EXCEPT ![idx[h]] = data[h]]
  /\ pc' = [pc EXCEPT ![h] = "written"]
  /\ UNCHANGED <<free, acquired, released, idx, data>>

\* Mutant: the acquisition is not counted.
CountAcquiredSkipped(h) ==
  /\ pc[h] = "written"
  /\ pc' = [pc EXCEPT ![h] = "held"]
  /\ UNCHANGED <<slots, free, acquired, released, idx, data>>

CountAcquired(h) ==
  /\ pc[h] = "written"
  /\ acquired' = acquired + 1
  /\ pc' = [pc EXCEPT ![h] = "held"]
  /\ UNCHANGED <<slots, free, released, idx, data>>

(* The pool is exhausted: acquire_or_overflow builds a frame that owns a    *)
(* heap buffer and no slot.                                                 *)
AcquireOverflow(h, b) ==
  /\ pc[h] = "none" /\ free = << >>
  /\ data' = [data EXCEPT ![h] = b]
  /\ pc' = [pc EXCEPT ![h] = "held"]
  /\ UNCHANGED <<slots, free, acquired, released, idx>>

(* Drop of a frame without a slot. *)
DropUnpooled(h) ==
  /\ pc[h] = "held" /\ idx[h] = NoSlot
  /\ data' = [data EXCEPT ![h] = Blank]
  /\ pc' = [pc EXCEPT ![h] = "none"]
  /\ UNCHANGED <<slots, free, acquired, released, idx>>

(* Drop of a pooled frame: the slot is reset while its index is still off   *)
(* the free list, pushed after that, and only then counted.                 *)
ResetSlot(h) ==
  /\ pc[h] = "held" /\ idx[h] # NoSlot
  /\ slots' = [slots EXCEPT ![idx[h]] = Blank]
  /\ pc' = [pc EXCEPT ![h] = "reset"]
  /\ UNCHANGED <<free, acquired, released, idx, data>>

\* Mutant: Drop resets the slot and never returns its index.
PushFreeLeaks(h) ==
  /\ pc[h] = "reset"
  /\ idx' = [idx EXCEPT ![h] = NoSlot]
  /\ data' = [data EXCEPT ![h] = Blank]
  /\ pc' = [pc EXCEPT ![h] = "pushed"]
  /\ UNCHANGED <<slots, free, acquired, released>>

PushFree(h) ==
  /\ pc[h] = "reset"
  /\ free' = Append(free, idx[h])
  /\ idx' = [idx EXCEPT ![h] = NoSlot]
  /\ data' = [data EXCEPT ![h] = Blank]
  /\ pc' = [pc EXCEPT ![h] = "pushed"]
  /\ UNCHANGED <<slots, acquired, released>>

CountReleased(h) ==
  /\ pc[h] = "pushed"
  /\ released' = released + 1
  /\ pc' = [pc EXCEPT ![h] = "none"]
  /\ UNCHANGED <<slots, free, acquired, idx, data>>

Next ==
  \E h \in Holders :
    \/ AcquireEmpty(h)
    \/ \E b \in Bytes : PopFree(h, b) \/ AcquireOverflow(h, b)
    \/ WriteSlot(h) \/ CountAcquired(h)
    \/ DropUnpooled(h) \/ ResetSlot(h) \/ PushFree(h) \/ CountReleased(h)

Spec == Init /\ [][Next]_vars

(* What `with_bytes' returns for a frame that is out: the bytes of its slot *)
(* if it has one, otherwise those of its own buffer.                        *)
WithBytes(h) == IF idx[h] = NoSlot THEN data[h] ELSE slots[idx[h]]

-----------------------------------------------------------------------------
(* A frame that is out reads back exactly the bytes it was acquired with,   *)
(* whatever other threads acquire and drop meanwhile: `with_bytes' takes    *)
(* the slot lock again long after try_acquire released it.                  *)
FramesKeepTheirBytes ==
  \A h \in Holders : pc[h] = "held" => WithBytes(h) = data[h]

(* No index is lost or handed out twice: the free list holds each index at  *)
(* most once, two frames never share a slot, and an index is on the free    *)
(* list exactly when no frame has it (the pool neither leaks nor            *)
(* duplicates slots through the two-lock drop).                             *)
SlotsConserved ==
  /\ IsInjective(free)
  /\ \A h \in Holders : idx[h] # NoSlot => idx[h] \notin Range(free)
  /\ \A h, g \in Holders : (h # g /\ idx[h] # NoSlot) => idx[h] # idx[g]
  /\ \A i \in Slots : i \in Range(free) \/ \E h \in Holders : idx[h] = i

(* The counters the leak checks compare never claim more releases than      *)
(* acquisitions, although each is bumped after its slot has already moved.  *)
CountersOrdered == released <= acquired
=============================================================================
