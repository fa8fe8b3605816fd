-------------------------- MODULE Services_proofs --------------------------
(***************************************************************************)
(* What the runtime's services promise to the agents they serve: the       *)
(* payload slab (SlabPool), the deadline scheduler (DelayScheduler) and    *)
(* the recorder of runs (TraceReplay).  They share no state: SlabPool is   *)
(* extended, and the other two are instances, Delay and Trace, that share  *)
(* with this module what DelayQueue and TraceChecks declare.               *)
(***************************************************************************)
EXTENDS SlabPool, DelayQueue, TraceChecks, SeqFacts, FiniteSetTheorems

-----------------------------------------------------------------------------
(* THE PAYLOAD SLAB, for any number of threads and slots: its type           *)
(* invariant, conservation of slots, frames that keep their bytes, and       *)
(* counters that never claim more releases than acquisitions.                *)

(* A holder inside acquire or drop has a slot, one between frames has none. *)
HasSlotInside ==
  \A h \in Holders : /\ pc[h] \in {"popped", "written", "reset"} => idx[h] # NoSlot
                     /\ pc[h] \in {"none", "pushed"} => idx[h] = NoSlot

(* From the write until the reset, a slot carries its frame's bytes. *)
SlotCarriesBytes ==
  \A h \in Holders : (pc[h] \in {"written", "held"} /\ idx[h] # NoSlot)
                       => slots[idx[h]] = data[h]

IInv == TypeOK /\ SlotsConserved /\ HasSlotInside /\ SlotCarriesBytes

(* The pool starts with every index on the free list, once. *)
LEMMA InitIInv == Init => IInv
<1> SUFFICES ASSUME Init PROVE IInv
  OBVIOUS
<1> USE CapacityAssumption DEF Init, Slots, NoSlot
<1>1. free \in Seq(Slots) /\ DOMAIN free = 1 .. Capacity
  OBVIOUS
<1>2. TypeOK
  BY <1>1 DEF TypeOK, Pcs
<1>3. IsInjective(free)
  BY <1>1 DEF IsInjective
<1>4. ASSUME NEW i \in Slots PROVE i \in Range(free)
  <2>1. Capacity - i \in 1 .. Capacity /\ Capacity - (Capacity - i) = i
    BY <1>4
  <2>2. free[Capacity - i] = i
    BY <2>1
  <2> QED BY <1>1, <2>1, <2>2 DEF Range
<1>5. SlotsConserved
  BY <1>3, <1>4 DEF SlotsConserved
<1>6. HasSlotInside /\ SlotCarriesBytes
  BY DEF HasSlotInside, SlotCarriesBytes
<1> QED BY <1>2, <1>5, <1>6 DEF IInv

(* Every lock-sized step of acquire and drop keeps the invariant. *)
LEMMA NextIInv == IInv /\ [Next]_vars => IInv'
<1> SUFFICES ASSUME IInv, [Next]_vars PROVE IInv'
  OBVIOUS
<1> USE CapacityAssumption, BlankAssumption DEF IInv
<1>1. ASSUME NEW h \in Holders, AcquireEmpty(h) PROVE IInv'
  BY <1>1 DEF AcquireEmpty, TypeOK, SlotsConserved, HasSlotInside, SlotCarriesBytes,
              Pcs, Slots, NoSlot
<1>2. ASSUME NEW h \in Holders, NEW b \in Bytes, PopFree(h, b) PROVE IInv'
  <2> DEFINE x == free[Len(free)]
  <2>1. /\ free' \in Seq(Slots) /\ x \in Slots
        /\ Range(free) = Range(free') \cup {x}
        /\ IsInjective(free') /\ x \notin Range(free')
    BY <1>2, PopFacts DEF PopFree, TypeOK, SlotsConserved
  <2>2. x # NoSlot /\ NoSlot \notin Slots
    BY <2>1 DEF Slots, NoSlot
  <2>3. /\ pc[h] = "none" /\ idx[h] = NoSlot
        /\ idx' = [idx EXCEPT ![h] = x] /\ data' = [data EXCEPT ![h] = b]
        /\ pc' = [pc EXCEPT ![h] = "popped"]
        /\ UNCHANGED <<slots, acquired, released>>
    BY <1>2 DEF PopFree, HasSlotInside
  <2>4. TypeOK'
    BY <2>1, <2>3 DEF TypeOK, Pcs
  <2>5. SlotsConserved'
    BY <2>1, <2>2, <2>3 DEF TypeOK, SlotsConserved
  <2>6. HasSlotInside' /\ SlotCarriesBytes'
    BY <2>2, <2>3 DEF TypeOK, HasSlotInside, SlotCarriesBytes
  <2> QED BY <2>4, <2>5, <2>6
<1>3. ASSUME NEW h \in Holders, NEW b \in Bytes, AcquireOverflow(h, b) PROVE IInv'
  BY <1>3 DEF AcquireOverflow, TypeOK, SlotsConserved, HasSlotInside,
              SlotCarriesBytes, Pcs, Slots, NoSlot
<1>4. ASSUME NEW h \in Holders, WriteSlot(h) PROVE IInv'
  <2>1. /\ pc[h] = "popped" /\ idx[h] # NoSlot /\ idx[h] \in Slots
        /\ slots' = [slots EXCEPT ![idx[h]] = data[h]]
        /\ pc' = [pc EXCEPT ![h] = "written"]
        /\ UNCHANGED <<free, acquired, released, idx, data>>
    BY <1>4 DEF WriteSlot, HasSlotInside, TypeOK
  <2>2. TypeOK' /\ HasSlotInside' /\ SlotsConserved'
    BY <2>1 DEF TypeOK, Pcs, HasSlotInside, SlotsConserved
  <2>3. SlotCarriesBytes'
    BY <2>1 DEF TypeOK, SlotsConserved, SlotCarriesBytes
  <2> QED BY <2>2, <2>3
<1>5. ASSUME NEW h \in Holders, CountAcquired(h) PROVE IInv'
  BY <1>5 DEF CountAcquired, TypeOK, SlotsConserved, HasSlotInside, SlotCarriesBytes,
              Pcs
<1>6. ASSUME NEW h \in Holders, DropUnpooled(h) PROVE IInv'
  BY <1>6 DEF DropUnpooled, TypeOK, SlotsConserved, HasSlotInside, SlotCarriesBytes,
              Pcs
<1>7. ASSUME NEW h \in Holders, ResetSlot(h) PROVE IInv'
  <2>1. /\ pc[h] = "held" /\ idx[h] # NoSlot /\ idx[h] \in Slots
        /\ slots' = [slots EXCEPT ![idx[h]] = Blank]
        /\ pc' = [pc EXCEPT ![h] = "reset"]
        /\ UNCHANGED <<free, acquired, released, idx, data>>
    BY <1>7 DEF ResetSlot, TypeOK
  <2>2. TypeOK' /\ HasSlotInside' /\ SlotsConserved'
    BY <2>1 DEF TypeOK, Pcs, HasSlotInside, SlotsConserved
  <2>3. SlotCarriesBytes'
    BY <2>1 DEF TypeOK, SlotsConserved, SlotCarriesBytes
  <2> QED BY <2>2, <2>3
<1>8. ASSUME NEW h \in Holders, PushFree(h) PROVE IInv'
  <2> DEFINE x == idx[h]
  <2>1. /\ pc[h] = "reset" /\ x # NoSlot /\ x \in Slots /\ x \notin Range(free)
        /\ free' = Append(free, x)
        /\ idx' = [idx EXCEPT ![h] = NoSlot] /\ data' = [data EXCEPT ![h] = Blank]
        /\ pc' = [pc EXCEPT ![h] = "pushed"]
        /\ UNCHANGED <<slots, acquired, released>>
    BY <1>8 DEF PushFree, HasSlotInside, TypeOK, SlotsConserved
  <2>2. /\ free' \in Seq(Slots) /\ Range(free') = Range(free) \cup {x}
        /\ IsInjective(free')
    BY <2>1, PushFacts DEF TypeOK, SlotsConserved
  <2>3. TypeOK'
    BY <2>1, <2>2 DEF TypeOK, Pcs
  <2>4. SlotsConserved'
    BY <2>1, <2>2 DEF TypeOK, SlotsConserved
  <2>5. HasSlotInside' /\ SlotCarriesBytes'
    BY <2>1 DEF TypeOK, HasSlotInside, SlotCarriesBytes
  <2> QED BY <2>3, <2>4, <2>5
<1>9. ASSUME NEW h \in Holders, CountReleased(h) PROVE IInv'
  BY <1>9 DEF CountReleased, TypeOK, SlotsConserved, HasSlotInside, SlotCarriesBytes,
              Pcs
<1>10. CASE UNCHANGED vars
  BY <1>10 DEF vars, TypeOK, SlotsConserved, HasSlotInside, SlotCarriesBytes
<1> QED BY <1>1, <1>2, <1>3, <1>4, <1>5, <1>6, <1>7, <1>8, <1>9, <1>10 DEF Next

(* The invariant holds always. *)
LEMMA AlwaysIInv == Spec => []IInv
BY InitIInv, NextIInv, PTL DEF Spec

(* slab_pool.rs: the slab's state always has its declared shape; in         *)
(* particular only indices of slots are ever on the free list.              *)
THEOREM TypeCorrect == Spec => []TypeOK
<1>1. IInv => TypeOK
  BY DEF IInv
<1> QED BY <1>1, AlwaysIInv, PTL

(* try_acquire and Drop: no slot is lost, shared or on the free list while  *)
(* a frame has it, for any number of threads and slots.                     *)
THEOREM Conservation == Spec => []SlotsConserved
<1>1. IInv => SlotsConserved
  BY DEF IInv
<1> QED BY <1>1, AlwaysIInv, PTL

(* with_bytes: a frame that is out reads the bytes it was acquired with.    *)
THEOREM FrameIntegrity == Spec => []FramesKeepTheirBytes
<1>1. IInv => FramesKeepTheirBytes
  BY DEF IInv, SlotCarriesBytes, FramesKeepTheirBytes, WithBytes
<1> QED BY <1>1, AlwaysIInv, PTL

-----------------------------------------------------------------------------
(* The counters.  Each is bumped after its slot has moved, so they differ   *)
(* by the holders between the two bumps.                                    *)
Counted == {h \in Holders : \/ pc[h] = "held" /\ idx[h] # NoSlot
                            \/ pc[h] \in {"reset", "pushed"}}
CountersExact == acquired = released + Cardinality(Counted)

(* A step moves at most one holder in or out of Counted, with its counter. *)
LEMMA NextCountersExact == IInv /\ CountersExact /\ [Next]_vars => CountersExact'
<1> SUFFICES ASSUME IInv, CountersExact, [Next]_vars PROVE CountersExact'
  OBVIOUS
<1>0. /\ IsFiniteSet(Counted) /\ Cardinality(Counted) \in Nat
      /\ acquired \in Nat /\ released \in Nat
  BY HoldersAssumption, FS_Subset, FS_CardinalityType DEF Counted, IInv, TypeOK
<1>1. ASSUME Counted' = Counted, UNCHANGED <<acquired, released>>
      PROVE  CountersExact'
  BY <1>1 DEF CountersExact
<1>2. ASSUME NEW h \in Holders, CountAcquired(h) PROVE CountersExact'
  <2>1. h \notin Counted /\ Counted' = Counted \cup {h}
    BY <1>2 DEF CountAcquired, Counted, IInv, TypeOK, HasSlotInside
  <2>2. Cardinality(Counted') = Cardinality(Counted) + 1
    BY <1>0, <2>1, FS_AddElement
  <2> QED BY <1>0, <1>2, <2>2 DEF CountAcquired, CountersExact
<1>3. ASSUME NEW h \in Holders, CountReleased(h) PROVE CountersExact'
  <2>1. h \in Counted /\ Counted' = Counted \ {h}
    BY <1>3 DEF CountReleased, Counted, IInv, TypeOK
  <2>2. Cardinality(Counted') = Cardinality(Counted) - 1
    BY <1>0, <2>1, FS_RemoveElement
  <2> QED BY <1>0, <1>3, <2>2 DEF CountReleased, CountersExact
<1>4. ASSUME NEW h \in Holders,
             \/ AcquireEmpty(h) \/ WriteSlot(h) \/ DropUnpooled(h)
             \/ ResetSlot(h) \/ PushFree(h)
             \/ \E b \in Bytes : PopFree(h, b) \/ AcquireOverflow(h, b)
      PROVE  CountersExact'
  <2>1. pc' = [pc EXCEPT ![h] = pc'[h]] /\ UNCHANGED <<acquired, released>>
    BY <1>4 DEF AcquireEmpty, WriteSlot, DropUnpooled, ResetSlot, PushFree, PopFree,
                AcquireOverflow, IInv, TypeOK
  <2>2. \A g \in Holders \ {h} : pc'[g] = pc[g] /\ idx'[g] = idx[g]
    BY <1>4 DEF AcquireEmpty, WriteSlot, DropUnpooled, ResetSlot, PushFree, PopFree,
                AcquireOverflow, IInv, TypeOK
  <2>3. h \in Counted' <=> h \in Counted
    BY <1>4 DEF AcquireEmpty, WriteSlot, DropUnpooled, ResetSlot, PushFree, PopFree,
                AcquireOverflow, IInv, TypeOK, HasSlotInside, Counted
  <2>4. Counted' = Counted
    BY <2>2, <2>3 DEF Counted
  <2> QED BY <1>1, <2>1, <2>4
<1>5. CASE UNCHANGED vars
  BY <1>1, <1>5 DEF vars, Counted
<1> QED BY <1>2, <1>3, <1>4, <1>5 DEF Next

(* The lifetime counters: released never exceeds acquired, whatever steps   *)
(* of acquire and drop other threads are in the middle of.                  *)
THEOREM CountersNeverCross == Spec => []CountersOrdered
<1>1. Init => CountersExact
  <2> SUFFICES ASSUME Init PROVE CountersExact
    OBVIOUS
  <2>1. Counted = {}
    BY DEF Init, Counted
  <2> QED BY <2>1, FS_EmptySet DEF Init, CountersExact
<1>2. IInv /\ CountersExact => CountersOrdered
  <2> SUFFICES ASSUME IInv, CountersExact PROVE CountersOrdered
    OBVIOUS
  <2>1. Cardinality(Counted) \in Nat
    BY HoldersAssumption, FS_Subset, FS_CardinalityType DEF Counted
  <2> QED BY <2>1 DEF CountersExact, CountersOrdered, IInv, TypeOK
<1> QED BY <1>1, <1>2, AlwaysIInv, NextCountersExact, PTL DEF Spec
-----------------------------------------------------------------------------
(* THE DEADLINE SCHEDULER, for any deadlines and any capacities of its two   *)
(* channels.                                                                 *)

CONSTANTS CmdCap, FiredCap
VARIABLE handleOf

Delay == INSTANCE DelayScheduler WITH handle <- handleOf

Commands == {Delay!Insert(id) : id \in Ids} \cup {Delay!Cancel(k) : k \in Nat}
Cells == {{}} \cup {{id} : id \in Ids}

(* The channels and the slab of the DelayQueue are sequences.                *)
DelayTyped ==
  /\ handleOf \in [Ids -> {"none", "live", "dropped"}]
  /\ keySlot \in [Ids -> Nat \cup {NoKey}]
  /\ cmds \in Seq(Commands) /\ entry \in Seq(Cells) /\ vacant \in Seq(Nat)
  /\ fired \in Seq(Ids) /\ got \subseteq Ids

(* A key in a Cancel, in a key slot or on the free list was given out; the   *)
(* free list holds a key once, and only while nothing is behind it.          *)
KeysGivenOut ==
  /\ \A i \in DOMAIN cmds : cmds[i].op = "cancel" => cmds[i].arg \in DOMAIN entry
  /\ \A id \in Ids : keySlot[id] # NoKey => keySlot[id] \in DOMAIN entry
  /\ IsInjective(vacant)
  /\ \A k \in Range(vacant) : k \in DOMAIN entry /\ entry[k] = {}

(* A deadline that was not scheduled is nowhere.                             *)
UnscheduledIsNowhere ==
  \A id \in Ids : handleOf[id] = "none" =>
    /\ id \notin Delay!Pending \cup got \cup Range(fired)
    /\ \A i \in DOMAIN cmds : cmds[i] # Delay!Insert(id)

(* A deadline's Insert is queued once.                                       *)
InsertedOnce ==
  \A i, j \in DOMAIN cmds : (cmds[i] = cmds[j] /\ cmds[i].op = "insert") => i = j

DelayInv == /\ DelayTyped /\ KeysGivenOut /\ UnscheduledIsNowhere /\ InsertedOnce
            /\ Delay!FiresAtMostOnce /\ Delay!OwnKeyWhilePending

(* The instance's range and injectivity are those of the library.            *)
LEMMA DelayRange ==
  ASSUME NEW f
  PROVE  Delay!Range(f) = Range(f) /\ (Delay!IsInjective(f) <=> IsInjective(f))
BY DEF Delay!Range, Range, Delay!IsInjective, IsInjective

(* A sequence is a function on 1 .. Len.                                     *)
LEMMA SeqDomain ==
  ASSUME NEW S, NEW s \in Seq(S)
  PROVE  /\ DOMAIN s = 1 .. Len(s) /\ Len(s) \in Nat
         /\ \A i \in DOMAIN s : s[i] \in S /\ i \in Nat
OBVIOUS

(* DelayQueue::insert takes a key nothing is behind, off the free list or    *)
(* new, and puts the deadline behind it.                                     *)
LEMMA InsertEntryFacts ==
  ASSUME DelayTyped, KeysGivenOut, NEW id \in Ids, NEW k, Delay!InsertEntry(id, k)
  PROVE  /\ entry' \in Seq(Cells) /\ vacant' \in Seq(Nat) /\ k \in Nat
         /\ DOMAIN entry' = DOMAIN entry \cup {k} /\ entry'[k] = {id}
         /\ \A j \in DOMAIN entry \ {k} : entry'[j] = entry[j]
         /\ k \in DOMAIN entry => entry[k] = {}
         /\ IsInjective(vacant') /\ Range(vacant') \subseteq Range(vacant) \ {k}
<1>1. /\ entry \in Seq(Cells) /\ vacant \in Seq(Nat) /\ {id} \in Cells
      /\ DOMAIN entry = 1 .. Len(entry) /\ Len(entry) \in Nat
  BY SeqDomain DEF DelayTyped, Cells
<1>2. CASE vacant = << >>
  <2>1. k = Len(entry) + 1 /\ entry' = Append(entry, {id}) /\ vacant' = vacant
    BY <1>2 DEF Delay!InsertEntry
  <2>2. entry' \in Seq(Cells) /\ k \in Nat
    BY <1>1, <2>1
  <2>3. DOMAIN entry' = DOMAIN entry \cup {k} /\ entry'[k] = {id}
    BY <1>1, <2>1
  <2>4. /\ \A j \in DOMAIN entry \ {k} : entry'[j] = entry[j]
        /\ k \notin DOMAIN entry
    BY <1>1, <2>1
  <2>5. Range(vacant') = {}
    BY <1>2, <2>1 DEF Range
  <2> QED BY <1>1, <2>1, <2>2, <2>3, <2>4, <2>5 DEF KeysGivenOut
<1>3. CASE vacant # << >>
  <2>1. /\ k = vacant[Len(vacant)] /\ entry' = [entry EXCEPT ![k] = {id}]
        /\ vacant' = SubSeq(vacant, 1, Len(vacant) - 1)
    BY <1>3 DEF Delay!InsertEntry
  <2>2. /\ vacant' \in Seq(Nat) /\ k \in Nat
        /\ Range(vacant) = Range(vacant') \cup {k}
        /\ IsInjective(vacant') /\ k \notin Range(vacant')
    BY <1>1, <1>3, <2>1, PopFacts DEF KeysGivenOut
  <2>3. k \in DOMAIN entry /\ entry[k] = {}
    BY <2>2 DEF KeysGivenOut
  <2>4. entry' \in Seq(Cells) /\ DOMAIN entry' = DOMAIN entry /\ entry'[k] = {id}
    BY <1>1, <2>1, <2>3
  <2>5. \A j \in DOMAIN entry \ {k} : entry'[j] = entry[j]
    BY <1>1, <2>1
  <2> QED BY <2>2, <2>3, <2>4, <2>5
<1> QED BY <1>2, <1>3

(* DelayQueue::try_remove and an expiration leave nothing behind the key and *)
(* vacate it once.                                                           *)
LEMMA RemoveEntryFacts ==
  ASSUME DelayTyped, KeysGivenOut, NEW k \in DOMAIN entry, Delay!RemoveEntry(k)
  PROVE  /\ entry' \in Seq(Cells) /\ vacant' \in Seq(Nat)
         /\ DOMAIN entry' = DOMAIN entry /\ entry'[k] = {}
         /\ \A j \in DOMAIN entry \ {k} : entry'[j] = entry[j]
         /\ IsInjective(vacant') /\ Range(vacant') \subseteq Range(vacant) \cup {k}
<1>1. /\ entry \in Seq(Cells) /\ vacant \in Seq(Nat) /\ {} \in Cells
      /\ DOMAIN entry = 1 .. Len(entry) /\ Len(entry) \in Nat /\ k \in Nat
  BY SeqDomain DEF DelayTyped, Cells
<1>2. /\ entry' \in Seq(Cells) /\ DOMAIN entry' = DOMAIN entry /\ entry'[k] = {}
      /\ \A j \in DOMAIN entry \ {k} : entry'[j] = entry[j]
  BY <1>1 DEF Delay!RemoveEntry
<1>3. CASE entry[k] = {}
  BY <1>1, <1>2, <1>3 DEF Delay!RemoveEntry, KeysGivenOut
<1>4. CASE entry[k] # {}
  <2>1. k \notin Range(vacant) /\ vacant' = Append(vacant, k)
    BY <1>4 DEF Delay!RemoveEntry, KeysGivenOut
  <2>2. /\ vacant' \in Seq(Nat) /\ Range(vacant') = Range(vacant) \cup {k}
        /\ IsInjective(vacant')
    BY <1>1, <2>1, PushFacts DEF KeysGivenOut
  <2> QED BY <1>2, <2>2
<1> QED BY <1>3, <1>4

(* The scheduler starts with nothing scheduled.                              *)
LEMMA DelayInit == Delay!Init => DelayInv
<1> SUFFICES ASSUME Delay!Init PROVE DelayInv
  OBVIOUS
<1>1. DOMAIN cmds = {} /\ DOMAIN entry = {} /\ Range(fired) = {} /\ Range(vacant) = {}
  BY DEF Delay!Init, Range
<1>2. DelayTyped
  BY DEF Delay!Init, DelayTyped
<1>3. IsInjective(vacant) /\ IsInjective(fired)
  BY DEF Delay!Init, IsInjective
<1>4. Delay!Pending = {} /\ got = {} /\ \A id \in Ids : keySlot[id] = NoKey
  BY <1>1 DEF Delay!Init, Delay!Pending
<1>5. KeysGivenOut /\ UnscheduledIsNowhere /\ InsertedOnce
  BY <1>1, <1>3, <1>4 DEF KeysGivenOut, UnscheduledIsNowhere, InsertedOnce
<1>6. Delay!FiresAtMostOnce /\ Delay!OwnKeyWhilePending
  BY <1>1, <1>3, <1>4, DelayRange DEF Delay!FiresAtMostOnce, Delay!OwnKeyWhilePending
<1> QED BY <1>2, <1>5, <1>6 DEF DelayInv

(* What the two ends of the command channel do to it.                        *)
LEMMA CommandShape ==
  ASSUME NEW c \in Commands
  PROVE  /\ c.op \in {"insert", "cancel"}
         /\ c.op = "insert" => c.arg \in Ids /\ c = Delay!Insert(c.arg)
         /\ c.op = "cancel" => c.arg \in Nat /\ c = Delay!Cancel(c.arg)
BY DEF Commands, Delay!Insert, Delay!Cancel

LEMMA AppendShape ==
  ASSUME NEW S, NEW s \in Seq(S), NEW x \in S
  PROVE  LET t == Append(s, x)
         IN  /\ t \in Seq(S) /\ DOMAIN t = DOMAIN s \cup {Len(s) + 1}
             /\ Len(s) + 1 \notin DOMAIN s /\ t[Len(s) + 1] = x
             /\ \A i \in DOMAIN s : t[i] = s[i]
OBVIOUS

LEMMA TailShape ==
  ASSUME NEW S, NEW s \in Seq(S), s # << >>
  PROVE  /\ Tail(s) \in Seq(S) /\ Head(s) = s[1] /\ 1 \in DOMAIN s
         /\ \A i \in DOMAIN Tail(s) : /\ i \in Nat /\ i + 1 \in DOMAIN s /\ i + 1 # 1
                                      /\ Tail(s)[i] = s[i + 1]
<1>1. Tail(s) \in Seq(S) /\ Head(s) = s[1] /\ DOMAIN s = 1 .. Len(s) /\ Len(s) \in Nat
  OBVIOUS
<1>2. Len(s) # 0
  OBVIOUS
<1>3. DOMAIN Tail(s) = 1 .. Len(s) - 1 /\ \A i \in 1 .. Len(s) - 1 : Tail(s)[i] = s[i + 1]
  OBVIOUS
<1> QED BY <1>1, <1>2, <1>3

(* schedule queues the Insert of a deadline that is nowhere yet.             *)
LEMMA ScheduleKeeps == ASSUME DelayInv, NEW id \in Ids, Delay!Schedule(id) PROVE DelayInv'
<1> DEFINE n == Len(cmds) + 1
<1>1. /\ handleOf[id] = "none" /\ cmds' = Append(cmds, Delay!Insert(id))
      /\ handleOf' = [handleOf EXCEPT ![id] = "live"]
      /\ UNCHANGED <<keySlot, entry, vacant, fired, got>>
  BY DEF Delay!Schedule
<1>2. cmds \in Seq(Commands) /\ Delay!Insert(id) \in Commands
  BY DEF DelayInv, DelayTyped, Commands
<1>3. /\ cmds' \in Seq(Commands) /\ DOMAIN cmds' = DOMAIN cmds \cup {n}
      /\ n \notin DOMAIN cmds /\ cmds'[n] = Delay!Insert(id)
      /\ \A i \in DOMAIN cmds : cmds'[i] = cmds[i]
  BY <1>1, <1>2, AppendShape
<1> HIDE DEF n
<1>4. Delay!Insert(id).op = "insert" /\ Delay!Insert(id).arg = id
  BY DEF Delay!Insert
<1>5. /\ id \notin Delay!Pending \cup got \cup Range(fired)
      /\ \A i \in DOMAIN cmds : cmds[i] # Delay!Insert(id)
  BY <1>1 DEF DelayInv, UnscheduledIsNowhere
<1>6. Delay!Pending' = Delay!Pending
  BY <1>1 DEF Delay!Pending
<1>7. DelayTyped'
  BY <1>1, <1>3 DEF DelayInv, DelayTyped
<1>8. KeysGivenOut'
  BY <1>1, <1>3, <1>4 DEF DelayInv, KeysGivenOut
<1>9. UnscheduledIsNowhere'
  <2>1. ASSUME NEW d \in Ids, handleOf'[d] = "none" PROVE d # id /\ handleOf[d] = "none"
    BY <1>1, <2>1 DEF DelayInv, DelayTyped
  <2>2. \A d \in Ids \ {id} : Delay!Insert(d) # Delay!Insert(id)
    BY DEF Delay!Insert
  <2> QED BY <1>1, <1>3, <1>6, <2>1, <2>2 DEF DelayInv, UnscheduledIsNowhere
<1>10. InsertedOnce'
  BY <1>3, <1>5 DEF DelayInv, InsertedOnce
<1>11. Delay!FiresAtMostOnce' /\ Delay!OwnKeyWhilePending'
  BY <1>1, <1>3, <1>4, <1>5, <1>6, DelayRange
     DEF DelayInv, Delay!FiresAtMostOnce, Delay!OwnKeyWhilePending
<1> QED BY <1>7, <1>8, <1>9, <1>10, <1>11 DEF DelayInv

(* Dropping a handle empties the key slot and may queue a Cancel.            *)
LEMMA DropKeeps == ASSUME DelayInv, NEW id \in Ids, Delay!DropHandle(id) PROVE DelayInv'
<1>1. /\ handleOf[id] = "live" /\ handleOf' = [handleOf EXCEPT ![id] = "dropped"]
      /\ keySlot' = [keySlot EXCEPT ![id] = NoKey]
      /\ UNCHANGED <<entry, vacant, fired, got>>
  BY DEF Delay!DropHandle
<1>2. Delay!Pending' = Delay!Pending
  BY <1>1 DEF Delay!Pending
<1>3. /\ cmds' \in Seq(Commands) /\ DOMAIN cmds \subseteq DOMAIN cmds'
      /\ \A i \in DOMAIN cmds : cmds'[i] = cmds[i]
      /\ \A i \in DOMAIN cmds' \ DOMAIN cmds :
           cmds'[i].op = "cancel" /\ cmds'[i].arg \in DOMAIN entry
  <2>1. CASE cmds' = cmds
    BY <2>1 DEF DelayInv, DelayTyped
  <2>2. CASE keySlot[id] # NoKey /\ cmds' = Append(cmds, Delay!Cancel(keySlot[id]))
    <3>1. keySlot[id] \in Nat /\ keySlot[id] \in DOMAIN entry
      BY <2>2 DEF DelayInv, DelayTyped, KeysGivenOut
    <3>2. Delay!Cancel(keySlot[id]) \in Commands /\ cmds \in Seq(Commands)
      BY <3>1 DEF Commands, DelayInv, DelayTyped
    <3>3. /\ Delay!Cancel(keySlot[id]).op = "cancel"
          /\ Delay!Cancel(keySlot[id]).arg = keySlot[id]
      BY DEF Delay!Cancel
    <3>4. /\ cmds' \in Seq(Commands) /\ DOMAIN cmds' = DOMAIN cmds \cup {Len(cmds) + 1}
          /\ cmds'[Len(cmds) + 1] = Delay!Cancel(keySlot[id])
          /\ \A i \in DOMAIN cmds : cmds'[i] = cmds[i]
      BY <2>2, <3>2, AppendShape
    <3> QED BY <3>1, <3>3, <3>4
  <2> QED BY <2>1, <2>2 DEF Delay!DropHandle
<1>4. DelayTyped'
  BY <1>1, <1>3 DEF DelayInv, DelayTyped
<1>5. \A d \in Ids : keySlot'[d] # NoKey => keySlot'[d] = keySlot[d]
  BY <1>1 DEF DelayInv, DelayTyped
<1>6. KeysGivenOut'
  BY <1>1, <1>3, <1>5 DEF DelayInv, KeysGivenOut
<1>7. \A i \in DOMAIN cmds' : cmds'[i].op = "insert" => i \in DOMAIN cmds /\ cmds'[i] = cmds[i]
  BY <1>3
<1>8. UnscheduledIsNowhere'
  <2>1. \A d \in Ids : handleOf'[d] = "none" => handleOf[d] = "none"
    BY <1>1 DEF DelayInv, DelayTyped
  <2>2. \A d \in Ids : Delay!Insert(d).op = "insert"
    BY DEF Delay!Insert
  <2> QED BY <1>1, <1>2, <1>7, <2>1, <2>2 DEF DelayInv, UnscheduledIsNowhere
<1>9. InsertedOnce'
  BY <1>7 DEF DelayInv, InsertedOnce
<1>10. Delay!FiresAtMostOnce'
  BY <1>1, <1>2, <1>7, DelayRange DEF DelayInv, Delay!FiresAtMostOnce
<1>11. Delay!OwnKeyWhilePending'
  <2>1. \A d \in Delay!Pending : d \in Ids
    BY DEF Delay!Pending
  <2> QED BY <1>1, <1>2, <1>5, <2>1 DEF DelayInv, Delay!OwnKeyWhilePending
<1> QED BY <1>4, <1>6, <1>8, <1>9, <1>10, <1>11 DEF DelayInv

(* The background task takes an Insert off the channel.                      *)
LEMMA InsertKeeps == ASSUME DelayInv, Delay!ProcessInsert PROVE DelayInv'
<1> DEFINE id == Head(cmds).arg
<1>1. /\ cmds # << >> /\ Head(cmds).op = "insert" /\ cmds' = Tail(cmds)
      /\ UNCHANGED <<handleOf, fired, got>>
  BY DEF Delay!ProcessInsert
<1>2. PICK k : Delay!InsertEntry(id, k) /\ keySlot' = [keySlot EXCEPT ![id] = k]
  BY DEF Delay!ProcessInsert
<1>3. /\ cmds' \in Seq(Commands) /\ Head(cmds) = cmds[1] /\ 1 \in DOMAIN cmds
      /\ \A i \in DOMAIN cmds' : /\ i \in Nat /\ i + 1 \in DOMAIN cmds /\ i + 1 # 1
                                 /\ cmds'[i] = cmds[i + 1]
  BY <1>1, TailShape DEF DelayInv, DelayTyped
<1>4. id \in Ids /\ cmds[1] = Delay!Insert(id)
  <2>1. cmds[1] \in Commands
    BY <1>3 DEF DelayInv, DelayTyped
  <2> QED BY <1>1, <1>3, <2>1, CommandShape
<1>5. /\ id \notin Delay!Pending \cup got \cup Range(fired) /\ handleOf[id] # "none"
  BY <1>1, <1>3, <1>4, DelayRange
     DEF DelayInv, Delay!FiresAtMostOnce, UnscheduledIsNowhere
<1>6. \A i \in DOMAIN cmds' : cmds'[i] # Delay!Insert(id)
  BY <1>1, <1>3, <1>4 DEF DelayInv, InsertedOnce
<1> HIDE DEF id
<1>7. /\ entry' \in Seq(Cells) /\ vacant' \in Seq(Nat) /\ k \in Nat
      /\ DOMAIN entry' = DOMAIN entry \cup {k} /\ entry'[k] = {id}
      /\ \A j \in DOMAIN entry \ {k} : entry'[j] = entry[j]
      /\ k \in DOMAIN entry => entry[k] = {}
      /\ IsInjective(vacant') /\ Range(vacant') \subseteq Range(vacant) \ {k}
  BY <1>2, <1>4, InsertEntryFacts DEF DelayInv
<1>8. Delay!Pending' = Delay!Pending \cup {id}
  BY <1>4, <1>7 DEF Delay!Pending
<1>9. \A d \in Ids : keySlot'[d] = IF d = id THEN k ELSE keySlot[d]
  BY <1>2, <1>4 DEF DelayInv, DelayTyped
<1>10. DelayTyped'
  BY <1>1, <1>2, <1>3, <1>4, <1>7 DEF DelayInv, DelayTyped
<1>11. KeysGivenOut'
  <2>1. \A i \in DOMAIN cmds' : cmds'[i].op = "cancel" => cmds'[i].arg \in DOMAIN entry'
    BY <1>3, <1>7 DEF DelayInv, KeysGivenOut
  <2>2. \A d \in Ids : keySlot'[d] # NoKey => keySlot'[d] \in DOMAIN entry'
    BY <1>7, <1>9 DEF DelayInv, KeysGivenOut
  <2>3. \A j \in Range(vacant') : j \in DOMAIN entry' /\ entry'[j] = {}
    BY <1>7 DEF DelayInv, KeysGivenOut
  <2> QED BY <1>7, <2>1, <2>2, <2>3 DEF KeysGivenOut
<1>12. UnscheduledIsNowhere'
  BY <1>1, <1>3, <1>5, <1>8 DEF DelayInv, UnscheduledIsNowhere
<1>13. InsertedOnce'
  <2>1. \A i, j \in DOMAIN cmds' : i + 1 = j + 1 => i = j
    BY <1>3
  <2> QED BY <1>3, <2>1 DEF DelayInv, InsertedOnce
<1>14. Delay!FiresAtMostOnce'
  <2>1. ASSUME NEW i \in DOMAIN entry', NEW j \in DOMAIN entry',
               entry'[i] = entry'[j], entry'[i] # {}
        PROVE  i = j
    <3>1. \A m \in DOMAIN entry : entry[m] # {id}
      BY <1>4, <1>5 DEF Delay!Pending
    <3> QED BY <1>7, <2>1, <3>1 DEF DelayInv, Delay!FiresAtMostOnce
  <2>2. ASSUME NEW i \in DOMAIN cmds', cmds'[i].op = "insert"
        PROVE  cmds'[i].arg \notin Delay!Pending' \cup got' \cup Range(fired')
    <3>1. cmds'[i] \in Commands
      BY <1>3
    <3>2. cmds'[i].arg # id
      BY <1>6, <2>2, <3>1, CommandShape
    <3> QED BY <1>1, <1>3, <1>8, <2>2, <3>2, DelayRange DEF DelayInv, Delay!FiresAtMostOnce
  <2> QED BY <1>1, <1>5, <1>8, <2>1, <2>2, DelayRange DEF DelayInv, Delay!FiresAtMostOnce
<1>15. Delay!OwnKeyWhilePending'
  <2>1. \A d \in Delay!Pending : d \in Ids
    BY DEF Delay!Pending
  <2>2. ASSUME NEW d \in Delay!Pending, d # id, keySlot'[d] # NoKey
        PROVE  entry'[keySlot'[d]] = {d}
    <3>1. keySlot'[d] \in DOMAIN entry /\ entry[keySlot'[d]] = {d}
      BY <1>9, <2>1, <2>2 DEF DelayInv, KeysGivenOut, Delay!OwnKeyWhilePending
    <3> QED BY <1>7, <3>1
  <2> QED BY <1>4, <1>7, <1>8, <1>9, <2>1, <2>2 DEF Delay!OwnKeyWhilePending
<1> QED BY <1>10, <1>11, <1>12, <1>13, <1>14, <1>15 DEF DelayInv

(* Removing an entry keeps the slab's part of the invariant: the deadline    *)
(* behind the key is no longer pending, and no other moves.                  *)
LEMMA RemovalKeeps ==
  ASSUME DelayInv, NEW k \in DOMAIN entry, Delay!RemoveEntry(k), UNCHANGED keySlot
  PROVE  /\ entry' \in Seq(Cells) /\ vacant' \in Seq(Nat)
         /\ DOMAIN entry' = DOMAIN entry
         /\ Delay!Pending' = {d \in Delay!Pending : entry[k] # {d}}
         /\ IsInjective(vacant') /\ \A j \in Range(vacant') : j \in DOMAIN entry /\ entry'[j] = {}
         /\ \A i, j \in DOMAIN entry' : (entry'[i] = entry'[j] /\ entry'[i] # {}) => i = j
         /\ Delay!OwnKeyWhilePending'
<1>1. /\ entry' \in Seq(Cells) /\ vacant' \in Seq(Nat)
      /\ DOMAIN entry' = DOMAIN entry /\ entry'[k] = {}
      /\ \A j \in DOMAIN entry \ {k} : entry'[j] = entry[j]
      /\ IsInjective(vacant') /\ Range(vacant') \subseteq Range(vacant) \cup {k}
  BY RemoveEntryFacts DEF DelayInv
<1>2. Delay!Pending' = {d \in Delay!Pending : entry[k] # {d}}
  <2>1. \A i, j \in DOMAIN entry : (entry[i] = entry[j] /\ entry[i] # {}) => i = j
    BY DEF DelayInv, Delay!FiresAtMostOnce
  <2> QED BY <1>1, <2>1 DEF Delay!Pending
<1>3. \A j \in Range(vacant') : j \in DOMAIN entry /\ entry'[j] = {}
  BY <1>1 DEF DelayInv, KeysGivenOut
<1>4. \A i, j \in DOMAIN entry' : (entry'[i] = entry'[j] /\ entry'[i] # {}) => i = j
  BY <1>1 DEF DelayInv, Delay!FiresAtMostOnce
<1>5. Delay!OwnKeyWhilePending'
  <2>1. ASSUME NEW d \in Delay!Pending, entry[k] # {d}, keySlot[d] # NoKey
        PROVE  entry'[keySlot[d]] = {d}
    <3>1. keySlot[d] \in DOMAIN entry /\ entry[keySlot[d]] = {d}
      BY <2>1 DEF DelayInv, KeysGivenOut, Delay!OwnKeyWhilePending, Delay!Pending
    <3> QED BY <1>1, <2>1, <3>1
  <2> QED BY <1>2, <2>1 DEF Delay!OwnKeyWhilePending
<1> QED BY <1>1, <1>2, <1>3, <1>4, <1>5

(* The background task takes a Cancel off the channel.                       *)
LEMMA CancelKeeps == ASSUME DelayInv, Delay!ProcessCancel PROVE DelayInv'
<1> DEFINE k == Head(cmds).arg
<1>1. /\ cmds # << >> /\ Head(cmds).op = "cancel" /\ cmds' = Tail(cmds)
      /\ Delay!RemoveEntry(k) /\ UNCHANGED <<handleOf, keySlot, fired, got>>
  BY DEF Delay!ProcessCancel
<1>2. /\ cmds' \in Seq(Commands) /\ Head(cmds) = cmds[1] /\ 1 \in DOMAIN cmds
      /\ \A i \in DOMAIN cmds' : /\ i \in Nat /\ i + 1 \in DOMAIN cmds
                                 /\ cmds'[i] = cmds[i + 1]
  BY <1>1, TailShape DEF DelayInv, DelayTyped
<1>3. k \in DOMAIN entry
  BY <1>1, <1>2 DEF DelayInv, KeysGivenOut
<1> HIDE DEF k
<1>4. /\ entry' \in Seq(Cells) /\ vacant' \in Seq(Nat)
      /\ DOMAIN entry' = DOMAIN entry /\ Delay!Pending' \subseteq Delay!Pending
      /\ IsInjective(vacant') /\ \A j \in Range(vacant') : j \in DOMAIN entry /\ entry'[j] = {}
      /\ \A i, j \in DOMAIN entry' : (entry'[i] = entry'[j] /\ entry'[i] # {}) => i = j
      /\ Delay!OwnKeyWhilePending'
  BY <1>1, <1>3, RemovalKeeps
<1>5. DelayTyped'
  BY <1>1, <1>2, <1>4 DEF DelayInv, DelayTyped
<1>6. KeysGivenOut'
  BY <1>1, <1>2, <1>4 DEF DelayInv, KeysGivenOut
<1>7. UnscheduledIsNowhere'
  BY <1>1, <1>2, <1>4 DEF DelayInv, UnscheduledIsNowhere
<1>8. InsertedOnce'
  <2>1. \A i, j \in DOMAIN cmds' : i + 1 = j + 1 => i = j
    BY <1>2
  <2> QED BY <1>2, <2>1 DEF DelayInv, InsertedOnce
<1>9. Delay!FiresAtMostOnce'
  BY <1>1, <1>2, <1>4, DelayRange DEF DelayInv, Delay!FiresAtMostOnce
<1> QED BY <1>4, <1>5, <1>6, <1>7, <1>8, <1>9 DEF DelayInv

(* The background task sees an entry expire: the deadline moves from the     *)
(* queue to the fired channel, or nowhere when that is full.                 *)
LEMMA ExpireKeeps == ASSUME DelayInv, NEW k \in DOMAIN entry, Delay!Expire(k) PROVE DelayInv'
<1>1. /\ entry[k] # {} /\ Delay!RemoveEntry(k) /\ UNCHANGED <<handleOf, keySlot, cmds, got>>
  BY DEF Delay!Expire
<1>2. PICK id \in entry[k] :
        fired' = IF Len(fired) < FiredCap THEN Append(fired, id) ELSE fired
  BY DEF Delay!Expire
<1>3. id \in Ids /\ entry[k] = {id} /\ id \in Delay!Pending
  <2>1. entry[k] \in Cells
    BY DEF DelayInv, DelayTyped
  <2> QED BY <1>2, <2>1 DEF Cells, Delay!Pending
<1>4. /\ entry' \in Seq(Cells) /\ vacant' \in Seq(Nat)
      /\ DOMAIN entry' = DOMAIN entry
      /\ Delay!Pending' = Delay!Pending \ {id}
      /\ IsInjective(vacant') /\ \A j \in Range(vacant') : j \in DOMAIN entry /\ entry'[j] = {}
      /\ \A i, j \in DOMAIN entry' : (entry'[i] = entry'[j] /\ entry'[i] # {}) => i = j
      /\ Delay!OwnKeyWhilePending'
  BY <1>1, <1>3, RemovalKeeps
<1>5. /\ IsInjective(fired) /\ id \notin got \cup Range(fired) /\ handleOf[id] # "none"
      /\ fired \in Seq(Ids)
  BY <1>3, DelayRange DEF DelayInv, DelayTyped, Delay!FiresAtMostOnce, UnscheduledIsNowhere
<1>6. /\ fired' \in Seq(Ids) /\ IsInjective(fired')
      /\ Range(fired') \subseteq Range(fired) \cup {id}
  <2>1. CASE fired' = fired
    BY <1>5, <2>1
  <2>2. CASE fired' = Append(fired, id)
    BY <1>3, <1>5, <2>2, PushFacts
  <2> QED BY <1>2, <2>1, <2>2
<1>7. DelayTyped'
  BY <1>1, <1>4, <1>6 DEF DelayInv, DelayTyped
<1>8. KeysGivenOut'
  BY <1>1, <1>4 DEF DelayInv, KeysGivenOut
<1>9. UnscheduledIsNowhere'
  BY <1>1, <1>4, <1>5, <1>6 DEF DelayInv, UnscheduledIsNowhere
<1>10. InsertedOnce'
  BY <1>1 DEF DelayInv, InsertedOnce
<1>11. Delay!FiresAtMostOnce'
  <2>1. ASSUME NEW i \in DOMAIN cmds, cmds[i].op = "insert"
        PROVE  cmds[i].arg \notin Delay!Pending' \cup got \cup Range(fired')
    BY <1>3, <1>4, <1>6, <2>1, DelayRange DEF DelayInv, Delay!FiresAtMostOnce
  <2>2. got \cap Range(fired') = {} /\ Delay!Pending' \cap (got \cup Range(fired')) = {}
    BY <1>4, <1>5, <1>6, DelayRange DEF DelayInv, Delay!FiresAtMostOnce
  <2> QED BY <1>1, <1>4, <1>6, <2>1, <2>2, DelayRange DEF Delay!FiresAtMostOnce
<1> QED BY <1>4, <1>7, <1>8, <1>9, <1>10, <1>11 DEF DelayInv

(* next_fired hands the oldest fired deadline to the consumer.               *)
LEMMA NextFiredKeeps == ASSUME DelayInv, Delay!NextFired PROVE DelayInv'
<1>1. /\ fired # << >> /\ got' = got \cup {Head(fired)} /\ fired' = Tail(fired)
      /\ UNCHANGED <<handleOf, keySlot, cmds, entry, vacant>>
  BY DEF Delay!NextFired
<1>2. /\ Head(fired) \in Ids /\ fired' \in Seq(Ids)
      /\ Range(fired) = Range(fired') \cup {Head(fired)}
      /\ IsInjective(fired') /\ Head(fired) \notin Range(fired')
  BY <1>1, TakeFacts, DelayRange DEF DelayInv, DelayTyped, Delay!FiresAtMostOnce
<1>3. got' \cup Range(fired') = got \cup Range(fired) /\ Delay!Pending' = Delay!Pending
  BY <1>1, <1>2 DEF Delay!Pending
<1>4. DelayTyped' /\ KeysGivenOut' /\ InsertedOnce' /\ Delay!OwnKeyWhilePending'
  BY <1>1, <1>2, <1>3
     DEF DelayInv, DelayTyped, KeysGivenOut, InsertedOnce, Delay!OwnKeyWhilePending
<1>5. UnscheduledIsNowhere'
  BY <1>1, <1>3 DEF DelayInv, UnscheduledIsNowhere
<1>6. Delay!FiresAtMostOnce'
  <2>1. got' \cap Range(fired') = {}
    BY <1>1, <1>2, DelayRange DEF DelayInv, Delay!FiresAtMostOnce
  <2>2. \A i \in DOMAIN cmds' : cmds'[i].op = "insert" =>
          cmds'[i].arg \notin Delay!Pending' \cup (got' \cup Range(fired'))
    BY <1>1, <1>3, DelayRange DEF DelayInv, Delay!FiresAtMostOnce
  <2>3. Delay!Pending' \cap (got' \cup Range(fired')) = {}
    BY <1>3, DelayRange DEF DelayInv, Delay!FiresAtMostOnce
  <2> QED BY <1>1, <1>2, <2>1, <2>2, <2>3, DelayRange DEF DelayInv, Delay!FiresAtMostOnce
<1> QED BY <1>4, <1>5, <1>6 DEF DelayInv

(* Callers, the background task and the consumer keep the invariant.         *)
LEMMA DelayNext == DelayInv /\ [Delay!Next]_(Delay!vars) => DelayInv'
<1> SUFFICES ASSUME DelayInv, [Delay!Next]_(Delay!vars) PROVE DelayInv'
  OBVIOUS
<1>1. CASE UNCHANGED Delay!vars
  BY <1>1 DEF Delay!vars, DelayInv, DelayTyped, KeysGivenOut, UnscheduledIsNowhere, InsertedOnce,
              Delay!FiresAtMostOnce, Delay!OwnKeyWhilePending, Delay!Pending
<1> QED BY <1>1, ScheduleKeeps, DropKeeps, InsertKeeps, CancelKeeps, ExpireKeeps, NextFiredKeeps
        DEF Delay!Next

(* The scheduler's invariant holds always.                                   *)
LEMMA AlwaysDelayInv == Delay!Spec => []DelayInv
BY DelayInit, DelayNext, PTL DEF Delay!Spec

(* delay_timers.rs: an id passes the command channel, the queue, the fired   *)
(* channel and the consumer's hands once, for any deadlines and capacities,  *)
(* however cancels and expirations recycle keys.                             *)
THEOREM DeadlineFiresOnce == Delay!Spec => []FiresAtMostOnce
<1>0. Pending = Delay!Pending
  BY DEF Pending, Delay!Pending
<1>1. DelayInv => FiresAtMostOnce
  BY <1>0, DelayRange DEF DelayInv, Delay!FiresAtMostOnce, FiresAtMostOnce
<1> QED BY <1>1, AlwaysDelayInv, PTL

(* Drop for DeadlineHandle: while a deadline is pending, a key its handle    *)
(* holds is that deadline's, although keys are given out again.              *)
THEOREM CancelFindsItsOwn == Delay!Spec => []OwnKeyWhilePending
<1>0. Pending = Delay!Pending
  BY DEF Pending, Delay!Pending
<1>1. DelayInv => OwnKeyWhilePending
  BY <1>0 DEF DelayInv, Delay!OwnKeyWhilePending, OwnKeyWhilePending
<1> QED BY <1>1, AlwaysDelayInv, PTL

(* Neither channel ever holds more than its capacity.                        *)
Bounded == Len(cmds) <= CmdCap /\ Len(fired) <= FiredCap

LEMMA NextBounded ==
  ASSUME Delay!CapsAssumption, DelayInv, Bounded, [Delay!Next]_(Delay!vars)
  PROVE  Bounded'
<1> USE DEF Delay!CapsAssumption
<1>1. cmds \in Seq(Commands) /\ fired \in Seq(Ids)
  BY DEF DelayInv, DelayTyped
<1>2. ASSUME NEW id \in Ids, Delay!Schedule(id) PROVE Bounded'
  BY <1>1, <1>2 DEF Delay!Schedule, Bounded
<1>3. ASSUME NEW id \in Ids, Delay!DropHandle(id) PROVE Bounded'
  BY <1>1, <1>3 DEF Delay!DropHandle, Bounded
<1>4. ASSUME Delay!ProcessInsert \/ Delay!ProcessCancel PROVE Bounded'
  <2>1. cmds # << >> /\ cmds' = Tail(cmds) /\ fired' = fired
    BY <1>4 DEF Delay!ProcessInsert, Delay!ProcessCancel
  <2> QED BY <1>1, <2>1 DEF Bounded
<1>5. ASSUME NEW k \in DOMAIN entry, Delay!Expire(k) PROVE Bounded'
  <2>1. cmds' = cmds /\ \E id : fired' = IF Len(fired) < FiredCap THEN Append(fired, id) ELSE fired
    BY <1>5 DEF Delay!Expire
  <2>2. \A id : Len(Append(fired, id)) = Len(fired) + 1
    BY <1>1
  <2> QED BY <1>1, <2>1, <2>2 DEF Bounded
<1>6. ASSUME Delay!NextFired PROVE Bounded'
  BY <1>1, <1>6 DEF Delay!NextFired, Bounded
<1>7. CASE UNCHANGED Delay!vars
  BY <1>7 DEF Delay!vars, Bounded
<1> QED BY <1>2, <1>3, <1>4, <1>5, <1>6, <1>7 DEF Delay!Next

(* delay_timers.rs: the scheduler's state has its declared shape: a queued   *)
(* Cancel names a key that was given out, a free key has nothing behind it,  *)
(* and the two channels respect their capacities.                            *)
THEOREM DelayTypeCorrect == ASSUME Delay!CapsAssumption PROVE Delay!Spec => []Delay!TypeOK
<1>1. Delay!Init => Bounded
  BY DEF Delay!Init, Bounded, Delay!CapsAssumption
<1>2. DelayInv /\ Bounded /\ [Delay!Next]_(Delay!vars) => Bounded'
  BY NextBounded
<1>3. DelayInv /\ Bounded => Delay!TypeOK
  <2> SUFFICES ASSUME DelayInv, Bounded PROVE Delay!TypeOK
    OBVIOUS
  <2>1. ASSUME NEW i \in DOMAIN cmds
        PROVE  \/ \E id \in Ids : cmds[i] = Delay!Insert(id)
               \/ \E k \in DOMAIN entry : cmds[i] = Delay!Cancel(k)
    <3>1. cmds[i] \in Commands
      BY DEF DelayInv, DelayTyped
    <3> QED BY <3>1, CommandShape DEF DelayInv, KeysGivenOut
  <2>2. ASSUME NEW k \in DOMAIN entry
        PROVE  entry[k] = {} \/ \E id \in Ids : entry[k] = {id}
    <3>1. entry[k] \in Cells
      BY DEF DelayInv, DelayTyped
    <3> QED BY <3>1 DEF Cells
  <2>3. \A i \in DOMAIN vacant : vacant[i] \in DOMAIN entry /\ entry[vacant[i]] = {}
    BY DEF DelayInv, KeysGivenOut, Range
  <2> QED BY <2>1, <2>2, <2>3 DEF Delay!TypeOK, DelayInv, DelayTyped, Bounded
<1> QED BY <1>1, <1>2, <1>3, AlwaysDelayInv, PTL DEF Delay!Spec

-----------------------------------------------------------------------------
(* THE RECORDER, for any runs to record, any agents and any messages.        *)

CONSTANTS Scripts, AgentIds, Traps, Unhandled, Reads, Clock, MailCap, Driver, NoMsg
VARIABLES stopping, todo, at, nextId, loop, job, cur, why, box, count, history, before, late

Trace == INSTANCE TraceReplay WITH Ids <- AgentIds

(* The turns of agent a that the events t record.                            *)
Handled(t, a) == {j \in DOMAIN t : t[j].kind = "MessageHandled" /\ t[j].agent = a}
Spawned(t, a) == \E j \in DOMAIN t : t[j].kind = "Spawn" /\ t[j].agent = a

TraceTyped ==
  /\ buffer \in Seq(Range(buffer)) /\ recorded \in Seq(Range(recorded))
  /\ loop \in [AgentIds -> {"none", "recv", "turn", "failed", "exiting", "gone"}]
  /\ job \in [AgentIds -> {"none", "run", "read", "counted", "ran", "done"}]
  /\ count \in [AgentIds -> Nat]
  /\ \A k \in DOMAIN handle : handle[k] \in AgentIds

(* An agent has a task exactly when its spawn is recorded, and no turn before *)
(* that, nor while its loop waits for a message.                             *)
TasksAreSpawned ==
  /\ \A a \in AgentIds : loop[a] # "none" <=> Spawned(buffer, a)
  /\ \A a \in AgentIds : loop[a] \in {"none", "recv"} => job[a] = "none"

(* Recorder::counters are ahead of the buffer by the turn about to be pushed. *)
CountersAgree ==
  \A a \in AgentIds :
    count[a] = Cardinality(Handled(buffer, a)) + (IF job[a] = "counted" THEN 1 ELSE 0)

(* The places of early messages are places of the recording.                 *)
EarlyIsRecorded == phase = "record" => early \subseteq DOMAIN buffer /\ recorded = << >>

TraceInv == TraceTyped /\ TasksAreSpawned /\ CountersAgree /\ EarlyIsRecorded /\ Trace!TraceVerifies

(* Event e may come next in t.                                               *)
Fits(t, e) ==
  e.kind # "Spawn" =>
    /\ Spawned(t, e.agent)
    /\ e.kind = "MessageHandled" => e.n = Cardinality(Handled(t, e.agent))

LEMMA TraceCardinality == ASSUME NEW S PROVE Trace!Cardinality(S) = Cardinality(S)
BY DEF Trace!Cardinality, Cardinality

(* Recorder::push: what an event does to the buffer.                         *)
LEMMA RecordFacts ==
  ASSUME NEW t, NEW e, t \in Seq(Range(t))
  PROVE  LET u == Append(t, e)
             n == Len(t) + 1
         IN  /\ u \in Seq(Range(u)) /\ DOMAIN u = DOMAIN t \cup {n} /\ n \notin DOMAIN t
             /\ \A i \in DOMAIN t : Trace!Accepts(u, i) <=> Trace!Accepts(t, i)
             /\ Trace!Accepts(u, n) <=> Fits(t, e)
             /\ \A a : Spawned(u, a) <=> (Spawned(t, a) \/ (e.kind = "Spawn" /\ e.agent = a))
             /\ \A a : Cardinality(Handled(t, a)) \in Nat
             /\ \A a : Cardinality(Handled(u, a)) =
                         IF e.kind = "MessageHandled" /\ e.agent = a
                         THEN Cardinality(Handled(t, a)) + 1
                         ELSE Cardinality(Handled(t, a))
<1> DEFINE u == Append(t, e)
           S == Range(t) \cup {e}
           n == Len(t) + 1
<1>1. t \in Seq(S) /\ e \in S
  OBVIOUS
<1>2. u \in Seq(S) /\ Range(u) = S
  BY <1>1, PushFacts
<1>3. /\ DOMAIN t = 1 .. Len(t) /\ Len(t) \in Nat /\ n \notin DOMAIN t
      /\ DOMAIN u = DOMAIN t \cup {n} /\ DOMAIN u = 1 .. n /\ u[n] = e
      /\ \A i \in DOMAIN t : u[i] = t[i]
  BY <1>1
<1>4. u \in Seq(Range(u))
  BY <1>2
<1> HIDE DEF u, S
<1>5. \A i \in DOMAIN t : 1 .. (i - 1) \subseteq DOMAIN t /\ i \in Nat
  BY <1>3
<1>6. 1 .. (n - 1) = DOMAIN t
  BY <1>3
<1> HIDE DEF n
<1>7. ASSUME NEW i \in DOMAIN t PROVE Trace!Accepts(u, i) <=> Trace!Accepts(t, i)
  <2>1. \A j \in 1 .. (i - 1) : u[j] = t[j]
    BY <1>3, <1>5
  <2>2. u[i] = t[i]
    BY <1>3
  <2>3. {j \in 1 .. (i - 1) : u[j].kind = "MessageHandled" /\ u[j].agent = u[i].agent}
          = {j \in 1 .. (i - 1) : t[j].kind = "MessageHandled" /\ t[j].agent = t[i].agent}
    BY <2>1, <2>2
  <2>4. (\E j \in 1 .. (i - 1) : u[j].kind = "Spawn" /\ u[j].agent = u[i].agent)
          <=> (\E j \in 1 .. (i - 1) : t[j].kind = "Spawn" /\ t[j].agent = t[i].agent)
    BY <2>1, <2>2
  <2> QED BY <2>2, <2>3, <2>4, Zenon DEF Trace!Accepts
<1>8. Trace!Accepts(u, n) <=> Fits(t, e)
  <2>1. u[n] = e /\ 1 .. (n - 1) = DOMAIN t
    BY <1>3, <1>6
  <2>2. {j \in 1 .. (n - 1) : u[j].kind = "MessageHandled" /\ u[j].agent = u[n].agent}
          = Handled(t, e.agent)
    BY <1>3, <2>1 DEF Handled
  <2>3. (\E j \in 1 .. (n - 1) : u[j].kind = "Spawn" /\ u[j].agent = u[n].agent)
          <=> Spawned(t, e.agent)
    BY <1>3, <2>1 DEF Spawned
  <2>4. Trace!Cardinality(Handled(t, e.agent)) = Cardinality(Handled(t, e.agent))
    BY TraceCardinality
  <2> QED BY <2>1, <2>2, <2>3, <2>4, Zenon DEF Trace!Accepts, Fits
<1>9. \A a : Spawned(u, a) <=> (Spawned(t, a) \/ (e.kind = "Spawn" /\ e.agent = a))
  BY <1>3 DEF Spawned
<1>10. ASSUME NEW a
       PROVE  /\ Cardinality(Handled(t, a)) \in Nat
              /\ Cardinality(Handled(u, a)) = IF e.kind = "MessageHandled" /\ e.agent = a
                                              THEN Cardinality(Handled(t, a)) + 1
                                              ELSE Cardinality(Handled(t, a))
  <2>1. IsFiniteSet(Handled(t, a))
    <3>1. IsFiniteSet(DOMAIN t)
      BY <1>3, FS_Interval
    <3> QED BY <3>1, FS_Subset DEF Handled
  <2>2. n \notin Handled(t, a)
    BY <1>3 DEF Handled
  <2>3. Handled(u, a) = IF e.kind = "MessageHandled" /\ e.agent = a
                        THEN Handled(t, a) \cup {n} ELSE Handled(t, a)
    BY <1>3 DEF Handled
  <2> QED BY <2>1, <2>2, <2>3, FS_AddElement, FS_CardinalityType
<1> QED BY <1>3, <1>4, <1>7, <1>8, <1>9, <1>10 DEF u, n

(* A recorder that was just installed has seen nothing.                      *)
LEMMA FreshFacts ==
  ASSUME NEW l, NEW j, NEW c, l = [a \in AgentIds |-> "none"], j = [a \in AgentIds |-> "none"],
         c = [a \in AgentIds |-> 0]
  PROVE  /\ l \in [AgentIds -> {"none", "recv", "turn", "failed", "exiting", "gone"}]
         /\ j \in [AgentIds -> {"none", "run", "read", "counted", "ran", "done"}]
         /\ c \in [AgentIds -> Nat]
         /\ \A a \in AgentIds : l[a] = "none" /\ j[a] = "none" /\ ~Spawned(<< >>, a)
         /\ \A a \in AgentIds : c[a] = Cardinality(Handled(<< >>, a)) + 0
         /\ << >> \in Seq(Range(<< >>)) /\ DOMAIN << >> = {}
<1>1. \A a : Handled(<< >>, a) = {}
  BY DEF Handled
<1>2. \A a : ~Spawned(<< >>, a)
  BY DEF Spawned
<1> QED BY <1>1, <1>2, FS_EmptySet

LEMMA TraceInit == Trace!Init => TraceInv
<1> SUFFICES ASSUME Trace!Init PROVE TraceInv
  OBVIOUS
<1>1. /\ loop = [a \in AgentIds |-> "none"] /\ job = [a \in AgentIds |-> "none"]
      /\ count = [a \in AgentIds |-> 0] /\ buffer = << >> /\ recorded = << >> /\ handle = << >>
      /\ early = {}
  BY DEF Trace!Init
<1>2. DOMAIN handle = {} /\ DOMAIN buffer = {} /\ DOMAIN recorded = {}
  BY <1>1
<1> QED BY <1>1, <1>2, FreshFacts
        DEF TraceInv, TraceTyped, TasksAreSpawned, CountersAgree, EarlyIsRecorded,
            Trace!TraceVerifies

(* A step that records e, an event that may come next or, in the recording,  *)
(* an early message, and starts the task of the agent it spawns only, keeps  *)
(* the invariant.                                                            *)
LEMMA RecordKeeps ==
  ASSUME TraceInv, NEW e, Trace!Record(e), UNCHANGED <<phase, recorded, count>>,
         early' = IF Fits(buffer, e) THEN early ELSE early \cup {Len(buffer) + 1},
         Fits(buffer, e) \/ phase = "record",
         loop' \in [AgentIds -> {"none", "recv", "turn", "failed", "exiting", "gone"}],
         job' \in [AgentIds -> {"none", "run", "read", "counted", "ran", "done"}],
         \A k \in DOMAIN handle' : handle'[k] \in AgentIds,
         \A a \in AgentIds : loop'[a] # "none" <=>
           loop[a] # "none" \/ (e.kind = "Spawn" /\ e.agent = a),
         \A a \in AgentIds : loop'[a] \in {"none", "recv"} => job'[a] = "none",
         \A a \in AgentIds : job[a] = "counted" <=>
           job'[a] = "counted" \/ (e.kind = "MessageHandled" /\ e.agent = a),
         \A a \in AgentIds : ~(job'[a] = "counted" /\ e.kind = "MessageHandled" /\ e.agent = a)
  PROVE  TraceInv'
<1> DEFINE n == Len(buffer) + 1
<1>1. /\ buffer' = Append(buffer, e) /\ buffer \in Seq(Range(buffer))
      /\ count \in [AgentIds -> Nat]
  BY DEF TraceInv, TraceTyped, Trace!Record
<1>2. /\ buffer' \in Seq(Range(buffer')) /\ DOMAIN buffer' = DOMAIN buffer \cup {n}
      /\ n \notin DOMAIN buffer
      /\ \A i \in DOMAIN buffer : Trace!Accepts(buffer', i) <=> Trace!Accepts(buffer, i)
      /\ Trace!Accepts(buffer', n) <=> Fits(buffer, e)
      /\ \A a : Spawned(buffer', a) <=> (Spawned(buffer, a) \/ (e.kind = "Spawn" /\ e.agent = a))
      /\ \A a : Cardinality(Handled(buffer, a)) \in Nat
      /\ \A a : Cardinality(Handled(buffer', a)) =
                  IF e.kind = "MessageHandled" /\ e.agent = a
                  THEN Cardinality(Handled(buffer, a)) + 1
                  ELSE Cardinality(Handled(buffer, a))
  BY <1>1, RecordFacts
<1> HIDE DEF n
<1>3. TraceTyped'
  <2>1. recorded' \in Seq(Range(recorded'))
    BY DEF TraceInv, TraceTyped
  <2> QED BY <1>1, <1>2, <2>1, Zenon DEF TraceTyped
<1>4. TasksAreSpawned'
  BY <1>2 DEF TraceInv, TasksAreSpawned
<1>5. CountersAgree'
  <2> SUFFICES ASSUME NEW a \in AgentIds
               PROVE  count'[a] = Cardinality(Handled(buffer', a))
                                    + (IF job'[a] = "counted" THEN 1 ELSE 0)
    BY DEF CountersAgree
  <2>1. count[a] = Cardinality(Handled(buffer, a)) + (IF job[a] = "counted" THEN 1 ELSE 0)
    BY DEF TraceInv, CountersAgree
  <2> QED BY <1>2, <2>1
<1>6. EarlyIsRecorded'
  BY <1>2 DEF TraceInv, EarlyIsRecorded, n
<1>7. Trace!TraceVerifies'
  <2>1. \A i \in DOMAIN buffer' :
          Trace!Accepts(buffer', i) <=> ~(phase' = "record" /\ i \in early')
    <3>1. ASSUME NEW i \in DOMAIN buffer
          PROVE  Trace!Accepts(buffer', i) <=> ~(phase' = "record" /\ i \in early')
      <4>1. i # n /\ (Trace!Accepts(buffer, i) <=> ~(phase = "record" /\ i \in early))
        BY <1>2 DEF TraceInv, Trace!TraceVerifies
      <4> QED BY <1>2, <4>1 DEF n
    <3>2. Trace!Accepts(buffer', n) <=> ~(phase' = "record" /\ n \in early')
      <4>1. phase = "record" => n \notin early
        BY <1>2 DEF TraceInv, EarlyIsRecorded
      <4> QED BY <1>2, <4>1 DEF n
    <3> QED BY <1>2, <3>1, <3>2
  <2>2. \A i \in DOMAIN recorded' : Trace!Accepts(recorded', i) <=> i \notin early'
    <3>1. CASE phase = "record"
      <4>1. recorded' = << >>
        BY <3>1 DEF TraceInv, EarlyIsRecorded
      <4> QED BY <4>1
    <3>2. CASE phase # "record"
      BY <3>2 DEF TraceInv, Trace!TraceVerifies
    <3> QED BY <3>1, <3>2
  <2> QED BY <2>1, <2>2 DEF Trace!TraceVerifies
<1> QED BY <1>3, <1>4, <1>5, <1>6, <1>7 DEF TraceInv

(* A step that records nothing keeps the invariant when it starts no task, no *)
(* turn of an agent that has none, and bumps the counters of the turns it      *)
(* counts.                                                                    *)
LEMMA SilentKeeps ==
  ASSUME TraceInv, UNCHANGED <<buffer, recorded, early>>,
         phase' = "record" <=> phase = "record",
         loop' \in [AgentIds -> {"none", "recv", "turn", "failed", "exiting", "gone"}],
         job' \in [AgentIds -> {"none", "run", "read", "counted", "ran", "done"}],
         \A k \in DOMAIN handle' : handle'[k] \in AgentIds,
         \A a \in AgentIds : loop'[a] # "none" <=> loop[a] # "none",
         \A a \in AgentIds : loop'[a] \in {"none", "recv"} => job'[a] = "none",
         count' \in [AgentIds -> Nat],
         \A a \in AgentIds : job[a] = "counted" => job'[a] = "counted",
         \A a \in AgentIds : count'[a] = IF job'[a] = "counted" /\ job[a] # "counted"
                                         THEN count[a] + 1 ELSE count[a]
  PROVE  TraceInv'
<1>1. TraceTyped' /\ EarlyIsRecorded' /\ Trace!TraceVerifies'
  BY DEF TraceInv, TraceTyped, EarlyIsRecorded, Trace!TraceVerifies
<1>2. TasksAreSpawned'
  BY DEF TraceInv, TasksAreSpawned
<1>3. CountersAgree'
  <2>1. ASSUME NEW a \in AgentIds
        PROVE  count'[a] = Cardinality(Handled(buffer, a))
                             + (IF job'[a] = "counted" THEN 1 ELSE 0)
    <3>1. Cardinality(Handled(buffer, a)) \in Nat
      <4>1. buffer \in Seq(Range(buffer))
        BY DEF TraceInv, TraceTyped
      <4> QED BY <4>1, RecordFacts
    <3>2. count[a] = Cardinality(Handled(buffer, a)) + (IF job[a] = "counted" THEN 1 ELSE 0)
      BY DEF TraceInv, CountersAgree
    <3> QED BY <3>1, <3>2
  <2> QED BY <2>1 DEF CountersAgree
<1> QED BY <1>1, <1>2, <1>3 DEF TraceInv

(* The clients' steps.                                                       *)
LEMMA ClientKeeps == ASSUME TraceInv, NEW c, Trace!ClientStep(c) PROVE TraceInv'
<1> USE DEF Trace!agentVars, Trace!traceVars
<1>0. /\ loop \in [AgentIds -> {"none", "recv", "turn", "failed", "exiting", "gone"}]
      /\ job \in [AgentIds -> {"none", "run", "read", "counted", "ran", "done"}]
      /\ count \in [AgentIds -> Nat]
      /\ \A k \in DOMAIN handle : handle[k] \in AgentIds
      /\ \A a \in AgentIds : loop[a] \in {"none", "recv"} => job[a] = "none"
  BY DEF TraceInv, TraceTyped, TasksAreSpawned
<1>1. CASE Trace!AllocAgent(c)
  <2>1. /\ UNCHANGED <<loop, job, count, buffer, recorded, phase, early>> /\ nextId \in AgentIds
        /\ handle' = [k \in DOMAIN handle \cup {Head(todo[c]).key} |->
                         IF k = Head(todo[c]).key THEN nextId ELSE handle[k]]
    BY <1>1 DEF Trace!AllocAgent
  <2>2. \A k \in DOMAIN handle' : handle'[k] \in AgentIds
    BY <1>0, <2>1
  <2> QED BY <1>0, <2>1, <2>2, SilentKeeps
<1>2. CASE Trace!SpawnAgent(c)
  <2> DEFINE a == handle[Head(todo[c]).key]
             e == Trace!Event("Spawn", a, Head(todo[c]).what, "", 0)
  <2>1. /\ Trace!Record(e) /\ loop[a] = "none" /\ loop' = [loop EXCEPT ![a] = "recv"]
        /\ UNCHANGED <<handle, job, count, recorded, phase, early>>
    BY <1>2 DEF Trace!SpawnAgent
  <2>2. e.kind = "Spawn" /\ e.agent = a
    BY DEF Trace!Event
  <2> HIDE DEF a, e
  <2>3. /\ loop' \in [AgentIds -> {"none", "recv", "turn", "failed", "exiting", "gone"}]
        /\ \A b \in AgentIds : loop'[b] # "none" <=> loop[b] # "none" \/ a = b
    BY <1>0, <2>1
  <2>4. Fits(buffer, e)
    BY <2>2 DEF Fits
  <2> QED BY <1>0, <2>1, <2>2, <2>3, <2>4, RecordKeeps
<1>3. CASE Trace!RecordSent(c)
  <2> DEFINE o == Head(todo[c])
             a == handle[o.key]
             e == Trace!Event("MessageSent", a, o.what, Trace!FromRuntimeValue(o.arg), 0)
  <2>1. /\ Trace!Record(e) /\ o.key \in DOMAIN handle /\ Trace!Finds(o, a)
        /\ early' = IF loop[a] = "none" THEN early \cup {Len(buffer) + 1} ELSE early
        /\ UNCHANGED <<handle, loop, job, count, recorded, phase>>
    BY <1>3 DEF Trace!RecordSent
  <2>2. e.kind = "MessageSent" /\ e.agent = a /\ a \in AgentIds
    BY <1>0, <2>1 DEF Trace!Event
  <2>3. phase = "record" \/ loop[a] # "none"
    BY <2>1 DEF Trace!Finds
  <2> HIDE DEF e, a, o
  <2>4. Fits(buffer, e) <=> loop[a] # "none"
    BY <2>2 DEF TraceInv, TasksAreSpawned, Fits
  <2> QED BY <1>0, <2>1, <2>2, <2>3, <2>4, RecordKeeps
<1>4. CASE Trace!Enqueue(c) \/ Trace!NotFound(c) \/ Trace!Deadline(c)
  <2>1. UNCHANGED <<handle, loop, job, count, buffer, recorded, phase, early>>
    BY <1>4 DEF Trace!Enqueue, Trace!NotFound, Trace!Deadline
  <2> QED BY <1>0, <2>1, SilentKeeps
<1> QED BY <1>1, <1>2, <1>3, <1>4 DEF Trace!ClientStep

(* The steps of an agent's loop and of the closure of its turn.              *)
LEMMA AgentKeeps == ASSUME TraceInv, NEW a \in AgentIds, Trace!AgentStep(a) PROVE TraceInv'
<1> USE DEF Trace!traceVars
<1>0. /\ loop \in [AgentIds -> {"none", "recv", "turn", "failed", "exiting", "gone"}]
      /\ job \in [AgentIds -> {"none", "run", "read", "counted", "ran", "done"}]
      /\ count \in [AgentIds -> Nat]
      /\ \A k \in DOMAIN handle : handle[k] \in AgentIds
      /\ \A b \in AgentIds : loop[b] \in {"none", "recv"} => job[b] = "none"
      /\ loop[a] # "none" => Spawned(buffer, a)
  BY DEF TraceInv, TraceTyped, TasksAreSpawned
<1>a. ASSUME NEW e, e.agent = a, e.kind \notin {"Spawn", "MessageHandled"}, loop[a] # "none"
      PROVE  Fits(buffer, e)
  BY <1>0, <1>a DEF Fits
<1>1. CASE Trace!Recv(a)
  <2>1. /\ loop[a] = "recv" /\ loop' = [loop EXCEPT ![a] = "turn"]
        /\ job' = [job EXCEPT ![a] = "run"] /\ job[a] # "counted"
        /\ UNCHANGED <<handle, count, buffer, recorded, phase, early>>
    BY <1>0, <1>1 DEF Trace!Recv
  <2> QED BY <1>0, <2>1, SilentKeeps
<1>2. CASE Trace!ReadClock(a)
  <2>1. PICK v : Trace!Record(Trace!Event("ClockRead", a, "std.time", v, 0))
    BY <1>2 DEF Trace!ReadClock
  <2> DEFINE e == Trace!Event("ClockRead", a, "std.time", v, 0)
  <2>2. /\ Trace!Record(e) /\ job[a] = "run" /\ job' = [job EXCEPT ![a] = "read"]
        /\ UNCHANGED <<handle, loop, count, recorded, phase, early>>
    BY <1>2, <2>1 DEF Trace!ReadClock
  <2>3. e.kind = "ClockRead" /\ e.agent = a
    BY DEF Trace!Event
  <2> HIDE DEF e
  <2>4. Fits(buffer, e)
    BY <1>0, <1>a, <2>2, <2>3
  <2> QED BY <1>0, <2>2, <2>3, <2>4, RecordKeeps
<1>3. CASE Trace!CountTurn(a)
  <2>1. /\ job[a] \in {"run", "read"} /\ job' = [job EXCEPT ![a] = "counted"]
        /\ count' = [count EXCEPT ![a] = @ + 1]
        /\ UNCHANGED <<handle, loop, buffer, recorded, phase, early>>
    BY <1>3 DEF Trace!CountTurn
  <2>2. count' \in [AgentIds -> Nat]
    BY <1>0, <2>1
  <2> QED BY <1>0, <2>1, <2>2, SilentKeeps
<1>4. CASE Trace!Handle(a)
  <2> DEFINE e == Trace!Event("MessageHandled", a, cur[a].what, "", count[a] - 1)
  <2>1. /\ Trace!Record(e) /\ job[a] = "counted" /\ job' = [job EXCEPT ![a] = "ran"]
        /\ UNCHANGED <<handle, loop, count, recorded, phase, early>>
    BY <1>4 DEF Trace!Handle
  <2>2. e.kind = "MessageHandled" /\ e.agent = a /\ e.n = count[a] - 1
    BY DEF Trace!Event
  <2> HIDE DEF e
  <2>3. Fits(buffer, e)
    <3>1. count[a] = Cardinality(Handled(buffer, a)) + 1
      BY <2>1 DEF TraceInv, CountersAgree
    <3>2. Cardinality(Handled(buffer, a)) \in Nat
      <4>1. buffer \in Seq(Range(buffer))
        BY DEF TraceInv, TraceTyped
      <4> QED BY <4>1, RecordFacts
    <3>3. e.n = Cardinality(Handled(buffer, a))
      BY <2>2, <3>1, <3>2
    <3> QED BY <1>0, <2>1, <2>2, <3>3 DEF Fits
  <2> QED BY <1>0, <2>1, <2>2, <2>3, RecordKeeps
<1>5. CASE Trace!Reply(a)
  <2>1. /\ job[a] \in {"ran", "run"} /\ job' = [job EXCEPT ![a] = "done"]
        /\ UNCHANGED <<handle, loop, count, buffer, recorded, phase, early>>
    BY <1>5 DEF Trace!Reply
  <2> QED BY <1>0, <2>1, SilentKeeps
<1>6. CASE Trace!TurnEnds(a)
  <2>1. /\ loop[a] = "turn" /\ job[a] = "done" /\ job' = [job EXCEPT ![a] = "none"]
        /\ UNCHANGED <<handle, count, buffer, recorded, phase, early>>
    BY <1>6 DEF Trace!TurnEnds
  <2>2. \E q \in {"failed", "exiting", "recv"} : loop' = [loop EXCEPT ![a] = q]
    BY <1>6 DEF Trace!TurnEnds
  <2> QED BY <1>0, <2>1, <2>2, SilentKeeps
<1>7. CASE Trace!TurnCancelled(a)
  <2>1. /\ loop[a] = "turn" /\ loop' = [loop EXCEPT ![a] = "failed"]
        /\ UNCHANGED <<handle, job, count, buffer, recorded, phase, early>>
    BY <1>7 DEF Trace!TurnCancelled
  <2> QED BY <1>0, <2>1, SilentKeeps
<1>8. CASE Trace!ReportBudget(a)
  <2> DEFINE e == Trace!Event("BudgetExhausted", a, why[a], "", 0)
  <2>1. /\ Trace!Record(e) /\ loop[a] = "failed" /\ loop' = [loop EXCEPT ![a] = "exiting"]
        /\ UNCHANGED <<handle, job, count, recorded, phase, early>>
    BY <1>8 DEF Trace!ReportBudget
  <2>2. e.kind = "BudgetExhausted" /\ e.agent = a
    BY DEF Trace!Event
  <2> HIDE DEF e
  <2>3. Fits(buffer, e)
    BY <1>a, <2>1, <2>2
  <2> QED BY <1>0, <2>1, <2>2, <2>3, RecordKeeps
<1>9. CASE Trace!LoopExit(a)
  <2> DEFINE e == Trace!Event("Exit", a, why[a], "", 0)
  <2>1. /\ Trace!Record(e) /\ loop[a] = "exiting" /\ loop' = [loop EXCEPT ![a] = "gone"]
        /\ UNCHANGED <<handle, job, count, recorded, phase, early>>
    BY <1>9 DEF Trace!LoopExit
  <2>2. e.kind = "Exit" /\ e.agent = a
    BY DEF Trace!Event
  <2> HIDE DEF e
  <2>3. Fits(buffer, e)
    BY <1>a, <2>1, <2>2
  <2> QED BY <1>0, <2>1, <2>2, <2>3, RecordKeeps
<1> QED BY <1>1, <1>2, <1>3, <1>4, <1>5, <1>6, <1>7, <1>8, <1>9
        DEF Trace!AgentStep, Trace!ClosureStep, Trace!LoopStep

(* Every step of the recording and of the replay keeps the invariant; the    *)
(* flush makes the buffer the trace and starts over.                         *)
LEMMA TraceNext == TraceInv /\ [Trace!Next]_(Trace!vars) => TraceInv'
<1> SUFFICES ASSUME TraceInv, [Trace!Next]_(Trace!vars) PROVE TraceInv'
  OBVIOUS
<1>0. /\ loop \in [AgentIds -> {"none", "recv", "turn", "failed", "exiting", "gone"}]
      /\ job \in [AgentIds -> {"none", "run", "read", "counted", "ran", "done"}]
      /\ count \in [AgentIds -> Nat]
      /\ \A k \in DOMAIN handle : handle[k] \in AgentIds
      /\ \A b \in AgentIds : loop[b] \in {"none", "recv"} => job[b] = "none"
  BY DEF TraceInv, TraceTyped, TasksAreSpawned
<1>1. CASE Trace!Flush
  <2>1. /\ loop' = [a \in AgentIds |-> "none"] /\ job' = [a \in AgentIds |-> "none"]
        /\ count' = [a \in AgentIds |-> 0] /\ buffer' = << >> /\ recorded' = buffer
        /\ handle' = << >> /\ phase = "record" /\ phase' = "replay" /\ early' = early
    BY <1>1 DEF Trace!Flush, Trace!Fresh
  <2>2. /\ DOMAIN handle' = {} /\ buffer \in Seq(Range(buffer))
        /\ \A i \in DOMAIN buffer : Trace!Accepts(buffer, i) <=> i \notin early
    BY <2>1 DEF TraceInv, TraceTyped, Trace!TraceVerifies
  <2>3. /\ loop' \in [AgentIds -> {"none", "recv", "turn", "failed", "exiting", "gone"}]
        /\ job' \in [AgentIds -> {"none", "run", "read", "counted", "ran", "done"}]
        /\ count' \in [AgentIds -> Nat]
        /\ \A a \in AgentIds : loop'[a] = "none" /\ job'[a] = "none" /\ ~Spawned(buffer', a)
        /\ \A a \in AgentIds : count'[a] = Cardinality(Handled(buffer', a)) + 0
        /\ buffer' \in Seq(Range(buffer')) /\ DOMAIN buffer' = {}
    BY <2>1, FreshFacts
  <2>4. recorded' \in Seq(Range(recorded'))
    BY <2>1, <2>2
  <2>5. TraceTyped'
    BY <2>2, <2>3, <2>4, Zenon DEF TraceTyped
  <2>6. TasksAreSpawned' /\ CountersAgree' /\ EarlyIsRecorded'
    BY <2>1, <2>3 DEF TasksAreSpawned, CountersAgree, EarlyIsRecorded
  <2>7. Trace!TraceVerifies'
    BY <2>1, <2>2, <2>3 DEF Trace!TraceVerifies
  <2> QED BY <2>5, <2>6, <2>7 DEF TraceInv
<1>2. CASE Trace!Shutdown \/ Trace!Finish \/ UNCHANGED Trace!vars
  <2>1. /\ UNCHANGED <<handle, loop, job, count, buffer, recorded, early>>
        /\ phase' = "record" <=> phase = "record"
    BY <1>2 DEF Trace!Shutdown, Trace!Finish, Trace!vars, Trace!agentVars, Trace!traceVars
  <2> QED BY <1>0, <2>1, SilentKeeps
<1> QED BY <1>1, <1>2, ClientKeeps, AgentKeeps DEF Trace!Next

(* Recorder and Replayer::verify_self_consistent: however clients, agents    *)
(* and the shutdown interleave, and for any scripts, the replayer rejects    *)
(* the messages sent by address before their agent's spawn was recorded, and *)
(* accepts every other event of the recording and all of a replay's.         *)
THEOREM TraceIsAccepted == Trace!Spec => []TraceVerifies
<1>0. ASSUME NEW t, NEW i PROVE Trace!Accepts(t, i) <=> Accepts(t, i)
  BY TraceCardinality DEF Trace!Accepts, Accepts
<1>1. TraceInv => TraceVerifies
  BY <1>0 DEF TraceInv, Trace!TraceVerifies, TraceVerifies
<1> QED BY <1>1, TraceInit, TraceNext, PTL DEF Trace!Spec

(* compare_streams: one recorded event against the replayed ones.  A match   *)
(* from idx on is never passed by, and the walk goes on without a mismatch   *)
(* only behind a match or over a lifecycle event.                            *)
Accs == [idx : Nat \ {0}, mismatches : Nat]
Found(i, rec) == {j \in i .. Len(buffer) : EventsMatch(rec, buffer[j])}

LEMMA CompareOneFacts ==
  ASSUME Len(buffer) \in Nat, NEW acc \in Accs, NEW rec
  PROVE  LET r == CompareOne(acc, rec)
             found == Found(acc.idx, rec)
         IN  /\ r \in Accs /\ acc.mismatches <= r.mismatches
             /\ \A j \in found : r.mismatches = acc.mismatches /\ r.idx <= j + 1
             /\ r.mismatches = acc.mismatches =>
                  r.idx - 1 \in found \/ (rec.kind \in Soft /\ r = acc)
<1> DEFINE r == CompareOne(acc, rec)
           found == Found(acc.idx, rec)
           least == CHOOSE j \in found : \A k \in found : j <= k
<1>1. acc.idx \in Nat \ {0} /\ acc.mismatches \in Nat
      /\ acc = [idx |-> acc.idx, mismatches |-> acc.mismatches]
  BY DEF Accs
<1>2. r = IF found # {} THEN [acc EXCEPT !.idx = 1 + least]
          ELSE IF rec.kind \in Soft THEN acc
          ELSE [idx |-> IF acc.idx > Len(buffer) THEN acc.idx ELSE acc.idx + 1,
                mismatches |-> acc.mismatches + 1]
  BY DEF CompareOne, Found
<1>3. found \in SUBSET Nat /\ \A j \in found : j >= 1
  BY <1>1 DEF Found
<1> HIDE DEF r, found
<1>4. CASE found # {}
  <2>1. \E j \in found : \A k \in found : j <= k
    BY <1>3, <1>4, LeastNatural
  <2>2. least \in found /\ \A k \in found : least <= k
    BY <2>1
  <2> HIDE DEF least
  <2>3. r = [idx |-> 1 + least, mismatches |-> acc.mismatches]
    BY <1>1, <1>2, <1>4
  <2>4. r.idx = 1 + least /\ r.mismatches = acc.mismatches /\ least \in Nat
    BY <1>3, <2>2, <2>3
  <2>5. r \in Accs
    BY <1>1, <2>3, <2>4 DEF Accs
  <2>6. r.idx - 1 = least /\ \A j \in found : r.idx <= j + 1
    BY <1>3, <2>2, <2>4
  <2> QED BY <1>1, <2>2, <2>4, <2>5, <2>6 DEF r, found
<1>5. CASE found = {} /\ rec.kind \in Soft
  BY <1>1, <1>2, <1>5 DEF r, found
<1>6. CASE found = {} /\ rec.kind \notin Soft
  <2>1. r = [idx |-> IF acc.idx > Len(buffer) THEN acc.idx ELSE acc.idx + 1,
             mismatches |-> acc.mismatches + 1]
    BY <1>2, <1>6
  <2>2. r \in Accs /\ r.mismatches = acc.mismatches + 1
    BY <1>1, <2>1 DEF Accs
  <2> QED BY <1>1, <1>6, <2>2 DEF r, found
<1> QED BY <1>4, <1>5, <1>6

(* The walk over the recording, and the places an embedding may end at, are  *)
(* the recursive functions the model writes down.                            *)
IsWalk(w) ==
  /\ w \in [0 .. Len(recorded) -> Accs] /\ w[0] = [idx |-> 1, mismatches |-> 0]
  /\ \A i \in 1 .. Len(recorded) : w[i] = CompareOne(w[i - 1], recorded[i])

IsEnds(d, skip) ==
  /\ d \in [0 .. Len(recorded) -> SUBSET (0 .. Len(buffer))] /\ d[0] = {0}
  /\ \A i \in 1 .. Len(recorded) :
       d[i] = EndsAfter(d[i - 1], recorded[i], buffer, skip)

LEMMA WalkExists ==
  ASSUME Len(buffer) \in Nat, Len(recorded) \in Nat
  PROVE  \E w : IsWalk(w) /\ Mismatches = w[Len(recorded)].mismatches
<1> DEFINE k == Len(recorded)
           b == [idx |-> 1, mismatches |-> 0]
           F == [n \in 1 .. k |-> [acc \in Accs |-> CompareOne(acc, recorded[n])]]
           walk == CHOOSE g : g = [i \in 0 .. k |->
                     IF i = 0 THEN b ELSE CompareOne(g[i - 1], recorded[i])]
<1>1. b \in Accs
  BY DEF Accs
<1>2. ASSUME NEW n \in 1 .. k, NEW acc \in Accs PROVE CompareOne(acc, recorded[n]) \in Accs
  BY CompareOneFacts
<1>3. Mismatches = walk[k].mismatches
  BY Zenon DEF Mismatches
<1> HIDE DEF b, k
<1>4. AreSteps(F, k, Accs) /\ k \in Nat
  BY <1>2 DEF AreSteps, k
<1>5. PICK g : IsRun(g, F, k, Accs, b)
  <2> HIDE DEF F
  <2> QED BY <1>1, <1>4, Iterate
<1>6. ASSUME NEW n \in 1 .. k PROVE g[n] = CompareOne(g[n - 1], recorded[n])
  <2>1. n - 1 \in 0 .. k
    BY <1>4
  <2>2. g[n - 1] \in Accs /\ g[n] = F[n][g[n - 1]]
    BY <1>5, <2>1 DEF IsRun
  <2> QED BY <2>2
<1>7. g = [i \in 0 .. k |-> IF i = 0 THEN b ELSE CompareOne(g[i - 1], recorded[i])]
  <2>1. \A i \in 0 .. k : i # 0 => i \in 1 .. k
    BY <1>4
  <2>2. g \in [0 .. k -> Accs] /\ g[0] = b
    BY <1>5 DEF IsRun
  <2> HIDE DEF F
  <2> QED BY <1>6, <2>1, <2>2
<1>8. walk = [i \in 0 .. k |-> IF i = 0 THEN b ELSE CompareOne(walk[i - 1], recorded[i])]
  BY <1>7, Zenon
<1> HIDE DEF walk
<1>9. walk[0] = b /\ \A n \in 1 .. k : walk[n] = CompareOne(walk[n - 1], recorded[n])
  <2>1. 0 \in 0 .. k /\ \A n \in 1 .. k : n \in 0 .. k /\ n # 0
    BY <1>4
  <2> QED BY <1>8, <2>1
<1>10. \A n \in 0 .. k : walk[n] \in Accs
  <2>1. \A n \in 1 .. k : walk[n - 1] \in Accs => walk[n] \in Accs
    BY <1>2, <1>9
  <2> QED BY <1>1, <1>4, <1>9, <2>1, IterateStays
<1>11. walk \in [0 .. k -> Accs]
  BY <1>8, <1>10
<1> QED BY <1>3, <1>9, <1>11 DEF IsWalk, k, b

LEMMA EndsExist ==
  ASSUME Len(buffer) \in Nat, Len(recorded) \in Nat, NEW skip
  PROVE  \E d : IsEnds(d, skip) /\ (Embeds(recorded, buffer, skip) <=> d[Len(recorded)] # {})
<1> DEFINE k == Len(recorded)
           Q == SUBSET (0 .. Len(buffer))
           F == [n \in 1 .. k |-> [S \in Q |-> EndsAfter(S, recorded[n], buffer, skip)]]
           ends == CHOOSE g : g = [i \in 0 .. k |->
                     IF i = 0 THEN {0} ELSE EndsAfter(g[i - 1], recorded[i], buffer, skip)]
<1>1. {0} \in Q
  OBVIOUS
<1>2. ASSUME NEW n \in 1 .. k, NEW S \in Q PROVE EndsAfter(S, recorded[n], buffer, skip) \in Q
  <2>1. \A q \in S \X (1 .. Len(buffer)) : q[2] \in 0 .. Len(buffer)
    OBVIOUS
  <2> QED BY <2>1 DEF EndsAfter
<1>3. Embeds(recorded, buffer, skip) <=> ends[k] # {}
  BY Zenon DEF Embeds
<1> HIDE DEF Q, k
<1>4. AreSteps(F, k, Q) /\ k \in Nat
  BY <1>2 DEF AreSteps, k
<1>5. PICK g : IsRun(g, F, k, Q, {0})
  <2> HIDE DEF F
  <2> QED BY <1>1, <1>4, Iterate
<1>6. ASSUME NEW n \in 1 .. k PROVE g[n] = EndsAfter(g[n - 1], recorded[n], buffer, skip)
  <2>1. n - 1 \in 0 .. k
    BY <1>4
  <2>2. g[n - 1] \in Q /\ g[n] = F[n][g[n - 1]]
    BY <1>5, <2>1 DEF IsRun
  <2> QED BY <2>2
<1>7. g = [i \in 0 .. k |->
             IF i = 0 THEN {0} ELSE EndsAfter(g[i - 1], recorded[i], buffer, skip)]
  <2>1. \A i \in 0 .. k : i # 0 => i \in 1 .. k
    BY <1>4
  <2>2. g \in [0 .. k -> Q] /\ g[0] = {0}
    BY <1>5 DEF IsRun
  <2> HIDE DEF F
  <2> QED BY <1>6, <2>1, <2>2
<1>8. ends = [i \in 0 .. k |->
                IF i = 0 THEN {0} ELSE EndsAfter(ends[i - 1], recorded[i], buffer, skip)]
  BY <1>7, Zenon
<1> HIDE DEF ends
<1>9. /\ ends[0] = {0}
      /\ \A n \in 1 .. k : ends[n] = EndsAfter(ends[n - 1], recorded[n], buffer, skip)
  <2>1. 0 \in 0 .. k /\ \A n \in 1 .. k : n \in 0 .. k /\ n # 0
    BY <1>4
  <2> QED BY <1>8, <2>1
<1>10. \A n \in 0 .. k : ends[n] \in Q
  <2>1. \A n \in 1 .. k : ends[n - 1] \in Q => ends[n] \in Q
    BY <1>2, <1>9
  <2>2. k \in Nat /\ ends[0] \in Q
    BY <1>1, <1>4, <1>9
  <2> QED BY ONLY <2>1, <2>2, IterateStays
<1>11. ends \in [0 .. k -> Q]
  BY <1>8, <1>10
<1> QED BY <1>3, <1>9, <1>11 DEF IsEnds, Q, k

(* Where an event may end, spelled out.                                      *)
LEMMA EndsAfterFacts ==
  ASSUME NEW S \in SUBSET (0 .. Len(buffer)), NEW e, NEW skip, NEW j
  PROVE  j \in EndsAfter(S, e, buffer, skip) <=>
           \/ /\ j \in 1 .. Len(buffer) /\ EventsMatch(e, buffer[j])
              /\ \E p \in S : p < j
           \/ e.kind \in skip /\ j \in S
<1> DEFINE M == {q \in S \X (1 .. Len(buffer)) : q[1] < q[2] /\ EventsMatch(e, buffer[q[2]])}
<1>1. j \in EndsAfter(S, e, buffer, skip) <=>
        (\E q \in M : j = q[2]) \/ (e.kind \in skip /\ j \in S)
  BY DEF EndsAfter
<1>2. ASSUME NEW q \in M, j = q[2]
      PROVE  /\ j \in 1 .. Len(buffer) /\ EventsMatch(e, buffer[j]) /\ \E p \in S : p < j
  BY <1>2
<1>3. ASSUME j \in 1 .. Len(buffer), EventsMatch(e, buffer[j]), NEW p \in S, p < j
      PROVE  \E q \in M : j = q[2]
  <2>1. <<p, j>> \in M /\ j = <<p, j>>[2]
    BY <1>3
  <2> QED BY <2>1
<1> QED BY <1>1, <1>2, <1>3

(* If the events so far can end at j, the walk is not behind: it has seen no *)
(* mismatch, and it stands at j + 1 at the latest.                           *)
LEMMA WalkIsGreedy ==
  ASSUME Len(buffer) \in Nat, Len(recorded) \in Nat, NEW w, IsWalk(w), NEW d, IsEnds(d, {})
  PROVE  \A i \in 0 .. Len(recorded) : \A j \in d[i] : w[i].mismatches = 0 /\ w[i].idx <= j + 1
<1> DEFINE k == Len(recorded)
           S == {i \in 0 .. k : \A j \in d[i] : w[i].mismatches = 0 /\ w[i].idx <= j + 1}
<1>1. 0 \in S
  BY DEF IsWalk, IsEnds
<1>2. ASSUME NEW i \in 1 .. k, i - 1 \in S PROVE i \in S
  <2>0. i - 1 \in 0 .. k /\ i \in 0 .. k
    OBVIOUS
  <2>1. /\ w[i - 1] \in Accs /\ w[i] = CompareOne(w[i - 1], recorded[i])
        /\ d[i - 1] \in SUBSET (0 .. Len(buffer))
        /\ d[i] = EndsAfter(d[i - 1], recorded[i], buffer, {})
    BY <2>0 DEF IsWalk, IsEnds
  <2>2. ASSUME NEW j \in d[i] PROVE w[i].mismatches = 0 /\ w[i].idx <= j + 1
    <3>1. /\ j \in 1 .. Len(buffer) /\ EventsMatch(recorded[i], buffer[j])
          /\ \E p \in d[i - 1] : p < j
      <4>1. PICK none : none = {}
        OBVIOUS
      <4>2. j \in EndsAfter(d[i - 1], recorded[i], buffer, none)
        BY <2>1, <2>2, <4>1
      <4>3. \/ /\ j \in 1 .. Len(buffer) /\ EventsMatch(recorded[i], buffer[j])
               /\ \E p \in d[i - 1] : p < j
            \/ recorded[i].kind \in none /\ j \in d[i - 1]
        BY <2>1, <4>2, EndsAfterFacts
      <4> QED BY <4>1, <4>3
    <3>2. PICK p \in d[i - 1] : p < j
      BY <3>1
    <3>3. w[i - 1].mismatches = 0 /\ w[i - 1].idx <= p + 1 /\ p \in Nat
      BY <1>2, <2>1
    <3>4. w[i - 1].idx \in Nat /\ w[i - 1].idx <= j
      BY <2>1, <3>1, <3>2, <3>3 DEF Accs
    <3>5. j \in Found(w[i - 1].idx, recorded[i])
      BY <3>1, <3>4 DEF Found
    <3> QED BY <2>1, <3>3, <3>5, CompareOneFacts
  <2> QED BY <2>0, <2>2
<1>3. \A i \in 0 .. k : i \in S
  <2> HIDE DEF S
  <2> QED BY <1>1, <1>2, Climb
<1> QED BY <1>3

(* While the walk has seen no mismatch, the hard events so far occur in the  *)
(* replay in order, and can end right before where it stands.                *)
LEMMA WalkIsHonest ==
  ASSUME Len(buffer) \in Nat, Len(recorded) \in Nat, NEW w, IsWalk(w),
         NEW d, IsEnds(d, Soft)
  PROVE  \A i \in 0 .. Len(recorded) : w[i].mismatches = 0 => w[i].idx - 1 \in d[i]
<1> DEFINE k == Len(recorded)
           S == {i \in 0 .. k : w[i].mismatches = 0 => w[i].idx - 1 \in d[i]}
<1>1. 0 \in S
  BY DEF IsWalk, IsEnds
<1>2. ASSUME NEW i \in 1 .. k, i - 1 \in S PROVE i \in S
  <2>0. i - 1 \in 0 .. k /\ i \in 0 .. k
    OBVIOUS
  <2>1. /\ w[i - 1] \in Accs /\ w[i] = CompareOne(w[i - 1], recorded[i])
        /\ d[i - 1] \in SUBSET (0 .. Len(buffer))
        /\ d[i] = EndsAfter(d[i - 1], recorded[i], buffer, Soft)
    BY <2>0 DEF IsWalk, IsEnds
  <2>2. ASSUME w[i].mismatches = 0 PROVE w[i].idx - 1 \in d[i]
    <3>1. /\ w[i] \in Accs /\ w[i - 1].mismatches <= w[i].mismatches
          /\ w[i].mismatches = w[i - 1].mismatches =>
               \/ w[i].idx - 1 \in Found(w[i - 1].idx, recorded[i])
               \/ recorded[i].kind \in Soft /\ w[i] = w[i - 1]
      BY <2>1, CompareOneFacts
    <3>2. w[i - 1].mismatches = 0 /\ w[i - 1].idx \in Nat \ {0}
      BY <2>1, <2>2, <3>1 DEF Accs
    <3>3. w[i - 1].idx - 1 \in d[i - 1]
      BY <1>2, <3>2
    <3>4. CASE w[i].idx - 1 \in Found(w[i - 1].idx, recorded[i])
      <4> DEFINE j == w[i].idx - 1
      <4>0. j \in w[i - 1].idx .. Len(buffer) /\ EventsMatch(recorded[i], buffer[j])
        BY <3>4 DEF Found
      <4> HIDE DEF j
      <4>1. /\ j \in 1 .. Len(buffer) /\ EventsMatch(recorded[i], buffer[j])
            /\ w[i - 1].idx - 1 < j
        BY ONLY <3>2, <4>0, Len(buffer) \in Nat
      <4>2. j \in EndsAfter(d[i - 1], recorded[i], buffer, Soft)
        <5>1. \E p \in d[i - 1] : p < j
          BY <3>3, <4>1
        <5>2. d[i - 1] \in SUBSET (0 .. Len(buffer))
          BY <2>1
        <5> QED BY ONLY <4>1, <5>1, <5>2, EndsAfterFacts
      <4>3. j \in d[i]
        BY <2>1, <4>2
      <4> QED BY <4>3 DEF j
    <3>5. CASE recorded[i].kind \in Soft /\ w[i] = w[i - 1]
      <4> DEFINE j == w[i - 1].idx - 1
      <4>1. j \in d[i - 1] /\ d[i - 1] \in SUBSET (0 .. Len(buffer)) /\ j = w[i].idx - 1
        BY <2>1, <3>3, <3>5
      <4> HIDE DEF j
      <4>2. j \in EndsAfter(d[i - 1], recorded[i], buffer, Soft)
        BY ONLY <3>5, <4>1, EndsAfterFacts
      <4> QED BY <2>1, <4>1, <4>2
    <3> QED BY <2>2, <3>1, <3>2, <3>4, <3>5
  <2> QED BY <2>0, <2>2
<1>3. \A i \in 0 .. k : i \in S
  <2> HIDE DEF S
  <2> QED BY <1>1, <1>2, Climb
<1> QED BY <1>3

(* compare_streams, for any recording and any replay: no mismatch is         *)
(* reported if the whole recording occurs in the replay in order, and one is *)
(* if what is not a lifecycle event of it does not.                          *)
THEOREM ReportIsSound == Trace!Spec => []CleanReportIsOrdered
<1>1. TraceInv => CleanReportIsOrdered
  <2> SUFFICES ASSUME TraceInv PROVE CleanReportIsOrdered
    OBVIOUS
  <2>1. Len(buffer) \in Nat /\ Len(recorded) \in Nat
    BY DEF TraceInv, TraceTyped
  <2>2. PICK w : IsWalk(w) /\ Mismatches = w[Len(recorded)].mismatches
    BY <2>1, WalkExists
  <2>3. Len(recorded) \in 0 .. Len(recorded)
    BY <2>1
  <2>4. ASSUME Embeds(recorded, buffer, {}) PROVE Mismatches = 0
    <3>1. PICK d : IsEnds(d, {}) /\ (Embeds(recorded, buffer, {}) <=> d[Len(recorded)] # {})
      BY <2>1, EndsExist
    <3>2. PICK j : j \in d[Len(recorded)]
      BY <2>4, <3>1
    <3> QED BY <2>1, <2>2, <2>3, <3>1, <3>2, WalkIsGreedy
  <2>5. ASSUME Mismatches = 0 PROVE Embeds(recorded, buffer, Soft)
    <3>1. PICK d : /\ IsEnds(d, Soft)
                   /\ Embeds(recorded, buffer, Soft) <=> d[Len(recorded)] # {}
      BY <2>1, EndsExist
    <3>2. w[Len(recorded)].idx - 1 \in d[Len(recorded)]
      BY <2>1, <2>2, <2>3, <2>5, <3>1, WalkIsHonest
    <3> QED BY <3>1, <3>2
  <2> QED BY <2>4, <2>5 DEF CleanReportIsOrdered
<1> QED BY <1>1, TraceInit, TraceNext, PTL DEF Trace!Spec

-----------------------------------------------------------------------------
(* The recorder's type invariant.  A client between the id and the record of *)
(* its spawn has stored the id; that makes every recorded agent one of Ids.  *)

ClientShape ==
  /\ at \in [DOMAIN todo -> {"ready", "alloc", "send", "wait"}]
  /\ \A c \in DOMAIN todo : at[c] = "alloc" => Head(todo[c]).key \in DOMAIN handle

EventShape ==
  \A e \in Range(buffer) \cup Range(recorded) : e.kind \in Trace!Kinds /\ e.agent \in AgentIds

RestShape ==
  /\ phase \in {"record", "replay", "done"} /\ stopping \in BOOLEAN /\ late \in BOOLEAN
  /\ nextId \in 1 .. (Cardinality(AgentIds) + 1)
  /\ why \in [AgentIds -> {"normal", "trap", "shutdown", "cancelled"}]
  /\ early \subseteq Nat

(* Clients return, or do not move, while handles are only added.             *)
LEMMA ReturnKeeps ==
  ASSUME ClientShape, (\E cs : Trace!Return(cs)) \/ UNCHANGED <<todo, at>>,
         DOMAIN handle \subseteq DOMAIN handle'
  PROVE  ClientShape'
<1>1. ASSUME NEW cs, Trace!Return(cs) PROVE ClientShape'
  <2>1. /\ todo' = [c \in DOMAIN todo |-> IF c \in cs THEN Tail(todo[c]) ELSE todo[c]]
        /\ at' = [c \in DOMAIN at |-> IF c \in cs THEN "ready" ELSE at[c]]
    BY <1>1 DEF Trace!Return
  <2>2. DOMAIN todo' = DOMAIN todo /\ at' \in [DOMAIN todo -> {"ready", "alloc", "send", "wait"}]
    BY <2>1 DEF ClientShape
  <2>3. ASSUME NEW c \in DOMAIN todo', at'[c] = "alloc" PROVE Head(todo'[c]).key \in DOMAIN handle'
    BY <2>1, <2>2, <2>3 DEF ClientShape
  <2> QED BY <2>2, <2>3 DEF ClientShape
<1>2. CASE UNCHANGED <<todo, at>>
  BY <1>2 DEF ClientShape
<1> QED BY <1>1, <1>2

(* A client moves on to a stage that needs no stored id.                     *)
LEMMA StageKeeps ==
  ASSUME ClientShape, NEW c \in DOMAIN todo, NEW q \in {"send", "wait"},
         at' = [at EXCEPT ![c] = q], UNCHANGED <<todo, handle>>
  PROVE  ClientShape'
BY DEF ClientShape

(* One more event of a known kind and agent.                                 *)
LEMMA EventKeeps ==
  ASSUME TraceInv, EventShape, NEW e, e.kind \in Trace!Kinds, e.agent \in AgentIds,
         Trace!Record(e), UNCHANGED recorded
  PROVE  EventShape'
<1> DEFINE S == Range(buffer) \cup {e}
<1>1. buffer \in Seq(S) /\ e \in S
  BY DEF TraceInv, TraceTyped
<1>2. Range(Append(buffer, e)) = Range(buffer) \cup {e}
  <2> HIDE DEF S
  <2> QED BY <1>1, PushFacts
<1> QED BY <1>2 DEF EventShape, Trace!Record

TraceShape == ClientShape /\ EventShape /\ RestShape

LEMMA ShapeInit == ASSUME Trace!IdsAssumption PROVE Trace!Init => TraceShape
<1> SUFFICES ASSUME Trace!Init PROVE TraceShape
  OBVIOUS
<1>1. Cardinality(AgentIds) \in Nat
  <2>1. Trace!IsFiniteSet(AgentIds)
    BY DEF Trace!IdsAssumption
  <2>2. IsFiniteSet(AgentIds)
    BY <2>1, Zenon DEF Trace!IsFiniteSet, IsFiniteSet
  <2> QED BY <2>2, FS_CardinalityType
<1>2. ClientShape
  <2>1. at = [c \in DOMAIN todo |-> "ready"]
    BY DEF Trace!Init
  <2>2. DOMAIN at = DOMAIN todo /\ \A c \in DOMAIN todo : at[c] = "ready"
    BY <2>1
  <2>3. at \in [DOMAIN todo -> {"ready", "alloc", "send", "wait"}]
    BY <2>1
  <2> QED BY <2>2, <2>3 DEF ClientShape
<1>3. EventShape
  BY DEF Trace!Init, EventShape, Range
<1>4. RestShape
  <2>1. /\ phase = "record" /\ stopping = FALSE /\ late = FALSE
        /\ nextId = 1 /\ why = [a \in AgentIds |-> "normal"] /\ early = {}
    BY DEF Trace!Init
  <2>2. 1 \in 1 .. (Cardinality(AgentIds) + 1)
    BY <1>1
  <2>3. why \in [AgentIds -> {"normal", "trap", "shutdown", "cancelled"}]
    BY <2>1
  <2>4. early \subseteq Nat
    BY <2>1
  <2> QED BY <2>1, <2>2, <2>3, <2>4, Zenon DEF RestShape
<1> QED BY <1>2, <1>3, <1>4 DEF TraceShape

(* Every step keeps the shape.                                               *)
LEMMA ShapeNext ==
  ASSUME Trace!IdsAssumption, TraceInv, TraceShape, [Trace!Next]_(Trace!vars)
  PROVE  TraceShape'
<1> USE DEF Trace!agentVars, Trace!traceVars
<1>a. ClientShape /\ EventShape /\ RestShape
  BY DEF TraceShape
<1>b. Cardinality(AgentIds) \in Nat /\ AgentIds = 1 .. Cardinality(AgentIds)
  <2>1. Trace!IsFiniteSet(AgentIds) /\ AgentIds = 1 .. Trace!Cardinality(AgentIds)
    BY DEF Trace!IdsAssumption
  <2>2. IsFiniteSet(AgentIds)
    BY <2>1, Zenon DEF Trace!IsFiniteSet, IsFiniteSet
  <2> QED BY <2>1, <2>2, FS_CardinalityType, TraceCardinality
<1>c. \A k \in DOMAIN handle : handle[k] \in AgentIds
  BY DEF TraceInv, TraceTyped
<1>d. ASSUME UNCHANGED <<buffer, recorded>> PROVE EventShape'
  BY <1>a, <1>d DEF EventShape
<1>e. ASSUME UNCHANGED <<phase, stopping, late, nextId, why, early>> PROVE RestShape'
  BY <1>a, <1>e DEF RestShape
<1>1. ASSUME NEW c \in DOMAIN todo, Trace!AllocAgent(c) PROVE TraceShape'
  <2>1. /\ at' = [at EXCEPT ![c] = "alloc"] /\ nextId \in AgentIds /\ nextId' = nextId + 1
        /\ DOMAIN handle' = DOMAIN handle \cup {Head(todo[c]).key}
        /\ UNCHANGED <<todo, buffer, recorded, phase, stopping, late, why, early>>
    BY <1>1 DEF Trace!AllocAgent
  <2>2. ClientShape'
    BY <1>a, <2>1 DEF ClientShape
  <2>3. RestShape'
    BY <1>a, <1>b, <2>1 DEF RestShape
  <2> QED BY <1>d, <2>1, <2>2, <2>3 DEF TraceShape
<1>2. ASSUME NEW c \in DOMAIN todo, Trace!SpawnAgent(c) PROVE TraceShape'
  <2> DEFINE e == Trace!Event("Spawn", handle[Head(todo[c]).key], Head(todo[c]).what, "", 0)
  <2>1. /\ Trace!Record(e) /\ at[c] = "alloc" /\ Trace!Return({c})
        /\ UNCHANGED <<handle, recorded, phase, stopping, late, nextId, why, early>>
    BY <1>2 DEF Trace!SpawnAgent
  <2>2. e.kind \in Trace!Kinds /\ e.agent \in AgentIds
    BY <1>a, <1>c, <2>1 DEF ClientShape, Trace!Event, Trace!Kinds
  <2> HIDE DEF e
  <2>3. ClientShape' /\ EventShape'
    BY <1>a, <2>1, <2>2, ReturnKeeps, EventKeeps
  <2> QED BY <1>e, <2>1, <2>3 DEF TraceShape
<1>3. ASSUME NEW c \in DOMAIN todo, Trace!RecordSent(c) PROVE TraceShape'
  <2> DEFINE o == Head(todo[c])
             e == Trace!Event("MessageSent", handle[o.key], o.what,
                              Trace!FromRuntimeValue(o.arg), 0)
  <2>1. /\ Trace!Record(e) /\ o.key \in DOMAIN handle /\ at' = [at EXCEPT ![c] = "send"]
        /\ UNCHANGED <<todo, handle, recorded, phase, stopping, late, nextId, why>>
        /\ early' \subseteq early \cup {Len(buffer) + 1}
    BY <1>3 DEF Trace!RecordSent
  <2>2. e.kind \in Trace!Kinds /\ e.agent \in AgentIds
    BY <1>c, <2>1 DEF Trace!Event, Trace!Kinds
  <2> HIDE DEF e
  <2>3. ClientShape' /\ EventShape'
    BY <1>a, <2>1, <2>2, StageKeeps, EventKeeps
  <2>4. Len(buffer) + 1 \in Nat
    BY DEF TraceInv, TraceTyped
  <2>5. RestShape'
    BY <1>a, <2>1, <2>4 DEF RestShape
  <2> QED BY <2>3, <2>5 DEF TraceShape
<1>4. ASSUME NEW c \in DOMAIN todo, Trace!Enqueue(c) \/ Trace!NotFound(c) PROVE TraceShape'
  <2>1. /\ Trace!Return({c}) \/ (at' = [at EXCEPT ![c] = "wait"] /\ UNCHANGED todo)
        /\ UNCHANGED <<handle, buffer, recorded, phase, stopping, late, nextId, why, early>>
    BY <1>4 DEF Trace!Enqueue, Trace!NotFound
  <2>2. ClientShape'
    BY <1>a, <2>1, ReturnKeeps, StageKeeps
  <2> QED BY <1>d, <1>e, <2>1, <2>2 DEF TraceShape
<1>5. ASSUME NEW c \in DOMAIN todo, Trace!Deadline(c) PROVE TraceShape'
  <2>1. /\ Trace!Return({c}) /\ late' = TRUE
        /\ UNCHANGED <<handle, buffer, recorded, phase, stopping, nextId, why, early>>
    BY <1>5 DEF Trace!Deadline
  <2>2. ClientShape' /\ RestShape'
    BY <1>a, <2>1, ReturnKeeps DEF RestShape
  <2> QED BY <1>d, <2>1, <2>2 DEF TraceShape
<1>6. ASSUME NEW a \in AgentIds,
             \/ Trace!Recv(a) \/ Trace!CountTurn(a) \/ Trace!Reply(a) \/ Trace!TurnEnds(a)
             \/ Trace!TurnCancelled(a)
      PROVE  TraceShape'
  <2>1. /\ (\E cs : Trace!Return(cs)) \/ UNCHANGED <<todo, at>>
        /\ UNCHANGED <<handle, buffer, recorded, phase, stopping, late, nextId, early>>
    BY <1>6 DEF Trace!Recv, Trace!CountTurn, Trace!Reply, Trace!TurnEnds, Trace!TurnCancelled
  <2>2. why' = why \/ \E q \in {"trap", "shutdown", "cancelled"} : why' = [why EXCEPT ![a] = q]
    BY <1>6 DEF Trace!Recv, Trace!CountTurn, Trace!Reply, Trace!TurnEnds, Trace!TurnCancelled
  <2>3. ClientShape'
    BY <1>a, <2>1, ReturnKeeps
  <2>4. RestShape'
    BY <1>a, <2>1, <2>2 DEF RestShape
  <2> QED BY <1>d, <2>1, <2>3, <2>4 DEF TraceShape
<1>7. ASSUME NEW a \in AgentIds,
             Trace!ReadClock(a) \/ Trace!Handle(a) \/ Trace!ReportBudget(a) \/ Trace!LoopExit(a)
      PROVE  TraceShape'
  <2>1. \E kind \in Trace!Kinds : \E what, arg, n : Trace!Record(Trace!Event(kind, a, what, arg, n))
    <3>1. /\ "ClockRead" \in Trace!Kinds /\ "MessageHandled" \in Trace!Kinds
          /\ "BudgetExhausted" \in Trace!Kinds /\ "Exit" \in Trace!Kinds
      BY DEF Trace!Kinds, Trace!Soft
    <3>2. CASE Trace!ReadClock(a)
      BY <3>1, <3>2 DEF Trace!ReadClock
    <3>3. CASE Trace!Handle(a)
      BY <3>1, <3>3 DEF Trace!Handle
    <3>4. CASE Trace!ReportBudget(a)
      BY <3>1, <3>4 DEF Trace!ReportBudget
    <3>5. CASE Trace!LoopExit(a)
      BY <3>1, <3>5 DEF Trace!LoopExit
    <3> QED BY <1>7, <3>2, <3>3, <3>4, <3>5
  <2>2. PICK e : Trace!Record(e) /\ e.kind \in Trace!Kinds /\ e.agent \in AgentIds
    BY <2>1 DEF Trace!Event
  <2>3. /\ (\E cs : Trace!Return(cs)) \/ UNCHANGED <<todo, at>>
        /\ UNCHANGED <<handle, recorded, phase, stopping, late, nextId, why, early>>
    BY <1>7 DEF Trace!ReadClock, Trace!Handle, Trace!ReportBudget, Trace!LoopExit
  <2>4. ClientShape' /\ EventShape'
    BY <1>a, <2>2, <2>3, ReturnKeeps, EventKeeps
  <2> QED BY <1>e, <2>3, <2>4 DEF TraceShape
<1>8. CASE Trace!Shutdown \/ Trace!Finish \/ UNCHANGED Trace!vars
  <2>1. /\ UNCHANGED <<todo, at, handle, buffer, recorded, nextId, why, late, early>>
        /\ stopping' \in {stopping, TRUE} /\ phase' \in {phase, "done"}
    BY <1>8 DEF Trace!Shutdown, Trace!Finish, Trace!vars
  <2>2. ClientShape' /\ RestShape'
    BY <1>a, <2>1, ReturnKeeps DEF RestShape
  <2> QED BY <1>d, <2>1, <2>2 DEF TraceShape
<1>9. CASE Trace!Flush
  <2>1. /\ todo' = [c \in {Driver} |-> Trace!Refeed(buffer)]
        /\ at' = [c \in DOMAIN todo' |-> "ready"]
        /\ buffer' = << >> /\ recorded' = buffer /\ nextId' = 1 /\ phase' = "replay"
        /\ stopping' = FALSE /\ late' = late /\ early' = early /\ why' = [a \in AgentIds |-> "normal"]
    BY <1>9 DEF Trace!Flush, Trace!Fresh
  <2>2. ClientShape'
    <3>1. DOMAIN at' = DOMAIN todo' /\ \A c \in DOMAIN todo' : at'[c] = "ready"
      BY <2>1
    <3>2. at' \in [DOMAIN todo' -> {"ready", "alloc", "send", "wait"}]
      BY <2>1
    <3> QED BY <3>1, <3>2 DEF ClientShape
  <2>3. Range(buffer') = {}
    BY <2>1 DEF Range
  <2>4. EventShape'
    BY <1>a, <2>1, <2>3 DEF EventShape
  <2>5. RestShape'
    <3>1. 1 \in 1 .. (Cardinality(AgentIds) + 1)
      BY <1>b
    <3>2. why' \in [AgentIds -> {"normal", "trap", "shutdown", "cancelled"}]
      BY <2>1
    <3>3. late' \in BOOLEAN /\ early' \subseteq Nat
      BY <1>a, <2>1 DEF RestShape
    <3> QED BY <2>1, <3>1, <3>2, <3>3, Zenon DEF RestShape
  <2> QED BY <2>2, <2>4, <2>5 DEF TraceShape
<1> QED BY <1>1, <1>2, <1>3, <1>4, <1>5, <1>6, <1>7, <1>8, <1>9
        DEF Trace!Next, Trace!ClientStep, Trace!AgentStep, Trace!ClosureStep, Trace!LoopStep

(* replay/recorder.rs and the runtime it records: the state has its declared *)
(* shape, and every event, recorded or replayed, is of a known kind and of   *)
(* an agent there is room for.                                               *)
THEOREM TraceTypeCorrect == ASSUME Trace!IdsAssumption PROVE Trace!Spec => []Trace!TypeOK
<1>1. TraceInv /\ TraceShape => Trace!TypeOK
  <2> SUFFICES ASSUME TraceInv, TraceShape PROVE Trace!TypeOK
    OBVIOUS
  <2>1. \A f : Trace!Range(f) = {f[x] : x \in DOMAIN f}
    BY DEF Trace!Range
  <2>2. Trace!Range(buffer) = Range(buffer) /\ Trace!Range(recorded) = Range(recorded)
    BY <2>1 DEF Range
  <2>3. DOMAIN todo = DOMAIN at /\ Trace!Range(at) \subseteq {"ready", "alloc", "send", "wait"}
    BY <2>1 DEF TraceShape, ClientShape
  <2>4. Trace!Range(handle) \subseteq AgentIds
    BY <2>1 DEF TraceInv, TraceTyped
  <2>5. \A e \in Trace!Range(buffer) \cup Trace!Range(recorded) :
          e.kind \in Trace!Kinds /\ e.agent \in AgentIds
    BY <2>2 DEF TraceShape, EventShape
  <2>6. /\ phase \in {"record", "replay", "done"} /\ {stopping, late} \subseteq BOOLEAN
        /\ early \subseteq Nat
        /\ nextId \in 1 .. (Trace!Cardinality(AgentIds) + 1)
        /\ why \in [AgentIds -> {"normal", "trap", "shutdown", "cancelled"}]
    BY TraceCardinality DEF TraceShape, RestShape
  <2>7. /\ loop \in [AgentIds -> {"none", "recv", "turn", "failed", "exiting", "gone"}]
        /\ job \in [AgentIds -> {"none", "run", "read", "counted", "ran", "done"}]
        /\ count \in [AgentIds -> Nat]
    BY DEF TraceInv, TraceTyped
  <2> QED BY <2>3, <2>4, <2>5, <2>6, <2>7, Zenon DEF Trace!TypeOK
<1>2. Trace!Init => TraceShape
  BY ShapeInit
<1>3. TraceInv /\ TraceShape /\ [Trace!Next]_(Trace!vars) => TraceShape'
  BY ShapeNext
<1> QED BY <1>1, <1>2, <1>3, TraceInit, TraceNext, PTL DEF Trace!Spec
=============================================================================
