-------------------------- MODULE Migration_proofs --------------------------
(***************************************************************************)
(* Live migration, for any finite set of calls and any messages: the agent *)
(* is never left nowhere, the pending map serves its calls, the metrics    *)
(* add up, and calls that neither overlap nor time out never leave the     *)
(* agent running in two places.                                            *)
(***************************************************************************)
EXTENDS Migration, FiniteSetTheorems, TLAPS

USE NoAttemptAssumption, FiniteAssumption

Shipped == {"ship", "wait", "undo", "drain", "forward", "finalize"}

(* The pending entry belongs to a call that waits with an open channel, and *)
(* every such call owns it; a call has no result before it gives up.        *)
CallsAndPending ==
  \A a \in Attempts :
    /\ pc[a] \notin {"undo", "done"} => out[a] = "none"
    /\ pc[a] \in {"idle", "snapshot"} => rx[a] = "open"
    /\ pc[a] \in {"drain", "forward", "finalize"} => rx[a] = "ack"
    /\ a \in pending <=> (pc[a] \in {"ship", "wait"} /\ rx[a] = "open")

(* Whatever an ack names was restored, on its way from the wire through the *)
(* channel to the routing rewrite.                                          *)
AcksNameCopies ==
  /\ \A f \in answers : f.ok => f.att \in copies
  /\ \A a \in Attempts : rx[a] = "ack" => acked[a] \in copies
  /\ source = "remote" => rewrite \in copies
  /\ \A a \in Attempts : pc[a] = "finalize" => rewrite \in copies

(* The source is paused on behalf of a call that will end the pause.        *)
PauseHasOwner ==
  source = "migrating" => \E a \in Attempts : pc[a] \in Shipped

Clean == ~overlapped /\ ~TimedOut

(* Calls that do not overlap, and wait for their answer: whoever has shipped *)
(* has the source paused; the wire carries only what the waiting call is    *)
(* about to hear; a copy is the waiting call's or the completed one's; and  *)
(* what the source had handled is in the shipped state.                     *)
OneAtATime ==
  \A a, b \in Attempts : InProgress(a) /\ InProgress(b) => a = b
SourceFollows ==
  \A a \in Attempts :
    /\ pc[a] \in Shipped => source = "migrating"
    /\ out[a] = "completed" => pc[a] = "done" /\ source = "remote"
WireIsCurrent ==
  /\ \A a \in ships : /\ pc[a] = "wait" /\ rx[a] = "open" /\ a \notin copies
                      /\ \A f \in answers : f.att # a
  /\ \A f \in answers : /\ pc[f.att] = "wait" /\ rx[f.att] = "open"
                        /\ f.ok <=> f.att \in copies
  /\ \A a \in Attempts : pc[a] = "ship" => rx[a] = "open"
CopiesAreCurrent ==
  \A a \in Attempts :
    /\ a \in copies => \/ pc[a] = "wait" /\ rx[a] \in {"open", "ack"}
                       \/ pc[a] \in {"drain", "forward", "finalize"}
                       \/ out[a] = "completed"
    /\ rx[a] = "ack" => acked[a] = a
StateMoves ==
  /\ \A a \in Attempts : pc[a] \in {"ship", "wait", "drain", "forward"}
                           => Handled \subseteq snap[a]
  /\ source = "remote" => Handled \subseteq snap[rewrite]
  /\ \A a \in Attempts : pc[a] = "finalize" => Handled \subseteq snap[rewrite]

SerialState == /\ OneAtATime /\ SourceFollows /\ WireIsCurrent
               /\ CopiesAreCurrent /\ StateMoves
SerialInv == Clean => SerialState

IInv == TypeOK /\ CallsAndPending /\ AcksNameCopies /\ PauseHasOwner

USE DEF callVars, wireVars

-----------------------------------------------------------------------------
(* Type correctness. *)

Counters == {"started", "completed", "failed", "rolled_back"}

(* Counting adds one to the named counters and nothing to the others. *)
LEMMA CountFacts ==
  ASSUME TypeOK, NEW ks, Count(ks)
  PROVE  /\ metrics' \in [Counters -> Nat]
         /\ \A k \in Counters : metrics'[k] = IF k \in ks THEN metrics[k] + 1 ELSE metrics[k]
<1>1. metrics \in [Counters -> Nat] /\ DOMAIN metrics = Counters
  BY DEF TypeOK, Counters
<1>2. metrics' = [k \in Counters |-> IF k \in ks THEN metrics[k] + 1 ELSE metrics[k]]
  BY <1>1 DEF Count
<1> QED BY <1>1, <1>2

(* The pending map has room for one attempt. *)
LEMMA PendingTypes ==
  ASSUME NEW S, S = {} \/ \E a \in Attempts : S = {a}
  PROVE  S \subseteq Attempts /\ Cardinality(S) <= 1
<1>1. CASE S = {}
  <2>1. Cardinality({}) = 0
    BY FS_EmptySet
  <2> QED BY <1>1, <2>1
<1>2. ASSUME NEW a \in Attempts, S = {a} PROVE S \subseteq Attempts /\ Cardinality(S) <= 1
  <2>1. Cardinality({a}) = 1
    BY FS_Singleton
  <2> QED BY <1>2, <2>1
<1> QED BY <1>1, <1>2

(* A call that gives up has a reason. *)
LEMMA GiveUpTypes ==
  ASSUME TypeOK, NEW a \in Attempts, NEW why \in Ends, GiveUp(a, why)
  PROVE  pc' \in [Attempts -> Pcs] /\ out' \in [Attempts -> Ends]
  BY DEF TypeOK, GiveUp, Pcs

(* Removing the entry closes its channel. *)
LEMMA RemoveTypes ==
  ASSUME TypeOK, RemovePending
  PROVE  /\ pending' \subseteq Attempts /\ Cardinality(pending') <= 1
         /\ rx' \in [Attempts -> {"open", "closed", "ack", "err"}]
  BY PendingTypes DEF TypeOK, RemovePending

(* Every step keeps the shape of the state. *)
LEMMA NextTypeOK == TypeOK /\ [Next]_vars => TypeOK'
<1> SUFFICES ASSUME TypeOK, [Next]_vars PROVE TypeOK'
  OBVIOUS
<1>1. ASSUME NEW a \in Attempts, Refuse(a) PROVE TypeOK'
  BY <1>1 DEF Refuse, TypeOK, Pcs, Ends
<1>2. ASSUME NEW a \in Attempts, Start(a) PROVE TypeOK'
  <2>1. metrics' \in [Counters -> Nat]
    BY <1>2, CountFacts DEF Start
  <2>2. overlapped' \in BOOLEAN
    BY <1>2 DEF Start
  <2> QED BY <1>2, <2>1, <2>2 DEF Start, TypeOK, Pcs, Counters
<1>3. ASSUME NEW a \in Attempts, DrainAndSnapshot(a) PROVE TypeOK'
  <2>1. pending' \subseteq Attempts /\ Cardinality(pending') <= 1
    BY <1>3, PendingTypes DEF DrainAndSnapshot
  <2>2. /\ rx' \in [Attempts -> {"open", "closed", "ack", "err"}]
        /\ snap' \in [Attempts -> SUBSET Msgs]
    BY <1>3 DEF DrainAndSnapshot, TypeOK, Handled
  <2> QED BY <1>3, <2>1, <2>2 DEF DrainAndSnapshot, TypeOK, Pcs
<1>4. ASSUME NEW a \in Attempts, DrainFails(a) PROVE TypeOK'
  <2>1. metrics' \in [Counters -> Nat]
    BY <1>4, CountFacts DEF DrainFails
  <2> QED BY <1>4, <2>1 DEF DrainFails, TypeOK, Pcs, Ends, Counters
<1>5. ASSUME NEW a \in Attempts, TooLarge(a) PROVE TypeOK'
  BY <1>5, GiveUpTypes DEF TooLarge, TypeOK, Ends
<1>6. ASSUME NEW a \in Attempts, Ship(a) PROVE TypeOK'
  BY <1>6 DEF Ship, TypeOK, Pcs
<1>7. ASSUME NEW a \in Attempts, ShipFails(a) PROVE TypeOK'
  BY <1>7, GiveUpTypes, RemoveTypes DEF ShipFails, TypeOK, Ends
<1>8. ASSUME NEW a \in Attempts, ReplyClosed(a) PROVE TypeOK'
  BY <1>8, GiveUpTypes, RemoveTypes DEF ReplyClosed, TypeOK, Ends
<1>9. ASSUME NEW a \in Attempts, DeadlineExpires(a) PROVE TypeOK'
  BY <1>9, GiveUpTypes, RemoveTypes DEF DeadlineExpires, TypeOK, Ends
<1>10. ASSUME NEW a \in Attempts, ReplyRejects(a) PROVE TypeOK'
  BY <1>10, GiveUpTypes DEF ReplyRejects, TypeOK, Ends
<1>11. ASSUME NEW a \in Attempts, Rollback(a) PROVE TypeOK'
  <2>1. metrics' \in [Counters -> Nat]
    BY <1>11, CountFacts DEF Rollback
  <2> QED BY <1>11, <2>1 DEF Rollback, TypeOK, Pcs, Counters
<1>12. ASSUME NEW a \in Attempts, ReplyAcks(a) PROVE TypeOK'
  BY <1>12 DEF ReplyAcks, TypeOK, Pcs
<1>13. ASSUME NEW a \in Attempts, DrainQueued(a) PROVE TypeOK'
  <2>1. PICK T \in SUBSET Msgs :
          /\ taken' = [taken EXCEPT ![a] = T]
          /\ mail' = [m \in Msgs |-> IF m \in T THEN "taken" ELSE mail[m]]
    BY <1>13 DEF DrainQueued
  <2>2. /\ taken' \in [Attempts -> SUBSET Msgs]
        /\ mail' \in [Msgs -> {"none", "queued", "taken", "local", "remote", "lost"}]
    BY <2>1 DEF TypeOK
  <2> QED BY <1>13, <2>2 DEF DrainQueued, TypeOK, Pcs
<1>14. ASSUME NEW a \in Attempts, NEW m \in Msgs, Forward(a, m) PROVE TypeOK'
  BY <1>14 DEF Forward, TypeOK
<1>r. ASSUME NEW a \in Attempts, InstallRewrite(a) PROVE TypeOK'
  BY <1>r DEF InstallRewrite, TypeOK, Pcs
<1>15. ASSUME NEW a \in Attempts, Finalize(a) PROVE TypeOK'
  <2>1. metrics' \in [Counters -> Nat]
    BY <1>15, CountFacts DEF Finalize
  <2> QED BY <1>15, <2>1 DEF Finalize, TypeOK, Pcs, Ends, Counters
<1>16. ASSUME NEW a \in Attempts, Restore(a) PROVE TypeOK'
  BY <1>16 DEF Restore, TypeOK
<1>17. ASSUME NEW f \in answers, Inbound(f) PROVE TypeOK'
  <2>1. pending' \subseteq Attempts /\ Cardinality(pending') <= 1
    BY <1>17, PendingTypes DEF Inbound
  <2>2. f.att \in Attempts
    BY <1>17 DEF TypeOK
  <2> QED BY <1>17, <2>1, <2>2 DEF Inbound, TypeOK
<1>18. CASE LoseFrame
  BY <1>18 DEF LoseFrame, TypeOK
<1>19. ASSUME NEW m \in Msgs, Send(m) PROVE TypeOK'
  BY <1>19 DEF Send, TypeOK
<1>20. ASSUME NEW m \in Msgs, Handle(m) PROVE TypeOK'
  BY <1>20 DEF Handle, TypeOK
<1>21. CASE UNCHANGED vars
  BY <1>21 DEF vars, TypeOK
<1> QED
  BY <1>1, <1>2, <1>3, <1>4, <1>5, <1>6, <1>7, <1>8, <1>9, <1>10, <1>11, <1>12,
     <1>13, <1>14, <1>r, <1>15, <1>16, <1>17, <1>18, <1>19, <1>20, <1>21 DEF Next, Attempt

-----------------------------------------------------------------------------
(* Calls, the pending map and the copies. *)

(* The steps that move no call keep its relation to the pending map. *)
LEMMA NextCalls == TypeOK /\ CallsAndPending /\ [Next]_vars => CallsAndPending'
<1> SUFFICES ASSUME TypeOK, CallsAndPending, [Next]_vars PROVE CallsAndPending'
  OBVIOUS
<1>1. ASSUME NEW a \in Attempts, Refuse(a) PROVE CallsAndPending'
  BY <1>1 DEF Refuse, CallsAndPending, TypeOK
<1>2. ASSUME NEW a \in Attempts, Start(a) PROVE CallsAndPending'
  BY <1>2 DEF Start, CallsAndPending, TypeOK
<1>3. ASSUME NEW a \in Attempts, DrainAndSnapshot(a) PROVE CallsAndPending'
  BY <1>3 DEF DrainAndSnapshot, CallsAndPending, TypeOK
<1>4. ASSUME NEW a \in Attempts, DrainFails(a) PROVE CallsAndPending'
  BY <1>4 DEF DrainFails, CallsAndPending, TypeOK
<1>5. ASSUME NEW a \in Attempts, TooLarge(a) PROVE CallsAndPending'
  BY <1>5 DEF TooLarge, GiveUp, CallsAndPending, TypeOK
<1>6. ASSUME NEW a \in Attempts, Ship(a) PROVE CallsAndPending'
  BY <1>6 DEF Ship, CallsAndPending, TypeOK
<1>7. ASSUME NEW a \in Attempts, NEW why, pc[a] \in {"ship", "wait"},
             RemovePending, GiveUp(a, why)
      PROVE  CallsAndPending'
  BY <1>7 DEF RemovePending, GiveUp, CallsAndPending, TypeOK
<1>8. ASSUME NEW a \in Attempts, ShipFails(a) \/ ReplyClosed(a) \/ DeadlineExpires(a)
      PROVE  CallsAndPending'
  BY <1>7, <1>8 DEF ShipFails, ReplyClosed, DeadlineExpires
<1>9. ASSUME NEW a \in Attempts, ReplyRejects(a) PROVE CallsAndPending'
  BY <1>9 DEF ReplyRejects, GiveUp, CallsAndPending, TypeOK
<1>10. ASSUME NEW a \in Attempts, Rollback(a) PROVE CallsAndPending'
  BY <1>10 DEF Rollback, CallsAndPending, TypeOK
<1>11. ASSUME NEW a \in Attempts, ReplyAcks(a) PROVE CallsAndPending'
  BY <1>11 DEF ReplyAcks, CallsAndPending, TypeOK
<1>12. ASSUME NEW a \in Attempts, DrainQueued(a) PROVE CallsAndPending'
  BY <1>12 DEF DrainQueued, CallsAndPending, TypeOK
<1>13. ASSUME NEW a \in Attempts, InstallRewrite(a) \/ Finalize(a) PROVE CallsAndPending'
  BY <1>13 DEF InstallRewrite, Finalize, CallsAndPending, TypeOK
<1>14. ASSUME NEW f \in answers, Inbound(f) PROVE CallsAndPending'
  BY <1>14 DEF Inbound, CallsAndPending, TypeOK
<1>15. ASSUME UNCHANGED <<pc, out, rx, pending>> PROVE CallsAndPending'
  BY <1>15 DEF CallsAndPending
<1>16. ASSUME NEW a \in Attempts, (\E m \in Msgs : Forward(a, m)) \/ Restore(a)
       PROVE  UNCHANGED <<pc, out, rx, pending>>
  BY <1>16 DEF Forward, Restore
<1>17. ASSUME LoseFrame \/ (\E m \in Msgs : Send(m) \/ Handle(m)) \/ UNCHANGED vars
       PROVE  UNCHANGED <<pc, out, rx, pending>>
  BY <1>17 DEF LoseFrame, Send, Handle, vars
<1> QED
  BY <1>1, <1>2, <1>3, <1>4, <1>5, <1>6, <1>8, <1>9, <1>10, <1>11, <1>12, <1>13,
     <1>14, <1>15, <1>16, <1>17 DEF Next, Attempt

(* An ack names a restored copy from the wire to the rewrite. *)
LEMMA NextAcks ==
  TypeOK /\ CallsAndPending /\ AcksNameCopies /\ [Next]_vars => AcksNameCopies'
<1> SUFFICES ASSUME TypeOK, CallsAndPending, AcksNameCopies, [Next]_vars
             PROVE  AcksNameCopies'
  OBVIOUS
<1>1. ASSUME UNCHANGED <<acked, answers, copies, rewrite>>,
             source' = "remote" => source = "remote",
             \A a \in Attempts : rx'[a] = "ack" => rx[a] = "ack",
             \A a \in Attempts : pc'[a] = "finalize" => pc[a] = "finalize"
      PROVE  AcksNameCopies'
  BY <1>1 DEF AcksNameCopies
<1>2. ASSUME NEW a \in Attempts,
             \/ Refuse(a) \/ Start(a) \/ DrainFails(a) \/ TooLarge(a)
             \/ Ship(a) \/ ReplyRejects(a) \/ Rollback(a) \/ ReplyAcks(a)
             \/ DrainQueued(a) \/ \E m \in Msgs : Forward(a, m)
      PROVE  AcksNameCopies'
  <2>1. /\ UNCHANGED <<acked, answers, copies, rewrite, rx>>
        /\ source' = "remote" => source = "remote"
    BY <1>2 DEF Refuse, Start, DrainFails, TooLarge, Ship, ReplyRejects, Rollback,
       ReplyAcks, DrainQueued, Forward
  <2>2. \A b \in Attempts : pc'[b] = "finalize" => pc[b] = "finalize"
    BY <1>2 DEF Refuse, Start, DrainFails, TooLarge, Ship, ReplyRejects, Rollback,
       ReplyAcks, DrainQueued, Forward, GiveUp, TypeOK
  <2> QED BY <1>1, <2>1, <2>2
<1>3. ASSUME NEW a \in Attempts, DrainAndSnapshot(a) PROVE AcksNameCopies'
  <2>1. /\ UNCHANGED <<acked, answers, copies, rewrite>> /\ source' = "migrating"
        /\ \A b \in Attempts : rx'[b] = "ack" => rx[b] = "ack"
        /\ \A b \in Attempts : pc'[b] = "finalize" => pc[b] = "finalize"
    BY <1>3 DEF DrainAndSnapshot, TypeOK
  <2> QED BY <1>1, <2>1
<1>4. ASSUME NEW a \in Attempts, ShipFails(a) \/ ReplyClosed(a) \/ DeadlineExpires(a)
      PROVE  AcksNameCopies'
  <2>1. /\ UNCHANGED <<acked, answers, copies, rewrite, source>>
        /\ \A b \in Attempts : rx'[b] = "ack" => rx[b] = "ack"
        /\ \A b \in Attempts : pc'[b] = "finalize" => pc[b] = "finalize"
    BY <1>4 DEF ShipFails, ReplyClosed, DeadlineExpires, RemovePending, GiveUp, TypeOK
  <2> QED BY <1>1, <2>1
<1>r. ASSUME NEW a \in Attempts, InstallRewrite(a) PROVE AcksNameCopies'
  <2>1. acked[a] \in copies
    BY <1>r DEF InstallRewrite, CallsAndPending, AcksNameCopies
  <2> QED BY <1>r, <2>1 DEF InstallRewrite, AcksNameCopies
<1>5. ASSUME NEW a \in Attempts, Finalize(a) PROVE AcksNameCopies'
  BY <1>5 DEF Finalize, AcksNameCopies, TypeOK
<1>6. ASSUME NEW a \in Attempts, Restore(a) PROVE AcksNameCopies'
  <2>1. PICK ok \in BOOLEAN :
          /\ copies' = IF ok THEN copies \cup {a} ELSE copies
          /\ answers' = answers \cup {[att |-> a, ok |-> ok]}
    BY <1>6 DEF Restore
  <2>2. \A f \in answers' : f.ok => f.att \in copies'
    BY <2>1 DEF AcksNameCopies
  <2>3. copies \subseteq copies' /\ UNCHANGED <<pc, rx, acked, source, rewrite>>
    BY <1>6, <2>1 DEF Restore
  <2> QED BY <2>2, <2>3 DEF AcksNameCopies
<1>7. ASSUME NEW f \in answers, Inbound(f) PROVE AcksNameCopies'
  <2>1. answers' \subseteq answers /\ UNCHANGED <<pc, copies, source, rewrite>>
    BY <1>7 DEF Inbound
  <2>2. ASSUME NEW a \in Attempts, rx'[a] = "ack" PROVE acked'[a] \in copies
    BY <1>7, <2>2 DEF Inbound, AcksNameCopies
  <2> QED BY <2>1, <2>2 DEF AcksNameCopies
<1>8. CASE LoseFrame
  BY <1>8 DEF LoseFrame, AcksNameCopies
<1>9. ASSUME (\E m \in Msgs : Send(m) \/ Handle(m)) \/ UNCHANGED vars
      PROVE  AcksNameCopies'
  BY <1>1, <1>9 DEF Send, Handle, vars
<1> QED
  BY <1>2, <1>3, <1>4, <1>r, <1>5, <1>6, <1>7, <1>8, <1>9 DEF Next, Attempt

(* A pause ends with the call that began it, or is taken over. *)
LEMMA NextPause == TypeOK /\ PauseHasOwner /\ [Next]_vars => PauseHasOwner'
<1> SUFFICES ASSUME TypeOK, PauseHasOwner, [Next]_vars PROVE PauseHasOwner'
  OBVIOUS
<1>1. ASSUME source' = "migrating" => source = "migrating",
             \A a \in Attempts : pc[a] \in Shipped => pc'[a] \in Shipped
      PROVE  PauseHasOwner'
  BY <1>1 DEF PauseHasOwner
<1>2. ASSUME NEW a \in Attempts,
             \/ Refuse(a) \/ Start(a) \/ DrainFails(a) \/ Ship(a) \/ ReplyAcks(a)
             \/ DrainQueued(a) \/ InstallRewrite(a)
      PROVE  PauseHasOwner'
  <2>1. source' = source /\ \A b \in Attempts : pc[b] \in Shipped => pc'[b] \in Shipped
    BY <1>2 DEF Refuse, Start, DrainFails, Ship, ReplyAcks, DrainQueued, InstallRewrite,
       Shipped, TypeOK
  <2> QED BY <1>1, <2>1
<1>3. ASSUME NEW a \in Attempts, DrainAndSnapshot(a) \/ TooLarge(a) PROVE PauseHasOwner'
  <2>1. pc'[a] \in Shipped
    BY <1>3 DEF DrainAndSnapshot, TooLarge, GiveUp, Shipped, TypeOK
  <2> QED BY <2>1 DEF PauseHasOwner
<1>4. ASSUME NEW a \in Attempts,
             ShipFails(a) \/ ReplyClosed(a) \/ DeadlineExpires(a) \/ ReplyRejects(a)
      PROVE  PauseHasOwner'
  <2>1. source' = source /\ \A b \in Attempts : pc[b] \in Shipped => pc'[b] \in Shipped
    BY <1>4 DEF ShipFails, ReplyClosed, DeadlineExpires, ReplyRejects, GiveUp, Shipped, TypeOK
  <2> QED BY <1>1, <2>1
<1>5. ASSUME NEW a \in Attempts, Rollback(a) \/ Finalize(a) PROVE PauseHasOwner'
  BY <1>5 DEF Rollback, Finalize, PauseHasOwner
<1>6. ASSUME UNCHANGED <<pc, source>> PROVE PauseHasOwner'
  BY <1>6 DEF PauseHasOwner
<1>7. ASSUME NEW a \in Attempts, (\E m \in Msgs : Forward(a, m)) \/ Restore(a)
      PROVE  UNCHANGED <<pc, source>>
  BY <1>7 DEF Forward, Restore
<1>8. ASSUME \/ LoseFrame \/ (\E m \in Msgs : Send(m) \/ Handle(m)) \/ UNCHANGED vars
             \/ \E f \in answers : Inbound(f)
      PROVE  UNCHANGED <<pc, source>>
  BY <1>8 DEF LoseFrame, Send, Handle, Inbound, vars
<1> QED
  BY <1>2, <1>3, <1>4, <1>5, <1>6, <1>7, <1>8 DEF Next, Attempt

(* Before the first call. *)
LEMMA InitIInv == Init => IInv
<1> SUFFICES ASSUME Init PROVE IInv
  OBVIOUS
<1>1. Cardinality(pending) <= 1
  BY PendingTypes DEF Init
<1> QED BY <1>1 DEF Init, IInv, TypeOK, CallsAndPending, AcksNameCopies, PauseHasOwner,
           Pcs, Ends

(* Every step keeps the invariant. *)
LEMMA NextIInv == IInv /\ [Next]_vars => IInv'
  BY NextTypeOK, NextCalls, NextAcks, NextPause DEF IInv

(* The invariant holds throughout. *)
LEMMA Invariance == Spec => []IInv
  BY InitIInv, NextIInv, PTL DEF Spec

-----------------------------------------------------------------------------
(* The metrics. *)

Active == {a \in Attempts : InProgress(a)}
DrainErrors == {a \in Attempts : out[a] = "drain_error"}

(* Sets of attempts are finite: one more, or one less, counts as such. *)
LEMMA CountOne ==
  ASSUME NEW S \in SUBSET Attempts, NEW a \in Attempts
  PROVE  /\ Cardinality(S) \in Nat
         /\ a \notin S => Cardinality(S \cup {a}) = Cardinality(S) + 1
         /\ a \in S => Cardinality(S) = Cardinality(S \ {a}) + 1
<1>1. IsFiniteSet(S)
  BY FS_Subset
<1>2. Cardinality(S) \in Nat
  BY <1>1, FS_CardinalityType
<1>3. a \notin S => Cardinality(S \cup {a}) = Cardinality(S) + 1
  BY <1>1, FS_AddElement
<1>4. a \in S => Cardinality(S \ {a}) = Cardinality(S) - 1
  BY <1>1, FS_RemoveElement
<1> QED BY <1>2, <1>3, <1>4

(* Each way out of a call moves the counters by what it takes out of the    *)
(* calls in progress.                                                       *)
LEMMA NextMetrics ==
  TypeOK /\ CallsAndPending /\ MetricsBalance /\ [Next]_vars => MetricsBalance'
<1> SUFFICES ASSUME TypeOK, CallsAndPending, MetricsBalance, [Next]_vars
             PROVE  MetricsBalance'
  OBVIOUS
<1>0. /\ metrics \in [Counters -> Nat]
      /\ Active \in SUBSET Attempts /\ DrainErrors \in SUBSET Attempts
  BY DEF TypeOK, Counters, Active, DrainErrors
<1>b. /\ metrics["started"] = metrics["completed"] + metrics["failed"] + Cardinality(Active)
      /\ metrics["failed"] = metrics["rolled_back"] + Cardinality(DrainErrors)
  BY DEF MetricsBalance, Active, DrainErrors
<1>c. ASSUME /\ metrics'["started"] = metrics'["completed"] + metrics'["failed"]
                  + Cardinality(Active')
             /\ metrics'["failed"] = metrics'["rolled_back"] + Cardinality(DrainErrors')
      PROVE  MetricsBalance'
  BY <1>c DEF MetricsBalance, Active, DrainErrors
<1>n. \A k \in Counters : metrics[k] \in Nat
  BY <1>0
<1>1. ASSUME NEW a \in Attempts, Start(a) PROVE MetricsBalance'
  <2>1. a \notin Active /\ Active' = Active \cup {a} /\ DrainErrors' = DrainErrors
    BY <1>1 DEF Start, Active, DrainErrors, InProgress, TypeOK
  <2>2. /\ metrics'["started"] = metrics["started"] + 1
        /\ metrics'["completed"] = metrics["completed"]
        /\ metrics'["failed"] = metrics["failed"]
        /\ metrics'["rolled_back"] = metrics["rolled_back"]
    BY <1>1, CountFacts DEF Start, Counters
  <2>3. Cardinality(Active \cup {a}) = Cardinality(Active) + 1 /\ Cardinality(Active) \in Nat
    BY <1>0, <2>1, CountOne
  <2> QED BY <1>b, <1>c, <1>n, <2>1, <2>2, <2>3 DEF Counters
<1>2. ASSUME NEW a \in Attempts, DrainFails(a) PROVE MetricsBalance'
  <2>1. /\ a \in Active /\ Active' = Active \ {a}
        /\ a \notin DrainErrors /\ DrainErrors' = DrainErrors \cup {a}
    BY <1>2 DEF DrainFails, Active, DrainErrors, InProgress, TypeOK, CallsAndPending
  <2>2. /\ metrics'["started"] = metrics["started"]
        /\ metrics'["completed"] = metrics["completed"]
        /\ metrics'["failed"] = metrics["failed"] + 1
        /\ metrics'["rolled_back"] = metrics["rolled_back"]
    BY <1>2, CountFacts DEF DrainFails, Counters
  <2>3. /\ Cardinality(Active) = Cardinality(Active') + 1
        /\ Cardinality(DrainErrors') = Cardinality(DrainErrors) + 1
    BY <1>0, <2>1, CountOne
  <2>4. /\ Cardinality(Active) \in Nat /\ Cardinality(Active') \in Nat
        /\ Cardinality(DrainErrors) \in Nat
    BY <1>0, <2>1, CountOne
  <2> QED BY <1>b, <1>c, <1>n, <2>2, <2>3, <2>4 DEF Counters
<1>3. ASSUME NEW a \in Attempts, Rollback(a) PROVE MetricsBalance'
  <2>1. a \in Active /\ Active' = Active \ {a} /\ DrainErrors' = DrainErrors
    BY <1>3 DEF Rollback, Active, DrainErrors, InProgress, TypeOK
  <2>2. /\ metrics'["started"] = metrics["started"]
        /\ metrics'["completed"] = metrics["completed"]
        /\ metrics'["failed"] = metrics["failed"] + 1
        /\ metrics'["rolled_back"] = metrics["rolled_back"] + 1
    BY <1>3, CountFacts DEF Rollback, Counters
  <2>3. Cardinality(Active) = Cardinality(Active') + 1
    BY <1>0, <2>1, CountOne
  <2>4. /\ Cardinality(Active) \in Nat /\ Cardinality(Active') \in Nat
        /\ Cardinality(DrainErrors) \in Nat
    BY <1>0, <2>1, CountOne
  <2> QED BY <1>b, <1>c, <1>n, <2>1, <2>2, <2>3, <2>4 DEF Counters
<1>4. ASSUME NEW a \in Attempts, Finalize(a) PROVE MetricsBalance'
  <2>1. a \in Active /\ Active' = Active \ {a} /\ DrainErrors' = DrainErrors
    BY <1>4 DEF Finalize, Active, DrainErrors, InProgress, TypeOK, CallsAndPending
  <2>2. /\ metrics'["started"] = metrics["started"]
        /\ metrics'["completed"] = metrics["completed"] + 1
        /\ metrics'["failed"] = metrics["failed"]
        /\ metrics'["rolled_back"] = metrics["rolled_back"]
    BY <1>4, CountFacts DEF Finalize, Counters
  <2>3. Cardinality(Active) = Cardinality(Active') + 1
    BY <1>0, <2>1, CountOne
  <2>4. Cardinality(Active) \in Nat /\ Cardinality(Active') \in Nat
    BY <1>0, <2>1, CountOne
  <2> QED BY <1>b, <1>c, <1>n, <2>1, <2>2, <2>3, <2>4 DEF Counters
<1>5. ASSUME metrics' = metrics, Active' = Active, DrainErrors' = DrainErrors
      PROVE  MetricsBalance'
  BY <1>b, <1>c, <1>5
<1>6. ASSUME NEW a \in Attempts,
             \/ Refuse(a) \/ DrainAndSnapshot(a) \/ Ship(a) \/ ReplyAcks(a)
             \/ DrainQueued(a) \/ TooLarge(a) \/ ShipFails(a) \/ ReplyClosed(a)
             \/ DeadlineExpires(a) \/ ReplyRejects(a) \/ InstallRewrite(a)
      PROVE  MetricsBalance'
  <2>1. metrics' = metrics
    BY <1>6 DEF Refuse, DrainAndSnapshot, Ship, ReplyAcks, DrainQueued, TooLarge,
       ShipFails, ReplyClosed, DeadlineExpires, ReplyRejects, InstallRewrite
  <2>2. out[a] # "drain_error" /\ pc[a] # "done"
    BY <1>6 DEF Refuse, DrainAndSnapshot, Ship, ReplyAcks, DrainQueued, TooLarge,
       ShipFails, ReplyClosed, DeadlineExpires, ReplyRejects, InstallRewrite,
       CallsAndPending
  <2>3. \E w : (out' = out \/ out' = [out EXCEPT ![a] = w]) /\ w # "drain_error"
    BY <1>6 DEF Refuse, DrainAndSnapshot, Ship, ReplyAcks, DrainQueued, TooLarge,
       ShipFails, ReplyClosed, DeadlineExpires, ReplyRejects, InstallRewrite, GiveUp
  <2>4. DrainErrors' = DrainErrors
    BY <2>2, <2>3 DEF DrainErrors, TypeOK
  <2>5. Active' = Active
    BY <1>6 DEF Refuse, DrainAndSnapshot, Ship, ReplyAcks, DrainQueued, TooLarge,
       ShipFails, ReplyClosed, DeadlineExpires, ReplyRejects, InstallRewrite, GiveUp, Active, InProgress,
       TypeOK
  <2> QED BY <1>5, <2>1, <2>4, <2>5
<1>7. ASSUME UNCHANGED <<pc, out, metrics>> PROVE MetricsBalance'
  BY <1>5, <1>7 DEF Active, DrainErrors, InProgress
<1>8. ASSUME NEW a \in Attempts, (\E m \in Msgs : Forward(a, m)) \/ Restore(a)
      PROVE  UNCHANGED <<pc, out, metrics>>
  BY <1>8 DEF Forward, Restore
<1>9. ASSUME \/ LoseFrame \/ (\E m \in Msgs : Send(m) \/ Handle(m)) \/ UNCHANGED vars
             \/ \E f \in answers : Inbound(f)
      PROVE  UNCHANGED <<pc, out, metrics>>
  BY <1>9 DEF LoseFrame, Send, Handle, Inbound, vars
<1> QED
  BY <1>1, <1>2, <1>3, <1>4, <1>6, <1>7, <1>8, <1>9 DEF Next, Attempt

-----------------------------------------------------------------------------
(* Calls that neither overlap nor time out. *)

(* No step makes an overlap or a deadline undone. *)
LEMMA CleanBefore ==
  ASSUME TypeOK, CallsAndPending, [Next]_vars, Clean'
  PROVE  Clean
<1>1. ASSUME overlapped PROVE overlapped'
  <2>1. ASSUME NEW a \in Attempts, Attempt(a) \/ Restore(a) PROVE overlapped'
    BY <1>1, <2>1 DEF Attempt, Refuse, Start, DrainAndSnapshot, DrainFails, TooLarge, Ship,
       ShipFails, ReplyClosed, DeadlineExpires, ReplyRejects, Rollback, ReplyAcks,
       DrainQueued, Forward, InstallRewrite, Finalize, Restore
  <2>2. ASSUME \/ LoseFrame \/ (\E m \in Msgs : Send(m) \/ Handle(m)) \/ UNCHANGED vars
               \/ \E f \in answers : Inbound(f)
        PROVE  overlapped'
    BY <1>1, <2>2 DEF LoseFrame, Send, Handle, Inbound, vars
  <2> QED BY <2>1, <2>2 DEF Next
<1>2. ASSUME NEW b \in Attempts, out[b] = "deadline" PROVE out'[b] = "deadline"
  <2>0. pc[b] \in {"undo", "done"}
    BY <1>2 DEF CallsAndPending, TypeOK
  <2>1. ASSUME NEW a \in Attempts, Attempt(a) \/ Restore(a), a # b PROVE out'[b] = out[b]
    BY <2>1 DEF Attempt, Refuse, Start, DrainAndSnapshot, DrainFails, TooLarge, Ship,
       ShipFails, ReplyClosed, DeadlineExpires, ReplyRejects, Rollback, ReplyAcks,
       DrainQueued, Forward, InstallRewrite, Finalize, Restore, GiveUp, TypeOK
  <2>2. ASSUME Attempt(b) \/ Restore(b) PROVE out'[b] = out[b]
    BY <2>0, <2>2 DEF Attempt, Refuse, Start, DrainAndSnapshot, DrainFails, TooLarge, Ship,
       ShipFails, ReplyClosed, DeadlineExpires, ReplyRejects, Rollback, ReplyAcks,
       DrainQueued, Forward, InstallRewrite, Finalize, Restore
  <2>3. ASSUME \/ LoseFrame \/ (\E m \in Msgs : Send(m) \/ Handle(m)) \/ UNCHANGED vars
               \/ \E f \in answers : Inbound(f)
        PROVE  out' = out
    BY <2>3 DEF LoseFrame, Send, Handle, Inbound, vars
  <2> QED BY <1>2, <2>1, <2>2, <2>3 DEF Next
<1> QED BY <1>1, <1>2 DEF Clean, TimedOut

(* A call starts only when no other is under way. *)
LEMMA NextOneAtATime ==
  ASSUME TypeOK, OneAtATime, [Next]_vars, Clean'
  PROVE  OneAtATime'
<1>1. ASSUME \A a \in Attempts : InProgress(a)' => InProgress(a) PROVE OneAtATime'
  BY <1>1 DEF OneAtATime
<1>2. ASSUME NEW a \in Attempts, Start(a) PROVE OneAtATime'
  <2>1. \A b \in Attempts : ~InProgress(b)
    BY <1>2 DEF Start, Clean
  <2>2. \A b \in Attempts : InProgress(b)' => b = a
    BY <1>2, <2>1 DEF Start, InProgress, TypeOK
  <2> QED BY <2>2 DEF OneAtATime
<1>3. ASSUME NEW a \in Attempts, Attempt(a), ~Start(a) PROVE OneAtATime'
  <2>1. \A b \in Attempts : InProgress(b)' => InProgress(b)
    BY <1>3 DEF Attempt, Refuse, DrainAndSnapshot, DrainFails, TooLarge, Ship,
       ShipFails, ReplyClosed, DeadlineExpires, ReplyRejects, Rollback, ReplyAcks,
       DrainQueued, Forward, InstallRewrite, Finalize, GiveUp, InProgress, TypeOK
  <2> QED BY <1>1, <2>1
<1>4. ASSUME pc' = pc PROVE OneAtATime'
  BY <1>4 DEF OneAtATime, InProgress
<1>5. ASSUME \/ LoseFrame \/ (\E m \in Msgs : Send(m) \/ Handle(m)) \/ UNCHANGED vars
             \/ (\E f \in answers : Inbound(f)) \/ \E a \in Attempts : Restore(a)
      PROVE  pc' = pc
  BY <1>5 DEF LoseFrame, Send, Handle, Inbound, Restore, vars
<1> QED BY <1>2, <1>3, <1>4, <1>5 DEF Next

(* The source is paused by a call's snapshot and resumed by its end. *)
LEMMA NextSource ==
  ASSUME TypeOK, CallsAndPending, OneAtATime, SourceFollows, [Next]_vars
  PROVE  SourceFollows'
<1> USE DEF SourceFollows, TypeOK, Shipped
<1>1. ASSUME NEW a \in Attempts, Refuse(a) \/ Start(a) \/ DrainFails(a) PROVE SourceFollows'
  BY <1>1 DEF Refuse, Start, DrainFails
<1>2. ASSUME NEW a \in Attempts, DrainAndSnapshot(a) \/ TooLarge(a) PROVE SourceFollows'
  BY <1>2 DEF DrainAndSnapshot, TooLarge, GiveUp
<1>3. ASSUME NEW a \in Attempts, Ship(a) \/ ReplyAcks(a) \/ DrainQueued(a) \/ InstallRewrite(a)
      PROVE  SourceFollows'
  BY <1>3 DEF Ship, ReplyAcks, DrainQueued, InstallRewrite
<1>4. ASSUME NEW a \in Attempts,
             ShipFails(a) \/ ReplyClosed(a) \/ DeadlineExpires(a) \/ ReplyRejects(a)
      PROVE  SourceFollows'
  BY <1>4 DEF ShipFails, ReplyClosed, DeadlineExpires, ReplyRejects, GiveUp
<1>5. ASSUME NEW a \in Attempts, Rollback(a) \/ Finalize(a) PROVE SourceFollows'
  <2>1. \A b \in Attempts : b # a => pc[b] \notin Shipped
    BY <1>5 DEF Rollback, Finalize, OneAtATime, InProgress
  <2>2. \A b \in Attempts : out[b] # "completed"
    BY <1>5 DEF Rollback, Finalize
  <2> QED BY <1>5, <2>1, <2>2 DEF Rollback, Finalize
<1>6. ASSUME UNCHANGED <<pc, out, source>> PROVE SourceFollows'
  BY <1>6
<1>7. ASSUME NEW a \in Attempts, (\E m \in Msgs : Forward(a, m)) \/ Restore(a)
      PROVE  UNCHANGED <<pc, out, source>>
  BY <1>7 DEF Forward, Restore
<1>8. ASSUME \/ LoseFrame \/ (\E m \in Msgs : Send(m) \/ Handle(m)) \/ UNCHANGED vars
             \/ \E f \in answers : Inbound(f)
      PROVE  UNCHANGED <<pc, out, source>>
  BY <1>8 DEF LoseFrame, Send, Handle, Inbound, vars
<1> HIDE DEF SourceFollows, TypeOK
<1> QED BY <1>1, <1>2, <1>3, <1>4, <1>5, <1>6, <1>7, <1>8 DEF Next, Attempt

(* The entry, if there is one, is the one call's that is under way. *)
LEMMA PendingIsTheCall ==
  ASSUME TypeOK, CallsAndPending, OneAtATime, NEW a \in Attempts, InProgress(a)
  PROVE  pending \subseteq {a}
  BY DEF TypeOK, CallsAndPending, OneAtATime, InProgress

(* A call that ends by anything but its deadline has heard its answer, or   *)
(* has put nothing on the wire.                                             *)
LEMMA NextWire ==
  ASSUME TypeOK, CallsAndPending, OneAtATime, WireIsCurrent, CopiesAreCurrent,
         [Next]_vars, Clean'
  PROVE  WireIsCurrent'
<1> USE DEF WireIsCurrent
<1>t. \A f \in answers : f.att \in Attempts /\ f.ok \in BOOLEAN /\ f = [att |-> f.att, ok |-> f.ok]
  BY DEF TypeOK
<1>1. ASSUME UNCHANGED <<ships, answers, copies>>,
             \A b \in Attempts : pc[b] = "wait" /\ rx[b] = "open"
                                   => pc'[b] = "wait" /\ rx'[b] = "open",
             \A b \in Attempts : pc'[b] = "ship" => rx'[b] = "open"
      PROVE  WireIsCurrent'
  BY <1>t, <1>1 DEF TypeOK
<1>2. ASSUME NEW a \in Attempts,
             \/ Refuse(a) \/ Start(a) \/ DrainFails(a) \/ TooLarge(a) \/ ReplyRejects(a)
             \/ Rollback(a) \/ ReplyAcks(a) \/ DrainQueued(a) \/ InstallRewrite(a)
             \/ Finalize(a) \/ \E m \in Msgs : Forward(a, m)
      PROVE  WireIsCurrent'
  <2>1. UNCHANGED <<ships, answers, copies, rx>>
    BY <1>2 DEF Refuse, Start, DrainFails, TooLarge, ReplyRejects, Rollback, ReplyAcks,
       DrainQueued, InstallRewrite, Finalize, Forward
  <2>2. \A b \in Attempts : /\ pc[b] = "wait" /\ rx[b] = "open" => pc'[b] = "wait"
                            /\ pc'[b] = "ship" => pc[b] = "ship"
    BY <1>2 DEF Refuse, Start, DrainFails, TooLarge, ReplyRejects, Rollback, ReplyAcks,
       DrainQueued, InstallRewrite, Finalize, Forward, GiveUp, TypeOK
  <2> QED BY <1>1, <2>1, <2>2
<1>3. ASSUME NEW a \in Attempts,
             DrainAndSnapshot(a) \/ ShipFails(a) \/ ReplyClosed(a)
      PROVE  WireIsCurrent'
  <2>1. InProgress(a) /\ ~(pc[a] = "wait" /\ rx[a] = "open")
    BY <1>3 DEF DrainAndSnapshot, ShipFails, ReplyClosed, InProgress
  <2>2. \A b \in Attempts : ~(pc[b] = "wait" /\ rx[b] = "open")
    BY <2>1 DEF OneAtATime, InProgress
  <2>3. UNCHANGED <<ships, answers, copies>>
    BY <1>3 DEF DrainAndSnapshot, ShipFails, ReplyClosed
  <2>4. ASSUME NEW b \in Attempts, pc'[b] = "ship" PROVE rx'[b] = "open"
    <3>1. InProgress(b)
      BY <1>3, <2>4 DEF DrainAndSnapshot, ShipFails, ReplyClosed, GiveUp, InProgress, TypeOK
    <3>2. b = a
      BY <2>1, <3>1 DEF OneAtATime
    <3> QED BY <1>3, <2>4, <3>2 DEF DrainAndSnapshot, ShipFails, ReplyClosed, GiveUp,
               CallsAndPending, TypeOK
  <2> QED BY <1>1, <2>2, <2>3, <2>4
<1>4. ASSUME NEW a \in Attempts, DeadlineExpires(a) PROVE FALSE
  BY <1>4 DEF DeadlineExpires, GiveUp, Clean, TimedOut, TypeOK
<1>5. ASSUME NEW a \in Attempts, Ship(a) PROVE WireIsCurrent'
  <2>1. /\ pc[a] = "ship" /\ pc' = [pc EXCEPT ![a] = "wait"] /\ ships' = ships \cup {a}
        /\ UNCHANGED <<rx, answers, copies>>
    BY <1>5 DEF Ship
  <2>2. a \notin copies
    BY <2>1 DEF CopiesAreCurrent, CallsAndPending
  <2>3. \A b \in Attempts : InProgress(b) => b = a
    BY <2>1 DEF OneAtATime, InProgress
  <2>4. ships = {} /\ answers = {}
    BY <1>t, <2>1, <2>3 DEF InProgress, TypeOK
  <2>5. rx[a] = "open"
    BY <2>1
  <2> QED BY <2>1, <2>2, <2>4, <2>5 DEF TypeOK
<1>6. ASSUME NEW a \in Attempts, Restore(a) PROVE WireIsCurrent'
  <2>1. PICK ok \in BOOLEAN :
          /\ copies' = IF ok THEN copies \cup {a} ELSE copies
          /\ answers' = answers \cup {[att |-> a, ok |-> ok]}
    BY <1>6 DEF Restore
  <2>2. a \in ships /\ ships' = ships \ {a} /\ UNCHANGED <<pc, rx>>
    BY <1>6 DEF Restore
  <2>3. \A f \in answers : f.att # a
    BY <2>2
  <2>4. \A b \in ships' : b # a /\ b \notin copies' /\ \A f \in answers' : f.att # b
    BY <2>1, <2>2
  <2>5. \A f \in answers' : f.ok <=> f.att \in copies'
    BY <2>1, <2>2, <2>3
  <2> QED BY <2>1, <2>2, <2>4, <2>5
<1>7. ASSUME NEW f \in answers, Inbound(f) PROVE WireIsCurrent'
  <2>1. pc[f.att] = "wait" /\ InProgress(f.att)
    BY DEF InProgress
  <2>2. \A b \in Attempts : InProgress(b) => b = f.att
    BY <1>t, <2>1 DEF OneAtATime
  <2>3. ships = {}
    BY <2>2 DEF InProgress, TypeOK
  <2>4. ASSUME NEW g \in answers PROVE g = f
    <3>1. g.att = f.att
      BY <1>t, <2>2 DEF InProgress
    <3>2. g.ok = f.ok
      BY <1>t, <3>1
    <3> QED BY <1>t, <3>1, <3>2
  <2>5. answers' = {} /\ ships' = {}
    BY <1>7, <2>3, <2>4 DEF Inbound
  <2>6. \A b \in Attempts : pc'[b] # "ship"
    BY <1>7, <2>1, <2>2 DEF Inbound, InProgress
  <2> QED BY <2>5, <2>6
<1>8. CASE LoseFrame
  BY <1>8 DEF LoseFrame
<1>9. ASSUME (\E m \in Msgs : Send(m) \/ Handle(m)) \/ UNCHANGED vars
      PROVE  WireIsCurrent'
  BY <1>1, <1>9 DEF Send, Handle, vars
<1> HIDE DEF WireIsCurrent
<1> QED BY <1>2, <1>3, <1>4, <1>5, <1>6, <1>7, <1>8, <1>9 DEF Next, Attempt

(* A copy is its own call's: the waiting one's, or the completed one's. *)
LEMMA NextCopies ==
  ASSUME TypeOK, CallsAndPending, OneAtATime, SourceFollows, WireIsCurrent,
         CopiesAreCurrent, [Next]_vars, Clean'
  PROVE  CopiesAreCurrent'
<1>1. ASSUME NEW a \in Attempts,
             Refuse(a) \/ Start(a) \/ DrainFails(a) \/ TooLarge(a) \/ Ship(a) \/ Rollback(a)
      PROVE  CopiesAreCurrent'
  <2>1. a \notin copies /\ UNCHANGED <<copies, rx, acked>>
    BY <1>1 DEF Refuse, Start, DrainFails, TooLarge, Ship, Rollback, CopiesAreCurrent,
       SourceFollows, CallsAndPending, TypeOK
  <2>2. \A b \in Attempts : b # a => pc'[b] = pc[b] /\ out'[b] = out[b]
    BY <1>1 DEF Refuse, Start, DrainFails, TooLarge, Ship, Rollback, GiveUp, TypeOK
  <2> QED BY <2>1, <2>2 DEF CopiesAreCurrent
<1>2. ASSUME NEW a \in Attempts, ReplyRejects(a) PROVE CopiesAreCurrent'
  <2>1. a \notin copies
    BY <1>2 DEF ReplyRejects, CopiesAreCurrent, CallsAndPending
  <2> QED BY <1>2, <2>1 DEF ReplyRejects, GiveUp, CopiesAreCurrent, TypeOK
<1>3. ASSUME NEW a \in Attempts, DrainAndSnapshot(a) \/ ShipFails(a) \/ ReplyClosed(a)
      PROVE  CopiesAreCurrent'
  <2>1. a \notin copies
    BY <1>3 DEF DrainAndSnapshot, ShipFails, ReplyClosed, CopiesAreCurrent, CallsAndPending
  <2>2. InProgress(a)
    BY <1>3 DEF DrainAndSnapshot, ShipFails, ReplyClosed, InProgress
  <2>3. \A b \in Attempts : b # a => pc'[b] = pc[b] /\ out'[b] = out[b] /\ rx'[b] = rx[b]
    BY <1>3, <2>2, PendingIsTheCall
    DEF DrainAndSnapshot, ShipFails, ReplyClosed, RemovePending, GiveUp, TypeOK
  <2>4. rx'[a] = "ack" => rx[a] = "ack"
    BY <1>3 DEF DrainAndSnapshot, ShipFails, ReplyClosed, RemovePending
  <2>5. UNCHANGED <<copies, acked>>
    BY <1>3 DEF DrainAndSnapshot, ShipFails, ReplyClosed
  <2> QED BY <2>1, <2>3, <2>4, <2>5 DEF CopiesAreCurrent
<1>4. ASSUME NEW a \in Attempts, DeadlineExpires(a) PROVE FALSE
  BY <1>4 DEF DeadlineExpires, GiveUp, Clean, TimedOut, TypeOK
<1>5. ASSUME NEW a \in Attempts, ReplyAcks(a) \/ DrainQueued(a) PROVE CopiesAreCurrent'
  BY <1>5 DEF ReplyAcks, DrainQueued, CopiesAreCurrent, TypeOK
<1>6. ASSUME NEW a \in Attempts, InstallRewrite(a) \/ Finalize(a) PROVE CopiesAreCurrent'
  BY <1>6 DEF InstallRewrite, Finalize, CopiesAreCurrent, TypeOK
<1>7. ASSUME NEW a \in Attempts, Restore(a) PROVE CopiesAreCurrent'
  <2>1. pc[a] = "wait" /\ rx[a] = "open" /\ UNCHANGED <<pc, rx, out, acked>>
    BY <1>7 DEF Restore, WireIsCurrent
  <2>2. copies' \subseteq copies \cup {a}
    BY <1>7 DEF Restore
  <2> QED BY <2>1, <2>2 DEF CopiesAreCurrent
<1>8. ASSUME NEW f \in answers, Inbound(f) PROVE CopiesAreCurrent'
  <2>1. f.att \in Attempts /\ f.ok \in BOOLEAN
    BY DEF TypeOK
  <2>2. InProgress(f.att) /\ pc[f.att] = "wait" /\ (f.ok <=> f.att \in copies)
    BY DEF WireIsCurrent, InProgress
  <2>3. pending \subseteq {f.att}
    BY <2>1, <2>2, PendingIsTheCall
  <2>4. UNCHANGED <<pc, out, copies>>
    BY <1>8 DEF Inbound
  <2>5. ASSUME NEW b \in Attempts, b \notin pending PROVE rx'[b] = rx[b] /\ acked'[b] = acked[b]
    BY <1>8, <2>5 DEF Inbound
  <2>6. ASSUME NEW b \in Attempts, b \in pending
        PROVE  /\ rx'[b] = IF f.ok THEN "ack" ELSE "err"
               /\ f.ok => acked'[b] = f.att
               /\ b = f.att
    BY <1>8, <2>3, <2>6 DEF Inbound
  <2> QED BY <2>1, <2>2, <2>4, <2>5, <2>6 DEF CopiesAreCurrent
<1>9. ASSUME UNCHANGED <<pc, out, rx, acked, copies>> PROVE CopiesAreCurrent'
  BY <1>9 DEF CopiesAreCurrent
<1>10. ASSUME \/ LoseFrame \/ (\E m \in Msgs : Send(m) \/ Handle(m)) \/ UNCHANGED vars
              \/ \E a \in Attempts, m \in Msgs : Forward(a, m)
       PROVE  UNCHANGED <<pc, out, rx, acked, copies>>
  BY <1>10 DEF LoseFrame, Send, Handle, Forward, vars
<1> QED
  BY <1>1, <1>2, <1>3, <1>4, <1>5, <1>6, <1>7, <1>8, <1>9, <1>10 DEF Next, Attempt

(* The source handles nothing between a call's snapshot and its end. *)
LEMMA NextState ==
  ASSUME TypeOK, CallsAndPending, OneAtATime, SourceFollows, CopiesAreCurrent,
         StateMoves, [Next]_vars, Clean'
  PROVE  StateMoves'
<1>1. ASSUME Handled' \subseteq Handled, UNCHANGED <<snap, rewrite>>,
             source' = "remote" => source = "remote",
             \A a \in Attempts : pc'[a] \in {"ship", "wait", "drain", "forward"}
                                   => pc[a] \in {"ship", "wait", "drain", "forward"},
             \A a \in Attempts : pc'[a] = "finalize" => pc[a] = "finalize"
      PROVE  StateMoves'
  BY <1>1 DEF StateMoves
<1>2. ASSUME NEW a \in Attempts,
             \/ Refuse(a) \/ Start(a) \/ DrainFails(a) \/ TooLarge(a) \/ Ship(a) \/ ShipFails(a)
             \/ ReplyClosed(a) \/ DeadlineExpires(a) \/ ReplyRejects(a) \/ Rollback(a)
             \/ ReplyAcks(a)
      PROVE  StateMoves'
  <2>1. /\ UNCHANGED <<mail, snap, rewrite>>
        /\ source' = "remote" => source = "remote"
    BY <1>2 DEF Refuse, Start, DrainFails, TooLarge, Ship, ShipFails, ReplyClosed,
       DeadlineExpires, ReplyRejects, Rollback, ReplyAcks
  <2>2. \A b \in Attempts : pc'[b] \in {"ship", "wait", "drain", "forward"}
                             => pc[b] \in {"ship", "wait", "drain", "forward"}
    BY <1>2 DEF Refuse, Start, DrainFails, TooLarge, Ship, ShipFails, ReplyClosed,
       DeadlineExpires, ReplyRejects, Rollback, ReplyAcks, GiveUp, TypeOK
  <2>3. Handled' = Handled
    BY <2>1 DEF Handled
  <2>4. \A b \in Attempts : pc'[b] = "finalize" => pc[b] = "finalize"
    BY <1>2 DEF Refuse, Start, DrainFails, TooLarge, Ship, ShipFails, ReplyClosed,
       DeadlineExpires, ReplyRejects, Rollback, ReplyAcks, GiveUp, TypeOK
  <2> QED BY <1>1, <2>1, <2>2, <2>3, <2>4
<1>3. ASSUME NEW a \in Attempts, DrainAndSnapshot(a) PROVE StateMoves'
  <2>1. /\ source' = "migrating" /\ snap' = [snap EXCEPT ![a] = Handled]
        /\ pc[a] = "snapshot" /\ pc' = [pc EXCEPT ![a] = "ship"] /\ UNCHANGED mail
    BY <1>3 DEF DrainAndSnapshot
  <2>2. Handled' = Handled
    BY <2>1 DEF Handled
  <2>3. \A b \in Attempts : pc'[b] # "finalize"
    BY <2>1 DEF OneAtATime, InProgress, TypeOK
  <2> QED BY <2>1, <2>2, <2>3 DEF StateMoves, TypeOK
<1>4. ASSUME NEW a \in Attempts, DrainQueued(a) PROVE StateMoves'
  <2>1. Handled' \subseteq Handled
    BY <1>4 DEF DrainQueued, Handled, TypeOK
  <2>2. /\ pc[a] = "drain" /\ pc' = [pc EXCEPT ![a] = "forward"]
        /\ UNCHANGED <<snap, rewrite, source>>
    BY <1>4 DEF DrainQueued
  <2> QED BY <1>1, <2>1, <2>2 DEF TypeOK
<1>5. ASSUME NEW a \in Attempts, NEW m \in Msgs, Forward(a, m) PROVE StateMoves'
  <2>1. Handled' \subseteq Handled
    BY <1>5 DEF Forward, Handled, TypeOK
  <2> QED BY <1>1, <1>5, <2>1 DEF Forward
<1>r. ASSUME NEW a \in Attempts, InstallRewrite(a) PROVE StateMoves'
  <2>1. /\ pc[a] = "forward" /\ rewrite' = acked[a] /\ pc' = [pc EXCEPT ![a] = "finalize"]
        /\ UNCHANGED <<mail, snap, source>>
    BY <1>r DEF InstallRewrite
  <2>2. acked[a] = a
    BY <2>1 DEF CallsAndPending, CopiesAreCurrent
  <2>3. Handled \subseteq snap[a] /\ Handled' = Handled
    BY <2>1 DEF StateMoves, Handled
  <2> QED BY <2>1, <2>2, <2>3 DEF StateMoves, TypeOK
<1>6. ASSUME NEW a \in Attempts, Finalize(a) PROVE StateMoves'
  <2>1. /\ pc[a] = "finalize" /\ pc' = [pc EXCEPT ![a] = "done"]
        /\ UNCHANGED <<mail, snap, rewrite>>
    BY <1>6 DEF Finalize
  <2>2. Handled' = Handled
    BY <2>1 DEF Handled
  <2> QED BY <2>1, <2>2 DEF StateMoves, TypeOK
<1>7. ASSUME NEW m \in Msgs, Send(m) PROVE StateMoves'
  <2>1. Handled' \subseteq Handled
    BY <1>7 DEF Send, Handled, TypeOK
  <2> QED BY <1>1, <1>7, <2>1 DEF Send
<1>8. ASSUME NEW m \in Msgs, Handle(m) PROVE StateMoves'
  <2>1. source = "running" /\ UNCHANGED <<source, pc>>
    BY <1>8 DEF Handle
  <2>2. \A a \in Attempts : pc[a] \notin Shipped
    BY <2>1 DEF SourceFollows
  <2> QED BY <2>1, <2>2 DEF StateMoves, Shipped
<1>9. ASSUME UNCHANGED <<pc, source, snap, rewrite, mail>> PROVE StateMoves'
  BY <1>9 DEF StateMoves, Handled
<1>10. ASSUME \/ LoseFrame \/ UNCHANGED vars
              \/ (\E f \in answers : Inbound(f)) \/ \E a \in Attempts : Restore(a)
       PROVE  UNCHANGED <<pc, source, snap, rewrite, mail>>
  BY <1>10 DEF LoseFrame, Inbound, Restore, vars
<1> QED
  BY <1>2, <1>3, <1>4, <1>5, <1>r, <1>6, <1>7, <1>8, <1>9, <1>10 DEF Next, Attempt

(* The invariant of serial calls holds throughout. *)
LEMMA SerialInvariance == Spec => []SerialInv
<1>1. Init => SerialInv
  BY DEF Init, SerialInv, SerialState, OneAtATime, SourceFollows, WireIsCurrent,
     CopiesAreCurrent, StateMoves, InProgress, Handled, Shipped
<1>2. IInv /\ SerialInv /\ [Next]_vars => SerialInv'
  <2> SUFFICES ASSUME IInv, SerialInv, [Next]_vars, Clean' PROVE SerialState'
    BY DEF SerialInv
  <2>1. SerialState
    BY CleanBefore DEF IInv, SerialInv
  <2> QED BY <2>1, NextOneAtATime, NextSource, NextWire, NextCopies, NextState
          DEF IInv, SerialState
<1> QED BY Invariance, <1>1, <1>2, PTL DEF Spec

-----------------------------------------------------------------------------
(* The theorems. *)

(* The calls, the wire, the mail and the metrics keep their shape, and the  *)
(* pending map has at most one entry for the agent.                         *)
THEOREM TypeCorrect == Spec => []TypeOK
<1>1. IInv => TypeOK
  BY DEF IInv
<1> QED BY Invariance, <1>1, PTL

(* The agent is dispatched on its source, or a call will end its pause, or  *)
(* the routing rewrite points to a restored copy.                           *)
THEOREM NeverNowhere == Spec => []AgentIsSomewhere
<1>1. IInv => AgentIsSomewhere
  BY DEF IInv, AcksNameCopies, PauseHasOwner, Shipped, InProgress, AgentIsSomewhere
<1> QED BY Invariance, <1>1, PTL

(* A call that waits with an open channel owns the agent's pending entry,   *)
(* and the last call to return leaves none behind.                          *)
THEOREM PendingIsServed == Spec => []PendingServesCalls
<1>1. IInv => PendingServesCalls
  BY DEF IInv, TypeOK, CallsAndPending, InProgress, PendingServesCalls
<1> QED BY Invariance, <1>1, PTL

(* On every way out of migrate_agent the metrics count the call once. *)
THEOREM MetricsAddUp == Spec => []MetricsBalance
<1>1. Init => MetricsBalance
  <2> SUFFICES ASSUME Init PROVE MetricsBalance
    OBVIOUS
  <2>1. Active = {} /\ DrainErrors = {}
    BY DEF Init, Active, DrainErrors, InProgress
  <2>2. Cardinality(Active) = 0 /\ Cardinality(DrainErrors) = 0
    BY <2>1, FS_EmptySet
  <2>3. \A k \in Counters : metrics[k] = 0
    BY DEF Init, Counters
  <2>4. /\ metrics["started"] = metrics["completed"] + metrics["failed"] + Cardinality(Active)
        /\ metrics["failed"] = metrics["rolled_back"] + Cardinality(DrainErrors)
    BY <2>2, <2>3 DEF Counters
  <2> QED BY <2>4 DEF MetricsBalance, Active, DrainErrors
<1>2. IInv /\ MetricsBalance /\ [Next]_vars => MetricsBalance'
  BY NextMetrics DEF IInv
<1> QED BY Invariance, <1>1, <1>2, PTL DEF Spec

(* Calls that do not overlap and do not time out never leave the agent      *)
(* running on its source and on a target, and move it with all its state.   *)
THEOREM SerialMovesClean == Spec => []SerialInTimeIsClean
<1>1. IInv /\ SerialInv => SerialInTimeIsClean
  <2> DEFINE NotTwice == source = "running" => copies = {}
             Whole == source = "remote" => Handled \subseteq snap[rewrite]
  <2>1. ASSUME IInv, SerialState PROVE NotTwice /\ Whole
    <3>1. ASSUME NEW a \in copies PROVE source # "running"
      BY <2>1, <3>1 DEF IInv, TypeOK, SerialState, CopiesAreCurrent, SourceFollows, Shipped
    <3> QED BY <2>1, <3>1 DEF SerialState, StateMoves
  <2>2. SerialInTimeIsClean <=> (Clean => NotTwice /\ Whole)
    BY DEF SerialInTimeIsClean, Clean
  <2> HIDE DEF NotTwice, Whole
  <2> QED BY <2>1, <2>2 DEF SerialInv
<1> QED BY Invariance, SerialInvariance, <1>1, PTL
=============================================================================
