---------------------------- MODULE TraceChecks ----------------------------
(***************************************************************************)
(* What is asked of a recorded trace: that it is consistent in itself      *)
(* (Replayer::verify_self_consistent), and, of a replay that has ended,    *)
(* how it compares with the events recorded while it was re-executed       *)
(* (compare_streams).  TraceReplay is the runtime that produces the two.   *)
(***************************************************************************)
EXTENDS Naturals, FiniteSets, Sequences

VARIABLES phase,      \* "record", "replay" or "done"
          handle,     \* the agent handles the clients hold; in a replay, the
                      \* driver's, by the recorded id
          buffer,     \* Recorder::buffer of the installed recorder
          recorded,   \* the events of the trace file
          early       \* the places, in the recording, of the messages that were
                      \* sent to an agent before its spawn was recorded

(* The events a replay may lack: an agent's end is a race.                   *)
Soft == {"BudgetExhausted", "Exit"}

(* compare_streams.                                                          *)

MapId(id) == IF id \in DOMAIN handle THEN handle[id] ELSE id

EventsMatch(rec, rep) ==
  /\ rec.kind = rep.kind /\ rec.what = rep.what /\ rec.arg = rep.arg /\ rec.n = rep.n
  /\ rec.kind # "Spawn" => MapId(rec.agent) = rep.agent

(* Mutant: each search starts from the first replayed event again.           *)
CompareOneRestarts(acc, rec) ==
  LET found == {j \in 1..Len(buffer) : EventsMatch(rec, buffer[j])} IN
  IF found # {} THEN [acc EXCEPT !.idx = 1 + CHOOSE j \in found : \A k \in found : j <= k]
  ELSE IF rec.kind \in Soft THEN acc
  ELSE [idx |-> IF acc.idx > Len(buffer) THEN acc.idx ELSE acc.idx + 1,
        mismatches |-> acc.mismatches + 1]

(* One recorded event against the replayed ones from idx on.                 *)
CompareOne(acc, rec) ==
  LET found == {j \in acc.idx..Len(buffer) : EventsMatch(rec, buffer[j])} IN
  IF found # {} THEN [acc EXCEPT !.idx = 1 + CHOOSE j \in found : \A k \in found : j <= k]
  ELSE IF rec.kind \in Soft THEN acc
  ELSE [idx |-> IF acc.idx > Len(buffer) THEN acc.idx ELSE acc.idx + 1,
        mismatches |-> acc.mismatches + 1]

Mismatches ==
  LET walk[i \in 0..Len(recorded)] ==
        IF i = 0 THEN [idx |-> 1, mismatches |-> 0]
        ELSE CompareOne(walk[i - 1], recorded[i])
  IN walk[Len(recorded)].mismatches

-----------------------------------------------------------------------------
(* Replayer::verify_self_consistent: one event, and the trace.               *)
Accepts(t, i) ==
  t[i].kind # "Spawn" =>
    /\ \E j \in 1..(i - 1) : t[j].kind = "Spawn" /\ t[j].agent = t[i].agent
    /\ t[i].kind = "MessageHandled" =>
         t[i].n = Cardinality({j \in 1..(i - 1) :
                       t[j].kind = "MessageHandled" /\ t[j].agent = t[i].agent})

VerifySelfConsistent(t) == \A i \in DOMAIN t : Accepts(t, i)

(* However the clients and the agents interleave, and wherever the shutdown  *)
(* cuts the recording off, the events the replayer rejects are the messages  *)
(* sent by address in the window between an agent's entry in the registry    *)
(* and the record of its spawn, and no others: the turns are numbered in     *)
(* order, and nothing else comes before its spawn.  A replay, which sends to *)
(* agents it has spawned, records a trace that is accepted.                  *)
TraceVerifies ==
  /\ \A i \in DOMAIN buffer : Accepts(buffer, i) <=> ~(phase = "record" /\ i \in early)
  /\ \A i \in DOMAIN recorded : Accepts(recorded, i) <=> i \notin early

(* From the places at which the events before e may end, those at which e    *)
(* may: any later place of t that has such an event.                         *)
EndsAfter(ends, e, t, skip) ==
  {p[2] : p \in {q \in ends \X (1..Len(t)) : q[1] < q[2] /\ EventsMatch(e, t[q[2]])}}
    \cup (IF e.kind \in skip THEN ends ELSE {})

(* The events of s occur in t in order, but for those of the kinds in skip,   *)
(* which may or may not.                                                     *)
Embeds(s, t, skip) ==
  LET ends[i \in 0..Len(s)] ==
        IF i = 0 THEN {0} ELSE EndsAfter(ends[i - 1], s[i], t, skip)
  IN ends[Len(s)] # {}

(* The greedy walk of compare_streams decides what it stands for: it reports *)
(* no mismatch if the whole recording occurs in the replay in order, and     *)
(* only if all of it but the lifecycle events does.                          *)
CleanReportIsOrdered ==
  phase = "done" =>
    /\ Embeds(recorded, buffer, {}) => Mismatches = 0
    /\ Mismatches = 0 => Embeds(recorded, buffer, Soft)
=============================================================================
