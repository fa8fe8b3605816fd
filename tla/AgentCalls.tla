----------------------------- MODULE AgentCalls -----------------------------
(***************************************************************************)
(* What a caller of an agent may rely on, without mailboxes, threads or    *)
(* cancellation: the caller of `send' or `ask' gets at most one answer; an *)
(* `ok' means the message's effect on the agent's state is there; an       *)
(* answer that says the message was refused, was discarded or failed means *)
(* the effect is not there and never will be; only a call that was         *)
(* cancelled, or that gave up at its deadline, or that never asked for an  *)
(* answer, leaves that open.  Effects are never undone.                    *)
(***************************************************************************)


CONSTANTS Msgs

VARIABLES out,      \* out[m]: what the caller of m was told
          applied   \* the messages whose effect is in the agent's state

\* Answers that promise the message has no effect, now or later.
NoEffect == {"notfound", "full", "closed", "error", "panic"}
Answers == NoEffect \cup {"ok", "cancelled", "deadline", "sent"}

Init ==
  /\ out = [m \in Msgs |-> "none"]
  /\ applied = {}

Apply(m) ==
  /\ m \notin applied /\ out[m] \notin NoEffect
  /\ applied' = applied \cup {m}
  /\ UNCHANGED out

Answer(m, a) ==
  /\ out[m] = "none"
  /\ a = "ok" => m \in applied
  /\ a \in NoEffect => m \notin applied
  /\ out' = [out EXCEPT ![m] = a]
  /\ UNCHANGED applied

Next == \E m \in Msgs : Apply(m) \/ \E a \in Answers : Answer(m, a)

Spec == Init /\ [][Next]_<<out, applied>>
=============================================================================
