---------------------------- MODULE BorrowCheck -----------------------------
(* The borrow checker against what running a body does.  A function body is  *)
(* written statement by statement, and checked after each; Outcomes is the   *)
(* reference: every way the body can run, a branch or a loop going either    *)
(* way, with what goes wrong on the way: whether it does so on a later turn  *)
(* of a loop than the first is told apart, since the checker, which walks a  *)
(* loop until its ledger stops growing, mostly walks it once.                *)
EXTENDS BorrowFlow

CONSTANTS Kits,   \* a sequence of [prologue, stmts, len]: how bodies start and go on
          Turns   \* how often a loop may go round

ASSUME TurnsAssumption == Turns \in Nat

-----------------------------------------------------------------------------
(* Running a body.  A local is live, moved or not yet initialised; a         *)
(* reference is on loan from a place, and broken once that place has been    *)
(* moved, has left its scope or was lent again in conflict.                  *)

NoLoan == [p |-> Place(None, None), kind |-> None]
Value(copy, loan) == [is |-> "live", copy |-> copy, loan |-> loan, broken |-> FALSE]
NoValue(copy) == [Value(copy, NoLoan) EXCEPT !.is = "uninit"]

ValueOf(e, copy) ==
  Value(copy, IF e.k = "borrow" THEN [p |-> Place(e.x, e.f), kind |-> e.kind] ELSE NoLoan)

Touch(run, x) ==
  LET v == run.vals[x] IN
  [run EXCEPT !.wrong = @ \cup {[what |-> w, later |-> run.later] :
                                  w \in {v.is} \cup (IF v.broken THEN {"broken"} ELSE {})}]

Break(run, loans(_)) ==
  [run EXCEPT !.vals = [x \in DOMAIN @ |-> [@[x] EXCEPT !.broken = @ \/ loans(run.vals[x].loan)]]]

MoveOut(run, x) ==
  IF run.vals[x].copy THEN run
  ELSE LET out == Break(run, LAMBDA l : l.p.x = x)
       IN [out EXCEPT !.vals[x].is = "moved"]

Lend(run, p, kind) ==
  Break(run, LAMBDA l : Overlaps(l.p, p) /\ "mut" \in {kind, l.kind})

Put(run, x, v) ==
  [run EXCEPT !.vals = [y \in DOMAIN @ \cup {x} |-> IF y = x THEN v ELSE @[y]]]

\* What leaves its scope is gone, and so is what was on loan from it.
Leave(run, names) ==
  LET out == Break(run, LAMBDA l : l.p.x \in names)
  IN [out EXCEPT !.vals = [x \in DOMAIN @ \ names |-> @[x]]]

RECURSIVE Run(_, _)
RunAll(run, es) ==
  FoldLeft(LAMBDA runs, e : UNION {Run(r, e) : r \in runs}, {run}, es)
RunBlock(run, ss) ==
  {Leave(r, DOMAIN r.vals \ DOMAIN run.vals) : r \in RunAll(run, ss)}

\* No turn, or one and then, over the back-edge, later ones.
RECURSIVE RunLoop(_, _, _)
RunLoop(run, ss, n) ==
  {run} \cup IF n = 0 THEN {}
             ELSE UNION {RunLoop([r EXCEPT !.later = TRUE], ss, n - 1) : r \in RunBlock(run, ss)}

Run(run, e) ==
  CASE e.k = "path" -> {Touch(run, e.x)}
    [] e.k = "move" -> {MoveOut(Touch(run, e.x), e.x)}
    [] e.k = "borrow" -> {Lend(Touch(run, e.x), Place(e.x, e.f), e.kind)}
    [] e.k = "assign" -> {Put(r, e.x, ValueOf(e.e, r.vals[e.x].copy)) : r \in Run(run, e.e)}
    [] e.k = "all" -> RunAll(run, e.es)
    [] e.k = "block" -> RunBlock(run, e.ss)
    [] e.k = "if" -> RunBlock(run, e.then) \cup RunBlock(run, e.else)
    [] e.k = "match" -> UNION {RunBlock(run, <<a>>) : a \in ToSet(e.arms)}
    [] e.k = "loop" -> {[r EXCEPT !.later = run.later] : r \in RunLoop(run, e.ss, Turns)}
    [] e.k = "let" -> IF e.init = NoInit THEN {Put(run, e.x, NoValue(e.copy))}
                      ELSE {Put(r, e.x, ValueOf(e.init, e.copy)) : r \in Run(run, e.init)}

Start == [vals |-> [x \in {} |-> NoValue(FALSE)], wrong |-> {}, later |-> FALSE]

\* What goes wrong in some run of the body: at once, or on a later turn of a loop.
Outcomes(body) == UNION {{w \in r.wrong : w.what # "live"} : r \in RunAll(Start, body)}
AtOnce(body) == {w.what : w \in {v \in Outcomes(body) : ~v.later}}
Ever(body) == {w.what : w \in Outcomes(body)}

-----------------------------------------------------------------------------
(* Writing and checking a body.                                              *)

VARIABLES kit, body, diags
vars == <<kit, body, diags>>

RECURSIVE LetsOf(_)
LetsOf(e) ==
  CASE e.k = "let" -> {e.x}
    [] e.k \in {"block", "loop"} -> UNION {LetsOf(s) : s \in ToSet(e.ss)}
    [] OTHER -> {}

\* Name resolution: a statement uses names in scope.
Resolves(s) ==
  ToSet(PathsOf(s)) \subseteq LetsOf(s) \cup UNION {LetsOf(t) : t \in {u \in ToSet(body) : u.k = "let"}}

Init ==
  /\ kit \in DOMAIN Kits
  /\ body = Kits[kit].prologue
  /\ diags = CheckFnBody(body)

Write(s) ==
  /\ Len(body) < Len(Kits[kit].prologue) + Kits[kit].len
  /\ Resolves(s)
  /\ body' = Append(body, s)
  /\ diags' = CheckFnBody(body')
  /\ UNCHANGED kit

Next == \E s \in Kits[kit].stmts : Write(s)
Spec == Init /\ [][Next]_vars

-----------------------------------------------------------------------------
\* A body the checker accepts never reads or moves a local that has no value
\* yet, and does so to a local that was moved only on a later turn of a loop,
\* never on its first or outside of it, whichever way its branches go and
\* however often its loops go round (do_use, do_move, join_states,
\* loop_fixed_point).
MovesAreTracked ==
  diags = {} => "moved" \notin AtOnce(body) /\ "uninit" \notin Ever(body)

\* A body the checker accepts never uses a reference whose owner was moved or
\* left its scope, or whose place was lent again in conflict since, except on a
\* later turn of a loop (try_place_borrow, maybe_decay_after_use, pop_frame).
LoansAreHonoured ==
  diags = {} => "broken" \notin AtOnce(body)

\* A report of a use after a move, or before a value, is about a body that can
\* run into one.
AlarmsAreReal ==
  diags \cap {"MT3001", "MT3003", "MT3015"} # {}
    => Ever(body) \cap {"moved", "uninit"} # {}
=============================================================================
