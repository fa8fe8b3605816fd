----------------------------- MODULE BorrowFlow -----------------------------
(* The borrow checker of mty-borrow as operators on a function body:        *)
(* places, the borrow ledger, the last-use pre-pass, and the walker that     *)
(* carries ownership states and the ledger over the typed HIR and collects   *)
(* diagnostics.  A body is a sequence of statements; an expression is a      *)
(* record whose field k is its kind.  Expressions the walker treats alike    *)
(* are one kind: "all" reads its parts in order (tuples, arrays, structs,    *)
(* maps, operators, calls by value), "loop" is every loop.                   *)
EXTENDS Integers, FiniteSets, SequencesExt

None == "none"    \* no field, or no borrower

\* Expressions and statements.
Path(x, f) == [k |-> "path", x |-> x, f |-> f]
Literal == [k |-> "all", es |-> <<>>]
All(es) == [k |-> "all", es |-> es]
Borrow(kind, x, f) == [k |-> "borrow", kind |-> kind, x |-> x, f |-> f]
Move(x, f) == [k |-> "move", x |-> x, f |-> f]
Assign(x, e) == [k |-> "assign", x |-> x, e |-> e]
Block(ss) == [k |-> "block", ss |-> ss]
If(then, else) == [k |-> "if", then |-> then, else |-> else]
Match(arms) == [k |-> "match", arms |-> arms]
Loop(ss) == [k |-> "loop", ss |-> ss]
Let(x, init, copy) == [k |-> "let", x |-> x, init |-> init, copy |-> copy]
NoInit == [k |-> "noinit"]

-----------------------------------------------------------------------------
(* Places, truncated to one projection: [x |-> root, f |-> field or None].   *)

Place(x, f) == [x |-> x, f |-> f]
Overlaps(p, q) == p.x = q.x /\ (p.f = q.f \/ p.f = None \/ q.f = None)

-----------------------------------------------------------------------------
(* The pre-pass: one point per path read, in source order.                   *)

RECURSIVE PathsOf(_)
PathsOfAll(es) == FoldLeft(LAMBDA ps, e : ps \o PathsOf(e), << >>, es)
PathsOf(e) ==
  CASE e.k \in {"path", "borrow", "move"} -> <<e.x>>
    [] e.k = "all" -> PathsOfAll(e.es)
    [] e.k = "assign" -> <<e.x>> \o PathsOf(e.e)
    [] e.k \in {"block", "loop"} -> PathsOfAll(e.ss)
    [] e.k = "if" -> PathsOfAll(e.then) \o PathsOfAll(e.else)
    [] e.k = "match" -> PathsOfAll(e.arms)
    [] e.k = "let" -> PathsOf(e.init)
    [] e.k = "noinit" -> <<>>

\* Mutant: a local's borrows end at its first use.
FirstUse(body) ==
  LET ps == PathsOfAll(body) IN
  [x \in ToSet(ps) |-> Min({i \in DOMAIN ps : ps[i] = x}) - 1]

ComputeLastUse(body) ==
  LET ps == PathsOfAll(body) IN
  [x \in ToSet(ps) |-> Max({i \in DOMAIN ps : ps[i] = x}) - 1]

-----------------------------------------------------------------------------
(* The context: locals (an ownership state each), the stack of scopes, the   *)
(* ledger, the number of paths walked, the binding a borrow would be held    *)
(* by, and the codes of the diagnostics.                                     *)

Owned == [o |-> "owned", n |-> 0]
Moved == [o |-> "moved", n |-> 0]
Uninit == [o |-> "uninit", n |-> 0]
BorrowedMut == [o |-> "mut", n |-> 1]
Borrowed(n) == [o |-> "shared", n |-> n]

NewCx(body) == [locals |-> [x \in {} |-> Owned], scopes |-> << >>, ledger |-> << >>,
                point |-> 0, pending |-> None, diags |-> {},
                last |-> ComputeLastUse(body)]

Report(cx, code) == [cx EXCEPT !.diags = @ \cup {code}]
Known(cx, x) == x \in DOMAIN cx.locals
State(cx, x) == cx.locals[x].st
SetState(cx, x, st) == [cx EXCEPT !.locals[x].st = st]

\* Mutant: a local stays usable when only one side moved it.
JoinStateLoosely(a, b) == IF a.o = "moved" THEN b ELSE a

JoinState(a, b) ==
  CASE "moved" \in {a.o, b.o} -> Moved
    [] "moved" \notin {a.o, b.o} /\ "uninit" \in {a.o, b.o} -> Uninit
    [] {"moved", "uninit"} \cap {a.o, b.o} = {} /\ "mut" \in {a.o, b.o} -> BorrowedMut
    [] a.o = "shared" /\ b.o = "shared" -> Borrowed(Max({a.n, b.n}))
    [] OTHER -> a

JoinLocals(a, b) ==
  [x \in DOMAIN a \cup DOMAIN b |->
     CASE x \notin DOMAIN a -> b[x]
       [] x \notin DOMAIN b -> a[x]
       [] OTHER -> [a[x] EXCEPT !.st = JoinState(a[x].st, b[x].st)]]

JoinLedgers(a, b) ==
  FoldLeft(LAMBDA out, r : IF r \in ToSet(out) THEN out ELSE Append(out, r),
           << >>, a \o b)

Recompute(cx, x) ==
  LET held == SelectSeq(cx.ledger, LAMBDA r : r.p.x = x) IN
  IF ~Known(cx, x) \/ State(cx, x).o \in {"moved", "uninit"} THEN cx
  ELSE SetState(cx, x, CASE \E r \in ToSet(held) : r.kind = "mut" -> BorrowedMut
                         [] held = << >> -> Owned
                         [] OTHER -> Borrowed(Len(held)))

\* decay_borrower, decay_borrowers, and the recomputation of the roots.
Decay(cx, names) ==
  LET gone == SelectSeq(cx.ledger, LAMBDA r : r.by \in names)
      left == [cx EXCEPT !.ledger = SelectSeq(@, LAMBDA r : r.by \notin names)]
  IN FoldLeft(LAMBDA c, r : Recompute(c, r.p.x), left, gone)

-----------------------------------------------------------------------------
(* Scopes.                                                                   *)

PushFrame(cx) == [cx EXCEPT !.scopes = Append(@, {})]

\* A borrow whose owner departs and whose borrower stays is reported; then the
\* borrows of the departing locals end, and so do those of the departed.
PopFrame(cx) ==
  LET names == Last(cx.scopes)
      outlives == \E r \in ToSet(cx.ledger) :
                    r.p.x \in names /\ r.by \notin names \cup {None}
      told == IF outlives THEN Report(cx, "MT3007") ELSE cx
      decayed == Decay(told, names)
  IN [decayed EXCEPT
        !.scopes = Front(@),
        !.ledger = SelectSeq(@, LAMBDA r : r.p.x \notin names),
        !.locals = [x \in DOMAIN @ \ names |-> @[x]]]

BindLocal(cx, x, copy, st) ==
  [cx EXCEPT !.locals = [y \in DOMAIN @ \cup {x} |->
                           IF y = x THEN [copy |-> copy, st |-> st] ELSE @[y]],
             !.scopes[Len(cx.scopes)] = @ \cup {x}]

-----------------------------------------------------------------------------
(* What a path does to its root, by position.                                *)

Advance(cx) == [cx EXCEPT !.point = @ + 1]

\* At the last use of a local, the borrows it holds end.
MaybeDecay(cx, x) ==
  IF x \in DOMAIN cx.last /\ cx.point - 1 >= cx.last[x] THEN Decay(cx, {x}) ELSE cx

DoUse(cx, x) ==
  CASE State(cx, x) = Moved -> Report(cx, "MT3001")
    [] State(cx, x) = Uninit -> Report(cx, "MT3015")
    [] OTHER -> cx

DoMove(cx, x) ==
  LET onPart == \E r \in ToSet(cx.ledger) : r.p.x = x /\ r.p.f # None
      onRoot == \E r \in ToSet(cx.ledger) : r.p = Place(x, None)
      st == State(cx, x)
      told == IF onPart THEN Report(cx, "MT3002") ELSE cx
  IN CASE st.o \in {"moved", "uninit"} -> DoUse(cx, x)
       [] st.o \in {"shared", "mut"} ->
            Report(cx, IF onPart /\ ~onRoot THEN "MT3002" ELSE "MT3008")
       [] st.o = "owned" -> IF cx.locals[x].copy THEN told ELSE SetState(told, x, Moved)

\* Mutant: a second assignment does not give a moved local a value again.
DoAssignOnce(cx, x) == IF State(cx, x) = Uninit THEN SetState(cx, x, Owned) ELSE cx

\* Every local of a body is mutable here, so MT3013 and MT3014 do not arise.
DoAssign(cx, x) == SetState(cx, x, Owned)

Conflicts(cx, p, kind) ==
  \E r \in ToSet(cx.ledger) : Overlaps(r.p, p) /\ "mut" \in {kind, r.kind}

\* The three conflict codes (MT3004, MT3005, MT3006) are one.
TryPlaceBorrow(cx, p, kind) ==
  LET told == IF Conflicts(cx, p, kind) THEN Report(cx, "MT3004") ELSE cx
      held == [told EXCEPT !.ledger = Append(@, [p |-> p, kind |-> kind, by |-> cx.pending])]
      st == State(cx, p.x)
  IN CASE st = Moved -> Report(cx, "MT3003")
       [] st = Uninit -> Report(cx, "MT3015")
       [] st = Owned /\ kind = "mut" -> SetState(held, p.x, BorrowedMut)
       [] st.o \in {"owned", "shared"} /\ kind = "shared" ->
            SetState(held, p.x, Borrowed(st.n + 1))
       [] OTHER -> held

-----------------------------------------------------------------------------
(* The walker.                                                               *)

RECURSIVE Walk(_, _)
WalkAll(cx, es) == FoldLeft(Walk, cx, es)
WalkBlock(cx, ss) == PopFrame(WalkAll(PushFrame(cx), ss))

\* Both sides start from the same locals and ledger; points and diagnostics
\* go on.
Rewind(cx, to) == [cx EXCEPT !.locals = to.locals, !.ledger = to.ledger]
Join(a, b) == [b EXCEPT !.locals = JoinLocals(a.locals, b.locals),
                        !.ledger = JoinLedgers(a.ledger, b.ledger)]

LoopCap == 16

RECURSIVE LoopPass(_, _, _, _)
\* One more pass over the body, joined with the state before the loop, until
\* the ledger's length stays the same or the cap is reached.
LoopPass(pre, cx, ss, i) ==
  LET post == Join(pre, WalkBlock(cx, ss)) IN
  IF Len(post.ledger) = Len(cx.ledger) \/ i = LoopCap + 1 THEN post
  ELSE LoopPass(pre, post, ss, i + 1)

LoopFixedPoint(cx, ss) == LoopPass(cx, cx, ss, 1)

\* The state of the else branch is the first of the join.
WalkIf(cx, e) ==
  LET then == WalkBlock(cx, e.then)
      else == WalkBlock(Rewind(then, cx), e.else)
  IN [Join(else, then) EXCEPT !.point = else.point, !.diags = else.diags]

\* Every arm starts from the scrutinee's state, in a frame of its own.
WalkMatch(cx, arms) ==
  LET Arm(acc, a) == WalkBlock(Rewind(acc, cx), <<a>>) IN
  IF arms = << >> THEN cx
  ELSE FoldLeft(LAMBDA acc, a : Join(acc, Arm(acc, a)), Arm(cx, Head(arms)), Tail(arms))

WalkPath(cx, e) ==
  LET c == Advance(cx)
  IN IF Known(c, e.x) THEN MaybeDecay(DoUse(c, e.x), e.x) ELSE c

WalkMove(cx, e) ==
  LET c == Advance(cx)
  IN IF Known(c, e.x) THEN MaybeDecay(DoMove(c, e.x), e.x) ELSE c

\* The borrow comes first; the path inside it is then walked for its point.
WalkBorrow(cx, e) ==
  IF Known(cx, e.x)
  THEN MaybeDecay(Advance(TryPlaceBorrow(cx, Place(e.x, e.f), e.kind)), e.x)
  ELSE Advance(cx)

\* The target is assigned before the right-hand side is walked, which borrows
\* on the target's behalf.
WalkAssign(cx, e) ==
  LET c == Advance(cx)
      set == IF Known(c, e.x) THEN MaybeDecay(DoAssign(c, e.x), e.x) ELSE c
      rhs == Walk([set EXCEPT !.pending = e.x], e.e)
  IN [rhs EXCEPT !.pending = cx.pending]

\* Without an initialiser the type is taken for unit, which is Copy.
WalkLet(cx, e) ==
  IF e.init = NoInit THEN BindLocal(cx, e.x, TRUE, Uninit)
  ELSE LET c == Walk([cx EXCEPT !.pending = e.x], e.init)
       IN BindLocal([c EXCEPT !.pending = cx.pending], e.x, e.copy, Owned)

Walk(cx, e) ==
  CASE e.k = "path" -> WalkPath(cx, e)
    [] e.k = "move" -> WalkMove(cx, e)
    [] e.k = "borrow" -> WalkBorrow(cx, e)
    [] e.k = "assign" -> WalkAssign(cx, e)
    [] e.k = "all" -> WalkAll(cx, e.es)
    [] e.k = "block" -> WalkBlock(cx, e.ss)
    [] e.k = "if" -> WalkIf(cx, e)
    [] e.k = "match" -> WalkMatch(cx, e.arms)
    [] e.k = "loop" -> LoopFixedPoint(cx, e.ss)
    [] e.k = "let" -> WalkLet(cx, e)

\* check_fn_body: the frame of the parameters, and the body's own.
CheckFnBody(body) == PopFrame(WalkBlock(PushFrame(NewCx(body)), body)).diags

=============================================================================
