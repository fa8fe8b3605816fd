--------------------------- MODULE MCBorrowCheck ----------------------------
(* Bodies over an owner x with fields, an owner y, a Copy local u that       *)
(* starts without a value, and the references r and m.                       *)
EXTENDS BorrowCheck

Owner(x) == Let(x, Literal, FALSE)

\* Moves, assignments and branches; no references.
Simple == {Path("x", None), Path("x", "f"), Move("x", None), Move("x", "f"),
           Assign("x", Literal), Path("u", None), Assign("u", Literal),
           Assign("u", Move("x", None))}
Small == {Path("x", None), Move("x", None), Assign("x", Literal),
          Path("u", None), Assign("u", Literal)}
Branching == {If(<<a>>, b) : a \in Small, b \in {<<>>} \cup {<<c>> : c \in Small}}
             \cup {Match(<<a, b>>) : a, b \in {Move("x", None), Assign("x", Literal),
                                              Assign("u", Literal)}}
             \cup {Loop(<<a>>) : a \in Small}
             \cup {Loop(<<Move("x", None), Assign("x", Literal)>>)}
MoveKit == [prologue |-> <<Owner("x"), Let("u", NoInit, TRUE)>>,
            stmts |-> Simple \cup Branching, len |-> 3]

\* Straight lines, blocks and loops; r and m borrow x, its fields and z.
Lends(x) == {Borrow(k, x, f) : k \in {"shared", "mut"}, f \in {None, "f"}}
LoanStmts ==
  {Let("m", b, FALSE) : b \in Lends("x") \cup {Borrow("mut", "x", "g")}}
  \cup {Assign("r", b) : b \in Lends("x")}
  \cup {Path("r", None), Path("m", None), Path("x", None), Move("x", None)}
  \cup {Block(<<Owner("z"), Assign("r", Borrow("shared", "z", None))>>),
        Block(<<Let("n", Borrow("mut", "x", None), FALSE), Path("n", None)>>)}
  \cup {Loop(<<Path("r", None)>>), Loop(<<Path("r", None), Move("x", None)>>)}
LoanPrologue == <<Owner("x"), Owner("y"), Let("r", Borrow("shared", "y", None), FALSE)>>
LoanKit == [prologue |-> LoanPrologue, stmts |-> LoanStmts, len |-> 4]

Checked == <<MoveKit, LoanKit>>

\* A borrow taken on one branch only.
BranchKit ==
  [prologue |-> LoanPrologue,
   stmts |-> {If(<<Assign("r", Borrow("shared", "x", None))>>, <<>>),
              Move("x", None), Path("r", None)},
   len |-> 3]
Branches == <<BranchKit>>
=============================================================================
