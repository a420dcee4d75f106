------------------------------- MODULE Syntax --------------------------------
(***************************************************************************)
(* The statements and expressions of the checked tree, as records whose    *)
(* field kind is the ASTNodeKind_T, and the tasks an evaluation of the     *)
(* tree is made of: see modules Language and Interpreter.                  *)
(***************************************************************************)
EXTENDS Integers, Sequences, SequencesExt

\* A child the parser left NULL, and the empty statement.
Absent  == [kind |-> "none"]
Nothing == [kind |-> "noop"]

Loops == {"loop", "while", "dowhile", "for"}

\* What remains of an evaluation: a statement, an expression, a value for the
\* task behind it, ...
Stmt(s)  == [op |-> "stmt", s |-> s]
Expr(e)  == [op |-> "expr", e |-> e]
Value(v) == [op |-> "value", v |-> v]

\* ... the rest of a block, the head of a loop, what follows a loop's body,
\* the decision on a loop's condition, ...
Rest(stmts) == [op |-> "rest", stmts |-> stmts]
Iterate(s)  == [op |-> "head", s |-> s]
Again(s)    == [op |-> "again", s |-> s]
Test(s)     == [op |-> "test", s |-> s]

\* ... the choice between two tasks, the right side of an and or an or, ...
Choice(yes, no) == [op |-> "branch", yes |-> yes, no |-> no]
RightSide(e)    == [op |-> "short", e |-> e]

\* ... the cases of a match from the i-th on, the use of the i-th operand
\* when those in got are known, and the end of a statement or a return.
Cases(s, v, i)     == [op |-> "cases", s |-> s, v |-> v, i |-> i]
Operand(e, got, i) == [op |-> "operand", e |-> e, got |-> got, i |-> i]
Drop               == [op |-> "drop"]
Return             == [op |-> "return"]

\* Evaluate the body of a loop once more, then see.
Round(s) == <<Stmt(s.body), Again(s)>>

\* How a loop starts.
FirstRound(s) ==
  CASE s.kind = "dowhile" -> Round(s)
    [] s.kind = "for" /\ s.init # Absent -> <<Stmt(s.init), Iterate(s)>>
    [] OTHER -> <<Iterate(s)>>

\* The place of the first task of these kinds, 0 if there is none.
FirstOf(tasks, ops) == SelectInSeq(tasks, LAMBDA t : t.op \in ops)

\* The tasks behind it.
Beyond(tasks, ops) == SubSeq(tasks, FirstOf(tasks, ops) + 1, Len(tasks))
=============================================================================
