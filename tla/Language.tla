------------------------------ MODULE Language ------------------------------
(***************************************************************************)
(* What the statements and calls of CSpydr mean, as the C back end fixes   *)
(* it: c_gen_stmt turns every statement into C's own, so that break,       *)
(* continue and return leave exactly their loop, iteration or function,    *)
(* every invocation has variables of its own, a block's locals start at    *)
(* zero, and operands are evaluated in any order.                          *)
(*                                                                         *)
(* A run keeps `code', what is left to do: a sequence of tasks whose head  *)
(* is the next one.  A task is a statement or expression to be evaluated,  *)
(* a value just computed (which the task behind it consumes), or the rest  *)
(* of a construct already begun.  Arithmetic is abstracted: an operator    *)
(* applied to its operands yields any value.                               *)
(***************************************************************************)
EXTENDS Syntax

CONSTANTS Values,     \* what a variable can hold, 0 is falsy
          Programs,   \* program: [function name -> [args, locals, body]]
          Main        \* the entry point, ast->entry_point

VARIABLES program,    \* the checked syntax tree
          code,       \* what is left to do
          frames      \* the variables of every invocation, innermost last

vars == <<program, code, frames>>

-----------------------------------------------------------------------------
Layout(fn) == program[fn].args \o program[fn].locals

\* The task that ends an invocation whose body did not return.
Leave == [op |-> "leave"]

\* Does a case `mode w' of a match take the value v?
Takes(mode, w, v) == CASE mode = "==" -> w = v
                       [] mode = "!=" -> w # v
                       [] mode = "<"  -> w < v
                       [] mode = "<=" -> w <= v
                       [] mode = ">"  -> w > v
                       [] mode = ">=" -> w >= v

\* What follows the body of a loop: its step, if it has one, and its test.
NextRound(s) ==
  IF s.kind = "for" /\ s.step # Absent
    THEN <<Expr(s.step), Drop, Iterate(s)>>
    ELSE <<Iterate(s)>>

-----------------------------------------------------------------------------
\* The head of the code is a statement, an expression or a task of this kind.
AtStmt(kinds) == code # <<>> /\ Head(code).op = "stmt" /\ Head(code).s.kind \in kinds
AtExpr(kinds) == code # <<>> /\ Head(code).op = "expr" /\ Head(code).e.kind \in kinds
At(op)        == code # <<>> /\ Head(code).op = op

\* A value has been computed for a task of this kind.
Given(op) == Len(code) > 1 /\ Head(code).op = "value" /\ code[2].op = op

\* Put these tasks in the place of the head, or of the value and its consumer.
Becomes(tasks)      == code' = tasks \o Tail(code) /\ UNCHANGED program
GivenBecomes(tasks) == code' = tasks \o SubSeq(code, 3, Len(code)) /\ UNCHANGED program

Here == Last(frames)

Init == /\ program \in Programs
        /\ code = <<Stmt(program[Main].body), Leave>>
        /\ frames = <<[o \in ToSet(Layout(Main)) |-> 0]>>

Noop == AtStmt({"noop", "none"}) /\ Becomes(<<>>) /\ UNCHANGED frames

\* The locals of a block are declared, and zeroed, where the block begins.
Block == /\ AtStmt({"block"})
         /\ Becomes(<<Rest(Head(code).s.stmts)>>)
         /\ frames' = Front(frames) \o
                        <<[o \in DOMAIN Here |->
                            IF o \in Head(code).s.locals THEN 0 ELSE Here[o]]>>

NextStmt == /\ At("rest")
            /\ LET stmts == Head(code).stmts
               IN Becomes(IF stmts = <<>> THEN <<>>
                                          ELSE <<Stmt(Head(stmts)), Rest(Tail(stmts))>>)
            /\ UNCHANGED frames

ExprStmt == /\ AtStmt({"expr"})
            /\ Becomes(<<Expr(Head(code).s.e), Drop>>)
            /\ UNCHANGED frames

Dropped == Given("drop") /\ GivenBecomes(<<>>) /\ UNCHANGED frames

ReturnStmt == /\ AtStmt({"return"})
              /\ LET e == Head(code).s.e
                 IN Becomes(<<IF e = Absent THEN Value(0) ELSE Expr(e), Return>>)
              /\ UNCHANGED frames

\* A return leaves its function, whatever blocks and loops are around it.
Returns == /\ Given("return")
           /\ code' = <<Head(code)>> \o Beyond(code, {"leave"})
           /\ frames' = Front(frames)
           /\ UNCHANGED program

\* The function ends without a return.
FallsOff == At("leave") /\ Becomes(<<Value(0)>>) /\ frames' = Front(frames)

If == /\ AtStmt({"if"})
      /\ LET s == Head(code).s
         IN Becomes(<<Expr(s.cond), Choice(Stmt(s.yes), Stmt(s.no))>>)
      /\ UNCHANGED frames

\* do ... unless evaluates its condition first.
DoUnless == /\ AtStmt({"unless"})
            /\ LET s == Head(code).s
               IN Becomes(<<Expr(s.cond), Choice(Stmt(Nothing), Stmt(s.body))>>)
            /\ UNCHANGED frames

Branch == /\ Given("branch")
          /\ GivenBecomes(<<IF Head(code).v = 0 THEN code[2].no ELSE code[2].yes>>)
          /\ UNCHANGED frames

Loop == /\ AtStmt(Loops)
        /\ Becomes(FirstRound(Head(code).s))
        /\ UNCHANGED frames

LoopHead == /\ At("head")
            /\ LET s == Head(code).s
               IN Becomes(IF s.cond = Absent THEN Round(s)
                          ELSE <<Expr(s.cond), Test(s)>>)
            /\ UNCHANGED frames

LoopTest == /\ Given("test")
            /\ GivenBecomes(IF Head(code).v = 0 THEN <<>> ELSE Round(code[2].s))
            /\ UNCHANGED frames

BodyDone == At("again") /\ Becomes(NextRound(Head(code).s)) /\ UNCHANGED frames

Break == /\ AtStmt({"break"})
         /\ code' = Beyond(code, {"again"})
         /\ UNCHANGED <<program, frames>>

Continue == /\ AtStmt({"continue"})
            /\ code' = SubSeq(code, FirstOf(code, {"again"}), Len(code))
            /\ UNCHANGED <<program, frames>>

Match == /\ AtStmt({"match"})
         /\ Becomes(<<Expr(Head(code).s.cond), [op |-> "match", s |-> Head(code).s]>>)
         /\ UNCHANGED frames

Matched == /\ Given("match")
           /\ GivenBecomes(<<Cases(code[2].s, Head(code).v, 1)>>)
           /\ UNCHANGED frames

\* The cases are tried in the order of the source.
TryCase == /\ At("cases")
           /\ LET t == Head(code)
              IN Becomes(IF t.i <= Len(t.s.cases)
                           THEN <<Expr(t.s.cases[t.i].cond), [t EXCEPT !.op = "case"]>>
                         ELSE IF t.s.default # Absent
                           THEN <<Stmt(t.s.default)>> ELSE <<>>)
           /\ UNCHANGED frames

CaseTried == /\ Given("case")
             /\ LET t == code[2]  c == t.s.cases[t.i]
                IN GivenBecomes(IF Takes(c.mode, Head(code).v, t.v)
                                  THEN <<Stmt(c.body)>>
                                  ELSE <<Cases(t.s, t.v, t.i + 1)>>)
             /\ UNCHANGED frames

-----------------------------------------------------------------------------
Variable == /\ AtExpr({"id"})
            /\ Becomes(<<Value(Here[Head(code).e.obj])>>)
            /\ UNCHANGED frames

AndOr == /\ AtExpr({"and", "or"})
         /\ Becomes(<<Expr(Head(code).e.left), RightSide(Head(code).e)>>)
         /\ UNCHANGED frames

\* The right side is evaluated only if the left one leaves the value open.
Short == /\ Given("short")
         /\ GivenBecomes(IF (Head(code).v = 0) = (code[2].e.kind = "and")
                           THEN <<Head(code)>> ELSE <<Expr(code[2].e.right)>>)
         /\ UNCHANGED frames

Ternary == /\ AtExpr({"ternary"})
           /\ LET e == Head(code).e
              IN Becomes(<<Expr(e.cond), Choice(Expr(e.yes), Expr(e.no))>>)
           /\ UNCHANGED frames

Assign == /\ AtExpr({"assign"})
          /\ LET e == Head(code).e
             IN Becomes(<<Expr(e.right), [op |-> "store", obj |-> e.obj]>>)
          /\ UNCHANGED frames

Store == /\ Given("store")
         /\ GivenBecomes(<<Head(code)>>)
         /\ frames' = Front(frames) \o <<[Here EXCEPT ![code[2].obj] = Head(code).v]>>

\* All operands have been evaluated: an operator yields some value, a call
\* enters the function with its arguments in variables of its own; `behind' is
\* the code that waits for the value.
Apply(e, got, behind) ==
  \/ /\ e.kind = "op"
     /\ \E v \in Values : code' = <<Value(v)>> \o behind
     /\ UNCHANGED <<program, frames>>
  \/ /\ e.kind = "call"
     /\ code' = <<Stmt(program[e.fn].body), Leave>> \o behind
     /\ UNCHANGED program
     /\ LET args == program[e.fn].args
        IN frames' = Append(frames,
             [o \in ToSet(Layout(e.fn)) |->
               IF o \in ToSet(args) THEN got[SelectInSeq(args, LAMBDA a : a = o)] ELSE 0])

\* An operator or a call: its operands are evaluated first, in any order.
Operands ==
  /\ AtExpr({"op", "call"})
  /\ LET e == Head(code).e
     IN IF e.args = <<>>
          THEN Apply(e, <<>>, Tail(code))
          ELSE /\ \E i \in DOMAIN e.args : Becomes(<<Expr(e.args[i]), Operand(e, <<>>, i)>>)
               /\ UNCHANGED frames

OperandDone ==
  /\ Given("operand")
  /\ LET e    == code[2].e
         got  == [i \in DOMAIN code[2].got \union {code[2].i} |->
                    IF i = code[2].i THEN Head(code).v ELSE code[2].got[i]]
         left == DOMAIN e.args \ DOMAIN got
     IN IF left = {}
          THEN Apply(e, got, SubSeq(code, 3, Len(code)))
          ELSE /\ \E i \in left : GivenBecomes(<<Expr(e.args[i]), Operand(e, got, i)>>)
               /\ UNCHANGED frames

Next == \/ Noop \/ Block \/ NextStmt \/ ExprStmt \/ Dropped
        \/ ReturnStmt \/ Returns \/ FallsOff
        \/ If \/ DoUnless \/ Branch
        \/ Loop \/ LoopHead \/ LoopTest \/ BodyDone \/ Break \/ Continue
        \/ Match \/ Matched \/ TryCase \/ CaseTried
        \/ Variable \/ AndOr \/ Short \/ Ternary \/ Assign \/ Store
        \/ Operands \/ OperandDone

Spec == Init /\ [][Next]_vars
=============================================================================
