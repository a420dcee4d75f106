---------------------------- MODULE Interpreter -----------------------------
(***************************************************************************)
(* The tree-walking interpreter (-b interpreter, and the evaluation of     *)
(* constant expressions): eval_stmt, interpreter_eval_expr and call_fn of  *)
(* interpreter.c over one stack of bytes.                                  *)
(*                                                                         *)
(* `agenda' is the C call stack of the tree walk, as tasks of module       *)
(* Language: what each activation of eval_stmt, interpreter_eval_expr and  *)
(* call_fn will do when it is resumed.  A jump is not taken by leaving     *)
(* these functions: it sets one of the flags broken, continued, returned,  *)
(* which blocks and loops look at.  A variable is found at the offset its  *)
(* ASTObj_T holds, which every call of its function overwrites.  One slot  *)
(* of the stack stands for the bytes of one object.                        *)
(***************************************************************************)
EXTENDS Syntax

CONSTANTS Values, Programs, Main,
          WellBehaved, \* programs that keep clear of the disagreements listed in the README
          MaxDepth,    \* MAX_RECURSION_DEPTH
          MaxFrame,    \* slots the largest function takes: bounds the model, as MaxStack
          MaxStack,    \* slots the stack may grow to: bounds the model, realloc is not refused
          Trees,       \* the statements and expressions the tree of each program is made of
          StartFlags   \* what the memory of the uninitialised flags may hold

ASSUME ZeroAssumption == 0 \in Values
ASSUME WellBehavedAssumption == WellBehaved \subseteq Programs
ASSUME FlagsAssumption == StartFlags \subseteq BOOLEAN

\* The arguments and locals of the functions of a program.
Objects(p) == UNION {ToSet(p[f].args \o p[f].locals) : f \in DOMAIN p}

\* What the parser puts into a node: children, which may be absent, objects
\* that were declared and functions that exist.
WellFormed(t, p) ==
  LET T == Trees[p]
  IN CASE t.kind = "block"             -> t.stmts \in Seq(T) /\ t.locals \subseteq Objects(p)
       [] t.kind \in {"expr", "return"} -> t.e \in T
       [] t.kind \in {"if", "ternary"}  -> {t.cond, t.yes, t.no} \subseteq T
       [] t.kind = "unless"            -> {t.cond, t.body} \subseteq T
       [] t.kind = "for"               -> {t.init, t.cond, t.step, t.body} \subseteq T
       [] t.kind \in Loops \ {"for"}    -> {t.cond, t.body} \subseteq T
       [] t.kind = "match"             -> /\ {t.cond, t.default} \subseteq T
                                          /\ t.cases \in Seq(ToSet(t.cases))
                                          /\ \A c \in ToSet(t.cases) : {c.cond, c.body} \subseteq T
       [] t.kind \in {"and", "or"}      -> {t.left, t.right} \subseteq T
       [] t.kind = "id"                -> t.obj \in Objects(p)
       [] t.kind = "assign"            -> t.obj \in Objects(p) /\ t.right \in T
       [] t.kind = "op"                -> t.args \in Seq(T)
       [] t.kind = "call"              -> t.args \in Seq(T) /\ t.fn \in DOMAIN p
       [] OTHER                        -> TRUE

ASSUME TreesAssumption ==
  \A p \in Programs :
    /\ Main \in DOMAIN p
    /\ \A f \in DOMAIN p : /\ p[f].body \in Trees[p]
                           /\ p[f].args \in Seq(Objects(p)) /\ p[f].locals \in Seq(Objects(p))
    /\ {Absent, Nothing} \subseteq Trees[p]
    /\ \A t \in Trees[p] : WellFormed(t, p)

\* The model's stack has room for as many frames as there can be.
ASSUME StackAssumption ==
  /\ MaxDepth \in Nat \ {0} /\ MaxFrame \in Nat /\ MaxStack \in Nat
  /\ \A p \in Programs : \A f \in DOMAIN p : 2 * Len(p[f].args) + Len(p[f].locals) <= MaxFrame
  /\ 2 + MaxDepth * MaxFrame <= MaxStack + 1

VARIABLES program,     \* ictx->ast
          agenda,      \* the activations of the tree walk, innermost first
          broken, continued, returned,
          return_value,
          recursion_depth,
          offset,      \* the offset field of every object
          mem,         \* stack->data
          size,        \* stack->size
          status,      \* running, panicked (throw_error left the pass) or crashed (SIGSEGV)
          unset        \* history: locals not assigned since their block began, per invocation

flags == <<broken, continued, returned, return_value>>
stack == <<offset, mem, size>>
vars  == <<program, agenda, flags, stack, recursion_depth, status, unset>>

-----------------------------------------------------------------------------
\* The activations of call_fn among the last n tasks, the outermost first.
LeavesFrom(tasks) ==
  LET from[n \in 0 .. Len(tasks)] ==
        IF n = 0 THEN <<>>
        ELSE LET t == tasks[Len(tasks) + 1 - n]
             IN IF t.op = "leave" THEN Append(from[n - 1], t) ELSE from[n - 1]
  IN from
Leaves(tasks) == LeavesFrom(tasks)[Len(tasks)]

\* The invocations under way.
Invocations == Leaves(agenda)

Layout(fn) == program[fn].args \o program[fn].locals

Place(fn, o) == (CHOOSE i \in DOMAIN Layout(fn) : Layout(fn)[i] = o) - 1

StoredVariables ==
  [k \in DOMAIN Invocations |->
    [o \in ToSet(Layout(Invocations[k].fn)) |->
      IF o \in unset[k] THEN 0 ELSE mem[Invocations[k].base + Place(Invocations[k].fn, o)]]]

\* The innermost invocation has evaluated the expression of its return.
Leaving ==
  LET next == FirstOf(agenda, {"return", "leave"})
  IN returned /\ ~(next # 0 /\ agenda[next].op = "return")

\* What is really left to do once the flags have unwound the agenda.
Unwound ==
  LET loop == FirstOf(agenda, {"again", "leave"})
      body == FirstOf(agenda, {"again", "test", "leave"})
  IN CASE Leaving -> <<[op |-> "value", v |-> return_value]>>
                        \o Beyond(agenda, {"leave"})
       [] ~Leaving /\ broken /\ loop # 0 /\ agenda[loop].op = "again" ->
             SubSeq(agenda, loop + 1, Len(agenda))
       [] ~Leaving /\ ~broken /\ continued /\ body # 0 /\ agenda[body].op = "again" ->
             SubSeq(agenda, body, Len(agenda))
       [] OTHER -> agenda

\* Tasks without what only the interpreter keeps in them.
Plain(t) == CASE t.op = "store" -> [op |-> "store", obj |-> t.obj]
              [] t.op = "leave" -> [op |-> "leave"]
              [] OTHER -> t

Semantics == INSTANCE Language WITH
  code   <- [i \in DOMAIN Unwound |-> Plain(Unwound[i])],
  frames <- IF Leaving THEN Front(StoredVariables) ELSE StoredVariables

-----------------------------------------------------------------------------
Leave(fn, base) == [op |-> "leave", fn |-> fn, base |-> base]

Running == status = "running" /\ agenda # <<>>
AtStmt(kinds) == Running /\ Head(agenda).op = "stmt" /\ Head(agenda).s.kind \in kinds
AtExpr(kinds) == Running /\ Head(agenda).op = "expr" /\ Head(agenda).e.kind \in kinds
At(op)        == Running /\ Head(agenda).op = op
Given(op)     == status = "running" /\ Len(agenda) > 1
                   /\ Head(agenda).op = "value" /\ agenda[2].op = op

Becomes(tasks)      == agenda' = tasks \o Tail(agenda)
GivenBecomes(tasks) == agenda' = tasks \o SubSeq(agenda, 3, Len(agenda))

Calm == UNCHANGED <<flags, stack, recursion_depth, status, unset, program>>

\* A call writes the arguments, then grows by the whole frame once more.
FrameSize(fn) == 2 * Len(program[fn].args) + Len(program[fn].locals)

\* The offsets call_fn gives to the objects of fn when the stack has `base' slots.
Offsets(fn, base) ==
  [o \in DOMAIN offset |->
    IF o \in ToSet(Layout(fn)) THEN base + Place(fn, o) ELSE offset[o]]

Written(args, base) ==
  [a \in DOMAIN mem |-> IF a \in base .. base + Len(args) - 1 THEN args[a - base + 1] ELSE mem[a]]

\* call_fn up to eval_stmt(fn->body); `behind' is the agenda of the caller.
CallFn(fn, args, behind) ==
  /\ recursion_depth' = recursion_depth + 1
  /\ IF recursion_depth + 1 > MaxDepth
       THEN status' = "panicked" /\ UNCHANGED <<agenda, stack, unset>>
       ELSE /\ offset' = Offsets(fn, size)
            /\ mem' = Written(args, size)
            /\ size' = size + FrameSize(fn)
            /\ agenda' = <<Stmt(program[fn].body), Leave(fn, size)>> \o behind
            /\ unset' = Append(unset, ToSet(program[fn].locals))
            /\ UNCHANGED status
  /\ UNCHANGED <<flags, program>>

\* init_interpreter_context sets broken only; main is called on a stack of two bytes.
Init ==
  /\ program \in Programs
  /\ broken = FALSE
  /\ continued \in StartFlags
  /\ returned \in StartFlags
  /\ return_value = 0
  /\ recursion_depth = 1
  /\ \E stale \in Values : mem = [a \in 0 .. MaxStack |-> stale]
  /\ offset = [o \in UNION {ToSet(Layout(f)) : f \in DOMAIN program} |->
                IF o \in ToSet(Layout(Main)) THEN 2 + Place(Main, o) ELSE 0]
  /\ size = 2 + FrameSize(Main)
  /\ agenda = <<Stmt(program[Main].body), Leave(Main, 2)>>
  /\ status = "running"
  /\ unset = <<ToSet(program[Main].locals)>>

-----------------------------------------------------------------------------
\* A statement or expression the tree does not have is dereferenced.
NullNode == /\ AtStmt({"none"}) \/ AtExpr({"none"})
            /\ status' = "crashed"
            /\ UNCHANGED <<agenda, flags, stack, recursion_depth, unset, program>>

Noop == AtStmt({"noop"}) /\ Becomes(<<>>) /\ Calm

\* The locals of a block keep what an earlier call left in their bytes.
Block == /\ AtStmt({"block"})
         /\ Becomes(<<Rest(Head(agenda).s.stmts)>>)
         /\ unset' = Front(unset) \o <<Last(unset) \union Head(agenda).s.locals>>
         /\ UNCHANGED <<flags, stack, recursion_depth, status, program>>

\* A mutant: a block runs on after a continue.
SkipsNotContinued == returned \/ broken

\* The condition of ND_BLOCK's loop.
Skips == returned \/ broken \/ continued

NextStmt == /\ At("rest")
            /\ LET stmts == Head(agenda).stmts
               IN Becomes(IF stmts = <<>> \/ Skips
                            THEN <<>> ELSE <<Stmt(Head(stmts)), Rest(Tail(stmts))>>)
            /\ Calm

ExprStmt == AtStmt({"expr"}) /\ Becomes(<<Expr(Head(agenda).s.e), Drop>>) /\ Calm

Dropped == Given("drop") /\ GivenBecomes(<<>>) /\ Calm

\* returned is set before the returned expression is evaluated.
ReturnStmt == /\ AtStmt({"return"})
              /\ returned' = TRUE
              /\ LET e == Head(agenda).s.e
                 IN Becomes(<<IF e = Absent THEN Value(0) ELSE Expr(e), Return>>)
              /\ UNCHANGED <<broken, continued, return_value, stack, recursion_depth, status, unset, program>>

KeepReturnValue == /\ Given("return")
                   /\ return_value' = Head(agenda).v
                   /\ GivenBecomes(<<>>)
                   /\ UNCHANGED <<broken, continued, returned, stack, recursion_depth, status, unset, program>>

\* A mutant: the stack is not shrunk when a function returns.
LeaveFnKeepsStack == /\ At("leave")
                     /\ recursion_depth' = recursion_depth - 1
                     /\ Becomes(<<Value(IF returned THEN return_value ELSE 0)>>)
                     /\ returned' = FALSE
                     /\ unset' = Front(unset)
                     /\ UNCHANGED <<broken, continued, return_value, stack, status, program>>

\* A mutant: only a return gives the depth back.
LeaveFnDeep == /\ At("leave")
               /\ size' = Head(agenda).base
               /\ recursion_depth' = IF returned THEN recursion_depth - 1 ELSE recursion_depth
               /\ Becomes(<<Value(IF returned THEN return_value ELSE 0)>>)
               /\ returned' = FALSE
               /\ unset' = Front(unset)
               /\ UNCHANGED <<broken, continued, return_value, offset, mem, status, program>>

\* call_fn from interpreter_stack_shrink_to on.
LeaveFn == /\ At("leave")
           /\ size' = Head(agenda).base
           /\ recursion_depth' = recursion_depth - 1
           /\ Becomes(<<Value(IF returned THEN return_value ELSE 0)>>)
           /\ returned' = FALSE
           /\ unset' = Front(unset)
           /\ UNCHANGED <<broken, continued, return_value, offset, mem, status, program>>

If == /\ AtStmt({"if"})
      /\ LET s == Head(agenda).s
         IN Becomes(<<Expr(s.cond), Choice(Stmt(s.yes), Stmt(s.no))>>)
      /\ Calm

DoUnless == /\ AtStmt({"unless"})
            /\ LET s == Head(agenda).s
               IN Becomes(<<Expr(s.cond),
                            Choice(Stmt(Nothing), Stmt(s.body))>>)
            /\ Calm

Branch == /\ Given("branch")
          /\ GivenBecomes(<<IF Head(agenda).v = 0 THEN agenda[2].no ELSE agenda[2].yes>>)
          /\ Calm

\* Every loop clears broken when it starts, and continued before each body.
Loop == /\ AtStmt(Loops)
        /\ LET s == Head(agenda).s
           IN /\ Becomes(FirstRound(s))
              /\ broken' = FALSE
              /\ continued' = (continued /\ s.kind # "dowhile")
        /\ UNCHANGED <<returned, return_value, stack, recursion_depth, status, unset, program>>

\* Only ND_FOR evaluates its condition without looking at the flags.
LoopHead ==
  /\ At("head")
  /\ LET s == Head(agenda).s
     IN IF s.kind # "for" /\ (broken \/ returned)
          THEN Becomes(<<>>) /\ UNCHANGED continued
        ELSE IF s.kind = "loop"
          THEN Becomes(Round(s)) /\ continued' = FALSE
        ELSE Becomes(<<Expr(s.cond), Test(s)>>) /\ UNCHANGED continued
  /\ UNCHANGED <<broken, returned, return_value, stack, recursion_depth, status, unset, program>>

LoopTest ==
  /\ Given("test")
  /\ IF Head(agenda).v = 0
       THEN GivenBecomes(<<>>) /\ UNCHANGED continued
       ELSE GivenBecomes(Round(agenda[2].s)) /\ continued' = FALSE
  /\ UNCHANGED <<broken, returned, return_value, stack, recursion_depth, status, unset, program>>

BodyDone ==
  /\ At("again")
  /\ LET s == Head(agenda).s
     IN Becomes(IF broken \/ returned THEN <<>>
                ELSE IF s.kind = "for" THEN <<Expr(s.step), Drop, Iterate(s)>>
                ELSE <<Iterate(s)>>)
  /\ Calm

Break == /\ AtStmt({"break"})
         /\ broken' = TRUE
         /\ Becomes(<<>>)
         /\ UNCHANGED <<continued, returned, return_value, stack, recursion_depth, status, unset, program>>

Continue == /\ AtStmt({"continue"})
            /\ continued' = TRUE
            /\ Becomes(<<>>)
            /\ UNCHANGED <<broken, returned, return_value, stack, recursion_depth, status, unset, program>>

Match == /\ AtStmt({"match"})
         /\ Becomes(<<Expr(Head(agenda).s.cond), [op |-> "match", s |-> Head(agenda).s]>>)
         /\ Calm

Matched == /\ Given("match")
           /\ GivenBecomes(<<Cases(agenda[2].s, Head(agenda).v, 1)>>)
           /\ Calm

TryCase == /\ At("cases")
           /\ LET t == Head(agenda)
              IN Becomes(IF t.i <= Len(t.s.cases)
                           THEN <<Expr(t.s.cases[t.i].cond), [t EXCEPT !.op = "case"]>>
                         ELSE IF t.s.default # Absent
                           THEN <<Stmt(t.s.default)>> ELSE <<>>)
           /\ Calm

\* Whatever the mode of the case, the values are compared for equality.
CaseTried == /\ Given("case")
             /\ LET t == agenda[2]
                IN GivenBecomes(IF Head(agenda).v = t.v
                                  THEN <<Stmt(t.s.cases[t.i].body)>>
                                  ELSE <<Cases(t.s, t.v, t.i + 1)>>)
             /\ Calm

-----------------------------------------------------------------------------
Variable == AtExpr({"id"}) /\ Becomes(<<Value(mem[offset[Head(agenda).e.obj]])>>) /\ Calm

AndOr == /\ AtExpr({"and", "or"})
         /\ Becomes(<<Expr(Head(agenda).e.left), RightSide(Head(agenda).e)>>)
         /\ Calm

Short == /\ Given("short")
         /\ GivenBecomes(IF (Head(agenda).v = 0) = (agenda[2].e.kind = "and")
                           THEN <<Head(agenda)>> ELSE <<Expr(agenda[2].e.right)>>)
         /\ Calm

Ternary == /\ AtExpr({"ternary"})
           /\ LET e == Head(agenda).e
              IN Becomes(<<Expr(e.cond), Choice(Expr(e.yes), Expr(e.no))>>)
           /\ Calm

\* The address on the left is computed before the value on the right.
Assign == /\ AtExpr({"assign"})
          /\ LET e == Head(agenda).e
             IN Becomes(<<Expr(e.right), [op |-> "store", obj |-> e.obj, at |-> offset[e.obj]]>>)
          /\ Calm

Store == /\ Given("store")
         /\ mem' = [mem EXCEPT ![agenda[2].at] = Head(agenda).v]
         /\ GivenBecomes(<<Head(agenda)>>)
         /\ unset' = Front(unset) \o <<Last(unset) \ {agenda[2].obj}>>
         /\ UNCHANGED <<flags, offset, size, recursion_depth, status, program>>

Apply(e, args, behind) ==
  \/ e.kind = "op" /\ (\E v \in Values : agenda' = <<Value(v)>> \o behind) /\ Calm
  \/ e.kind = "call" /\ CallFn(e.fn, args, behind)

\* Operands and arguments are evaluated from left to right.
Operands ==
  /\ AtExpr({"op", "call"})
  /\ LET e == Head(agenda).e
     IN IF e.args = <<>>
          THEN Apply(e, <<>>, Tail(agenda))
          ELSE Becomes(<<Expr(e.args[1]), Operand(e, <<>>, 1)>>) /\ Calm

OperandDone ==
  /\ Given("operand")
  /\ LET e    == agenda[2].e
         args == Append(agenda[2].got, Head(agenda).v)
         next == Len(args) + 1
     IN IF next > Len(e.args)
          THEN Apply(e, args, SubSeq(agenda, 3, Len(agenda)))
          ELSE GivenBecomes(<<Expr(e.args[next]), Operand(e, args, next)>>) /\ Calm

Next == \/ NullNode \/ Noop \/ Block \/ NextStmt \/ ExprStmt \/ Dropped
        \/ ReturnStmt \/ KeepReturnValue \/ LeaveFn
        \/ If \/ DoUnless \/ Branch
        \/ Loop \/ LoopHead \/ LoopTest \/ BodyDone \/ Break \/ Continue
        \/ Match \/ Matched \/ TryCase \/ CaseTried
        \/ Variable \/ AndOr \/ Short \/ Ternary \/ Assign \/ Store
        \/ Operands \/ OperandDone

Spec == Init /\ [][Next]_vars

-----------------------------------------------------------------------------
\* Values, flags and addresses keep their types; the stack never outgrows its
\* bound and recursion stops at its limit, or one call behind it.
TypeOK ==
  /\ program \in Programs
  /\ \A t \in ToSet(agenda) : t.op = "value" => t.v \in Values
  /\ {broken, continued, returned} \subseteq BOOLEAN
  /\ return_value \in Values
  /\ recursion_depth \in 0 .. MaxDepth + 1
  /\ offset \in [DOMAIN offset -> 0 .. MaxStack]
  /\ mem \in [0 .. MaxStack -> Values]
  /\ size \in 2 .. MaxStack + 1
  /\ status \in {"running", "panicked", "crashed"}
  /\ Len(unset) = Len(Invocations)

\* The invocations under way lie on the stack one behind the other, the last
\* ends where the stack ends, and recursion_depth counts them: call_fn gives
\* back exactly what it took, however its body was left.
FramesStack ==
  /\ status = "running" => recursion_depth = Len(Invocations)
  /\ \A k \in DOMAIN Invocations :
       Invocations[k].base + FrameSize(Invocations[k].fn)
         = IF k = Len(Invocations) THEN size ELSE Invocations[k + 1].base

\* A variable that is read lies in the frame of the invocation that reads it:
\* every call of a function has variables of its own.
OwnVariables ==
  AtExpr({"id"}) =>
    LET call == Last(Invocations)  o == Head(agenda).e.obj
    IN offset[o] = call.base + Place(call.fn, o)

\* The interpreter gives every well-behaved program the meaning the C back end
\* gives it: each of its steps is one step of module Language or none.
ImplementsLanguage ==
  /\ program \in WellBehaved => Semantics!Init
  /\ [][(program \in WellBehaved) => Semantics!Next]_(Semantics!vars)
=============================================================================
