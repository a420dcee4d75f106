----------------------------- MODULE AsmCodegen ------------------------------
(***************************************************************************)
(* The assembly back end's treatment of one function: asm_gen_function,    *)
(* asm_gen_stmt and asm_gen_expr of asm_codegen.c, from the checked tree   *)
(* to a sequence of instructions.                                          *)
(*                                                                         *)
(* `todo' is the C call stack of the tree walk: the nodes and the          *)
(* instructions still to be generated, in order.  Every action takes the   *)
(* first of them and puts in its place what asm_gen_... does for a node of *)
(* its kind; depth and the label counters are read and changed when the    *)
(* walk gets there.  The choice of mnemonics is left out.  Of a type it    *)
(* matters how it is passed: its kind, and of each slot of eight bytes     *)
(* whether it holds nothing but floating point.                            *)
(***************************************************************************)
EXTENDS Terms

CONSTANTS Functions,  \* functions to compile, under any names: [body, lambda, void, result]
          Exprs,      \* the expressions in them, and those the generators make of these
          Stmts,      \* the statements in them, Absent among them
          Escapes(_), \* which jumps leave a statement: "break", "continue"; "stray" if a deferred one does
          LevelExpr(_),     \* whether an expression leaves the stack as it finds it
          LevelStmt(_, _),  \* whether a statement does, behind an even or an odd number of slots
          GpMax,      \* ASM_GP_MAX, the number of argument registers
          FpMax       \* ASM_FP_MAX, the number of those for floating point

ASSUME GpMaxAssumption == GpMax \in 1 .. 6
ASSUME FpMaxAssumption == FpMax \in 1 .. 8

VARIABLES function,   \* cg->current_fn
          todo,
          code,       \* what was printed: [ins, depth], depth is cg->depth before it
          depth, max_count, cur_count, cur_brk_id, cur_cnt_id,
          deferred    \* current_fn->deferred

counters == <<max_count, cur_count, cur_brk_id, cur_cnt_id>>
gvars    == <<function, todo, code, depth, counters, deferred>>

ArgRegs == <<"rdi", "rsi", "rdx", "rcx", "r8", "r9">>
XmmRegs == <<"xmm0", "xmm1", "xmm2", "xmm3", "xmm4", "xmm5", "xmm6", "xmm7">>

\* Types: what the slots hold, "gp" or "fp".
Scalar      == [kind |-> "scalar", slots |-> <<"gp">>]
Float       == [kind |-> "float", slots |-> <<"fp">>]
F80         == [kind |-> "f80", slots |-> <<"x87", "x87">>]
Dyn         == [kind |-> "dyn", slots |-> <<"gp", "gp">>]
Struct(slots) == [kind |-> "struct", slots |-> slots]

Slots(t)  == Len(t.slots)
Wide(t)   == t.kind = "struct" /\ Slots(t) > 2
Small(t)  == t.kind \in {"struct", "dyn"} /\ Slots(t) <= 2
One(test) == IF test THEN 1 ELSE 0

\* asm_has_flonum over the first eight bytes, and asm_has_flonum_2: over all
\* sixteen.
HasFlonum1(t) == t.slots[1] = "fp"
HasFlonum2(t) == \A i \in 1 .. Slots(t) : t.slots[i] = "fp"

-----------------------------------------------------------------------------
(* Trees.  Some generators build the node they go on with.                 *)

\* asm_gen_inc: x++ is (x = x + 1) - 1.
Incremented(e) ==
  LET one == [kind |-> "int", n |-> 1]
      sum == [kind |-> "op", f |-> "+", args |-> <<e.left, one>>]
      set == [kind |-> "assign", left |-> e.left, right |-> sum]
  IN [kind |-> "op", f |-> "-", args |-> <<set, one>>]

\* The call of the exit function of a with.
ExitCall(s) == [kind |-> "call", fn |-> s.exit, args |-> <<s.cond.left>>, types |-> <<Scalar>>, result |-> Scalar]

\* An index, from the front or from the back.
From(e, back) == [e EXCEPT !.back = back]

\* The expressions below e are in E.
IsExpr(e, E) ==
  /\ e.kind \in {"deref", "ref", "not"} => e.e \in E
  /\ e.kind \in {"pipe", "and", "or", "else", "assign"} => {e.left, e.right} \subseteq E
  /\ e.kind = "index" => {e.left, e.index, From(e, TRUE), From(e, FALSE)} \subseteq E
  /\ e.kind = "ternary" => {e.cond, e.yes, e.no} \subseteq E
  /\ e.kind = "closure" => e.exprs \in Seq(E)
  /\ e.kind \in {"op", "fop", "struct", "array", "call"} => e.args \in Seq(E)
  /\ e.kind \in {"op", "fop"} => Len(e.args) = 2
  /\ e.kind = "inc" => Incremented(e) \in E
  /\ e.kind = "call" => e.fn \in E /\ Slots(e.result) \in Nat

\* The expressions of s are in E, the statements below it in S, deferred ones in D.
IsStmt(s, E, S, D) ==
  /\ s.kind # "case"
  /\ s.kind \in {"if", "with", "unless", "while", "dowhile", "match"} => s.cond \in E
  /\ s.kind \in {"if", "with"} => {s.yes, s.no} \subseteq S
  /\ s.kind = "with" => {s.cond.left, ExitCall(s)} \subseteq E
  /\ s.kind \in {"unless", "for", "range", "while", "dowhile", "loop"} => s.body \in S
  /\ s.kind = "for" => s.init \in S /\ {s.cond, s.step} \subseteq E \union {Absent}
  /\ s.kind = "range" => {s.low, s.high} \subseteq E
  /\ s.kind = "block" => s.stmts \in Seq(S) /\ Len(s.locals) \in Nat /\ DOMAIN s.locals = 1 .. Len(s.locals)
  /\ s.kind = "match" => /\ Len(s.cases) \in Nat /\ DOMAIN s.cases = 1 .. Len(s.cases) /\ s.default \in S
                         /\ \A i \in DOMAIN s.cases : s.cases[i].cond \in E /\ s.cases[i].body \in S
  /\ s.kind = "expr" => s.e \in E
  /\ s.kind = "return" => s.e \in E \union {Absent}
  /\ s.kind = "defer" => s.body \in D

\* A loop holds what leaves its body, a match what leaves a case by break; what
\* leaves a deferred statement has gone from where it could be held.
EscapesFrom(s) ==
  CASE s.kind \in {"break", "continue"} -> {s.kind}
    [] s.kind = "block" -> UNION {Escapes(s.stmts[i]) : i \in DOMAIN s.stmts}
    [] s.kind \in {"if", "with"} -> Escapes(s.yes) \union Escapes(s.no)
    [] s.kind = "unless" -> Escapes(s.body)
    [] s.kind = "for" -> (Escapes(s.init) \union Escapes(s.body)) \ {"break", "continue"}
    [] s.kind \in {"range", "while", "dowhile", "loop"} -> Escapes(s.body) \ {"break", "continue"}
    [] s.kind = "match" -> ((UNION {Escapes(s.cases[i].body) : i \in DOMAIN s.cases}) \union Escapes(s.default))
                              \ {"break"}
    [] s.kind = "defer" -> IF Escapes(s.body) = {} THEN {} ELSE {"stray"}
    [] OTHER -> {}

ASSUME TreesAssumption ==
  /\ Absent \in Stmts
  /\ \A f \in DOMAIN Functions : Functions[f].body \in Stmts
  /\ \A e \in Exprs : IsExpr(e, Exprs)
  /\ \A s \in Stmts : IsStmt(s, Exprs, Stmts, Stmts) /\ Escapes(s) = EscapesFrom(s)

-----------------------------------------------------------------------------
\* An instruction to print, and what the printing function adds to cg->depth.
Ins(i)        == [op |-> "ins", ins |-> i, adds |-> 0]
Counting(i, n) == [op |-> "ins", ins |-> i, adds |-> n]

Set(t)       == Ins([op |-> "set", term |-> t])
Mov(from, to) == Ins([op |-> "mov", from |-> from, to |-> to])
Load         == Ins([op |-> "load"])
Operate(f, swapped) == Ins([op |-> "operate", f |-> f, swapped |-> swapped])
Shift(n)     == Ins([op |-> "shift", by |-> n])

\* asm_push and asm_pop count, a printed push or pop does not.
Push         == Counting([op |-> "push", from |-> "rax", slots |-> 1], 1)
Pop(r)       == Counting([op |-> "pop", to |-> r], -1)
RawPush(r)   == Ins([op |-> "push", from |-> r, slots |-> 1])
RawPop(r)    == Ins([op |-> "pop", to |-> r])
PushF        == Counting([op |-> "push", from |-> "xmm0", slots |-> 1], 1)
PushCopy(r, n) == Counting([op |-> "pushcopy", from |-> r, slots |-> n], n)

\* asm_push_args2: what is done with the value of an argument.
PushValue(t) ==
  CASE t.kind \in {"dyn", "struct"} -> PushCopy("rax", Slots(t))
    [] t.kind = "float"             -> PushF
    [] t.kind = "f80"               -> PushCopy("st0", 2)
    [] OTHER                        -> Push
Pad          == Counting([op |-> "push", from |-> "none", slots |-> 1], 1)
ReleaseMore(n) == Counting([op |-> "release", slots |-> n], -n - 1)
Release(n)   == Counting([op |-> "release", slots |-> n], -n)

Lab(name, id) == [name |-> name, id |-> id, case |-> 0]
Label(l)     == Ins([op |-> "label", label |-> l])
Jmp(l)       == Ins([op |-> "jmp", to |-> l])
CmpZero      == Ins([op |-> "cmp"])
Je(l)        == Ins([op |-> "je", to |-> l])
Jne(l)       == Ins([op |-> "jne", to |-> l])

StoreUncounted == <<RawPop("rdi"), Ins([op |-> "store"])>>
\* Pop the address and store rax there.
Store        == <<Pop("rdi"), Ins([op |-> "store"])>>

Address(e) == [op |-> "addr", e |-> e]

\* The counters get the values they had around this node.
Restore == [op |-> "restore", count |-> cur_count, brk |-> cur_brk_id, cnt |-> cur_cnt_id]

-----------------------------------------------------------------------------
AtStmt(kinds) == todo # <<>> /\ Head(todo).op = "stmt" /\ Head(todo).s.kind \in kinds
AtExpr(kinds) == todo # <<>> /\ Head(todo).op = "expr" /\ Head(todo).e.kind \in kinds
AtAddr(kinds) == todo # <<>> /\ Head(todo).op = "addr" /\ Head(todo).e.kind \in kinds

Becomes(tasks) == todo' = tasks \o Tail(todo)
Steady         == UNCHANGED <<function, code, depth, counters, deferred>>

SameCount  == max_count' = max_count /\ cur_count' = max_count
\* A new label id: cur_count = max_count++.
FreshCount == max_count' = max_count + 1 /\ cur_count' = max_count

\* An expression node with labels of its own, and a loop.
Labelled(tasks) == /\ Becomes(Append(tasks, Restore))
                   /\ FreshCount
                   /\ UNCHANGED <<function, code, depth, cur_brk_id, cur_cnt_id, deferred>>
LoopBegins(tasks) == /\ Becomes(Append(tasks, Restore))
                     /\ FreshCount
                     /\ cur_brk_id' = max_count
                     /\ cur_cnt_id' = max_count
                     /\ UNCHANGED <<function, code, depth, deferred>>

Init == /\ function \in DOMAIN Functions
        /\ todo = <<Stmt(Functions[function].body), [op |-> "epilogue"]>>
        /\ code = <<>>
        /\ depth = 0
        /\ max_count = 0 /\ cur_count = 0 /\ cur_brk_id = 0 /\ cur_cnt_id = 0
        /\ deferred = <<>>

\* An instruction is printed.
Emit == /\ todo # <<>> /\ Head(todo).op = "ins"
         /\ code' = Append(code, [ins |-> Head(todo).ins, depth |-> depth])
         /\ depth' = depth + Head(todo).adds
         /\ todo' = Tail(todo)
         /\ UNCHANGED <<function, counters, deferred>>

\* The end of a node with labels.
NodeDone == /\ todo # <<>> /\ Head(todo).op = "restore"
            /\ cur_count' = Head(todo).count
            /\ cur_brk_id' = Head(todo).brk
            /\ cur_cnt_id' = Head(todo).cnt
            /\ todo' = Tail(todo)
            /\ UNCHANGED <<function, code, depth, max_count, deferred>>

\* asm_gen_function behind the body; a lambda does not reset rsp.
Epilogue ==
  /\ todo # <<>> /\ Head(todo).op = "epilogue"
  /\ depth' = IF Functions[function].lambda THEN depth ELSE 0
  /\ Becomes(<<Label(Lab("return", 0))>>
       \o (IF deferred = <<>> THEN <<>>
           ELSE <<Push>> \o [i \in DOMAIN deferred |-> Stmt(deferred[i])] \o <<Pop("rax")>>)
       \o <<Ins([op |-> "ret"])>>)
  /\ UNCHANGED <<function, code, counters, deferred>>

-----------------------------------------------------------------------------
\* asm_gen_addr: the address of a node in rax.
AddrVariable == /\ AtAddr({"id", "function"})
                /\ Becomes(<<Set(AddressOf(Head(todo).e.obj, 0))>>)
                /\ Steady

AddrDeref == AtAddr({"deref"}) /\ Becomes(<<Expr(Head(todo).e.e)>>) /\ Steady

\* A node whose value is an address already.
AddrValue == /\ AtAddr({"call", "ternary", "else", "struct", "array", "hole"})
             /\ Becomes(<<Expr(Head(todo).e)>>)
             /\ Steady

\* asm_gen_index: the element of a pointer, or counted from an array's end.
Element(e) ==
  <<Expr(e.left), Push>>
    \o (IF e.back
          THEN <<Load, Push, Expr(e.index), Pop("rcx"), Pop("rdi"),
                 Ins([op |-> "fromback"])>>
          ELSE <<Expr(e.index), Pop("rdi")>>)
    \o <<Ins([op |-> "add"])>>

AddrIndex == AtAddr({"index"}) /\ Becomes(Element(Head(todo).e)) /\ Steady

-----------------------------------------------------------------------------
\* asm_gen_expr: the value of a node in rax.
Number == AtExpr({"int"}) /\ Becomes(<<Set(Const(Head(todo).e.n))>>) /\ Steady

\* A variable of floating point is loaded into its own register.
LoadedFloat ==
  /\ AtExpr({"real"})
  /\ Becomes(<<Set(AddressOf(Head(todo).e.obj, 0)), Load,
               Mov("rax", IF Head(todo).e.type = F80 THEN "st0" ELSE "xmm0")>>)
  /\ Steady

\* Variables, dereferences and elements are loaded from their address.
Loaded == AtExpr({"id", "deref", "index"}) /\ Becomes(<<Address(Head(todo).e), Load>>) /\ Steady

Reference == AtExpr({"ref"}) /\ Becomes(<<Address(Head(todo).e.e)>>) /\ Steady

Closure == /\ AtExpr({"closure"})
           /\ Becomes([i \in DOMAIN Head(todo).e.exprs |-> Expr(Head(todo).e.exprs[i])])
           /\ Steady

Not == AtExpr({"not"}) /\ Becomes(<<Expr(Head(todo).e.e), CmpZero, Ins([op |-> "sete"])>>) /\ Steady

\* The right operand is evaluated first, for > and >= the left one.
Binary == /\ AtExpr({"op"})
          /\ LET e == Head(todo).e
                 swapped == e.f \in {">", ">="}
             IN Becomes(<<Expr(e.args[IF swapped THEN 1 ELSE 2]), Push,
                          Expr(e.args[IF swapped THEN 2 ELSE 1]), Pop("rdi"),
                          Operate(e.f, swapped)>>)
          /\ Steady

\* The same in floating point, by way of the stack into xmm1.
FloatBinary ==
  /\ AtExpr({"fop"})
  /\ LET e == Head(todo).e
         swapped == e.f \in {">", ">="}
     IN Becomes(<<Expr(e.args[IF swapped THEN 1 ELSE 2]), PushF,
                  Expr(e.args[IF swapped THEN 2 ELSE 1]), Pop("xmm1"),
                  Ins([op |-> "operatef", f |-> e.f, swapped |-> swapped])>>)
  /\ Steady

Increment == AtExpr({"inc"}) /\ Becomes(<<Expr(Incremented(Head(todo).e))>>) /\ Steady

\* The value of a pipe waits in r15 for the holes.
Pipe == /\ AtExpr({"pipe"})
        /\ Becomes(<<Expr(Head(todo).e.left), Mov("rax", "r15"), Expr(Head(todo).e.right)>>)
        /\ Steady

Hole == AtExpr({"hole"}) /\ Becomes(<<Mov("r15", "rax")>>) /\ Steady

\* asm_gen_struct_lit: every member is stored behind the address in rax.
Members(args) ==
  FlattenSeq([i \in DOMAIN args |->
    (IF i > 1 THEN <<Shift(1)>> ELSE <<>>)
      \o <<Push, Expr(args[i])>> \o Store \o <<Mov("rdi", "rax")>>])

StructLiteral == /\ AtExpr({"struct"})
                 /\ Becomes(<<Set(AddressOf(Head(todo).e.buffer, 0)), Push>>
                              \o Members(Head(todo).e.args) \o <<Pop("rax")>>)
                 /\ Steady

\* The elements of an array literal follow its length.
ArrayLiteral ==
  /\ AtExpr({"array"})
  /\ LET e == Head(todo).e
     IN Becomes(FlattenSeq([i \in DOMAIN e.args |->
                  <<Set(AddressOf(e.buffer, i)), Push, Expr(e.args[i])>> \o Store])
                  \o <<Set(AddressOf(e.buffer, 0))>>)
  /\ Steady

\* An assignment; a literal on the right is built where it is stored.
Assign ==
  /\ AtExpr({"assign"})
  /\ LET e == Head(todo).e
         to == Address(e.left)
     IN Becomes(
          CASE e.right.kind = "struct" -> <<to, Push>> \o Members(e.right.args) \o <<Pop("rax")>>
            [] e.right.kind = "array"  -> <<to, Push, Shift(1)>>
                  \o FlattenSeq([i \in DOMAIN e.right.args |->
                       <<Push, Expr(e.right.args[i])>> \o Store \o <<Mov("rdi", "rax"), Shift(1)>>])
                  \o <<Pop("rax")>>
            [] OTHER -> <<to, Push, Expr(e.right)>> \o Store)
  /\ Steady

AndOr ==
  /\ AtExpr({"and", "or"})
  /\ LET e     == Head(todo).e
         isAnd == e.kind = "and"
         short == Lab(IF isAnd THEN "false" ELSE "true", max_count)
         leave == IF isAnd THEN Je(short) ELSE Jne(short)
         end   == Lab("end", max_count)
     IN Labelled(<<Expr(e.left), CmpZero, leave, Expr(e.right), CmpZero, leave,
                   Set(Const(IF isAnd THEN 1 ELSE 0)), Jmp(end),
                   Label(short), Set(Const(IF isAnd THEN 0 ELSE 1)), Label(end)>>)

Ternary ==
  /\ AtExpr({"ternary"})
  /\ LET e == Head(todo).e
         else == Lab("else", max_count)
         end  == Lab("end", max_count)
     IN Labelled(<<Expr(e.cond), CmpZero, Je(else), Expr(e.yes), Jmp(end),
                   Label(else), Expr(e.no), Label(end)>>)

ElseExpr ==
  /\ AtExpr({"else"})
  /\ LET e == Head(todo).e
         else == Lab("else", max_count)
         end  == Lab("end", max_count)
     IN Labelled(<<Expr(e.left), Push, Push, CmpZero, Je(else), Pop("rax"), Jmp(end),
                   Label(else), Pop("rax"), Expr(e.right), Label(end)>>)

-----------------------------------------------------------------------------
\* asm_push_args counts registers in order; a struct in registers is taken for
\* two of them, whatever its size.
Big(e)    == Wide(e.result)
Gp2(t)    == One(~HasFlonum1(t)) + One(~HasFlonum2(t))
Fp2(t)    == One(HasFlonum1(t)) + One(HasFlonum2(t))
Fits(c, gp, fp) == c.fp + fp < FpMax /\ c.gp + gp < GpMax

ByRegisters(c, gp, fp) == [c EXCEPT !.gp = @ + gp, !.fp = @ + fp]
OnStack(c, i, gp, fp)  == [ByRegisters(c, gp, fp) EXCEPT !.stack = @ \union {i}]

Counted(c, i, t) ==
  CASE t.kind = "struct" -> IF ~Wide(t) /\ Fits(c, Gp2(t), Fp2(t)) THEN ByRegisters(c, Gp2(t), Fp2(t))
                            ELSE OnStack(c, i, 0, 0)
    [] t.kind = "float"  -> IF c.fp < FpMax THEN ByRegisters(c, 0, 1) ELSE OnStack(c, i, 0, 1)
    [] t.kind = "f80"    -> OnStack(c, i, 0, 0)
    [] OTHER             -> IF c.gp < GpMax THEN ByRegisters(c, 1, 0) ELSE OnStack(c, i, 1, 0)

Indices(e) == [i \in DOMAIN e.args |-> i]
ByStack(e) ==
  FoldLeft(LAMBDA c, i : Counted(c, i, e.types[i]),
           [gp |-> One(Big(e)), fp |-> 0, stack |-> {}], Indices(e)).stack
ByRegister(e) == DOMAIN e.args \ ByStack(e)

\* pass_by_stack and from_back are one bit of the node: an index from the back
\* is pushed with the arguments for the stack, and an index passed on the stack
\* becomes one from the back.
PushedFirst(e, i) == i \in ByStack(e) \/ (e.args[i].kind = "index" /\ e.args[i].back)
Pushed(e, i) ==
  IF e.args[i].kind = "index" THEN From(e.args[i], PushedFirst(e, i)) ELSE e.args[i]

\* asm_push_args2: those of the first n arguments that are in S, the last one first.
PushArgs(e, S, n) ==
  LET f[i \in 0 .. n] ==
        IF i = 0 THEN <<>>
        ELSE IF i \in S THEN <<Expr(Pushed(e, i)), PushValue(e.types[i])>> \o f[i - 1] ELSE f[i - 1]
  IN f[n]

\* A dynamic value on the stack is counted as one slot.
StackSlots(e) ==
  FoldLeft(LAMBDA n, i : n + IF e.types[i] = Dyn THEN 1 ELSE Slots(e.types[i]), 0,
           SetToSortSeq(ByStack(e), <))

\* asm_pop_args counts again: a struct by the registers it takes, a dynamic
\* value as a struct.
InRegisters(c, t) ==
  CASE Small(t)          -> Fits(c, Gp2(t), Fp2(t))
    [] t.kind = "float"  -> c.fp < FpMax
    [] t.kind = "scalar" -> c.gp < GpMax
    [] OTHER             -> FALSE

PopSlot(c, float)  == Pop(IF float THEN XmmRegs[c.fp + 1] ELSE ArgRegs[c.gp + 1])
SlotCounted(c, float) == ByRegisters(c, One(~float), One(float))
PopsLastFirst(c, t) ==
  IF ~InRegisters(c, t) THEN <<>>
  ELSE IF Slots(t) = 1 THEN <<PopSlot(c, HasFlonum1(t))>>
  ELSE <<PopSlot(SlotCounted(c, HasFlonum1(t)), HasFlonum2(t)), PopSlot(c, HasFlonum1(t))>>
Pops(c, t) ==
  IF ~InRegisters(c, t) THEN <<>>
  ELSE IF Slots(t) = 1 THEN <<PopSlot(c, HasFlonum1(t))>>
  ELSE <<PopSlot(c, HasFlonum1(t)), PopSlot(SlotCounted(c, HasFlonum1(t)), HasFlonum2(t))>>
PopCounted(c, t) ==
  IF ~InRegisters(c, t) THEN c
  ELSE IF Slots(t) = 1 THEN SlotCounted(c, HasFlonum1(t))
  ELSE SlotCounted(SlotCounted(c, HasFlonum1(t)), HasFlonum2(t))

\* The registers taken before the i-th argument is popped.
Before(e, i) ==
  FoldLeft(LAMBDA c, k : PopCounted(c, e.types[k]), [gp |-> One(Big(e)), fp |-> 0], [k \in 1 .. i - 1 |-> k])
PopArgs(e) == (IF Big(e) THEN <<Pop("rdi")>> ELSE <<>>)
                \o FlattenSeq([i \in DOMAIN e.args |-> Pops(Before(e, i), e.types[i])])

\* Where asm_copy_ret_buffer finds the slots of a small struct.
ResultRegs(t) ==
  LET first == IF HasFlonum1(t) THEN "xmm0" ELSE "rax"
  IN IF Slots(t) = 1 THEN <<first>>
     ELSE <<first, IF HasFlonum2(t) THEN "xmm1" ELSE IF HasFlonum1(t) THEN "rax" ELSE "rdx">>
Keep(t) ==
  IF t.kind # "struct" \/ Wide(t) THEN <<>>
  ELSE [i \in 1 .. Slots(t) |->
          Ins([op |-> "keep", from |-> ResultRegs(t)[i], at |-> AddressOf("buffer", i - 1)])]
       \o <<Set(AddressOf("buffer", 0))>>

NeedsPadAlone(slots) == slots % 2 = 1
\* rsp has to be a multiple of sixteen at the call.
NeedsPad(slots) == (depth + slots) % 2 = 1

\* asm_push_args, the callee's address, asm_pop_args, and the call.
Call ==
  /\ AtExpr({"call"})
  /\ LET e     == Head(todo).e
         pad   == IF NeedsPad(StackSlots(e)) THEN <<Pad>> ELSE <<>>
         first == {i \in DOMAIN e.args : PushedFirst(e, i)}
     IN Becomes(
          pad \o PushArgs(e, first, Len(e.args)) \o PushArgs(e, DOMAIN e.args \ first, Len(e.args))
              \o (IF Big(e) THEN <<Set(AddressOf("buffer", 0)), Push>> ELSE <<>>)
              \o <<Address(e.fn)>>
              \o (IF e.fn.kind = "function" THEN <<>> ELSE <<Load>>)
              \o PopArgs(e)
              \o <<Mov("rax", "r10"),
                   Ins([op |-> "call", signature |-> [types |-> e.types, result |-> e.result]]),
                   Release(StackSlots(e) + Len(pad))>>
              \o Keep(e.result))
  /\ Steady

-----------------------------------------------------------------------------
\* asm_gen_stmt.
Noop == AtStmt({"noop"}) /\ Becomes(<<>>) /\ Steady

ExprStmt == AtStmt({"expr"}) /\ Becomes(<<Expr(Head(todo).s.e)>>) /\ Steady

Block == /\ AtStmt({"block"})
         /\ LET s == Head(todo).s
            IN Becomes([i \in DOMAIN s.locals |-> Ins([op |-> "clear", x |-> s.locals[i]])]
                         \o [i \in DOMAIN s.stmts |-> Stmt(s.stmts[i])])
         /\ Steady

\* A statement that may be missing.
Maybe(s) == IF s = Absent THEN <<>> ELSE <<Stmt(s)>>

\* The two sides of a decision: to the label if the condition is false.
Branches(yes, no) ==
  LET else == Lab("else", max_count)
      end  == Lab("end", max_count)
  IN <<CmpZero, Je(else)>> \o yes \o <<Jmp(end), Label(else)>> \o no \o <<Label(end)>>

If == /\ AtStmt({"if"})
      /\ LET s == Head(todo).s
         IN Labelled(<<Expr(s.cond)>> \o Branches(<<Stmt(s.yes)>>, Maybe(s.no)))

\* The exit function is called where the body ends.
With == /\ AtStmt({"with"})
        /\ LET s == Head(todo).s
           IN Labelled(<<Expr(s.cond), Expr(s.cond.left)>>
                         \o Branches(<<Stmt(s.yes), Expr(ExitCall(s))>>, Maybe(s.no)))

DoUnless == /\ AtStmt({"unless"})
            /\ LET skip == Lab("skip_unless", max_count)
               IN Labelled(<<Expr(Head(todo).s.cond), CmpZero, Jne(skip),
                             Stmt(Head(todo).s.body), Label(skip)>>)

Begin == Label(Lab("begin", max_count))
BeginAgain == Jmp(Lab("begin", max_count))
ContinueHere == Label(Lab("continue", max_count))
BreakHere == Label(Lab("break", max_count))
LeaveIfZero == <<CmpZero, Je(Lab("break", max_count))>>

For == /\ AtStmt({"for"})
       /\ LET s == Head(todo).s
          IN LoopBegins(Maybe(s.init) \o <<Begin>>
               \o (IF s.cond = Absent THEN <<>> ELSE <<Expr(s.cond)>> \o LeaveIfZero)
               \o <<Stmt(s.body), ContinueHere>>
               \o (IF s.step = Absent THEN <<>> ELSE <<Expr(s.step)>>)
               \o <<BeginAgain, BreakHere>>)

\* for low .. high: the counter and its bound live in rdi and rdx, and on the
\* stack, uncounted, while the body runs.
ForRange ==
  /\ AtStmt({"range"})
  /\ LET s == Head(todo).s
     IN LoopBegins(<<Expr(s.low), Push, Expr(s.high), Mov("rax", "rdx"), Pop("rdi"), Begin,
                     Ins([op |-> "jge", to |-> Lab("break", max_count)]),
                     RawPush("rdi"), RawPush("rdx"), Stmt(s.body), RawPop("rdx"), RawPop("rdi"),
                     ContinueHere, Ins([op |-> "inc"]), BeginAgain, BreakHere>>)

While == /\ AtStmt({"while"})
         /\ LoopBegins(<<Begin, Expr(Head(todo).s.cond)>> \o LeaveIfZero
              \o <<Stmt(Head(todo).s.body), ContinueHere, BeginAgain, BreakHere>>)

DoWhile == /\ AtStmt({"dowhile"})
           /\ LoopBegins(<<Begin, Stmt(Head(todo).s.body), ContinueHere, Expr(Head(todo).s.cond),
                           CmpZero, Jne(Lab("begin", max_count)), BreakHere>>)

Forever == /\ AtStmt({"loop"})
           /\ LoopBegins(<<Begin, Stmt(Head(todo).s.body), ContinueHere, BeginAgain, BreakHere>>)

\* A match has labels of its own, but is left by break as a loop is.  Its
\* condition is evaluated before the label is taken.
Match ==
  /\ AtStmt({"match"})
  /\ Becomes(<<Expr(Head(todo).s.cond), [op |-> "cases", s |-> Head(todo).s]>>)
  /\ Steady

CaseLabel(i, id) == [name |-> "case", id |-> id, case |-> i]

MatchCases ==
  /\ todo # <<>> /\ Head(todo).op = "cases"
  /\ LET s == Head(todo).s
         n == Len(s.cases)
         bodies == [i \in DOMAIN s.cases |-> s.cases[i].body]
                     \o (IF s.default = Absent THEN <<>> ELSE <<s.default>>)
     IN Becomes(
          FlattenSeq([i \in 1 .. n |->
            <<Push, Push, Expr(s.cases[i].cond), Pop("rdi"), Ins([op |-> "cmp2"]), Pop("rax"),
              Ins([op |-> "je", to |-> CaseLabel(i, max_count)])>>])
          \o (IF s.default = Absent THEN <<>> ELSE <<Jmp(CaseLabel(n + 1, max_count))>>)
          \o [i \in DOMAIN bodies |-> Stmt([kind |-> "case", i |-> i, body |-> bodies[i]])]
          \o <<BreakHere, Restore>>)
  /\ FreshCount
  /\ cur_brk_id' = max_count
  /\ UNCHANGED <<function, code, depth, cur_cnt_id, deferred>>

Case == /\ AtStmt({"case"})
        /\ Becomes(<<Label(CaseLabel(Head(todo).s.i, cur_count)), Stmt(Head(todo).s.body),
                     Jmp(Lab("break", cur_count))>>)
        /\ Steady

\* asm_copy_struct_reg and asm_copy_struct_mem: a small struct goes into
\* registers, the second half of it never into one for floating point, a large
\* one to where return_ptr points.
CopySlot(i, r) == Ins([op |-> "part", slot |-> i, to |-> r])
CopyOut(t) ==
  IF t.kind \notin {"struct", "dyn"} THEN <<>>
  ELSE IF Wide(t) THEN <<Ins([op |-> "copy", slots |-> Slots(t)])>>
  ELSE <<Mov("rax", "rdi"), CopySlot(0, IF HasFlonum1(t) THEN "xmm0" ELSE "rax")>>
       \o (IF Slots(t) = 1 THEN <<>> ELSE <<CopySlot(1, IF HasFlonum1(t) THEN "rax" ELSE "rdx")>>)

ReturnStmt ==
  /\ AtStmt({"return"})
  /\ Becomes((IF Head(todo).s.e = Absent THEN <<>>
              ELSE <<Expr(Head(todo).s.e)>> \o CopyOut(Functions[function].result))
             \o <<Jmp(Lab("return", 0))>>)
  /\ Steady

Continue == AtStmt({"continue"}) /\ Becomes(<<Jmp(Lab("continue", cur_cnt_id))>>) /\ Steady
Break    == AtStmt({"break"})    /\ Becomes(<<Jmp(Lab("break", cur_brk_id))>>)    /\ Steady

\* The body waits for the epilogue.
Defer == /\ AtStmt({"defer"})
         /\ deferred' = Append(deferred, Head(todo).s.body)
         /\ Becomes(<<>>)
         /\ UNCHANGED <<function, code, depth, counters>>

-----------------------------------------------------------------------------
(* Which trees leave the stack as they find it: `else' does not, on one of  *)
(* its two ways, and a call does where the countings of its arguments       *)
(* agree.                                                                   *)

Width(t) == PushValue(t).adds

\* How many slots the first n arguments push, of those in S.
Pushes(e, S, n) ==
  LET f[i \in 0 .. n] == IF i = 0 THEN 0 ELSE f[i - 1] + IF i \in S THEN Width(e.types[i]) ELSE 0
  IN f[n]

\* What is pushed is what asm_pop_args pops and what is released.
Agrees(e) ==
  /\ \A i \in DOMAIN e.args : Width(e.types[i]) \in Nat
  /\ StackSlots(e) \in Nat
  /\ Pushes(e, DOMAIN e.args, Len(e.args)) + One(Big(e)) = Len(PopArgs(e)) + StackSlots(e)

LevelExprs      == {e \in Exprs : LevelExpr(e)}
EvenStmts       == {s \in Stmts : LevelStmt(s, FALSE)}
OddStmts        == {s \in Stmts : LevelStmt(s, TRUE)}
LevelStmts(odd) == IF odd THEN OddStmts ELSE EvenStmts

\* A ret in a deferred statement leaves the value saved before it on the stack.
ASSUME LevelAssumption ==
  /\ \A e \in LevelExprs : IsExpr(e, LevelExprs) /\ e.kind # "else" /\ (e.kind = "call" => Agrees(e))
  /\ \A odd \in BOOLEAN : \A s \in LevelStmts(odd) :
       IsStmt(s, LevelExprs, LevelStmts(odd), OddStmts) /\ (s.kind = "return" => ~odd)

Generate == \/ Emit \/ NodeDone \/ Epilogue
            \/ AddrVariable \/ AddrDeref \/ AddrValue \/ AddrIndex
            \/ Number \/ LoadedFloat \/ Loaded \/ Reference \/ Closure \/ Not \/ Binary \/ FloatBinary
            \/ Increment
            \/ Pipe \/ Hole \/ StructLiteral \/ ArrayLiteral \/ Assign
            \/ AndOr \/ Ternary \/ ElseExpr \/ Call
            \/ Noop \/ ExprStmt \/ Block \/ If \/ With \/ DoUnless
            \/ For \/ ForRange \/ While \/ DoWhile \/ Forever
            \/ Match \/ MatchCases \/ Case \/ ReturnStmt \/ Continue \/ Break \/ Defer
=============================================================================
