----------------------------- MODULE AsmMachine ------------------------------
(***************************************************************************)
(* What the generated instructions do.  The processor computes with terms; *)
(* a branch on a term that is no number goes either way.  `trace' is what  *)
(* the function does to the outside: stores, calls, branches.  The callee  *)
(* of a call takes its arguments from where asm_assign_lvar_offsets and    *)
(* asm_gen_function look for them.                                         *)
(***************************************************************************)
EXTENDS AsmCodegen

CONSTANTS MaxTests, \* branches on unknown values that are followed
          MaxTrace  \* events that are followed

VARIABLES pc,     \* 0 before the function is called
          stack,  \* what lies below the frame, the slot rsp points to first
          regs,
          flag,   \* whether the last comparison found its operand not zero, or equal
          trace,
          status  \* "ready", "running", "returned" or "cut"

mvars == <<pc, stack, regs, flag, trace, status>>
vars  == <<gvars, mvars>>

Registers == {"rax", "rcx", "r10", "r15", "st0"} \union ToSet(ArgRegs) \union ToSet(XmmRegs)

\* Registers a call may change; a CSpydr function also leaves in r15 what its
\* own pipes put there.
Clobbered == Registers \ {"r15"}

Start == /\ Init
         /\ pc = 0
         /\ stack = <<>>
         /\ regs = [r \in Registers |-> Junk]
         /\ flag = FALSE
         /\ trace = <<>>
         /\ status = "ready"

-----------------------------------------------------------------------------
Here   == code[pc].ins
At(op) == status = "running" /\ Here.op = op

Goes(l)   == CHOOSE i \in DOMAIN code : code[i].ins.op = "label" /\ code[i].ins.label = l
Onward    == pc' = pc + 1
Put(r, t) == regs' = [regs EXCEPT ![r] = t]

\* An event happens, or the run is no longer followed.
Happens(e) == IF Len(trace) < MaxTrace
                THEN trace' = Append(trace, e) /\ UNCHANGED status
                ELSE status' = "cut" /\ UNCHANGED trace

\* The outcome of a comparison of the unknown term t, bound to be not followed
\* behind the last one.
Decides(t, yes) == IF Len(Tests(trace)) < MaxTests
                     THEN Happens(Tested(t, yes))
                     ELSE status' = "cut" /\ UNCHANGED trace

Silently == UNCHANGED <<trace, status>>

\* Slots n deep in the stack.
Deeper(n) == SubSeq(stack, n + 1, Len(stack))

Enter == /\ todo = <<>> /\ status = "ready"
         /\ pc' = 1
         /\ status' = "running"
         /\ UNCHANGED <<stack, regs, flag, trace>>

SetReg == At("set") /\ Put("rax", Here.term) /\ Onward /\ UNCHANGED <<stack, flag>> /\ Silently

MovReg == At("mov") /\ Put(Here.to, regs[Here.from]) /\ Onward /\ UNCHANGED <<stack, flag>> /\ Silently

LoadAt == At("load") /\ Put("rax", ContentOf(regs["rax"])) /\ Onward /\ UNCHANGED <<stack, flag>> /\ Silently

ShiftBy == At("shift") /\ Put("rax", Behind(regs["rax"], Here.by)) /\ Onward
             /\ UNCHANGED <<stack, flag>> /\ Silently

OperateOn == /\ At("operate")
             /\ LET l == regs[IF Here.swapped THEN "rdi" ELSE "rax"]
                    r == regs[IF Here.swapped THEN "rax" ELSE "rdi"]
                IN Put("rax", Applied(Here.f, l, r))
             /\ Onward /\ UNCHANGED <<stack, flag>> /\ Silently

\* Arithmetic stays in xmm0, the outcome of a comparison is a number in rax.
OperateFloats ==
  /\ At("operatef")
  /\ LET l == regs[IF Here.swapped THEN "xmm1" ELSE "xmm0"]
         r == regs[IF Here.swapped THEN "xmm0" ELSE "xmm1"]
     IN Put(IF Here.f \in {"+", "-", "*", "/"} THEN "xmm0" ELSE "rax", Applied(Here.f, l, r))
  /\ Onward /\ UNCHANGED <<stack, flag>> /\ Silently

AddIndex == /\ At("add")
            /\ Put("rax", Applied("index", regs["rdi"], regs["rax"]))
            /\ Onward /\ UNCHANGED <<stack, flag>> /\ Silently

\* rax := rcx - rax
FromBack == /\ At("fromback")
            /\ Put("rax", Applied("-", regs["rcx"], regs["rax"]))
            /\ Onward /\ UNCHANGED <<stack, flag>> /\ Silently

Increase == /\ At("inc")
            /\ Put("rdi", Applied("+", regs["rdi"], Const(1)))
            /\ Onward /\ UNCHANGED <<stack, flag>> /\ Silently

SetIfZero == /\ At("sete")
             /\ Put("rax", Const(IF flag THEN 0 ELSE 1))
             /\ Onward /\ UNCHANGED <<stack, flag>> /\ Silently

PushReg == /\ At("push")
           /\ stack' = <<IF Here.from = "none" THEN Junk ELSE regs[Here.from]>> \o stack
           /\ Onward /\ UNCHANGED <<regs, flag>> /\ Silently

\* The slots of a struct, or the two halves of a long double.
PushSlots == /\ At("pushcopy")
             /\ stack' = [i \in 1 .. Here.slots |-> ContentOf(Behind(regs[Here.from], i - 1))] \o stack
             /\ Onward /\ UNCHANGED <<regs, flag>> /\ Silently

\* Below the frame of a lambda is its caller's, below that of a function are
\* the locals.
PopReg == /\ At("pop")
          /\ Put(Here.to, IF stack = <<>> THEN Junk ELSE Head(stack))
          /\ stack' = IF stack = <<>> THEN <<>> ELSE Tail(stack)
          /\ Onward /\ UNCHANGED flag /\ Silently

ReleaseSlots == At("release") /\ stack' = Deeper(Here.slots) /\ Onward /\ UNCHANGED <<regs, flag>> /\ Silently

StoreAt == At("store") /\ Happens(Stored(regs["rdi"], regs["rax"])) /\ Onward /\ UNCHANGED <<stack, regs, flag>>

ClearLocal == /\ At("clear")
              /\ Happens(Cleared(Here.x))
              /\ regs' = [regs EXCEPT !["rax"] = Junk, !["rcx"] = Junk, !["rdi"] = Junk]
              /\ Onward /\ UNCHANGED <<stack, flag>>

-----------------------------------------------------------------------------
LabelHere == At("label") /\ Onward /\ UNCHANGED <<stack, regs, flag>> /\ Silently

\* The operand of a comparison with zero is a number, or its truth is open.
Compare == /\ At("cmp")
           /\ LET t == regs["rax"]
              IN IF t.is = "const"
                   THEN flag' = (t.n # 0) /\ Silently
                   ELSE \E yes \in BOOLEAN : flag' = yes /\ Decides(t, yes)
           /\ Onward /\ UNCHANGED <<stack, regs>>

\* A case: the flag says whether the two are equal.
CompareTwo == /\ At("cmp2")
              /\ \E yes \in BOOLEAN :
                   /\ flag' = ~yes
                   /\ Decides(Applied("==", regs["rdi"], regs["rax"]), yes)
              /\ Onward /\ UNCHANGED <<stack, regs>>

Jump == At("jmp") /\ pc' = Goes(Here.to) /\ UNCHANGED <<stack, regs, flag>> /\ Silently

JumpIf == /\ At("je") \/ At("jne")
          /\ IF flag = (Here.op = "jne") THEN pc' = Goes(Here.to) ELSE Onward
          /\ UNCHANGED <<stack, regs, flag>> /\ Silently

\* The head of a range: is the counter below its bound?
RangeEnds == /\ At("jge")
             /\ \E below \in BOOLEAN :
                  /\ Decides(Applied("<", regs["rdi"], regs["rdx"]), below)
                  /\ IF below THEN Onward ELSE pc' = Goes(Here.to)
             /\ UNCHANGED <<stack, regs, flag>>

-----------------------------------------------------------------------------
\* asm_assign_lvar_offsets: which arguments the callee takes to be above its
\* frame, and how many slots up they begin.  Its test of the second half of a
\* struct looks at the first; the buffer for a result is not counted.
Assigned(c, i, t) ==
  LET F1   == One(HasFlonum1(t))
      Up   == [c EXCEPT !.above = @ @@ (i :> c.top), !.top = @ + Slots(t)]
      More(u, gp, fp) == [u EXCEPT !.gp = @ + gp, !.fp = @ + fp]
  IN CASE Small(t) -> IF Fits(c, 2 * (1 - F1), 2 * F1) THEN More(c, 1, 2 * F1) ELSE Up
       [] t.kind = "float"  -> More(IF c.fp < FpMax THEN c ELSE Up, 0, 1)
       [] t.kind = "scalar" -> More(IF c.gp < GpMax THEN c ELSE Up, 1, 0)
       [] OTHER             -> Up

Above(c) ==
  FoldLeft(LAMBDA a, i : Assigned(a, i, c.types[i]),
           [gp |-> 0, fp |-> 0, top |-> 0, above |-> <<>>], [i \in DOMAIN c.types |-> i]).above

\* asm_gen_function stores the others from the argument registers in turn; the
\* address of a buffer for the result comes first.
Stores(c, i, t) ==
  LET Take(a, slot) ==
        IF slot = "fp" THEN [a EXCEPT !.fp = @ + 1, !.regs[i] = Append(@, <<"fp", a.fp + 1>>)]
        ELSE [a EXCEPT !.gp = @ + 1, !.regs[i] = Append(@, <<"gp", a.gp + 1>>)]
  IN FoldLeft(Take, c, t.slots)

SavedFrom(c) ==
  FoldLeft(LAMBDA a, i : Stores(a, i, c.types[i]),
           [gp |-> One(Wide(c.result)), fp |-> 0, regs |-> [i \in DOMAIN c.types |-> <<>>]],
           SelectSeq([i \in DOMAIN c.types |-> i], LAMBDA i : i \notin DOMAIN Above(c))).regs

\* A slot of a register file that has that many.
Slot(r) == IF r[1] = "fp" THEN (IF r[2] <= FpMax THEN regs[XmmRegs[r[2]]] ELSE Junk)
           ELSE IF r[2] <= GpMax THEN regs[ArgRegs[r[2]]] ELSE Junk

\* Something of several slots is known by its address.
Whole(parts) ==
  IF parts[1].is = "content" /\ \A k \in DOMAIN parts : parts[k] = ContentOf(Behind(parts[1].at, k - 1))
    THEN parts[1].at ELSE Junk

Argument(c, i) ==
  LET above == Above(c)
      parts == IF i \in DOMAIN above
                 THEN [k \in 1 .. Slots(c.types[i]) |->
                        IF above[i] + k <= Len(stack) THEN stack[above[i] + k] ELSE Junk]
                 ELSE LET from == SavedFrom(c)[i] IN [k \in DOMAIN from |-> Slot(from[k])]
  IN IF c.types[i].kind \in {"scalar", "float"} THEN parts[1] ELSE Whole(parts)

\* Where the callee left a result: asm_copy_struct_reg.
ResultReg(t) == CASE t.kind = "float" -> "xmm0" [] t.kind = "f80" -> "st0" [] OTHER -> "rax"

Results(fn, t) ==
  LET part(k) == ContentOf(Behind(ResultOf(fn), k))
  IN IF t.kind # "struct" \/ Wide(t) THEN ResultReg(t) :> ResultOf(fn)
     ELSE IF Slots(t) = 1 THEN (IF HasFlonum1(t) THEN "xmm0" ELSE "rax") :> part(0)
     ELSE IF HasFlonum1(t) THEN ("xmm0" :> part(0)) @@ ("rax" :> part(1))
     ELSE ("rax" :> part(0)) @@ ("rdx" :> part(1))

CallFunction ==
  /\ At("call")
  /\ LET c == Here.signature
     IN /\ Happens(Called(regs["r10"], [i \in DOMAIN c.types |-> Argument(c, i)]))
        /\ \E pipe \in {Junk, regs["r15"]} :
             regs' = Results(regs["r10"], c.result)
                       @@ [r \in Registers |->
                            IF r = "r15" THEN pipe ELSE IF r \in Clobbered THEN Junk ELSE regs[r]]
  /\ Onward /\ UNCHANGED <<stack, flag>>

\* asm_copy_ret_buffer stores a slot of a result.
KeepSlot == At("keep") /\ Happens(Stored(Here.at, regs[Here.from])) /\ Onward /\ UNCHANGED <<stack, regs, flag>>

\* asm_copy_struct_reg loads a slot of a struct.
LoadSlot == At("part") /\ Put(Here.to, ContentOf(Behind(regs["rdi"], Here.slot))) /\ Onward
              /\ UNCHANGED <<stack, flag>> /\ Silently

\* asm_copy_struct_mem copies a struct to the buffer of the caller.
CopyStruct ==
  /\ At("copy")
  /\ Happens(Stored(ContentOf(AddressOf("return_ptr", 0)), Applied("struct", regs["rax"], Const(Here.slots))))
  /\ Put("rdi", ContentOf(AddressOf("return_ptr", 0))) /\ Onward /\ UNCHANGED <<stack, flag>>

\* What the caller of this function makes of the registers.
ResultHere ==
  LET f == Functions[function]
  IN IF f.void THEN NoValue
     ELSE IF f.result.kind = "struct" /\ ~Wide(f.result)
       THEN Whole([k \in 1 .. Slots(f.result) |-> regs[ResultRegs(f.result)[k]]])
     ELSE regs[ResultReg(f.result)]

\* A lambda pops the frame pointer without resetting rsp first.
ReturnToCaller ==
  /\ At("ret")
  /\ trace' = Append(trace, Returned(IF Functions[function].lambda /\ stack # <<>> THEN Nowhere
                                     ELSE ResultHere))
  /\ status' = "returned"
  /\ UNCHANGED <<pc, stack, regs, flag>>

Execute == \/ Enter \/ SetReg \/ MovReg \/ LoadAt \/ ShiftBy \/ OperateOn \/ OperateFloats
           \/ AddIndex \/ FromBack
           \/ Increase \/ SetIfZero \/ PushReg \/ PushSlots \/ PopReg \/ ReleaseSlots \/ StoreAt \/ ClearLocal
           \/ LabelHere \/ Compare \/ CompareTwo \/ Jump \/ JumpIf \/ RangeEnds
           \/ CallFunction \/ KeepSlot \/ LoadSlot \/ CopyStruct \/ ReturnToCaller

Next == \/ Generate /\ UNCHANGED mvars
        \/ Execute /\ UNCHANGED gvars

Spec == Start /\ [][Next]_vars

-----------------------------------------------------------------------------
(* Properties *)

IsJump(ins) == ins.op \in {"jmp", "je", "jne", "jge"}
Prints(i, l) == code[i].ins.op = "label" /\ code[i].ins.label = l

\* When the walk is over no label was printed twice, however nodes with labels
\* nest; and every jump has a label to go to, unless a break or continue of the
\* program stands outside of all loops, or in a deferred statement (which
\* nothing rejects).
JumpsHaveTargets ==
  (todo = <<>> /\ status = "ready") =>
    /\ \A i, j \in 1 .. Len(code) : Prints(i, code[i].ins.label) /\ Prints(j, code[i].ins.label) => i = j
    /\ Escapes(Functions[function].body) = {} =>
         \A i \in 1 .. Len(code) : IsJump(code[i].ins) => \E j \in 1 .. Len(code) : Prints(j, code[i].ins.to)

\* The function's code leaves the stack as it finds it, and no jump leaves what
\* could hold it.
Level == Escapes(Functions[function].body) = {} /\ Functions[function].body \in EvenStmts

\* Wherever two paths through the function meet, cg->depth, which is kept
\* along its text, tells of both whether rsp is a multiple of sixteen:
\* asm_push_args relies on it.
DepthTellsAlignment == (At("label") /\ Level) => (Len(stack) - code[pc].depth) % 2 = 0

\* rsp is a multiple of sixteen whenever a function is called, with all the
\* arguments on the stack, inside of whatever expression the call is.
CallsAligned == (At("call") /\ Level) => Len(stack) % 2 = 0

\* The stack is aligned whenever the code that was written there took it to be.
StackIsAligned == DepthTellsAlignment /\ CallsAligned
=============================================================================
