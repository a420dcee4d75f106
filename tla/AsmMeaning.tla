----------------------------- MODULE AsmMeaning ------------------------------
(***************************************************************************)
(* What a function does, told by its tree alone: the reference for module  *)
(* AsmMachine.  Statements are those of the C back end, where break,       *)
(* continue and ret have C's meaning, a hole is the value of its own pipe, *)
(* and `a else b' is b where a is zero.  C leaves the order of operands    *)
(* open: taken is that of the assembly back end, so that the events of one *)
(* tree are comparable.                                                    *)
(*                                                                         *)
(* An evaluation is threaded through a record: the events so far, the      *)
(* outcomes of the branches still to come, the deferred statements, and    *)
(* the way it goes on: "go", "break", "continue", "return" or "cut".       *)
(***************************************************************************)
EXTENDS AsmMachine

CONSTANT WellBehaved \* functions that keep clear of the disagreements listed in the README

ASSUME WellBehavedAssumption == WellBehaved \subseteq DOMAIN Functions

Going(s) == s.way = "go"

\* An event, cut off where the machine is.
Do(s, e) == IF Len(s.trace) < MaxTrace
              THEN [s EXCEPT !.trace = Append(@, e)] ELSE [s EXCEPT !.way = "cut"]

\* Is t true, and the evaluation behind the question.
Ask(s, t) ==
  IF ~Going(s) \/ t.is = "const"
    THEN [s |-> s, yes |-> t.is = "const" /\ t.n # 0]
  ELSE IF s.outcomes = <<>> \/ Len(s.trace) >= MaxTrace
    THEN [s |-> [s EXCEPT !.way = "cut"], yes |-> FALSE]
  ELSE [s |-> [s EXCEPT !.trace = Append(@, Tested(t, Head(s.outcomes))), !.outcomes = Tail(@)],
        yes |-> Head(s.outcomes)]

\* A slot of what a function returned is put into the buffer for it.
KeptSlot(fn, i) == Stored(AddressOf("buffer", i), ContentOf(Behind(ResultOf(fn), i)))

RECURSIVE Value_(_, _, _), Place_(_, _, _), Values_(_, _, _, _), Fill(_, _, _, _, _)

\* Those of the first n arguments that are in S, the last one first.
Backwards(S, n) ==
  LET f[i \in 0 .. n] == IF i = 0 THEN <<>> ELSE IF i \in S THEN <<i>> \o f[i - 1] ELSE f[i - 1]
  IN f[n]

\* The values of args[k] for the k of an order.
Values_(args, order, hole, s) ==
  IF order = <<>> THEN [s |-> s, vs |-> <<>>]
  ELSE LET one  == Value_(args[Head(order)], hole, s)
           more == Values_(args, Tail(order), hole, one.s)
       IN [s |-> more.s, vs |-> (Head(order) :> one.v) @@ more.vs]

\* The members or elements from the i-th on are stored behind an address.
Fill(args, i, at, hole, s) ==
  IF i > Len(args) \/ ~Going(s) THEN s
  ELSE LET one == Value_(args[i], hole, s)
       IN Fill(args, i + 1, at, hole,
               IF Going(one.s) THEN Do(one.s, Stored(Behind(at, i - 1), one.v)) ELSE one.s)

\* The address of a node.
Place_(e, hole, s) ==
  CASE e.kind \in {"id", "function", "real"} -> [s |-> s, v |-> AddressOf(e.obj, 0)]
    [] e.kind = "deref" -> Value_(e.e, hole, s)
    [] e.kind = "index" ->
         LET left  == Value_(e.left, hole, s)
             index == Value_(e.index, hole, left.s)
         IN [s |-> index.s,
             v |-> Applied("index", left.v,
                     IF e.back THEN Applied("-", ContentOf(left.v), index.v) ELSE index.v)]
    [] OTHER -> Value_(e, hole, s)

\* The value of a node.
Value_(e, hole, s) ==
  IF ~Going(s) THEN [s |-> s, v |-> Junk]
  ELSE CASE e.kind = "int" -> [s |-> s, v |-> Const(e.n)]
    [] e.kind \in {"id", "deref", "index", "real"} ->
         LET at == Place_(e, hole, s) IN [s |-> at.s, v |-> ContentOf(at.v)]
    [] e.kind = "ref" -> Place_(e.e, hole, s)
    [] e.kind = "hole" -> [s |-> s, v |-> hole]
    [] e.kind = "closure" ->
         LET all == Values_(e.exprs, [i \in DOMAIN e.exprs |-> i], hole, s)
         IN [s |-> all.s, v |-> all.vs[Len(e.exprs)]]
    [] e.kind = "not" ->
         LET of == Value_(e.e, hole, s)  a == Ask(of.s, of.v)
         IN [s |-> a.s, v |-> Const(IF a.yes THEN 0 ELSE 1)]
    [] e.kind \in {"op", "fop"} ->
         LET got == Values_(e.args, IF e.f \in {">", ">="} THEN <<1, 2>> ELSE <<2, 1>>, hole, s)
         IN [s |-> got.s, v |-> Applied(e.f, got.vs[1], got.vs[2])]
    [] e.kind = "inc" ->
         LET at   == Place_(e.left, hole, s)
             next == Applied("+", ContentOf(at.v), Const(1))
         IN [s |-> IF Going(at.s) THEN Do(at.s, Stored(at.v, next)) ELSE at.s,
             v |-> Applied("-", next, Const(1))]
    [] e.kind = "pipe" ->
         LET left == Value_(e.left, hole, s) IN Value_(e.right, left.v, left.s)
    [] e.kind \in {"struct", "array"} ->
         [s |-> Fill(e.args, 1, AddressOf(e.buffer, IF e.kind = "array" THEN 1 ELSE 0), hole, s),
          v |-> AddressOf(e.buffer, 0)]
    [] e.kind = "assign" /\ e.right.kind \in {"struct", "array"} ->
         LET to == Place_(e.left, hole, s)
         IN [s |-> Fill(e.right.args, 1,
                        IF e.right.kind = "array" THEN Behind(to.v, 1) ELSE to.v, hole, to.s),
             v |-> to.v]
    [] e.kind = "assign" /\ e.right.kind \notin {"struct", "array"} ->
         LET to == Place_(e.left, hole, s)
             of == Value_(e.right, hole, to.s)
         IN [s |-> IF Going(of.s) THEN Do(of.s, Stored(to.v, of.v)) ELSE of.s, v |-> of.v]
    [] e.kind \in {"and", "or"} ->
         LET left  == Value_(e.left, hole, s)
             first == Ask(left.s, left.v)
             right == Value_(e.right, hole, first.s)
             last  == Ask(right.s, right.v)
         IN IF first.yes = (e.kind = "or")
              THEN [s |-> first.s, v |-> Const(IF first.yes THEN 1 ELSE 0)]
              ELSE [s |-> last.s, v |-> Const(IF last.yes THEN 1 ELSE 0)]
    [] e.kind = "ternary" ->
         LET c == Value_(e.cond, hole, s)  a == Ask(c.s, c.v)
         IN Value_(IF a.yes THEN e.yes ELSE e.no, hole, a.s)
    [] e.kind = "else" ->
         LET left == Value_(e.left, hole, s)  a == Ask(left.s, left.v)
         IN IF a.yes THEN [s |-> a.s, v |-> left.v] ELSE Value_(e.right, hole, a.s)
    [] e.kind = "call" ->
         LET got == Values_(e.args, Backwards(ByStack(e), Len(e.args)) \o Backwards(ByRegister(e), Len(e.args)), hole, s)
             at  == Place_(e.fn, hole, got.s)
             fn  == IF e.fn.kind = "function" THEN at.v ELSE ContentOf(at.v)
             done == IF Going(at.s) THEN Do(at.s, Called(fn, [i \in DOMAIN e.args |-> got.vs[i]])) ELSE at.s
             kept == e.result.kind = "struct" /\ ~Wide(e.result)
         IN [s |-> IF kept THEN FoldLeft(LAMBDA r, i : IF Going(r) THEN Do(r, KeptSlot(fn, i - 1)) ELSE r,
                                         done, [i \in 1 .. Slots(e.result) |-> i])
                   ELSE done,
             v |-> IF kept THEN AddressOf("buffer", 0) ELSE ResultOf(fn)]

-----------------------------------------------------------------------------
RECURSIVE Run(_, _), RunAll(_, _), Iterate_(_, _), Range_(_, _, _, _), TryCases(_, _, _, _)

RunAll(stmts, s) == IF stmts = <<>> THEN s ELSE RunAll(Tail(stmts), Run(Head(stmts), s))

\* Is the value r true, and the one side or the other behind the answer.
IsTrue(r)            == Ask(r.s, r.v)
Decide(a, yes, no) == Run(IF a.yes THEN yes ELSE no, a.s)

\* What follows the body of a loop.
AfterBody(s) == IF s.way = "continue" THEN [s EXCEPT !.way = "go"] ELSE s
Broken(s)    == IF s.way = "break" THEN [s EXCEPT !.way = "go"] ELSE s

\* The rounds of a loop from the answer a of its test on.
LoopTest(loop, s) == IF loop.cond = Absent THEN [s |-> s, yes |-> TRUE]
                     ELSE IsTrue(Value_(loop.cond, Junk, s))
LoopStep(loop, s) == IF loop.step = Absent THEN s ELSE Value_(loop.step, Junk, s).s
NextRound(loop, s) == IF Going(s) THEN Iterate_(loop, LoopTest(loop, LoopStep(loop, s))) ELSE Broken(s)
Iterate_(loop, a) == IF Going(a.s) /\ a.yes THEN NextRound(loop, AfterBody(Run(loop.body, a.s))) ELSE a.s

\* Those of a range.
Below(low, high, s) == Ask(s, Applied("<", low, high))
NextInRange(loop, low, high, s) ==
  IF Going(s)
    THEN LET next == Applied("+", low, Const(1)) IN Range_(loop, next, high, Below(next, high, s))
    ELSE Broken(s)
Range_(loop, low, high, a) ==
  IF Going(a.s) /\ a.yes THEN NextInRange(loop, low, high, AfterBody(Run(loop.body, a.s))) ELSE a.s
RangeTo(loop, low, high) == Range_(loop, low, high.v, Below(low, high.v, high.s))
RangeFrom(loop, low)     == RangeTo(loop, low.v, Value_(loop.high, Junk, low.s))

\* The cases of a match from the i-th on, and behind the value w of the i-th.
CaseIs(m, v, i, w) == LET a == Ask(w.s, Applied("==", v, w.v))
                      IN IF a.yes THEN Run(m.cases[i].body, a.s) ELSE TryCases(m, v, i + 1, a.s)
TryCases(m, v, i, s) == IF i > Len(m.cases) THEN Run(m.default, s)
                        ELSE CaseIs(m, v, i, Value_(m.cases[i].cond, Junk, s))
Matching(m, c) == TryCases(m, c.v, 1, c.s)

\* The body of a with, and the call of the exit function behind it.
CallExit(t, it)   == IF Going(it.s) THEN Do(it.s, Called(AddressOf(t.exit.obj, 0), <<it.v>>)) ELSE it.s
ExitWith(t, s)    == IF Going(s) THEN CallExit(t, Value_(t.cond.left, Junk, s)) ELSE s
InsideWith(t, a)  == IF a.yes THEN ExitWith(t, Run(t.yes, a.s)) ELSE Run(t.no, a.s)

\* A large struct is copied to the caller before the end.
CopiedOut(r) ==
  LET t == Functions[function].result
  IN IF Wide(t) /\ Going(r.s)
       THEN Do(r.s, Stored(ContentOf(AddressOf("return_ptr", 0)), Applied("struct", r.v, Const(Slots(t)))))
       ELSE r.s
Returning(r) == LET s == CopiedOut(r)
                IN IF Going(s) THEN [s EXCEPT !.way = "return", !.value = r.v] ELSE s

Run(t, s) ==
  IF ~Going(s) THEN s
  ELSE CASE t.kind \in {"noop", "none"} -> s
    [] t.kind = "expr"  -> Value_(t.e, Junk, s).s
    [] t.kind = "block" ->
         RunAll(t.stmts, FoldLeft(LAMBDA r, x : IF Going(r) THEN Do(r, Cleared(x)) ELSE r, s, t.locals))
    [] t.kind \in {"if", "unless"} ->
         Decide(IsTrue(Value_(t.cond, Junk, s)),
                IF t.kind = "if" THEN t.yes ELSE Absent, IF t.kind = "if" THEN t.no ELSE t.body)
    [] t.kind = "with"   -> InsideWith(t, IsTrue(Value_(t.cond.left, Junk, Value_(t.cond, Junk, s).s)))
    [] t.kind \in {"for", "while", "loop"} ->
         Iterate_(t, LoopTest(t, IF t.kind = "for" THEN Run(t.init, s) ELSE s))
    [] t.kind = "dowhile" -> Iterate_(t, [s |-> s, yes |-> TRUE])
    [] t.kind = "range"   -> RangeFrom(t, Value_(t.low, Junk, s))
    [] t.kind = "match"   -> Matching(t, Value_(t.cond, Junk, s))
    [] t.kind = "return"  ->
         Returning(IF t.e = Absent THEN [s |-> s, v |-> NoValue] ELSE Value_(t.e, Junk, s))
    [] t.kind \in {"break", "continue"} -> [s EXCEPT !.way = t.kind]
    [] t.kind = "defer" -> [s EXCEPT !.deferred = Append(@, t.body)]

\* The deferred statements behind the body, and the end.
RunDeferred(s) == IF s.way = "cut" THEN s ELSE RunAll(s.deferred, [s EXCEPT !.way = "go"])
Events(s)      == IF s.way = "cut" THEN s.trace ELSE Append(s.trace, Returned(s.value))

\* The events of the function, with these outcomes of its branches.
Meaning(outcomes) ==
  Events(RunDeferred(Run(Functions[function].body,
    [trace |-> <<>>, outcomes |-> outcomes, deferred |-> <<>>, way |-> "go", value |-> NoValue])))

-----------------------------------------------------------------------------
\* The walk's counters are counters, the stack holds terms, and a run that
\* has not begun has done nothing.
TypeOK ==
  /\ function \in DOMAIN Functions
  /\ depth \in Nat
  /\ {cur_count, cur_brk_id, cur_cnt_id} \subseteq 0 .. max_count
  /\ \A i \in DOMAIN code : code[i].depth \in Nat
  /\ pc \in 0 .. Len(code)
  /\ DOMAIN regs = Registers
  /\ \A t \in ToSet(stack) \union {regs[r] : r \in Registers} : "is" \in DOMAIN t
  /\ Len(trace) <= MaxTrace + 1
  /\ status \in {"ready", "running", "returned", "cut"}
  /\ todo # <<>> => status = "ready"

\* The instructions do what the function means: the same stores, calls and
\* branches on the same values in the same order, every argument where the
\* callee looks for it, on every path.
CompiledRight ==
  (status \in {"returned", "cut"} /\ function \in WellBehaved) =>
    trace = Meaning([i \in DOMAIN Tests(trace) |-> Tests(trace)[i].yes])
=============================================================================
