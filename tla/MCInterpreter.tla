--------------------------- MODULE MCInterpreter ----------------------------
(***************************************************************************)
(* Small programs for the interpreter: main with one local, f with an      *)
(* argument and a local, the conditions of all loops and branches open.    *)
(***************************************************************************)
EXTENDS Interpreter

Unknown          == [kind |-> "op", args |-> <<>>]
Id(o)        == [kind |-> "id", obj |-> o]
Op(l, r)     == [kind |-> "op", args |-> <<l, r>>]
Call(fn, e)  == [kind |-> "call", fn |-> fn, args |-> <<e>>]
Set(o, e)    == [kind |-> "assign", obj |-> o, right |-> e]
And(l, r)    == [kind |-> "and", left |-> l, right |-> r]
Or(l, r)     == [kind |-> "or", left |-> l, right |-> r]
Tern(c, y, n) == [kind |-> "ternary", cond |-> c, yes |-> y, no |-> n]

Do(e)         == [kind |-> "expr", e |-> e]
Ret(e)        == [kind |-> "return", e |-> e]
Seq2(s, t)    == [kind |-> "block", stmts |-> <<s, t>>, locals |-> {}]
Body(o, ss)   == [kind |-> "block", stmts |-> ss, locals |-> {o}]
IfElse(s, t)  == [kind |-> "if", cond |-> Unknown, yes |-> s, no |-> t]
Unless(s)     == [kind |-> "unless", cond |-> Unknown, body |-> s]
LoopOf(s)     == [kind |-> "loop", cond |-> Absent, body |-> s]
While(c, s)   == [kind |-> "while", cond |-> c, body |-> s]
DoWhile(s)    == [kind |-> "dowhile", cond |-> Unknown, body |-> s]
For(i, c, e, s) == [kind |-> "for", init |-> i, cond |-> c, step |-> e, body |-> s]
MatchOn(m, s, t, d) ==
  [kind |-> "match", cond |-> Unknown, default |-> d,
   cases |-> <<[mode |-> "==", cond |-> Unknown, body |-> s], [mode |-> m, cond |-> Unknown, body |-> t]>>]
BreakStmt    == [kind |-> "break"]
ContinueStmt == [kind |-> "continue"]

Program(mainBody, fBody) ==
  [main |-> [args |-> <<>>, locals |-> <<"x">>, body |-> mainBody],
   f    |-> [args |-> <<"a">>, locals |-> <<"b">>, body |-> fBody]]

SetX == Do(Set("x", Unknown))

\* Every construct around a statement s and a second one t.
Around(s, t) ==
  {Seq2(s, t), IfElse(s, t), Unless(s), While(Unknown, s), DoWhile(s), MatchOn("==", s, t, Nothing),
   For(SetX, Unknown, Set("x", Unknown), s), For(Absent, Unknown, Unknown, Seq2(s, t))}

\* Functions without jumps out of a loop, and calls only in plain expressions.
TameF == {Body("b", <<Do(Set("b", Op(Id("a"), Unknown))), Ret(Id("b"))>>),
          Body("b", <<IfElse(Ret(Id("a")), Nothing), Do(Set("a", Unknown))>>),
          Body("b", <<While(And(Id("a"), Unknown), Do(Set("a", Unknown)))>>)}

CallF == Do(Set("x", Tern(Or(Id("x"), Unknown), Call("f", Op(Id("x"), Unknown)), Id("x"))))

\* Loops left by break, continue or return: harmless where nothing follows.
LastLoops ==
  LET jump == {BreakStmt, ContinueStmt, Ret(Id("x"))}
      body == UNION {{Seq2(IfElse(j, Nothing), CallF), Seq2(CallF, Seq2(Unless(j), SetX))} : j \in jump}
  IN UNION {{LoopOf(s), While(Unknown, s), DoWhile(s), For(Absent, Unknown, Unknown, s)} : s \in body}

Constructs == Around(SetX, CallF) \union Around(CallF, SetX)

\* Every construct, then some loop; and every loop with every jump.
TamePrograms ==
  {Program(Body("x", <<SetX, s, While(Unknown, Seq2(IfElse(BreakStmt, ContinueStmt), CallF))>>), f) :
     s \in Constructs, f \in TameF}
  \union {Program(Body("x", <<SetX, l>>), f) : l \in LastLoops, f \in TameF}

\* Jumps anywhere, recursion, calls in every place, missing children.
SetA == Do(Set("a", Unknown))

WildF ==
  {Body("b", <<IfElse(Ret(Call("f", Id("a"))), Nothing), Do(Set("b", Op(Call("f", Unknown), Id("a"))))>>),
   Body("b", <<While(Unknown, Seq2(IfElse(BreakStmt, ContinueStmt), SetA)), Ret(Call("f", Id("b")))>>)}

WildPrograms ==
  {Program(Body("x", <<s, LoopOf(Seq2(IfElse(BreakStmt, Nothing), CallF)), CallF>>), f) :
     s \in Around(BreakStmt, CallF) \union Around(CallF, Ret(Call("f", Id("x"))))
            \union Around(ContinueStmt, Absent),
     f \in WildF}

\* A function that calls itself and then uses its argument.
RecursivePrograms ==
  {Program(Body("x", <<SetX, Do(Set("x", Call("f", Id("x"))))>>),
           Body("b", <<IfElse(Do(Set("b", Call("f", Unknown))), Nothing), Ret(Op(Id("a"), Unknown))>>))}

\* The nodes of a tree.
Children(t) ==
  CASE t.kind = "block"             -> ToSet(t.stmts)
    [] t.kind \in {"expr", "return"} -> {t.e}
    [] t.kind \in {"if", "ternary"}  -> {t.cond, t.yes, t.no}
    [] t.kind = "for"               -> {t.init, t.cond, t.step, t.body}
    [] t.kind \in {"unless", "loop", "while", "dowhile"} -> {t.cond, t.body}
    [] t.kind = "match"             -> {t.cond, t.default} \union UNION {{c.cond, c.body} : c \in ToSet(t.cases)}
    [] t.kind \in {"and", "or"}      -> {t.left, t.right}
    [] t.kind = "assign"            -> {t.right}
    [] t.kind \in {"op", "call"}     -> ToSet(t.args)
    [] OTHER                        -> {}
RECURSIVE Nodes(_)
Nodes(t) == {t} \union UNION {Nodes(c) : c \in Children(t)}
MCTrees == [p \in Programs |-> {Absent, Nothing} \union UNION {Nodes(p[f].body) : f \in DOMAIN p}]

AllPrograms == TamePrograms \union WildPrograms
=============================================================================
