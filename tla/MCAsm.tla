------------------------------- MODULE MCAsm ---------------------------------
(***************************************************************************)
(* Small functions for the assembly back end: every pair of expressions    *)
(* one inside the other, every pair of statements, calls with more         *)
(* arguments than registers.                                               *)
(***************************************************************************)
EXTENDS AsmMeaning

Id(x)          == [kind |-> "id", obj |-> x]
Num(n)         == [kind |-> "int", n |-> n]
Fn(f)          == [kind |-> "function", obj |-> f]
Op(f, l, r)    == [kind |-> "op", f |-> f, args |-> <<l, r>>]
NotE(e)        == [kind |-> "not", e |-> e]
DerefE(e)      == [kind |-> "deref", e |-> e]
RefE(e)        == [kind |-> "ref", e |-> e]
IncE(e)        == [kind |-> "inc", left |-> e]
And(l, r)      == [kind |-> "and", left |-> l, right |-> r]
Or(l, r)       == [kind |-> "or", left |-> l, right |-> r]
Else(l, r)     == [kind |-> "else", left |-> l, right |-> r]
PipeE(l, r)    == [kind |-> "pipe", left |-> l, right |-> r]
HoleE          == [kind |-> "hole"]
Tern(c, y, n)  == [kind |-> "ternary", cond |-> c, yes |-> y, no |-> n]
At_(l, i, b)   == [kind |-> "index", left |-> l, index |-> i, back |-> b]
SetE(l, r)     == [kind |-> "assign", left |-> l, right |-> r]
StructE(args)  == [kind |-> "struct", buffer |-> "buffer", args |-> args]
ArrayE(args)   == [kind |-> "array", buffer |-> "array", args |-> args]
Both(a, b)     == [kind |-> "closure", exprs |-> <<a, b>>]
CallE(f, args, types, result) ==
  [kind |-> "call", fn |-> f, args |-> args, types |-> types, result |-> result]
Scalars(args)  == [i \in DOMAIN args |-> Scalar]
F(args)        == CallE(Fn("f"), args, Scalars(args), Scalar)
Large          == Struct(<<"gp", "gp", "gp">>)

DoE(e)          == [kind |-> "expr", e |-> e]
Ret(e)          == [kind |-> "return", e |-> e]
Seq2(s, t)      == [kind |-> "block", stmts |-> <<s, t>>, locals |-> <<>>]
Body(ss)        == [kind |-> "block", stmts |-> ss, locals |-> <<"x">>]
IfElse(c, s, t) == [kind |-> "if", cond |-> c, yes |-> s, no |-> t]
UnlessS(c, s)   == [kind |-> "unless", cond |-> c, body |-> s]
LoopS(s)        == [kind |-> "loop", cond |-> Absent, step |-> Absent, body |-> s]
WhileS(c, s)    == [kind |-> "while", cond |-> c, step |-> Absent, body |-> s]
DoWhileS(c, s)  == [kind |-> "dowhile", cond |-> c, step |-> Absent, body |-> s]
ForS(i, c, e, s) == [kind |-> "for", init |-> i, cond |-> c, step |-> e, body |-> s]
RangeS(l, h, s) == [kind |-> "range", low |-> l, high |-> h, body |-> s]
MatchS(c, s, t, d) ==
  [kind |-> "match", cond |-> c, default |-> d,
   cases |-> <<[cond |-> Num(1), body |-> s], [cond |-> F(<<>>), body |-> t]>>]
WithS(e, s, t)  == [kind |-> "with", cond |-> SetE(Id("x"), e), exit |-> Fn("close"), yes |-> s, no |-> t]
DeferS(s)       == [kind |-> "defer", body |-> s]
BreakS          == [kind |-> "break"]
ContinueS       == [kind |-> "continue"]

Function(s) == [body |-> s, lambda |-> FALSE, void |-> TRUE, result |-> Scalar]
Lambda(s)   == [body |-> s, lambda |-> TRUE, void |-> TRUE, result |-> Scalar]
Giving(s)   == [body |-> s, lambda |-> FALSE, void |-> FALSE, result |-> Scalar]

X == Id("x")
Y == Id("y")
G == CallE(Fn("g"), <<>>, <<>>, Scalar)

\* An index as an argument stands in parentheses, as in the macro of
\* std/array.csp, or its from_back is taken for pass_by_stack.
Arg(e) == IF e.kind = "index" THEN [kind |-> "closure", exprs |-> <<e>>] ELSE e

\* Every kind of expression around a and b.
Combine(a, b) ==
  <<Op("-", a, b), Op(">", a, b), And(a, b), Or(a, b), NotE(Op("-", a, b)), Tern(a, b, X),
    SetE(X, Op("-", a, b)), SetE(At_(a, b, FALSE), Y), SetE(DerefE(a), b), At_(a, b, TRUE),
    RefE(At_(a, b, FALSE)), StructE(<<a, b>>), ArrayE(<<a, b>>), SetE(Y, StructE(<<a, b>>)),
    SetE(Y, ArrayE(<<a, b>>)), Both(a, b), Op("+", IncE(Y), Op("*", a, b)), PipeE(a, Op("-", b, HoleE)),
    F(<<Arg(a), Arg(b)>>), F(<<Arg(a), X, Arg(b), Y, X>>), CallE(X, <<Arg(a), Arg(b)>>, <<Scalar, Scalar>>, Scalar),
    CallE(Fn("f"), <<RefE(X), Arg(a), Arg(b), Y>>, <<Large, Scalar, Scalar, Scalar>>, Scalar),
    CallE(Fn("f"), <<Arg(a)>>, <<Scalar>>, Large)>>

\* Statements around s and t that no break leaves early but their loops.
Around(s, t) ==
  <<Seq2(s, t), IfElse(X, s, t), UnlessS(Y, Seq2(s, t)), WhileS(X, Seq2(s, t)),
    DoWhileS(Op("-", X, Y), Seq2(s, t)), ForS(s, X, IncE(X), t), LoopS(Seq2(t, IfElse(Y, s, BreakS))),
    MatchS(X, s, t, s), WithS(G, s, t), RangeS(X, G, Seq2(s, t))>>

CallF == DoE(F(<<X, Y, X>>))
SetY  == DoE(SetE(Y, Op("-", X, F(<<>>))))

Each == DOMAIN Combine(X, X)
Any_ == DOMAIN Around(CallF, SetY)

\* One expression or statement as the first or the second part of another.
Nested(outer, inner, first) ==
  LET e == Combine(G, X)[inner] IN (IF first THEN Combine(e, X) ELSE Combine(X, e))[outer]
NestedStatement(outer, inner, first) ==
  LET s == Around(CallF, SetY)[inner] IN (IF first THEN Around(s, SetY) ELSE Around(CallF, s))[outer]

\* Every loop left and continued from inside of a decision, a with and another
\* loop; a range only left, by break where it is the only one or by ret.
Leaving(jump) == <<IfElse(X, jump, SetY), UnlessS(Y, Seq2(jump, SetY)), WithS(G, jump, SetY),
                   MatchS(X, SetY, Seq2(CallF, SetY), jump)>>
LoopsAround(s) == <<WhileS(X, s), DoWhileS(G, s), ForS(Absent, X, IncE(Y), s), LoopS(Seq2(DoE(G), s))>>
Jumps    == <<IfElse(X, ContinueS, SetY), UnlessS(Y, BreakS)>>
Bodies   == [i \in 1 .. 2 |-> Seq2(Jumps[i], CallF)] \o [i \in 1 .. 4 |-> Seq2(Leaving(Ret(Absent))[i], SetY)]
Ranges   == [i \in 1 .. 5 |-> RangeS(X, Y, Bodies[i + 1])]

\* Calls with arguments of every type: what fills the registers, and one struct
\* or dynamic value where two registers of each kind are left for it.
Plain   == {Scalar, Float, F80, Large}
Structs == {Dyn, Struct(<<"gp">>), Struct(<<"fp">>), Struct(<<"gp", "gp">>), Struct(<<"fp", "gp">>),
            Struct(<<"fp", "fp">>)}
Few(types, t) == Cardinality({i \in DOMAIN types : types[i] = t}) <= 1
OneStruct(types) == /\ Cardinality({i \in DOMAIN types : types[i] \in Structs}) = 1
                    /\ Few(types, Scalar) /\ Few(types, Float)
Signatures == UNION {[1 .. n -> Plain] : n \in 1 .. 5}
                \union {types \in UNION {[1 .. n -> Plain \union Structs] : n \in 1 .. 4} : OneStruct(types)}

Names == <<"a", "b", "c", "d", "e">>
OfType(t, x) == IF t \in {Float, F80} THEN [kind |-> "real", type |-> t, obj |-> x]
                ELSE IF t = Scalar THEN Id(x) ELSE RefE(Id(x))
Passing(types, result) ==
  CallE(Fn("f"), [i \in DOMAIN types |-> OfType(types[i], Names[i])], types, result)

\* Results of every size, used on both sides of another call, and returned.
\* Of two floating point slots the second is lost.
Results_ == {Struct(<<"gp">>), Struct(<<"fp">>), Struct(<<"gp", "gp">>), Struct(<<"fp", "gp">>), Large}
Around2(result) ==
  <<Passing(<<Scalar, Scalar, Struct(<<"gp">>)>>, result),
    F(<<Op("-", X, Passing(<<Scalar, Float, F80>>, result)), Y>>),
    Op("-", Passing(<<Large, Scalar>>, result), G)>>

\* Floating point: one operation inside the other, with calls between.
RealE(x)      == [kind |-> "real", type |-> Float, obj |-> x]
Fop(f, l, r)  == [kind |-> "fop", f |-> f, args |-> <<l, r>>]
FloatCall(e)  == CallE(Fn("f"), <<e, RealE("a"), X>>, <<Float, Float, Scalar>>, Float)
Floats(a)     == <<Fop("-", a, RealE("b")), Fop("-", RealE("b"), a), Fop("/", a, a), FloatCall(a),
                   FloatCall(Fop("-", FloatCall(a), a)), Tern(X, a, RealE("b"))>>
Compared(a)   == <<Fop("<", a, RealE("b")), Fop(">", RealE("b"), a), Op("-", Fop("==", a, a), G)>>
FloatFunction(i, j, k) ==
  LET a == Floats(Floats(RealE("a"))[i])[j]
  IN IF k = 0 THEN [Giving(Body(<<Ret(a)>>)) EXCEPT !.result = Float] ELSE Giving(Body(<<Ret(Compared(a)[k])>>))

\* The functions, named after the way they are put together.
TameKeys ==
  ({"expr", "bare"} \X Each \X Each) \union ({"stmt", "into"} \X Any_ \X Any_)
    \union ({"loop"} \X (1 .. 4) \X (1 .. 6)) \union ({"twice"} \X (1 .. 4) \X (1 .. 8))
    \union ({"range"} \X (1 .. 5) \X {1}) \union ({"defer"} \X Any_ \X {1, 2})
    \union ({"lambda"} \X Any_ \X {1}) \union ({"call"} \X Signatures \X {1})
    \union ({"result"} \X Results_ \X (1 .. 4))
    \union ({"float"} \X (1 .. 6) \X ((1 .. 6) \X (0 .. 3)))

\* `else' leaves one of its two copies on the stack, a match without a default
\* falls into its first case: compiled, but not well-behaved.
WildKeys == {"else", "no default", "index"} \X {1} \X {1}
IndexKeys == {<<"index", 1, 1>>}

Compiled ==
  [k \in TameKeys \union WildKeys |->
     CASE k[1] \in {"expr", "bare"} -> Giving(Ret(Nested(k[2], k[3], k[1] = "expr")))
       [] k[1] \in {"stmt", "into"} -> Function(Body(<<NestedStatement(k[2], k[3], k[1] = "stmt"), CallF>>))
       [] k[1] = "loop"  -> Function(Body(<<LoopsAround(Bodies[k[3]])[k[2]], CallF>>))
       [] k[1] = "twice" ->
            LET inner == LoopsAround(Seq2(Jumps[1 + ((k[3] - 1) % 2)], CallF))[(k[3] + 1) \div 2]
            IN Function(Body(<<LoopsAround(Seq2(inner, SetY))[k[2]], CallF>>))
       [] k[1] = "range" -> Function(Body(<<Ranges[k[2]], CallF>>))
       \* Values saved over deferred statements.
       [] k[1] = "defer" -> Giving(Body(<<DeferS(Around(CallF, SetY)[k[2]]), DeferS(SetY),
                                          Ret(IF k[3] = 1 THEN X ELSE G)>>))
       [] k[1] = "lambda" -> Lambda(Body(<<Around(CallF, SetY)[k[2]], Ret(Absent)>>))
       [] k[1] = "call" -> Function(Body(<<DoE(Passing(k[2], Scalar))>>))
       [] k[1] = "result" /\ k[3] <= 3 -> Giving(Body(<<Ret(Around2(k[2])[k[3]])>>))
       [] k[1] = "result" /\ k[3] = 4  -> [Giving(Ret(RefE(X))) EXCEPT !.result = k[2]]
       [] k[1] = "float" -> FloatFunction(k[2], k[3][1], k[3][2])
       [] k[1] = "index" -> Function(Body(<<DoE(F(<<At_(X, Y, TRUE), G>>))>>))
       [] k[1] = "else"  -> Function(Body(<<DoE(SetE(Y, Else(X, G))), CallF>>))
       [] k[1] = "no default" -> Function(Body(<<MatchS(X, SetY, CallF, Absent), [kind |-> "noop"]>>))]

-----------------------------------------------------------------------------
\* The nodes of the functions, and what leaves their statements.
Given(x) == IF x = Absent THEN {} ELSE {x}
Each_(list) == {list[i] : i \in DOMAIN list}

Parts(e) ==
  CASE e.kind \in {"deref", "ref", "not"} -> {e.e}
    [] e.kind \in {"pipe", "and", "or", "else", "assign"} -> {e.left, e.right}
    [] e.kind = "index"   -> {e.left, e.index}
    [] e.kind = "ternary" -> {e.cond, e.yes, e.no}
    [] e.kind = "closure" -> Each_(e.exprs)
    [] e.kind \in {"op", "fop", "struct", "array"} -> Each_(e.args)
    [] e.kind = "call"    -> Each_(e.args) \union {e.fn}
    [] e.kind = "inc"     -> {Incremented(e)}
    [] OTHER -> {}

Inner(s) ==
  CASE s.kind \in {"if", "with"} -> {s.yes, s.no}
    [] s.kind \in {"unless", "range", "while", "dowhile", "loop", "defer"} -> {s.body}
    [] s.kind = "for"   -> {s.init, s.body}
    [] s.kind = "block" -> Each_(s.stmts)
    [] s.kind = "match" -> {c.body : c \in Each_(s.cases)} \union {s.default}
    [] OTHER -> {}

ExprsOf(s) ==
  CASE s.kind \in {"if", "unless", "while", "dowhile"} -> {s.cond}
    [] s.kind = "with"  -> {s.cond, s.cond.left, ExitCall(s)}
    [] s.kind = "match" -> {s.cond} \union {c.cond : c \in Each_(s.cases)}
    [] s.kind = "for"   -> Given(s.cond) \union Given(s.step)
    [] s.kind = "range" -> {s.low, s.high}
    [] s.kind \in {"expr", "return"} -> Given(s.e)
    [] OTHER -> {}

RECURSIVE WithInner(_), WithParts(_), EscapesOf(_)
WithInner(S) == IF S = {} THEN {} ELSE S \union WithInner(UNION {Inner(s) : s \in S})
WithParts(E) == IF E = {} THEN {} ELSE E \union WithParts(UNION {Parts(e) : e \in E})

AllStmts == {Absent} \union WithInner({Compiled[k].body : k \in DOMAIN Compiled})
AllExprs ==
  LET given == WithParts(UNION {ExprsOf(s) : s \in AllStmts})
  IN given \union (UNION {{From(e, TRUE), From(e, FALSE)} : e \in {x \in given : x.kind = "index"}})

\* TLC keeps the value of a definition, but not that of what replaces a constant.
MCStmts == AllStmts
MCExprs == AllExprs

\* Which jumps leave a statement.
EscapesOf(s) ==
  LET below == UNION {EscapesOf(x) : x \in Inner(s)}
  IN CASE s.kind \in {"break", "continue"} -> {s.kind}
       [] s.kind \in {"for", "range", "while", "dowhile", "loop"} -> below \ {"break", "continue"}
       [] s.kind = "match" -> below \ {"break"}
       [] s.kind = "defer" -> IF below = {} THEN {} ELSE {"stray"}
       [] OTHER -> below

\* The trees that leave the stack as they find it.
RECURSIVE IsLevelExpr(_), IsLevelStmt(_, _)
IsLevelExpr(e) ==
  /\ e.kind # "else"
  /\ e.kind = "call" => Agrees(e)
  /\ \A x \in Parts(e) : IsLevelExpr(x)
IsLevelStmt(s, odd) ==
  /\ s.kind = "return" => ~odd
  /\ \A e \in ExprsOf(s) : IsLevelExpr(e)
  /\ \A x \in Inner(s) : IsLevelStmt(x, odd \/ s.kind = "defer")

\* These functions are level, but for `else'.
ASSUME \A k \in DOMAIN Compiled : Compiled[k].body \in LevelStmts(FALSE) <=> k[1] # "else"
=============================================================================
