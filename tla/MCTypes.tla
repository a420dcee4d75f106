------------------------------ MODULE MCTypes ------------------------------
(***************************************************************************)
(* Instances of TypesMeaning: every pair of types in every place a value   *)
(* can be put, every operator on every pair of numbers and pointers,       *)
(* constants, functions that return on some of their paths, and tables of  *)
(* structs and unions to be laid out.                                      *)
(***************************************************************************)
EXTENDS TypesMeaning

Ty(kind) == [kind |-> kind, id |-> kind]
Own(kind, id) == [kind |-> kind, id |-> id]
Def(i) == [kind |-> "undef", to |-> i]
Ptr(t) == [kind |-> "ptr", base |-> t]
Arr(t, n) == [kind |-> "array", base |-> t, n |-> n]
CArr(t, n) == [kind |-> "c_array", base |-> t, n |-> n]
Vla(t) == [kind |-> "vla", base |-> t]
Dyn(t) == [kind |-> "dyn", base |-> t]
Fn(args, base) == [kind |-> "fn", args |-> args, base |-> base, variadic |-> FALSE, noReturn |-> FALSE]
Struct(i, members) == [kind |-> "struct", at |-> i, union |-> FALSE, members |-> members,
                       names |-> SubSeq(<<"a", "b", "c", "d">>, 1, Len(members))]
Union(i, members) == [Struct(i, members) EXCEPT !.union = TRUE]
i32 == Ty("i32")

Obj(kind, type) == [kind |-> kind, const |-> FALSE, type |-> type]
Const(type) == [kind |-> "local", const |-> TRUE, type |-> type]
Program(types, objs, returns, stmts) ==
  [types |-> types, globals |-> {}, impls |-> {}, constants |-> {}, names |-> objs, body |-> stmts,
   fn |-> [name |-> "f", returns |-> returns, args |-> <<>>, hook |-> ""]]

Sub(kind, sub) == Node(kind, sub, NoType)
With(e, info) == [e EXCEPT !.info = info]
Id(n) == With(Sub("id", <<>>), n)
Lit(t) == Node("lit", <<>>, t)
Set(l, r) == Sub("assign", <<l, r>>)
Let(n, r) == With(Set(Id(n), r), "init")
Stmt(e) == Sub("expr_stmt", <<e>>)
Ret(e) == Sub("return", <<e>>)
Block(list) == Sub("block", list)
Spread(e) == [e EXCEPT !.spread = TRUE]

-----------------------------------------------------------------------------
(* Every pair of types in every place *)

Def1 == <<i32, Struct(2, <<i32, Ptr(Ty("i8"))>>), Struct(3, <<i32, Ptr(Ty("i8"))>>),
          [kind |-> "interface", at |-> 4, funcs |-> <<[name |-> "m", type |-> Fn(<<Ptr(Def(4))>>, i32)]>>], Arr(i32, 3)>>
Impls == {[base |-> Def1[2], interface |-> Def1[4]]}
Kinds == {Ty("i8"), i32, Ty("i64"), Ty("f32"), Ty("bool"), Ptr(i32), Ptr(Def(2)), Ptr(Def(3)), Ptr(Own("i32", "k")),
          Def(1), Def(2), Def(3), Dyn(Def(4)), Vla(i32), Arr(i32, 3), CArr(i32, 3), Fn(<<i32>>, i32), Def(5),
          Ptr(Arr(i32, 2)), Vla(Own("i32", "k"))}
Aliased == {i32, Ty("f32"), Def(1), Ptr(Def(1)), Ptr(i32), Def(2), Def(3), Ptr(Def(3))}
Places == {"assign", "argument", "return", "element", "member", "cast"}

Placing(place, from, to) ==
  LET objs == [x |-> Obj("local", to), y |-> Obj("fn_arg", from), g |-> Obj("function", Fn(<<Ty("i64"), to>>, i32))]
      stmt == CASE place = "assign"   -> Stmt(Set(Id("x"), Id("y")))
                [] place = "argument" -> Stmt(Sub("call", <<Id("g"), Lit(i32), Id("y")>>))
                [] place = "return"   -> Ret(Sub("closure", <<Id("y")>>))
                [] place = "element"  -> Stmt([Sub("array", <<Id("x"), Id("y")>>) EXCEPT !.at = "lit"])
                [] place = "member"   -> Stmt(Node("struct", <<Lit(i32), Id("y")>>, Struct(0, <<i32, to>>)))
                [] place = "cast"     -> Stmt(Node("cast", <<Id("y")>>, to))
  IN [Program(Def1, objs, IF place = "return" THEN to ELSE Ty("void"), <<stmt>>)
        EXCEPT !.impls = Impls, !.constants = {"k"}]
Placings == {Placing(p, from, to) : p \in Places, from \in Kinds, to \in Kinds}
\* The same without a constant type: aliases make no difference.
Unmarked == {[p EXCEPT !.constants = {}] : p \in {Placing(q, from, to) : q \in Places, from \in Aliased, to \in Aliased}}

-----------------------------------------------------------------------------
(* Operators *)

Def2 == <<i32, Struct(2, <<i32, Def(1)>>)>>
Operands == {Ty("i8"), i32, Ty("i64"), Ty("u64"), Ty("f32"), Ty("f64"), Ty("f80"), Ty("bool"), Def(1), Ptr(i32),
             Ptr(Ty("char")), Def(2)}
Binary == {"add", "sub", "mul", "div", "mod", "lt", "eq", "and", "bit_or"}
Operating == {Program(Def2, [x |-> Obj("fn_arg", l), y |-> Obj("fn_arg", r)], Ty("void"), <<Stmt(Sub(op, <<Id("x"), Id("y")>>))>>)
                : op \in Binary, l \in Operands, r \in Operands}
Unary == {Program(Def2, [x |-> Obj("fn_arg", t)], Ty("void"), <<Stmt(With(Node(op, <<Id("x")>>, t2), ""))>>)
            : op \in {"neg", "bit_neg", "not", "inc", "dec", "deref", "len"}, t \in Operands \union {Arr(i32, 2)}, t2 \in {Ty("u64")}}

-----------------------------------------------------------------------------
(* One statement after another, with all kinds of expressions *)

Env == [x |-> Obj("local", NoType), y |-> Obj("local", NoType), n |-> Obj("fn_arg", Ty("i64")), s |-> Obj("fn_arg", Def(2)),
        p |-> Obj("fn_arg", Ptr(Def(2))), d |-> Obj("fn_arg", Dyn(Def(4))), a |-> Obj("fn_arg", Arr(i32, 3)),
        v |-> Obj("fn_arg", Vla(i32)), g |-> Obj("function", [Fn(<<Ty("i64")>>, i32) EXCEPT !.variadic = TRUE]),
        t |-> Obj("typedef", Def(2))]
Values == {Id("x"), Id("t"), Lit(Ty("i8")), [Sub("ref", <<Id("x")>>) EXCEPT !.at = "r"], [Sub("ref", <<Id("p")>>) EXCEPT !.at = "r"],
           Sub("deref", <<Id("p")>>), With(Sub("member", <<Id("s")>>), "a"), With(Sub("member", <<Id("p")>>), "b"),
           With(Sub("member", <<Id("n")>>), "a"), Sub("call", <<With(Sub("member", <<Id("d")>>), "m")>>),
           Sub("call", <<Id("g"), Lit(i32), Spread(Id("a"))>>), Sub("call", <<Id("g"), Lit(i32), Spread(Id("v"))>>),
           Sub("call", <<Id("g")>>), Sub("call", <<Id("n")>>), Sub("index", <<Id("a"), Lit(i32)>>),
           With(Sub("index", <<Id("p"), Lit(i32)>>), "from_back"), [Sub("array", <<Lit(i32), Id("n")>>) EXCEPT !.at = "l"],
           [Sub("array", <<Spread(Id("a")), Lit(Ty("i8"))>>) EXCEPT !.at = "l"], [Sub("array", <<>>) EXCEPT !.at = "l"],
           [Sub("struct", <<Lit(i32), Id("n")>>) EXCEPT !.at = "l"], Node("struct", <<Id("n")>>, Def(2)),
           Sub("ternary", <<Lit(Ty("bool")), Lit(i32), Lit(Def(1))>>), Sub("ternary", <<Lit(Ty("bool")), Lit(i32), Lit(i32)>>),
           Sub("else_expr", <<Id("p"), Id("p")>>), Node("len", <<Id("v")>>, Ty("u64")),
           Sub("pipe", <<Id("n"), Sub("call", <<Id("g"), Sub("hole", <<>>)>>)>>), Sub("pipe", <<Id("p"), Sub("hole", <<>>)>>),
           Sub("pipe", <<Sub("hole", <<>>), Lit(i32)>>), Sub("hole", <<>>),
           With(Node("sizeof", <<>>, Ty("u64")), Def(2)), With(Node("sizeof", <<>>, Ty("u64")), Def(4)),
           Node("lambda", <<Block(<<Ret(Id("n"))>>)>>, Fn(<<>>, i32)), Node("lambda", <<Block(<<Ret(Id("p"))>>)>>, Fn(<<>>, Ty("i64")))}
         \union {With(Sub("type_expr", <<>>), [test |-> test, left |-> i32, right |-> t])
                   : test \in {"eq", "ne", "gt", "ge", "lt", "le", "is_int", "is_uint", "is_float", "is_pointer", "is_array", "is_struct", "is_union"},
                     t \in {Def(1), Ty("u64"), Def(2)}}
Thens == {Stmt(Set(Id("y"), Id("x"))), Stmt(Set(Sub("deref", <<Id("x")>>), Lit(i32))), Stmt(Set(Sub("closure", <<Id("x")>>), Lit(i32))),
          Stmt(Set(Id("g"), Lit(i32))), Stmt(Set(Sub("add", <<Id("x"), Id("n")>>), Lit(i32))),
          Sub("for_range", <<Id("n"), Id("x"), Block(<<>>)>>),
          With(Sub("match", <<Id("x"), With(Sub("case", <<Id("x"), Block(<<>>)>>), "gt")>>), ""),
          With(Sub("match_type", <<Block(<<>>), Block(<<>>)>>), [of |-> i32, cases |-> <<Def(1)>>]),
          With(Sub("match_type", <<Block(<<>>), Block(<<>>)>>), [of |-> i32, cases |-> <<i32, Def(1)>>]),
          Ret(Id("x"))}
Sequels == {[Program(Def1, Env, IF then.kind = "return" THEN ret ELSE Ty("void"), <<Let("x", value), then>>) EXCEPT !.impls = Impls]
              : value \in Values, then \in Thens, ret \in {Def(2)}}

-----------------------------------------------------------------------------
(* Constants *)

Uses1 == {Stmt(Set(Id("x"), Lit(Own("i32", "l3")))), Stmt(Set(Sub("closure", <<Id("x")>>), Lit(Own("i32", "l3")))), Stmt(Sub("inc", <<Id("x")>>)),
          Let("y", Id("x")), Stmt(Set(Id("y"), Id("x")))}
Declared == {NoType, Own("i32", "t"), Def(1)}
Constants ==
  {Program(Def2, [x |-> [kind |-> "local", const |-> c, type |-> tx], y |-> [kind |-> "local", const |-> b, type |-> ty]],
           Ty("void"), <<Let("x", Lit(Own("i32", "l1"))), u, v, w>>)
     : c \in BOOLEAN, b \in BOOLEAN, tx \in Declared, ty \in {NoType, Own("i32", "s")}, u \in Uses1, v \in Uses1,
       w \in {Stmt(Set(Id("x"), Id("y"))), Stmt(Sub("dec", <<Id("x")>>)), Let("y", Lit(Own("i64", "l2")))}}

-----------------------------------------------------------------------------
(* Functions that return, or not *)

Atoms == {Ret(Lit(i32)), Block(<<>>), Stmt(Sub("call", <<Id("exit")>>)), Stmt(Sub("call", <<Id("g")>>))}
Case(s) == With(Sub("case", <<Lit(i32), s>>), "eq")
Default(s) == With(Sub("case", <<s>>), "default")
Compound(S) ==
  {Block(<<a, b>>) : a \in S, b \in S} \union {Sub("if", <<Lit(Ty("bool")), a>>) : a \in S}
    \union {Sub("if", <<Lit(Ty("bool")), a, b>>) : a \in S, b \in S}
    \union {Sub("match", <<Lit(i32), Case(a), Case(b)>>) : a \in S, b \in S}
    \union {With(Sub("match", <<Lit(i32), Case(a), Default(b)>>), "default") : a \in S, b \in S}
    \union {Sub("loop", <<a>>) : a \in S}
Calls == [exit |-> Obj("function", [Fn(<<>>, Ty("void")) EXCEPT !.noReturn = TRUE]), g |-> Obj("function", Fn(<<>>, Ty("void")))]
Bodies == Compound(Atoms) \union {Block(<<a, b>>) : a \in Compound(Atoms), b \in Atoms}
            \union {Sub("if", <<Lit(Ty("bool")), a, b>>) : a \in Compound(Atoms), b \in Atoms}
Returning == {Program(<<>>, Calls, i32, <<b>>) : b \in Bodies}
Hooks == {[Program(<<>>, Calls, r, <<Ret(Lit(r))>>) EXCEPT !.fn = [name |-> name, returns |-> r, args |-> args, hook |-> hook]]
            : name \in {"main", "f"}, r \in {i32, Ty("i64")}, hook \in {"", "before_main", "after_main"},
              args \in {<<>>, <<i32>>, <<Ty("i64"), Ptr(i32)>>, <<Arr(i32, 3)>>, <<i32, i32, i32>>}}

-----------------------------------------------------------------------------
(* Tables to be laid out *)

Layouts ==
  {[Program(<<[Struct(1, a) EXCEPT !.union = u], [Struct(2, b) EXCEPT !.union = w], Struct(3, c)>>, <<>>, Ty("void"), <<>>) EXCEPT !.globals = g]
     : u \in BOOLEAN, w \in BOOLEAN, g \in {{}, {1}, {3}, {1, 2}},
       a \in {<<i32, Ty("i8")>>, <<Ty("i8"), Ptr(Def(2))>>, <<Ty("i8"), Ptr(Def(3))>>, <<Ty("i8"), Ptr(Def(1))>>,
              <<Ty("i64"), Ty("i64"), Ty("i8")>>},
       b \in {<<Def(1), Ty("i8")>>, <<CArr(Def(1), 3), i32>>, <<Ptr(Def(3)), Ptr(Def(1)), i32>>},
       c \in {<<Ty("i8"), Def(2)>>, <<Ptr(Def(1)), Def(2), i32>>, <<Ty("i8"), Ptr(Def(2)), CArr(i32, 3), Ty("i8")>>}}
\* What is held stands behind what holds it.
Reversed == {[Program(<<Struct(1, <<Def(2), t>>), [Struct(2, <<Def(3), Ty("i8")>>) EXCEPT !.union = u], Struct(3, <<i32, Ty("i8")>>)>>,
                      <<>>, Ty("void"), <<>>) EXCEPT !.globals = g] : t \in {i32, Ptr(Def(3))}, u \in BOOLEAN, g \in {{}, {1, 2}}}

MCPrograms == Placings \union Unmarked \union Operating \union Unary \union Sequels \union Constants \union Returning \union Hooks
                \union Layouts \union Reversed
=============================================================================
