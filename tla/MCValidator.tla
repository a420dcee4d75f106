---------------------------- MODULE MCValidator -----------------------------
EXTENDS ValidatorMeaning

Path(p) == [global |-> FALSE, path |-> p]
Var(name, at) == [kind |-> "id", id |-> Path(<<name>>), at |-> at]
VarIn(path, at) == [kind |-> "id", id |-> Path(path), at |-> at]
TypeName(name, at) == [kind |-> "undef", id |-> Path(<<name>>), at |-> at]
I32 == [kind |-> "i32"]
One == [kind |-> "int"]
Stmt(e) == [kind |-> "expr_stmt", expr |-> e]
Block(locals, stmts) == [kind |-> "block", locals |-> locals, stmts |-> stmts]
Call(f, at) == [kind |-> "call", expr |-> Var(f, at), args |-> <<>>]

Ob(kind, name) == [kind |-> kind, name |-> name]
Local(name)  == Ob("local", name) @@ [type |-> I32]
Arg(name)    == Ob("arg", name) @@ [type |-> I32]
Global(name) == Ob("global", name) @@ [type |-> I32, value |-> One]
Function(name, args, type, body) == Ob("function", name) @@ [outer |-> NoObj, args |-> args, return_type |-> type, body |-> body]
Space(name, objs) == Ob("namespace", name) @@ [objs |-> objs]
Typedef(name, type) == Ob("typedef", name) @@ [type |-> type]

RECURSIVE Labels(_, _, _)
Labels(obj, tag, x) ==
  IF tag = "code" THEN Labels(obj, "node", x)
  ELSE LET thing == IF tag = "obj" THEN obj[x] ELSE x
           items == Below(tag, thing)
       IN (IF "at" \in DOMAIN thing THEN {thing.at} ELSE {}) \union UNION {Labels(obj, items[i][1], items[i][2]) : i \in DOMAIN items}
Prog(objs, obj, drops) ==
  [objs |-> objs, obj |-> obj, drops |-> drops, uses |-> UNION {Labels(obj, "obj", o) : o \in Range(objs)}]

Picked(set, seq) == SelectSeq(seq, LAMBDA o : o \in set)

-----------------------------------------------------------------------------
(* An x in any of the scopes of one function, and in a namespace. *)

Scopes(in, use) ==
  Prog(Picked(in, <<1>>) \o <<2, 4>>,
       <<Global("x"), Space("N", Picked(in, <<3>>)), Global("x"),
         Function("main", Picked(in, <<5>>), I32,
           Block(Picked(in, <<6>>),
             <<[kind |-> "if", condition |-> Var("x", "a"), if_branch |->
                  Block(Picked(in, <<7>>), <<Stmt(Var("x", "b")), [kind |-> "using", id |-> Path(<<"N">>)], Stmt(Var("x", "c"))>>)],
               Stmt([kind |-> "lambda", params |-> Picked(in, <<8>>), return_type |-> I32, body |-> Stmt(Var("x", "d"))]),
               [kind |-> "for", locals |-> Picked(in, <<9>>), condition |-> Var("x", "e"), body |-> Stmt(Var("x", "f"))],
               [kind |-> "using", id |-> Path(<<"N">>), body |-> [kind |-> "match", cases |-> <<>>, default_case |-> Stmt(Var("x", "g"))]],
               Stmt(use), [kind |-> "return", return_val |-> Var("x", "h")]>>)),
         Arg("x"), Local("x"), Local("x"), Arg("x"), Local("x")>>, <<>>)
ScopePrograms ==
  {Scopes(in \union {3}, VarIn(<<"N", "x">>, "i")) : in \in SUBSET {1, 5, 6, 7, 8, 9}}
  \union {Scopes(in, [kind |-> "id", id |-> [global |-> TRUE, path |-> <<"x">>], at |-> "i"]) : in \in {{1, 5, 6}, {5}, {3}}}
  \union {Scopes({1, 3}, VarIn(path, "i")) : path \in {<<"N", "y">>, <<"x", "y">>, <<"N">>}}
  \union {Scopes({1, 3}, [kind |-> "using", id |-> Path(<<n>>), body |-> One]) : n \in {"x", "M"}}

\* Names of types and of what belongs to them; what is private, constant, twice
\* there, variadic, or bound by `with'.
Kinds(types, name, more) ==
  Prog(types \o <<4, 5, 6>> \o more,
       <<Typedef("E", [kind |-> "enum", members |-> <<7>>]), Typedef("A", TypeName("E", "aE")), Global("E"),
         Space("N", <<9>>), Ob("global", "K") @@ [type |-> I32, value |-> Var("c", "k"), constexpr |-> TRUE],
         Function("main", <<>>, TypeName(name, "t"),
            [kind |-> "with", obj |-> 10, condition |-> VarIn(<<name, "m">>, "m"), if_branch |-> Stmt(Var("w", "w"))]) @@ [va_area |-> 8],
         Ob("enum_member", "m") @@ [value |-> One, constexpr |-> TRUE], Local("va"), Global("p") @@ [private |-> TRUE], Ob("local", "w") @@ [type |-> TypeName("A", "wt")],
         Ob("global", "c") @@ [type |-> I32, value |-> One, constexpr |-> TRUE], Global("c"),
         Function("drop", <<14>>, I32, Block(<<>>, <<>>)), Arg("_")>>,
       <<[type |-> 2, fn |-> 13]>>)
KindPrograms ==
  {Kinds(types, name, more) : types \in {<<1, 2>>, <<2, 1>>, <<2, 3>>, <<1, 2, 3>>}, name \in {"E", "A", "N"}, more \in {<<11, 13>>, <<12, 13>>, <<13>>}}
  \union {Kinds(<<2>>, "A", <<13>>)}

-----------------------------------------------------------------------------
(* Types, a constant and functions that need each other. *)

Fields2(t, u) == [kind |-> "struct", fields |-> <<[kind |-> "struct_member", name |-> "p", type |-> t], [kind |-> "struct_member", name |-> "q", type |-> u]>>]
To(t) == [kind |-> "ptr", base |-> t]
Deps(order, t1, t2, n, c) ==
  Prog(order \o IF c THEN <<>> ELSE <<8>>,
              <<Typedef("S", Fields2(t1, I32)), Typedef("T", Fields2(t2, I32)),
                Ob("global", "N") @@ [type |-> I32, value |-> n, constexpr |-> TRUE],
                Function("f", <<>>, I32, Stmt(Call("main", "fm"))) @@ [constexpr |-> c],
                Function("main", <<6>>, I32, Block(<<7>>, <<Stmt(Call("f", "mf")), Stmt(Var("N", "m2")), [kind |-> "return", return_val |-> Var(IF c THEN "N" ELSE "G", "mN")]>>)) @@ [constexpr |-> c],
                Ob("arg", "a") @@ [type |-> To(TypeName("S", "aS"))], Ob("local", "l") @@ [type |-> TypeName("T", "lT")] @@ [constexpr |-> TRUE],
                Ob("global", "G") @@ [type |-> I32, value |-> Call("main", "Gm")]>>, <<>>)
Sized(len) == [kind |-> "array", base |-> I32, num_indices |-> len]
DepPrograms ==
  {Deps(order, t1, t2, n, FALSE) :
     order \in {<<1, 2, 3, 4, 5>>, <<5, 4, 3, 2, 1>>, <<2, 5, 1, 4, 3>>},
     t1 \in {I32, TypeName("T", "t1"), To(TypeName("S", "t1")), Sized(Var("N", "t1")), To(TypeName("T", "t1"))},
     t2 \in {I32, TypeName("S", "t2"), TypeName("T", "t2"), Sized(Call("f", "t2"))},
     n \in {One, [kind |-> "sizeof", the_type |-> TypeName("T", "n")]}}
  \union {Deps(order, I32, Sized(Var("N", "t2")), Call("f", "n"), TRUE) : order \in {<<1, 2, 3, 4, 5>>, <<5, 4, 3, 2, 1>>}}

-----------------------------------------------------------------------------
(* Functions of an interface: two declared, of which some are there. *)

Dyn(name, self, at) == Function(name, <<>>, I32, Block(<<>>, <<>>)) @@ [self |-> self, dyn_base_type |-> TypeName("I", at)]
DynPrograms ==
  {Prog(order \o Picked(in, <<4, 5, 6, 7>>) \o <<8>>,
        <<Typedef("I", [kind |-> "interface", func_decls |-> <<2, 3>>]),
          Ob("function", "f") @@ [args |-> <<>>, return_type |-> I32], Ob("function", "g") @@ [args |-> <<>>, return_type |-> I32],
          Dyn("f", "S", "Sf"), Dyn("g", "S", "Sg"), Space("M", <<9>>), Space("L", <<10>>),
          Function("main", <<>>, I32, Block(<<>>, <<>>)), Dyn("f", "T", "Tf"), Dyn("g", self, "Tg")>>,
        IF drop THEN <<[type |-> 1, fn |-> 8], [type |-> 1, fn |-> 8]>> ELSE <<>>) :
     order \in {<<1>>}, in \in SUBSET (4..7), self \in {"S", "T"}, drop \in BOOLEAN}

-----------------------------------------------------------------------------
(* Every kind of node that can hold another one, with a function in each of  *)
(* its places.                                                               *)

Holders == Infix \union Prefix \union Postfix \union Loops \union
  {"assign", "member", "pipe", "else_expr", "closure", "len", "expr_stmt", "index", "cast", "call", "ternary", "if", "with",
   "case", "using", "defer", "lambda", "match", "array", "struct", "block", "return", "asm"}
Places == [left |-> "f1", condition |-> "f1", expr |-> "f1", right |-> "f2", if_branch |-> "f2", body |-> "f2", return_val |-> "f2",
           init_stmt |-> "f3", else_branch |-> "f3", default_case |-> "f3", exprs |-> "f2", args |-> "f2", stmts |-> "f1", cases |-> "f2"]
Held(kind) ==
  LET places == Range(StmtFields(kind)) \intersect DOMAIN Places
      leaf(f) == Var(Places[f], f)
      Of(f) == IF f \in {"exprs", "args", "stmts", "cases"} THEN <<leaf(f), Var("f3", f \o "3")>> ELSE leaf(f)
  IN [kind |-> kind] @@ [f \in places |-> IF kind = "asm" THEN <<Var("leaf", "asm")>> ELSE Of(f)]
     @@ [locals |-> <<>>, params |-> <<>>, return_type |-> I32, obj |-> 11, id |-> Path(<<"N">>)]
DeadPrograms ==
  {Prog(<<1, 2, 3, 4, 5, 6, 7, 8, 9, 10, 12>>,
        <<Function("main", <<>>, I32, Held(kind)),
          Function("f1", <<>>, I32, Stmt(Var("G", "G"))), Function("f2", <<>>, I32, Stmt(Call("f3", "f2f3"))), Function("f3", <<>>, I32, Stmt(Call("f2", "f3f2"))),
          Ob("global", "G") @@ [type |-> I32, value |-> Var("leaf", "Gl")], Function("leaf", <<>>, I32, Block(<<>>, <<>>)),
          Function("drop", <<>>, I32, Stmt(Var("rare", "dr"))), Typedef("T", Fields2(I32, I32)), Space("N", <<13>>),
          Function("rare", <<>>, I32, Stmt(Var("f1", "rf1"))), Ob("local", "w") @@ [type |-> TypeName("T", "wT")],
          Function("late", <<>>, I32, Stmt(Var("rare", "lr"))) @@ [after_main |-> late], Ob("global", "e") @@ [type |-> I32] @@ [exported |-> TRUE]>>,
        <<[type |-> 8, fn |-> 7]>>) : kind \in Holders, late \in BOOLEAN}

-----------------------------------------------------------------------------
(* Globals that name one another in their initial values, and a struct whose *)
(* members have one name.                                                    *)

Values(order, v, w, c, field) ==
  Prog(order, <<Ob("global", "a") @@ [type |-> I32, value |-> v], Ob("global", "b") @@ [type |-> I32, value |-> w] @@ [constexpr |-> c],
                Function("main", <<>>, I32, Stmt(Var("a", "ma"))),
                Typedef("S", [kind |-> "struct", fields |-> <<[kind |-> "struct_member", name |-> "p", type |-> I32], [kind |-> "struct_member", name |-> field, type |-> I32]>>])>>, <<>>)
ValuePrograms ==
  {Values(order, v, w, c, "q") : order \in {<<1, 2, 3, 4>>, <<4, 3, 2, 1>>}, c \in BOOLEAN,
     v \in {One, Var("a", "v"), Var("b", "v"), Call("main", "v")}, w \in {One, Var("a", "w"), Var("b", "w")}}
  \union {Values(<<1, 2, 3, 4>>, One, One, FALSE, "p")}

MCPrograms == ValuePrograms \union ScopePrograms \union KindPrograms \union DepPrograms \union DynPrograms \union DeadPrograms
=============================================================================
