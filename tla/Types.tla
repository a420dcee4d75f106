------------------------------- MODULE Types --------------------------------
(***************************************************************************)
(* What an expression's type is, and what is made to fit where it is put   *)
(* (the deep pass of parser/validator.c and parser/typechecker.c).         *)
(*                                                                         *)
(* When the sizes of the definitions are known (module Layout) a function  *)
(* is walked twice, statement by statement: the validator gives every node *)
(* its type from those below it, the type checker then inserts the casts.  *)
(* A node is [kind, sub, type, info, spread, at]; `sub' are the nodes      *)
(* below it.  An error makes the type of its node Wrong, and what is above *)
(* a Wrong node is Wrong: of the errors only their presence is kept.       *)
(*                                                                         *)
(* A type is an object of its own: `const' marks the object, and a         *)
(* variable declared without a type shares that of its value.  Objects     *)
(* have an id; those marked are in `constants'.                            *)
(***************************************************************************)
EXTENDS Layout

VARIABLES
  names,     \* objects by name: their kind, whether declared const, and type
  constants, \* ids of the type objects with is_constant
  body,      \* the statements as they are by now
  statement  \* the one to be walked next

typing == <<names, constants, body, statement>>
vars == <<prog, phase, layoutVars, typing>>

NoType == [kind |-> "none"]    \* data_type is NULL
Wrong == [kind |-> "wrong"]
Primitive(kind) == [kind |-> kind, id |-> kind]

IsConst(t) == "id" \in DOMAIN t /\ t.id \in constants
HasBase(t) == "base" \in DOMAIN t

-----------------------------------------------------------------------------
(* Classes of types *)

Integer == {"bool", "char", "i8", "u8", "i32", "i64", "u64", "enum"}
Unsigned == {"u8", "u64"}
Float == {"f32", "f64", "f80"}
Arrays == {"c_array", "array", "vla"}
IsInteger(t) == Unpacked(t).kind \in Integer
IsFloat(t) == Unpacked(t).kind \in Float
IsNumeric(t) == IsInteger(t) \/ IsFloat(t)
IsPtr(t) == Unpacked(t).kind = "ptr"
IsBool(t) == Unpacked(t).kind = "bool"
IsNumber(t) == Unpacked(t).kind \in (Integer \union Float) \ {"bool"}
Countable(t) == IsNumber(t) \/ IsPtr(t)
Width(t) == TypeSize(Unpacked(t))
IsConstLenArray(t) == Unpacked(t).kind \in {"array", "c_array"}

RECURSIVE TypesEqual(_, _)
SameTypes(s, t) == Len(s) = Len(t) /\ \A i \in DOMAIN s : TypesEqual(s[i], t[i])
\* types_equal: an alias equals itself alone, and of arrays and slices
\* neither the element nor the length is compared.
TypesEqual(a, b) ==
  /\ NoType \notin {a, b} /\ a.kind = b.kind /\ IsConst(a) = IsConst(b)
  /\ CASE a.kind \in {"c_array", "dyn", "ptr"} -> TypesEqual(a.base, b.base)
       [] a.kind = "struct"    -> a.union = b.union /\ SameTypes(a.members, b.members)
       [] a.kind = "undef"     -> a.to = b.to
       [] a.kind = "fn"        -> TypesEqual(a.base, b.base) /\ SameTypes(a.args, b.args)
       [] a.kind = "interface" -> /\ Len(a.funcs) = Len(b.funcs)
                                  /\ \A i \in DOMAIN a.funcs : /\ a.funcs[i].name = b.funcs[i].name
                                                               /\ TypesEqual(a.funcs[i].type, b.funcs[i].type)
       [] OTHER -> TRUE

\* vtable_get, without creating one.
Implements(base, interface) ==
  \E v \in prog.impls : TypesEqual(Unpacked(base), v.base) /\ TypesEqual(v.interface, Unpacked(interface))

-----------------------------------------------------------------------------
(* The deep pass: one operator per callback, from a node with typed nodes  *)
(* below it to the node with its type                                      *)

Typed(e, t) == [e EXCEPT !.type = t]
Failed(e) == Typed(e, Wrong)
Guarded(ok, e, t) == IF ok THEN Typed(e, t) ELSE Failed(e)
Node(kind, sub, type) == [kind |-> kind, sub |-> sub, type |-> type, info |-> "", spread |-> FALSE, at |-> ""]
T(e, i) == e.sub[i].type

ValidateCall(e) ==
  LET callee == e.sub[1]
      type == Unpacked(callee.type)
      receiver == IF callee.kind = "member" /\ callee.info = "method" THEN <<callee.sub[1]>> ELSE <<>>
      args == receiver \o Tail(e.sub)
  IN Guarded(type.kind = "fn" /\ (Len(args) = Len(type.args) \/ (type.variadic /\ Len(args) > Len(type.args))),
             [e EXCEPT !.sub = <<callee>> \o args], IF type.kind = "fn" THEN type.base ELSE Wrong)

ValidateIdentifier(e, env) ==
  LET o == env.names[e.info]
  IN Guarded(o.kind \in {"global", "function", "enum_member", "local", "fn_arg"}, e, o.type)

ValidateReference(e) == Typed(e, [kind |-> "ptr", base |-> T(e, 1), id |-> e.at])

ValidateDereference(e) ==
  LET t == Unpacked(T(e, 1))
  IN IF t.kind \in {"ptr", "c_array"} THEN Typed(e, t.base) ELSE Failed(e)

DirectBase(t) == IF t.kind = "undef" THEN Defined(t.to) ELSE t.base

RECURSIVE FindMember(_, _)
\* find_member_in_struct: through one pointer, and the interface of a dynamic
\* type.
FindMember(type, name) ==
  LET t == Unpacked(IF type.kind = "ptr" THEN type.base ELSE type)
      named(list) == SelectInSeq(list, LAMBDA m : m.name = name)
  IN CASE t.kind = "interface" -> IF named(t.funcs) = 0 THEN NoType
                                  ELSE [kind |-> "method", type |-> t.funcs[named(t.funcs)].type]
       [] t.kind = "dyn"       -> FindMember(t.base, name)
       [] t.kind = "struct"    -> LET i == SelectInSeq(t.names, LAMBDA n : n = name)
                                  IN IF i = 0 THEN NoType ELSE [kind |-> "field", type |-> t.members[i]]
       [] OTHER                -> NoType

\* x->y becomes (*x).y.
ValidateMember(e) ==
  LET left == e.sub[1]
      found == FindMember(Unpacked(left.type), e.info)
      target == IF found.kind = "field" /\ IsPtr(left.type)
                THEN Node("deref", <<left>>, DirectBase(left.type)) ELSE left
  IN IF found = NoType THEN Failed(e)
     ELSE [e EXCEPT !.sub = <<target>>, !.type = found.type, !.info = IF found.kind = "method" THEN "method" ELSE e.info]

Wider(left, right) == IF Width(left) < Width(right) THEN right ELSE left
ValidateBinop(e) ==
  LET ok == Countable(T(e, 1)) /\ Countable(T(e, 2))
  IN Guarded(ok, e, IF ok THEN Wider(T(e, 1), T(e, 2)) ELSE Wrong)
ValidateLtGt(e) == Guarded(Countable(T(e, 1)) /\ Countable(T(e, 2)), e, Primitive("bool"))
\* mutant: the operands are checked and that is all
ValidateModuloUntyped(e) == IF IsInteger(T(e, 1)) /\ IsInteger(T(e, 2)) THEN e ELSE Failed(e)
ValidateModulo(e) == Guarded(IsInteger(T(e, 1)) /\ IsInteger(T(e, 2)), e, T(e, 1))
\* The code compares the sizes that are stored in the type objects; they are
\* those of Width, except for aliases nobody has laid out yet.
ValidateBitwise(e) ==
  LET ok == IsInteger(T(e, 1)) /\ IsInteger(T(e, 2))
  IN Guarded(ok, e, IF ok THEN Wider(T(e, 1), T(e, 2)) ELSE Wrong)
ValidateIncDec(e) == Guarded(Countable(T(e, 1)), e, T(e, 1))

ValidateIndex(e) ==
  LET t == Unpacked(T(e, 1))
  IN Guarded(/\ t.kind \in Arrays \union {"ptr"} /\ IsInteger(T(e, 2))
             /\ e.info = "from_back" => t.kind \in Arrays,
             e, IF HasBase(t) THEN t.base ELSE Wrong)

RECURSIVE ExpandClosure(_)
ExpandClosure(e) == IF e.kind = "closure" THEN ExpandClosure(Last(e.sub)) ELSE e

\* iter_leave_assignment: a closure on the left is looked through for what it
\* is, but has no object: nothing more happens then.
ValidateAssignment(e, env) ==
  LET left == e.sub[1]
      object == env.names[left.info]
      type == IF left.kind # "id" THEN left.type
              ELSE IF e.info = "init" /\ object.type = NoType THEN e.sub[2].type ELSE object.type
  IN CASE type = NoType \/ Unpacked(type).kind = "void"                  -> Failed(e)
       [] left.kind = "closure" /\ ExpandClosure(left).kind = "id"       -> e
       [] ExpandClosure(left).kind \in {"member", "index", "deref", "ref"} -> Typed(e, type)
       [] left.kind = "id" /\ object.kind \in {"global", "local", "fn_arg"} ->
            [e EXCEPT !.sub[1].type = type, !.type = type]
       [] OTHER                                                          -> Failed(e)

ValidateStructLit(e) ==
  IF e.type # NoType THEN e
  ELSE Guarded(e.sub # <<>> /\ \A i \in DOMAIN e.sub : T(e, i) # NoType, e,
               [kind |-> "struct", at |-> 0, union |-> FALSE, members |-> [i \in DOMAIN e.sub |-> T(e, i)],
                names |-> [i \in DOMAIN e.sub |-> ""], id |-> e.at])

\* The length of whatever is spread is taken from the first element.
ValidateArrayLit(e) ==
  LET first == Unpacked(T(e, 1))
      length(i) == IF ~e.sub[i].spread THEN 1 ELSE IF "n" \in DOMAIN first THEN first.n ELSE 0
      ok == e.sub # <<>> /\ (e.sub[1].spread => HasBase(first))
  IN IF ~ok THEN Failed(e)
     ELSE Typed(e, [kind |-> "array", id |-> e.at, base |-> IF e.sub[1].spread THEN first.base ELSE T(e, 1),
                    n |-> FoldLeft(LAMBDA n, i : n + length(i), 0, [i \in DOMAIN e.sub |-> i])])

ValidateLen(e) ==
  LET t == Unpacked(T(e, 1))
  IN Guarded(t.kind \in Arrays \/ (t.kind = "ptr" /\ Unpacked(t.base).kind = "char"), e, e.type)

\* iter_validate_type_expr, on the two types it compares or the one it tests.
TypeTest(test, l, r) ==
  LET t == Unpacked(r).kind
  IN CASE test = "eq"         -> TypesEqual(l, r)
       [] test = "ne"         -> ~TypesEqual(l, r)
       [] test = "gt"         -> TypeSize(l) > TypeSize(r)
       [] test = "ge"         -> TypeSize(l) >= TypeSize(r)
       [] test = "lt"         -> TypeSize(l) < TypeSize(r)
       [] test = "le"         -> TypeSize(l) <= TypeSize(r)
       [] test = "is_int"     -> t \in Integer \ Unsigned
       [] test = "is_uint"    -> t \in Unsigned
       [] test = "is_float"   -> t \in Float
       [] test = "is_pointer" -> t = "ptr"
       [] test = "is_array"   -> t \in Arrays
       [] test = "is_struct"  -> t = "struct" /\ ~Unpacked(r).union
       [] test = "is_union"   -> t = "struct" /\ Unpacked(r).union
ValidateTypeExpr(e) ==
  [Node("bool", <<>>, Primitive("bool")) EXCEPT !.info = TypeTest(e.info.test, e.info.left, e.info.right)]

\* iter_validate_match_type: the first case whose type equals the matched one
\* becomes the body, otherwise the default case, which is the last.
ValidateMatchType(e) ==
  LET hit == SelectInSeq(e.info.cases, LAMBDA t : TypesEqual(e.info.of, t))
  IN CASE hit # 0                          -> Node("block", <<e.sub[hit]>>, NoType)
       [] Len(e.sub) > Len(e.info.cases)   -> Node("block", <<Last(e.sub)>>, NoType)
       [] OTHER                            -> Node("block", <<>>, NoType)

Handled(e, env) ==
  LET K(kinds) == e.kind \in kinds
  IN CASE \E i \in DOMAIN e.sub : T(e, i) = Wrong  -> Failed(e)
       [] K({"call"})                              -> ValidateCall(e)
       [] K({"id"})                                -> ValidateIdentifier(e, env)
       [] K({"closure"})                           -> Typed(e, Last(e.sub).type)
       [] K({"ref"})                               -> ValidateReference(e)
       [] K({"deref"})                             -> ValidateDereference(e)
       [] K({"member"})                            -> ValidateMember(e)
       [] K({"add", "sub", "mul", "div"})          -> ValidateBinop(e)
       [] K({"mod"})                               -> ValidateModulo(e)
       [] K({"neg"})                               -> Guarded(IsNumber(T(e, 1)), e, T(e, 1))
       [] K({"bit_neg"})                           -> Guarded(IsInteger(T(e, 1)), e, T(e, 1))
       [] K({"not", "eq", "ne"})                   -> Typed(e, Primitive("bool"))
       [] K({"lt", "le", "gt", "ge"})              -> ValidateLtGt(e)
       [] K({"and", "or"})                         -> Typed(e, T(e, 1))
       [] K({"xor", "lshift", "rshift", "bit_or", "bit_and"}) -> ValidateBitwise(e)
       [] K({"inc", "dec"})                        -> ValidateIncDec(e)
       [] K({"index"})                             -> ValidateIndex(e)
       [] K({"assign"})                            -> ValidateAssignment(e, env)
       [] K({"struct"})                            -> ValidateStructLit(e)
       [] K({"array"})                             -> ValidateArrayLit(e)
       [] K({"ternary"})   -> Guarded(IsBool(T(e, 1)) /\ TypesEqual(T(e, 2), T(e, 3)), e, T(e, 2))
       [] K({"else_expr"}) -> Guarded(TypesEqual(T(e, 1), T(e, 2)), e, T(e, 1))
       [] K({"len"})                               -> ValidateLen(e)
       [] K({"hole"})      -> Guarded(env.pipe # NoType, e, env.pipe)
       [] K({"sizeof"})    -> Guarded(Unpacked(e.info).kind # "interface", e, e.type)
       [] K({"type_expr"})                         -> ValidateTypeExpr(e)
       [] K({"match_type"})                        -> ValidateMatchType(e)
       [] K({"for_range"}) -> Guarded(IsInteger(T(e, 1)) /\ IsInteger(T(e, 2)), e, NoType)
       [] K({"case"})      -> Guarded(e.info \in {"eq", "default"} \/ IsNumber(T(e, 1)), e, NoType)
       [] OTHER                                    -> e

RECURSIVE Validated(_, _)
\* The walk.  A hole stands for the left side of the innermost pipe; inside
\* that left side it has no type yet.
Validated(e, env) ==
  IF e.kind # "pipe"
  THEN Handled([e EXCEPT !.sub = [i \in DOMAIN e.sub |-> Validated(e.sub[i], env)]], env)
  ELSE LET left == Validated(e.sub[1], [env EXCEPT !.pipe = NoType])
           right == Validated(e.sub[2], [env EXCEPT !.pipe = left.type])
       IN IF Wrong \in {left.type, right.type} THEN Failed(e)
          ELSE IF right.kind = "hole" THEN left
          ELSE [e EXCEPT !.sub = <<left, right>>, !.type = right.type]

-----------------------------------------------------------------------------
(* The type checker *)

\* mutant: the alias itself is looked at
CastableRaw(fromType, toType) ==
  LET from == fromType  to == Unpacked(toType)
      OkIf(b) == IF b THEN {"ok"} ELSE {"err"}
      base == IF from.kind = "ptr" THEN Unpacked(from.base) ELSE NoType
  IN CASE NoType \in {from, to}                             -> {"err"}
       [] HasBase(from) /\ HasBase(to) /\ IsConst(from.base) /\ ~IsConst(to.base) -> {"deleting_const"}
       [] IsNumeric(from) /\ IsNumeric(to)                  -> {"ok"}
       [] from.kind = "ptr" /\ to.kind = "dyn"              -> OkIf(Implements(from.base, to.base)) \union {"dyn"}
       [] from.kind = "dyn" /\ to.kind = "ptr"              -> {"ok", "undyn"}
       [] from.kind \in {"ptr", "c_array"} /\ to.kind = "ptr" -> {"ok"}
       [] from.kind = "array" /\ to.kind = "vla"            -> {"ok"}
       [] base.kind = "array" /\ to.kind = "vla"            -> OkIf(TypesEqual(base.base, to.base))
       [] from.kind = "struct" /\ to.kind = "struct"        -> OkIf(TypesEqual(from, to))
       [] OTHER                                             -> {"err"}

Castable(fromType, toType) ==
  LET from == Unpacked(fromType)  to == Unpacked(toType)
      OkIf(b) == IF b THEN {"ok"} ELSE {"err"}
      base == IF from.kind = "ptr" THEN Unpacked(from.base) ELSE NoType
  IN CASE NoType \in {from, to}                             -> {"err"}
       [] HasBase(from) /\ HasBase(to) /\ IsConst(from.base) /\ ~IsConst(to.base) -> {"deleting_const"}
       [] IsNumeric(from) /\ IsNumeric(to)                  -> {"ok"}
       [] from.kind = "ptr" /\ to.kind = "dyn"              -> OkIf(Implements(from.base, to.base)) \union {"dyn"}
       [] from.kind = "dyn" /\ to.kind = "ptr"              -> {"ok", "undyn"}
       [] from.kind \in {"ptr", "c_array"} /\ to.kind = "ptr" -> {"ok"}
       [] from.kind = "array" /\ to.kind = "vla"            -> {"ok"}
       [] base.kind = "array" /\ to.kind = "vla"            -> OkIf(TypesEqual(base.base, to.base))
       [] from.kind = "struct" /\ to.kind = "struct"        -> OkIf(TypesEqual(from, to))
       [] OTHER                                             -> {"err"}

ImplicitCast(e, to, result) ==
  [Node(CASE "dyn" \in result -> "dyncast"
          [] "undyn" \in result -> "dynuncast"
          [] Unpacked(e.type).kind = "array" /\ to.kind = "vla" -> "ref"
          [] OTHER -> "cast", <<e>>, to) EXCEPT !.info = "implicit"]

\* What is put where `to' is expected: an argument, an element, a member, the
\* value returned.
Fit(e, from, to) ==
  IF TypesEqual(from, to) THEN e
  ELSE LET result == Castable(from, to)
       IN IF "ok" \in result THEN ImplicitCast(e, to, result) ELSE Failed(e)

\* mutant: the last argument is passed as it is
CheckCallButLast(e) ==
  LET type == Unpacked(T(e, 1))
  IN [e EXCEPT !.sub = [i \in DOMAIN e.sub |->
        IF i = 1 \/ i > Len(type.args) THEN e.sub[i] ELSE Fit(e.sub[i], T(e, i), type.args[i - 1])]]
CheckCall(e) ==
  LET type == Unpacked(T(e, 1))
      arg(i) == CASE i = 1                     -> e.sub[1]
                  [] i - 1 <= Len(type.args)   -> IF e.sub[i].spread THEN Failed(e.sub[i])
                                                  ELSE Fit(e.sub[i], T(e, i), type.args[i - 1])
                  [] e.sub[i].spread /\ ~IsConstLenArray(T(e, i)) /\ Unpacked(T(e, i)).kind # "struct" -> Failed(e.sub[i])
                  [] OTHER                     -> e.sub[i]
  IN [e EXCEPT !.sub = [i \in DOMAIN e.sub |-> arg(i)]]

CheckRange(e) ==
  [e EXCEPT !.sub[1] = ImplicitCast(@, Primitive("i64"), {"ok"}), !.sub[2] = ImplicitCast(@, Primitive("i64"), {"ok"})]

\* mutant: the mark is not looked at
CheckAssignmentAnyway(e) ==
  LET to == T(e, 1)  from == T(e, 2)  result == Castable(from, to)
  IN CASE TypesEqual(to, from)                     -> e
       [] "err" \notin result                      -> [e EXCEPT !.sub[2] = ImplicitCast(@, to, result)]
       [] OTHER                                    -> Failed(e)

\* Only what is no conversion at all is an error here: one that drops a const
\* is made.
CheckAssignment(e) ==
  LET to == T(e, 1)  from == T(e, 2)  result == Castable(from, to)
  IN CASE IsConst(Unpacked(to)) /\ e.info # "init" -> Failed(e)
       [] TypesEqual(to, from)                     -> e
       [] "err" \notin result                      -> [e EXCEPT !.sub[2] = ImplicitCast(@, to, result)]
       [] OTHER                                    -> Failed(e)

\* mutant: the interface is not looked for
CheckCastAnyDyn(e) == IF Unpacked(e.type).kind = "dyn" THEN [e EXCEPT !.kind = "dyncast"] ELSE e
CheckCast(e) ==
  LET from == Unpacked(T(e, 1))  to == Unpacked(e.type)
  IN CASE TypesEqual(T(e, 1), e.type)       -> e
       [] "void" \in {from.kind, to.kind}   -> Failed(e)
       [] from.kind = "dyn"                 ->
            IF to.kind = "ptr" /\ TypesEqual(from.base, to.base) THEN [e EXCEPT !.kind = "dynuncast"] ELSE Failed(e)
       [] to.kind = "dyn"                   ->
            IF from.kind = "ptr" /\ Implements(from.base, to.base) THEN [e EXCEPT !.kind = "dyncast"] ELSE Failed(e)
       [] OTHER                             -> e

CheckArrayLit(e) ==
  LET base == Unpacked(e.type.base)
      element(a) == IF ~a.spread THEN Fit(a, a.type, base)
                    ELSE IF IsConstLenArray(a.type) THEN Fit(a, Unpacked(a.type).base, base) ELSE Failed(a)
  IN [e EXCEPT !.sub = [i \in DOMAIN e.sub |-> element(e.sub[i])]]

CheckStructLit(e) ==
  LET members == Unpacked(e.type).members
  IN IF Len(e.sub) > Len(members) THEN Failed(e)
     ELSE [e EXCEPT !.sub = [i \in DOMAIN e.sub |-> Fit(e.sub[i], T(e, i), members[i])]]

RECURSIVE Patched(_, _)
\* The value returned, below closures and casts, gets the type of the struct
\* that is returned.
Patched(e, t) ==
  CASE e.kind \in {"closure", "cast"} -> [e EXCEPT !.sub[Len(e.sub)] = Patched(@, t)]
    [] OTHER                          -> Typed(e, t)
CheckReturn(e, returned) ==
  LET expected == Unpacked(returned)
      value == Fit(e.sub[1], T(e, 1), expected)
  IN CASE e.sub = <<>>                -> IF expected.kind = "void" THEN e ELSE Failed(e)
       [] expected.kind = "struct" /\ value.type # Wrong -> [e EXCEPT !.sub[1] = Patched(value, expected)]
       [] OTHER                       -> [e EXCEPT !.sub[1] = value]

\* mutant: the right side is always cast to the left one
CheckBinopToLeft(e) ==
  LET side == 2
      from == T(e, side)  to == T(e, 3 - side)
      result == Castable(from, to)
      operands == IF e.kind \in {"add", "sub"} THEN (IsNumeric(to) \/ IsPtr(to)) /\ (IsNumeric(from) \/ IsPtr(from))
                  ELSE IsNumeric(to) /\ IsNumeric(from)
      moved == IsPtr(to) /\ (IsInteger(from) \/ (e.kind = "sub" /\ IsPtr(from))) /\ e.kind \in {"add", "sub"}
  IN CASE TypesEqual(T(e, 1), T(e, 2)) -> e
       [] ~operands                    -> Failed(e)
       [] "ok" \in result              -> [e EXCEPT !.sub[side] = ImplicitCast(@, to, result)]
       [] OTHER                        -> IF moved THEN e ELSE Failed(e)

\* typecheck_binop: the side that has not the type of the operation is cast
\* to it.
CheckBinop(e) ==
  LET side == IF TypesEqual(e.type, T(e, 2)) THEN 1 ELSE 2
      from == T(e, side)  to == T(e, 3 - side)
      result == Castable(from, to)
      operands == IF e.kind \in {"add", "sub"} THEN (IsNumeric(to) \/ IsPtr(to)) /\ (IsNumeric(from) \/ IsPtr(from))
                  ELSE IsNumeric(to) /\ IsNumeric(from)
      moved == IsPtr(to) /\ (IsInteger(from) \/ (e.kind = "sub" /\ IsPtr(from))) /\ e.kind \in {"add", "sub"}
  IN CASE TypesEqual(T(e, 1), T(e, 2)) -> e
       [] ~operands                    -> Failed(e)
       [] "ok" \in result              -> [e EXCEPT !.sub[side] = ImplicitCast(@, to, result)]
       [] OTHER                        -> IF moved THEN e ELSE Failed(e)

Checked(e, returned) ==
  CASE e.kind = "call"                          -> CheckCall(e)
    [] e.kind = "cast"                          -> CheckCast(e)
    [] e.kind = "assign"                        -> CheckAssignment(e)
    [] e.kind = "array"                         -> CheckArrayLit(e)
    [] e.kind = "struct"                        -> CheckStructLit(e)
    [] e.kind \in {"inc", "dec"}                -> Guarded(~IsConst(e.type), e, e.type)
    [] e.kind = "for_range"                     -> CheckRange(e)
    [] e.kind = "return"                        -> CheckReturn(e, returned)
    [] e.kind \in {"add", "sub", "mul", "div"}  -> CheckBinop(e)
    [] OTHER                                    -> e

RECURSIVE Typechecked(_, _)
\* The second walk; inside a lambda it is its type that says what is returned.
Typechecked(e, returned) ==
  LET inside == IF e.kind = "lambda" THEN e.type.base ELSE returned
      sub == [i \in DOMAIN e.sub |-> Typechecked(e.sub[i], inside)]
      after == Checked([e EXCEPT !.sub = sub], returned)
  IN IF \E i \in DOMAIN sub : sub[i].type = Wrong THEN Failed(e)
     ELSE IF \E i \in DOMAIN after.sub : T(after, i) = Wrong THEN Failed(after) ELSE after

-----------------------------------------------------------------------------
(* Functions *)

RECURSIVE ReturnsNoDefault(_)
\* mutant: a match needs no default case
ReturnsNoDefault(s) ==
  CASE s.kind = "return"     -> TRUE
    [] s.kind = "call"       -> s.sub[1].type.kind = "fn" /\ s.sub[1].type.noReturn
    [] s.kind = "block"      -> \E i \in DOMAIN s.sub : ReturnsNoDefault(s.sub[i])
    [] s.kind = "if"         -> Len(s.sub) = 3 /\ ReturnsNoDefault(s.sub[2]) /\ ReturnsNoDefault(s.sub[3])
    [] s.kind \in {"loop", "while", "for_range"} -> ReturnsNoDefault(Last(s.sub))
    [] s.kind = "match"      -> \A i \in 2..Len(s.sub) : ReturnsNoDefault(Last(s.sub[i].sub))
    [] s.kind = "expr_stmt"  -> ReturnsNoDefault(s.sub[1])
    [] OTHER                 -> FALSE

RECURSIVE Returns(_)
\* stmt_returns_value.
Returns(s) ==
  CASE s.kind = "return"     -> TRUE
    [] s.kind = "call"       -> s.sub[1].type.kind = "fn" /\ s.sub[1].type.noReturn
    [] s.kind = "block"      -> \E i \in DOMAIN s.sub : Returns(s.sub[i])
    [] s.kind = "if"         -> Len(s.sub) = 3 /\ Returns(s.sub[2]) /\ Returns(s.sub[3])
    [] s.kind \in {"loop", "while", "for_range"} -> Returns(Last(s.sub))
    [] s.kind = "match"      -> s.info = "default" /\ \A i \in 2..Len(s.sub) : Returns(Last(s.sub[i].sub))
    [] s.kind = "expr_stmt"  -> Returns(s.sub[1])
    [] OTHER                 -> FALSE

IsMain(fn) == fn.name = "main"
\* validate_function and iter_leave_fn_arg.
FunctionIsValid(fn, statements) ==
  /\ Unpacked(fn.returns).kind = "void" \/ \E i \in DOMAIN statements : Returns(statements[i])
  /\ \A i \in DOMAIN fn.args : Unpacked(fn.args[i]).kind \notin {"void", "array", "c_array"}
  /\ IsMain(fn) => Unpacked(fn.returns).kind = "i32" /\ Len(fn.args) <= 2
  /\ fn.hook = "before_main" => fn.args = <<>>
  /\ fn.hook = "after_main" => Len(fn.args) = 0 \/ (Len(fn.args) = 1 /\ Unpacked(fn.args[1]).kind = "i32")

-----------------------------------------------------------------------------

Init ==
  /\ prog \in Programs /\ phase = "layout" /\ LayoutInit
  /\ names = prog.names /\ constants = prog.constants /\ body = prog.body /\ statement = 1

Walk ==
  /\ phase = "layout" /\ LaidOut
  /\ phase' = "validate"
  /\ UNCHANGED <<prog, layoutVars, typing>>

Initialised(s) == s.kind = "assign" /\ s.info = "init" /\ s.type # Wrong

RECURSIVE Assigned(_)
\* Objects whose name is assigned to somewhere in a statement.
Assigned(e) ==
  (IF e.kind = "assign" /\ e.sub[1].kind = "id" THEN {e.sub[1].info} ELSE {})
    \union UNION {Assigned(e.sub[i]) : i \in DOMAIN e.sub}

\* The next statement is given its types.  A variable without one takes that
\* of its first value; assigning to a constant marks the object its type is.
ValidateStatement ==
  /\ phase = "validate" /\ statement <= Len(body)
  /\ LET s == Validated(body[statement], [names |-> names, pipe |-> NoType])
         n == s.sub[1].info
         typed == IF Initialised(s) THEN [names EXCEPT ![n].type = s.type, ![n].const = @ \/ IsConst(s.type)] ELSE names
         marked == {m \in Assigned(s) : typed[m].const /\ "id" \in DOMAIN typed[m].type}
     IN IF s.type = Wrong
        THEN phase' = "rejected" /\ UNCHANGED typing
        ELSE /\ body' = [body EXCEPT ![statement] = s] /\ names' = typed /\ statement' = statement + 1
             /\ constants' = constants \union {typed[m].type.id : m \in marked}
             /\ UNCHANGED phase
  /\ UNCHANGED <<prog, layoutVars>>

ValidateFunction ==
  /\ phase = "validate" /\ statement > Len(body)
  /\ phase' = IF FunctionIsValid(prog.fn, body) THEN "check" ELSE "rejected"
  /\ statement' = 1
  /\ UNCHANGED <<prog, layoutVars, names, constants, body>>

TypecheckStatement ==
  /\ phase = "check" /\ statement <= Len(body)
  /\ LET s == Typechecked(body[statement], prog.fn.returns)
     IN IF s.type = Wrong
        THEN phase' = "rejected" /\ UNCHANGED typing
        ELSE /\ body' = [body EXCEPT ![statement] = s] /\ statement' = statement + 1
             /\ UNCHANGED <<phase, names, constants>>
  /\ UNCHANGED <<prog, layoutVars>>

Accept ==
  /\ phase = "check" /\ statement > Len(body)
  /\ phase' = "accepted"
  /\ UNCHANGED <<prog, layoutVars, typing>>

Done == phase \in {"accepted", "rejected"} /\ UNCHANGED vars

Next ==
  \/ LayoutNext /\ UNCHANGED typing
  \/ Walk
  \/ ValidateStatement
  \/ ValidateFunction
  \/ TypecheckStatement
  \/ Accept
  \/ Done

Spec == Init /\ [][Next]_vars
=============================================================================
