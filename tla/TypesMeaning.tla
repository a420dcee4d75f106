---------------------------- MODULE TypesMeaning ----------------------------
(***************************************************************************)
(* What layout and typing promise the rest of the compiler: properties of  *)
(* modules Layout and Types.                                               *)
(***************************************************************************)
EXTENDS Types

RECURSIVE Below(_, _)
\* The nodes of a statement, each with the type that a return inside it has to
\* have.
Below(e, returned) ==
  LET inside == IF e.kind = "lambda" THEN e.type.base ELSE returned
  IN {<<e, returned>>} \union UNION {Below(e.sub[i], inside) : i \in DOMAIN e.sub}
Uses == UNION {Below(body[i], prog.fn.returns) : i \in DOMAIN body}
Nodes == {u[1] : u \in Uses}
IsStatement(e) == e.kind \in {"return", "block", "if", "loop", "while", "for_range", "match", "case", "match_type",
                              "expr_stmt"}

\* Every node of an accepted function has a type.  Only a parenthesised name
\* that is assigned to leaves its assignment without one, and a variable
\* declared without a type, of which the address is taken in its own value.
TypeOK ==
  /\ phase \in {"layout", "validate", "check", "accepted", "rejected"}
  /\ statement \in 1..(Len(body) + 1)
  /\ DOMAIN names = DOMAIN prog.names /\ laidOut \subseteq DOMAIN prog.types
  /\ phase # "rejected" => \A e \in Nodes : e.type # Wrong
  /\ phase = "accepted" => \A e \in Nodes : \/ IsStatement(e) \/ e.type # NoType
                                            \/ e.kind = "assign" /\ e.sub[1].kind = "closure"
                                            \/ e.kind = "id" /\ prog.names[e.info].type = NoType

-----------------------------------------------------------------------------
(* Layout *)

\* When all definitions have been visited, computing a struct again puts its
\* members where they are - whatever was computed too early has been redone -,
\* they do not overlap, numbers are aligned, and struct and union are large
\* enough for what they hold.
LayoutIsSettled ==
  LaidOut => \A i \in DOMAIN prog.types :
    LET m == Members(i)
    IN /\ IsUnion(i) => \A j \in DOMAIN m : TypeSize(m[j]) <= size[i]
       /\ IsStruct(i) /\ ~IsUnion(i) =>
            /\ offset[i] = Placed(i).offsets
            /\ \A j \in DOMAIN m :
                 /\ offset[i][j] + TypeSize(m[j]) <= IF j = Len(m) THEN size[i] ELSE offset[i][j + 1]
                 /\ m[j].kind \in {"i8", "i32", "i64", "f64"} => offset[i][j] % TypeSize(m[j]) = 0

-----------------------------------------------------------------------------
(* Types, without the names and marks that the code compares *)

RECURSIVE Shape(_)
\* Aliases are expanded and const is left out; of arrays and slices no more is
\* kept than the code keeps.
Shape(t) ==
  LET u == Unpacked(t)
      S(kind, n, of) == [kind |-> kind, n |-> n, of |-> of]
  IN CASE u.kind \in {"ptr", "c_array", "dyn"} -> S(u.kind, 0, <<Shape(u.base)>>)
       [] u.kind = "struct"    -> S("struct", IF u.union THEN 1 ELSE 0, [i \in DOMAIN u.members |-> Shape(u.members[i])])
       [] u.kind = "fn"        -> S("fn", 0, <<Shape(u.base)>> \o [i \in DOMAIN u.args |-> Shape(u.args[i])])
       [] u.kind = "interface" -> S("interface", u.at, <<>>)
       [] OTHER                -> S(u.kind, 0, <<>>)
SameShape(a, b) == Shape(a) = Shape(b)

\* In an accepted function every value has, with the casts that were inserted,
\* the type of the place it is put in: argument, assigned variable, element,
\* member, value returned, bound of a range.
FitsItsPlace ==
  phase = "accepted" => \A u \in Uses :
    LET e == u[1]  k == e.kind
    IN /\ k = "call"   => LET to == Unpacked(T(e, 1)).args
                          IN \A i \in DOMAIN to : SameShape(T(e, i + 1), to[i])
       /\ k = "assign" => SameShape(T(e, 2), T(e, 1))
       /\ k = "array"  => \A i \in DOMAIN e.sub : e.sub[i].spread \/ SameShape(T(e, i), e.type.base)
       /\ k = "struct" => \A i \in DOMAIN e.sub : SameShape(T(e, i), Unpacked(e.type).members[i])
       /\ k = "return" => IF e.sub = <<>> THEN Unpacked(u[2]).kind = "void" ELSE SameShape(T(e, 1), u[2])
       /\ k = "for_range" => {Shape(T(e, 1)), Shape(T(e, 2))} = {Shape(Primitive("i64"))}

Plain(e) == IF e.kind = "cast" /\ e.info = "implicit" THEN e.sub[1] ELSE e

\* An accepted operation has operands of one type, which is that of its result,
\* and neither has been made narrower for it; or it moves a pointer.
OperandsAgree ==
  phase = "accepted" => \A e \in Nodes : e.kind \in {"add", "sub", "mul", "div"} =>
    /\ \/ SameShape(T(e, 1), T(e, 2)) /\ SameShape(T(e, 1), e.type)
       \/ /\ e.kind \in {"add", "sub"} /\ IsPtr(e.type)
          /\ \E i \in {1, 2} : IsInteger(T(e, i)) /\ SameShape(T(e, 3 - i), e.type)
    /\ \A i \in {1, 2} : Width(Plain(e.sub[i]).type) <= Width(e.type)

\* A value of a dynamic type is made from a pointer to something that
\* implements the interface, in an accepted function: there is a table for
\* every call through it.  (A pointer to constants assigned to a dynamic
\* variable is converted as if it were one.)
DynValuesDispatch ==
  phase = "accepted" => \A e \in Nodes :
    /\ e.kind = "dyncast" =>
         IsPtr(T(e, 1)) /\ Implements(Unpacked(T(e, 1)).base, Unpacked(e.type).base)
    /\ e.kind = "cast" /\ Unpacked(e.type).kind = "dyn" =>
         SameShape(T(e, 1), e.type) \/ IsConst(Unpacked(T(e, 1)).base)

-----------------------------------------------------------------------------
(* Aliases *)

RECURSIVE Bare(_)
Bare(t) == CASE t.kind = "undef" -> Bare(Defined(t.to))
             [] t.kind = "ptr"   -> [t EXCEPT !.base = Bare(t.base)]
             [] OTHER            -> t
RECURSIVE BareNode(_)
BareNode(e) == [e EXCEPT !.type = Bare(e.type), !.sub = [i \in DOMAIN e.sub |-> BareNode(e.sub[i])]]
BareNames == [n \in DOMAIN prog.names |-> [prog.names[n] EXCEPT !.type = Bare(@)]]

RECURSIVE AliasesAtTheTop(_)
AliasesAtTheTop(t) ==
  CASE t.kind = "undef"  -> Unpacked(t).kind \notin Arrays \union {"fn", "dyn", "ptr"}
    [] t.kind = "ptr"    -> AliasesAtTheTop(t.base)
    [] OTHER             -> t.kind \notin Arrays \union {"dyn"}

\* The verdict the two walks come to on one statement.
Verdict(e, env, returned) ==
  LET s == Validated(e, env)
  IN IF s.type # Wrong /\ Typechecked(s, returned).type # Wrong THEN "accepted" ELSE "rejected"

\* It makes no difference whether a number, a struct or a pointer to one is
\* declared by name or spelled out: no statement is accepted with the one and
\* rejected with the other.  This does not hold of the branches of `?:' and
\* `else', whose types must be equal to the letter, and of arrays, functions
\* and dynamic types, which are not cast.
AliasesAreTransparent ==
  phase \in {"accepted", "rejected"} /\ Len(prog.body) = 1 /\ constants = {}
    /\ (\A n \in DOMAIN prog.names : prog.names[n].kind # "function" => AliasesAtTheTop(prog.names[n].type))
    /\ (\A u \in Below(prog.body[1], NoType) : u[1].kind \notin {"ternary", "else_expr"} /\ AliasesAtTheTop(u[1].type))
    =>
    Verdict(prog.body[1], [names |-> prog.names, pipe |-> NoType], prog.fn.returns)
      = Verdict(BareNode(prog.body[1]), [names |-> BareNames, pipe |-> NoType], Bare(prog.fn.returns))

-----------------------------------------------------------------------------
(* Constants and returns *)

Target(e) == IF e.kind \in {"assign", "inc", "dec"} THEN ExpandClosure(e.sub[1]) ELSE e

\* A variable declared const, with a value and with a type that is not an
\* alias, is given no other value by an accepted function, be it in
\* parentheses or by counting: the mark set while the types are computed is
\* there when the assignments are checked.
ConstantsAreKept ==
  phase = "accepted" => \A n \in DOMAIN prog.names :
    (/\ prog.names[n].const /\ names[n].type.kind # "undef"
     /\ \E i \in DOMAIN body : Initialised(body[i]) /\ body[i].sub[1].info = n)
    => \A e \in Nodes : e.kind \in {"assign", "inc", "dec"} /\ e.info # "init" =>
         ~(Target(e).kind = "id" /\ Target(e).info = n)

RECURSIVE Ends(_), Follow(_)
\* How a statement can end: it returns, never ends, or the next one follows.
Ends(s) ==
  CASE s.kind = "return"    -> {"returns"}
    [] s.kind = "call"      -> IF s.sub[1].type.noReturn THEN {"never"} ELSE {"falls"}
    [] s.kind = "expr_stmt" -> Ends(s.sub[1])
    [] s.kind = "block"     -> Follow(s.sub)
    [] s.kind = "if"        -> Ends(s.sub[2]) \union (IF Len(s.sub) = 3 THEN Ends(s.sub[3]) ELSE {"falls"})
    [] s.kind = "match"     -> UNION {Ends(Last(s.sub[i].sub)) : i \in 2..Len(s.sub)}
                                 \union (IF s.info = "default" THEN {} ELSE {"falls"})
    [] OTHER                -> {"falls"}
Follow(list) ==
  IF list = <<>> THEN {"falls"}
  ELSE IF "falls" \in Ends(Head(list)) THEN (Ends(Head(list)) \ {"falls"}) \union Follow(Tail(list))
  ELSE Ends(Head(list))

\* The end of an accepted function that returns a value is never reached,
\* whichever branches are taken.  Loops are taken by the code to be entered,
\* and are left out.
ReturnsOnEveryPath ==
  phase = "accepted" /\ Unpacked(prog.fn.returns).kind # "void"
    /\ (\A e \in Nodes : e.kind \notin {"loop", "while", "for_range"})
    => "falls" \notin Follow(body)

\* What was accepted does at run time what its types say: values fit their
\* places, operands agree, dynamic values have tables, and no function that
\* has a value to return comes to its end without one; constants keep their
\* values, and the members of structs their places.
AcceptedIsSound ==
  FitsItsPlace /\ OperandsAgree /\ DynValuesDispatch /\ ReturnsOnEveryPath /\ ConstantsAreKept /\ LayoutIsSettled

=============================================================================
