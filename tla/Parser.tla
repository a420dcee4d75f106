------------------------------- MODULE Parser -------------------------------
(***************************************************************************)
(* compiler/parser/parser.c: recursive descent, with precedence climbing   *)
(* for expressions.  Each parse function is a list of tasks, the calls it  *)
(* makes in their order; the agenda is what the C stack has still to do,   *)
(* and a step does its first task.  Tokens are what the lexer gives, with  *)
(* a few names, literals and operators for all.  A tree is <<label,        *)
(* children...>>; where the parser only rewrites (x += y, x^2, operators   *)
(* that are calls) the label keeps what was written.                       *)
(***************************************************************************)
EXTENDS Naturals, FiniteSets, SequencesExt

CONSTANTS Inputs   \* the token sequences, each ending with EOF

VARIABLES toks, i,
          agenda,    \* the tasks still to do
          vals,      \* the nodes under construction; <<>> is the bottom of a node's children
          blocks,    \* every block and for loop so far: its kind and locals
          cur,       \* p->cur_block, 0 for NULL
          obj,       \* p->cur_obj: "none", "void" and "value" for functions, "other" without return type
          enabled, used,   \* p->holes_enabled, p->holes_used
          tuples,    \* the members of the tuple types generated so far
          errors,    \* uncritical errors
          status     \* "parse"; "done", "failed" (a critical error) or "crashed" at the end

vars == <<toks, i, agenda, vals, blocks, cur, obj, enabled, used, tuples, errors, status>>

-----------------------------------------------------------------------------
(* Tokens *)

Names      == {"a", "b", "f", "T"}
Primitives == {"i32", "void"}
Ints     == {"1"}
Strings  == {"s", "C", "path"}
Literals == Ints \cup {"c", "nil", "true", "1.5"}
Unaries  == {"-", "*", "&", "~", "!"}
AssignOps == {"=", "+="}
Comparisons == {"<", "<=", ">", ">="}
Binaries == {"||", "&&", "|", "^", "&", "==", "<<", "+", "-", "*", "%"} \cup Comparisons
Customs  == {"<>"}
BuiltinOps == Unaries \cup AssignOps \cup Binaries \cup {"++", "|>", ":", "::", ".", ".."}
Builtins == {"is_int", "reg_class"}
Ids      == Names \cup Primitives \cup Builtins   \* what the lexer gives as identifiers

Level == <<{"=", "+="}, {"|>"}, Customs, {"||"}, {"&&"}, {"infix", "else"}, {":"}, {"|"}, {"^"}, {"&"}, {"=="}, Comparisons,
           {"<<"}, {"+", "-"}, {"*"}, {"%"}, {}, {"^2", "^3"}, {"++"}, {"sizeof", "alignof"}, {"("}, {"["}, {"."}>>
Lowest == 0
Pipe == 2
Custom == 3
InfixCall == 6
Unary == 17
XOf == 20
Member == 23

Precedence(t) == IF \E n \in DOMAIN Level : t \in Level[n] THEN CHOOSE n \in DOMAIN Level : t \in Level[n] ELSE Lowest

Tok == toks[i]
Peek(n) == toks[i + n]
Beyond(n) == i + n > Len(toks)

-----------------------------------------------------------------------------
(* Tasks *)

EatIn(S)   == <<"eat", S>>             \* parser_consume
Eat(t)     == EatIn({t})
Skip       == <<"skip">>               \* parser_advance, whatever the token is
Leaf(S)    == <<"leaf", S>>            \* consume a token and keep it as a node
If(S, a, b) == <<"if", S, a, b>>       \* a if the token is in S, b if not
Unless(S, a) == If(S, <<>>, a)
Until(S, a) == <<"until", S, a>>       \* a again and again until a token of S comes
While(S, a) == <<"while", S, a>>
Void       == <<"void">>
Mark       == <<"mark">>               \* a node begins,
Under      == <<"under">>              \* with the node just parsed as its first child,
Collect(l) == <<"collect", l>>         \* and ends
Node(l, body) == <<Mark>> \o body \o <<Collect(l)>>
Call(f, x) == <<"call", f, x>>         \* a parse function, with its argument
Expr(prec, end) == <<"expr", prec, end>>
Stmt(semicolon) == Call("stmt", semicolon)
Type       == Call("type", "")
Path       == <<"path">>               \* parse_identifier
Put(n)     == <<"put", n>>            \* a node nothing is written for
Fail       == <<"fail">>
Crash      == <<"crash">>
Error      == <<"error">>              \* counted, parsing goes on
\* mutant: what separates the elements of a list is not looked at
CommaAny(end) == Unless({end}, <<Skip>>)

Comma(end) == Unless({end}, <<Eat(",")>>)
Semicolon(needed) == IF needed THEN <<Eat(";")>> ELSE <<>>
Id         == Call("simple", "")       \* parse_simple_identifier

-----------------------------------------------------------------------------
(* Types *)

Typed == <<Id, Eat(":"), Type>>

StructType == Node(Tok, <<Skip, Eat("{"),
    Until({"}", "EOF"}, <<If({"embed"}, Node("EMBED", <<Skip, Type>>), Node("MEMBER", Typed)), Comma("}")>>), Eat("}")>>)
EnumType == Node("ENUM", <<Skip, Eat("{"),
    Until({"}", "EOF"}, Node("ENUMERATOR", <<Id, If({"="}, <<Skip, Expr(Lowest, ",")>>, <<>>)>>) \o <<Comma("}")>>), Eat("}")>>)
\* an operator that only begins with < loses its first character
LambdaType == Node("FN_TYPE", <<Skip, If({"<"}, <<Skip, Type, Eat(">")>>, <<If({"<&", "<<"}, <<<<"trim">>, Type, Eat(">")>>, <<Put(Void)>>)>>),
    If({"("}, <<Skip, Until({")", "EOF"}, <<Type, Comma(")")>>), Eat(")")>>, <<>>)>>)
InterfaceType == Node("INTERFACE", <<Skip, Eat("{"), Until({"}", "EOF"}, <<Call("fndef", ""), Comma("}")>>), Eat("}")>>)
TupleType == Node("TUPLE", <<Skip, Until({"}", "EOF"}, <<Type, Comma("}")>>), Eat("}")>>) \o <<<<"tuple">>>>

\* arrays of arrays of ... ; what begins with const has had its turn
Suffix == CASE Tok = "[" -> <<Under, Skip, If({"]"}, <<Skip, Collect("VLA")>>, <<Expr(Lowest, "]"), Eat("]"), Collect("ARRAY")>>), Call("suffix", "")>>
            [] Tok = "c-array" -> <<Under, Skip, Eat("["), Expr(Lowest, "]"), Eat("]"), Collect("C_ARRAY"), Call("suffix", "")>>
            [] OTHER -> <<>>

TypeBody ==
    CASE Tok \in Primitives           -> <<Leaf(Primitives)>>
      [] Tok = "("                    -> <<Skip, Type, Eat(")")>>
      [] Tok = "fn"                   -> LambdaType
      [] Tok \in {"struct", "union"}  -> StructType
      [] Tok = "interface"            -> InterfaceType
      [] Tok = "enum"                 -> EnumType
      [] Tok = "&"                    -> Node("&", <<Skip, Type>>)
      [] Tok = "&&"                   -> <<Mark>> \o Node("&", <<Skip, Type>>) \o <<Collect("&")>>
      [] Tok = "{"                    -> TupleType
      [] Tok = "typeof"               -> Node("TYPEOF", <<Skip, Expr(XOf, ";")>>)
      [] Tok = "dyn"                  -> Node("DYN", <<Skip, Type>>)
      [] Tok \in BuiltinOps \ {"&", "&&", "::"} -> <<Fail>>
      [] OTHER                        -> <<Path>>

ParseType == IF Tok = "const" THEN Node("CONST", <<Skip, Type>>) ELSE TypeBody \o <<Call("suffix", "")>>

-----------------------------------------------------------------------------
(* Definitions *)

SetObj(o) == <<"obj", o>>

\* the argument before ... is found by looking two tokens ahead, which may be behind the end
Argument(end) ==
    IF Beyond(2) THEN <<Crash>>
    ELSE IF Peek(2) = "..." THEN Node("VARIADIC", <<Id, Eat(":"), Skip, If({end}, <<>>, <<Fail>>)>>)
    ELSE Node("ARG", Typed) \o <<Comma(end)>>

FnDef == Node("DECL",
    <<If({"operator"}, <<Skip, Leaf(Customs)>>, <<Eat("fn"), Id>>), Eat("("),
      Mark, Until({")"}, <<Call("arg", ")")>>), Collect("ARGS"), <<"arity">>, Eat(")"), If({":"}, <<Skip, Type>>, <<Put(Void)>>)>>)
Fn == Node("FN", FnDef \o <<<<"enter">>, If({"="}, Node("SHORT", <<Skip, Expr(Lowest, ";"), Eat(";")>>), <<Stmt(TRUE)>>), SetObj(obj)>>)
DynFn == Node("DYN_FN", <<Skip, Eat("("), Type, Eat(")"), Call("fn", "")>>)
Global == Node("GLOBAL", <<Leaf({"let", "const"})>> \o Typed \o <<If({"="}, <<Skip, Expr(Lowest, ";")>>, <<>>), Eat(";")>>)
Typedef == <<SetObj("other")>> \o Node("TYPEDEF", <<Eat("type")>> \o Typed \o <<Eat(";")>>) \o <<SetObj(obj)>>

ExternDef == CASE Tok \in {"let", "const"} -> Global
               [] Tok \in {"fn", "operator"} -> FnDef \o <<Eat(";")>>
               [] OTHER -> <<Fail>>
Extern == Node("EXTERN", <<Skip, If({"C"}, <<Leaf({"C"})>>, <<If(Strings, <<Fail>>, <<>>)>>),
    If({"{"}, <<Skip, Until({"}", "EOF"}, <<Call("externdef", "")>>), Eat("}")>>, <<Call("externdef", "")>>)>>)

\* what a second namespace of the same name holds is added to the first
Namespace == <<Skip, SetObj("other")>>
    \o Node("NAMESPACE", <<Id, Eat("{"), Until({"}", "EOF"}, <<Call("obj", "")>>), Eat("}")>>) \o <<SetObj(obj), <<"merge">>>>

Obj == CASE Tok = "type" -> Typedef
         [] Tok \in {"const", "let"} -> Global
         [] Tok \in {"fn", "operator"} -> Fn
         [] Tok = "dyn" -> DynFn
         [] Tok = "extern" -> Extern
         [] Tok = "namespace" -> Namespace
         [] OTHER -> <<Fail>>

\* mutant: a brace too many ends the program
ProgramOpen == <<Mark, Until({"EOF", "}"}, <<If({"import"}, <<Skip, EatIn(Strings), Eat(";")>>, <<Call("obj", "")>>)>>), Collect("PROGRAM")>>

Program == <<Mark, Until({"EOF"}, <<If({"import"}, <<Skip, EatIn(Strings), Eat(";")>>, <<Call("obj", "")>>)>>), Collect("PROGRAM")>>

-----------------------------------------------------------------------------
(* Statements *)

Open(kind) == <<"open", kind>>             \* the next block; the function that opens it knows its number
Close == <<"close", Len(blocks) + 1, cur>> \* and the block to go back to

Block == Node("BLOCK", <<Eat("{"), Open("BLOCK"), Until({"}"}, <<Stmt(TRUE)>>), Close, Eat("}")>>)
Return(ns) == Node("RETURN", <<Skip, Unless({";", "unless", "while"}, <<<<"returns">>, Expr(Lowest, ";")>>)>>) \o Semicolon(ns)
Else(ns) == If({"else"}, <<Skip, Stmt(ns)>>, <<>>)
IfStmt(ns) == Node("IF", <<Skip, Expr(Lowest, "EOF"), Stmt(ns), Else(ns)>>)
Loop(ns) == Node("LOOP", <<Skip, Stmt(ns)>>)
WhileStmt(ns) == Node("WHILE", <<Skip, Expr(Lowest, ";"), Stmt(ns)>>)

\* a range does not go back to the block around it, and nothing looks at what the two advances skip
ForRange(ns) == <<<<"range">>, Skip, Expr(Lowest, ";"), Stmt(ns), Collect("FOR_RANGE")>>
ForRest(ns) == <<Unless({";"}, <<Expr(Lowest, ";")>>), Put(<<";">>), Skip, Unless({";"}, <<Expr(Lowest, ";")>>), Put(<<";">>), Skip,
                 Stmt(ns), Close, Collect("FOR")>>
For(ns) == <<Mark, Skip, Open("FOR"),
    If({";"}, <<Skip, Put(<<";">>)>> \o ForRest(ns),
       <<If({"let"}, <<Stmt(TRUE), <<"require", {"LET"}>>, Put(<<";">>)>> \o ForRest(ns),
            <<Expr(Lowest, ";"), If({".."}, ForRange(ns), <<Eat(";"), Put(<<";">>)>> \o ForRest(ns))>>)>>)>>

Case == <<If({"_"}, Node("DEFAULT", <<Skip, Eat("=>"), Stmt(TRUE)>>),
           Node("CASE", <<If(Comparisons, <<Leaf(Comparisons)>>, <<>>), Expr(Lowest, "=>"), Eat("=>"), Stmt(TRUE)>>))>>
TypeCase == <<If({"_"}, Node("DEFAULT", <<Skip, Eat("=>"), Stmt(TRUE)>>), Node("CASE_TYPE", <<Type, Eat("=>"), Stmt(TRUE)>>))>>
Cases(f) == <<Eat("{"), Until({"}", "EOF"}, <<Call(f, ""), <<"onedefault">>>>), Eat("}")>>
Match == <<Skip, Call("match", "")>>
MatchBody == IF Tok = "(" /\ Peek(1) = "type"
             THEN Node("MATCH_TYPE", <<Skip, Skip, Eat(")"), Type>> \o Cases("typecase"))
             ELSE Node("MATCH", <<Expr(Lowest, "{")>> \o Cases("case"))

ExprStmt(ns) == Node("EXPR_STMT", <<Expr(Lowest, ";"), <<"executable">>>>) \o Semicolon(ns)

\* with a value a local is an assignment, without it is nothing but an entry in its block
Local == <<Mark, Leaf({"let", "const"}), Id,
    If({":"}, <<Skip, Type, If({"="}, <<Skip, Expr(Lowest, ";"), Eat(";"), Collect("LET")>>, <<Eat(";"), Collect("DECLARE")>>)>>,
       <<Eat("="), Expr(Lowest, ";"), Eat(";"), Collect("LET")>>), <<"local">>>>

With(ns) == Node("WITH", <<Skip, Id, If({":"}, <<Skip, Type>>, <<>>), Eat("="), Expr(Lowest, "{"), Stmt(ns), Else(ns)>>)
Do == Node("DO", <<Skip, Stmt(FALSE), Leaf({"unless", "while"}), Expr(Lowest, ";"), Eat(";")>>)
Using(ns) == Node("USING", <<Skip, Path, While({","}, <<Skip, Path>>), If({"for"}, <<Skip, Stmt(ns)>>, Semicolon(ns))>>)
ExternC == Node("EXTERN_C", <<Skip, Eat("C"), Eat("("), Call("strings", ""), Eat(")"), Eat(";")>>)
Asm(ns) == Node("ASM", <<Skip, Until({";"}, <<Call("asmarg", "")>>)>>) \o Semicolon(ns)
AsmArg == CASE Tok \in Strings -> <<Call("strings", "")>>
            [] Tok \in Ints -> <<Leaf(Ints)>>
            [] Tok = "&" -> Node("OUTPUT", <<Skip, Call("id", "")>>)
            [] Tok \in Ids \/ Tok = "::" -> <<Call("id", "")>>
            [] OTHER -> <<Fail>>
Word(ns) == <<Leaf({"break", "continue", "noop"})>> \o Semicolon(ns)

ParseStmt(ns) ==
    CASE Tok = "{" -> Block
      [] Tok = "ret" -> Return(ns)
      [] Tok = "if" -> IfStmt(ns)
      [] Tok = "loop" -> Loop(ns)
      [] Tok = "for" -> For(ns)
      [] Tok = "while" -> WhileStmt(ns)
      [] Tok = "match" -> Match
      [] Tok = "with" -> With(ns)
      [] Tok = "do" -> Do
      [] Tok = "asm" -> Asm(ns)
      [] Tok \in {"const", "let"} -> Local
      [] Tok \in {"break", "continue", "noop"} -> Word(ns)
      [] Tok = "defer" -> Node("DEFER", <<Skip, Stmt(ns)>>)
      [] Tok = "using" -> Using(ns)
      [] Tok = ";" -> <<Leaf({";"})>>
      [] Tok = "extern" -> ExternC
      [] OTHER -> ExprStmt(ns)
-----------------------------------------------------------------------------
(* Expressions *)

ExprList(end, unpack) == <<Until({end, "EOF"}, <<Call("element", unpack), Comma(end)>>), Eat(end)>>

\* ... before an element unpacks it front to back, behind it back to front
Element(unpack) ==
    IF unpack /\ Tok = "..."
    THEN <<Mark, Skip, Expr(Lowest, ","), If({"..."}, <<Error, Skip, Collect("BTOF")>>, <<Collect("FTOB")>>)>>
    ELSE <<Expr(Lowest, ",")>> \o IF unpack THEN <<If({"..."}, <<Under, Skip, Collect("BTOF")>>, <<>>)>> ELSE <<>>

StructLit == IF Tok = "::" /\ Peek(1) = "{" THEN <<Under, Skip, Skip>> \o ExprList("}", FALSE) \o <<Collect("::{")>> ELSE <<>>
IdExpr == <<Path, Call("structlit", "")>>
\* mutant: no advance past the strings that are appended
StringLitStuck == Node("STR", <<Leaf(Strings), While(Strings, <<>>)>>)

StringLit == Node("STR", <<Leaf(Strings), While(Strings, <<Leaf(Strings)>>)>>)

Lambda(label) == Node(label,
    <<Mark, If({"||"}, <<Skip>>, <<Eat("|"), Until({"|"}, Node("ARG", Typed) \o <<Comma("|")>>), Eat("|")>>), Collect("ARGS"),
      If({"=>", "="}, <<Put(Void)>>, <<Type>>),
      If({"="}, Node("SHORT", <<Skip, Expr(Lowest, ";")>>), <<Eat("=>"), Stmt(FALSE)>>)>>)

\* what follows type:: may be missing altogether
TypeExpr == Node("TYPE_EXPR", <<Skip, Eat("::"),
    If({"("}, <<Skip, Type, Leaf(Comparisons \cup {"=="}), Type, Eat(")")>>,
       <<If(Builtins, <<Leaf(Builtins), Eat("("), Type, Eat(")")>>, <<If(Ids, <<Fail>>, <<>>)>>)>>)>>)

Ternary == Node("?", <<Skip, Expr(Lowest, "=>"), Eat("=>"), Expr(Lowest, "else"), Eat("else"), Expr(Lowest, ";")>>)
Closure == Node("CLOSURE", <<Skip, Expr(Lowest, ")"), Comma(")"), Until({")", "EOF"}, <<Expr(Lowest, ")"), Comma(")")>>), Eat(")")>>)

Atom(t) ==
    CASE t \in Ids \cup {"::"}        -> IdExpr
      [] t \in Literals               -> <<Leaf(Literals)>>
      [] t \in Strings                -> StringLit
      [] t = "__func__"               -> IF obj = "none" THEN <<Crash>> ELSE Node("STR", <<Leaf({t}), While(Strings, <<Leaf(Strings)>>)>>)
Aggregate(t) == IF t = "[" THEN Node("ARRAY_LIT", <<Skip>> \o ExprList("]", obj # "none"))
                           ELSE Node("STRUCT_LIT", <<Skip>> \o ExprList("}", FALSE))
Keyword(t) ==
    CASE t \in {"sizeof", "alignof"}  -> Node(t, <<Skip, Type>>)
      [] t = "len"                    -> Node("len", <<Skip, Expr(Lowest, ";")>>)
      [] t = "const"                  -> <<Skip, If({"|", "||"}, Lambda("CONST_LAMBDA"), <<Fail>>)>>
      [] t = "type"                   -> TypeExpr
      [] t = "if"                     -> Ternary
UnaryOp(t) == Node(t, <<Skip, Expr(Unary, IF t \in Customs THEN ";" ELSE "EOF")>>)

Prefix(t) ==
    CASE t \in Ids \cup Literals \cup Strings \cup {"::", "__func__"} -> Atom(t)
      [] t \in {"[", "{"}             -> Aggregate(t)
      [] t \in {"sizeof", "alignof", "len", "const", "type", "if"} -> Keyword(t)
      [] t = "("                      -> Closure
      [] t = "$" /\ enabled           -> <<<<"hole">>, Leaf({"$"})>>
      [] t \in {"|", "||"}            -> Lambda("LAMBDA")
      [] t \in Unaries \cup Customs   -> UnaryOp(t)
      [] OTHER                        -> <<Fail>>

HasInfix(t) == t \notin {"sizeof", "alignof"}

\* each continues the node whose first child is the expression to the left
Operator(t) ==
    CASE t \in AssignOps   -> <<Expr(Lowest, "EOF"), Collect(t)>>
      [] t \in Binaries    -> <<Expr(Precedence(t), "EOF"), Collect(t)>>
      [] t \in Customs     -> <<Expr(Custom, ";"), Collect(t)>>
      [] t = "else"        -> <<Expr(InfixCall, ";"), Collect(t)>>
Bracket(t) ==
    IF t = "(" THEN ExprList(")", TRUE) \o <<Collect("CALL")>>
    ELSE <<If({"^"}, <<Skip, Expr(Lowest, "]"), Eat("]"), Collect("FROM_BACK")>>, <<Expr(Lowest, "]"), Eat("]"), Collect("INDEX")>>)>>
Powers == {"^2", "^3"}

Infix(t) ==
    CASE t \in {"(", "["}  -> Bracket(t)
      [] t \in AssignOps \cup Binaries \cup Customs \cup {"else"} -> Operator(t)
      [] t \in Powers \cup {"++"} -> <<Collect(t)>>
      [] t = "|>"          -> <<<<"pipe">>, Expr(Pipe, ";"), <<"piped", used>>, Collect(t)>>
      [] t = ":"           -> <<Type, Collect(t)>>
      [] t = "."           -> <<Expr(Member, ";"), <<"require", {"ID", "CONST_LAMBDA"}>>, Collect(t)>>
      [] t = "infix"       -> <<Path, Eat("infix"), Expr(InfixCall, ";"), Collect(t)>>

\* mutant: operators of the same level group to the right
ClimbEqual(prec, end) == IF Tok # end /\ prec <= Precedence(Tok) /\ Lowest < Precedence(Tok) /\ HasInfix(Tok)
                    THEN <<Under, Skip>> \o Infix(Tok) \o <<<<"climb", prec, end>>>>
                    ELSE <<>>

Climb(prec, end) == IF Tok # end /\ prec < Precedence(Tok) /\ HasInfix(Tok)
                    THEN <<Under, Skip>> \o Infix(Tok) \o <<<<"climb", prec, end>>>>
                    ELSE <<>>

-----------------------------------------------------------------------------
(* The steps *)

Body(f, x) ==
    CASE f = "type"      -> ParseType
      [] f = "suffix"    -> Suffix
      [] f = "simple"    -> (IF Tok = "::" /\ Peek(1) \in Ids THEN <<Skip>> ELSE <<>>) \o <<Leaf(Ids)>>
      [] f = "arg"       -> Argument(x)
      [] f = "fndef"     -> FnDef
      [] f = "fn"        -> Fn
      [] f = "externdef" -> ExternDef
      [] f = "obj"       -> Obj
      [] f = "stmt"      -> ParseStmt(x)
      [] f = "match"     -> MatchBody
      [] f = "case"      -> Case
      [] f = "typecase"  -> TypeCase
      [] f = "asmarg"    -> AsmArg
      [] f = "element"   -> Element(x)
      [] f = "id"        -> IdExpr
      [] f = "structlit" -> StructLit
      [] f = "strings"   -> StringLit

Task(name) == status = "parse" /\ agenda # <<>> /\ Head(agenda)[1] = name
Arg(n) == Head(agenda)[n]
Top == vals[Len(vals)]
Below(n) == SubSeq(vals, 1, Len(vals) - n)
Bottom == CHOOSE n \in DOMAIN vals : vals[n] = <<>> /\ \A m \in n + 1 .. Len(vals) : vals[m] # <<>>
Siblings == SubSeq(vals, Bottom + 1, Len(vals))

Then(new) == agenda' = new \o Tail(agenda)
Halt(s) == status' = s /\ UNCHANGED <<toks, i, agenda, vals, blocks, cur, obj, enabled, used, tuples, errors>>
Keeps == UNCHANGED <<toks, blocks, cur, obj, enabled, used, tuples, errors, status>>

Consume == i < Len(toks) /\ i' = i + 1

EatToken == Task("eat") /\ Tok \in Arg(2) /\ Consume /\ Then(<<>>) /\ UNCHANGED vals /\ Keeps
SkipToken == Task("skip") /\ Consume /\ Then(<<>>) /\ UNCHANGED vals /\ Keeps
LeafToken == Task("leaf") /\ Tok \in Arg(2) /\ Consume /\ Then(<<>>) /\ vals' = Append(vals, <<Tok>>) /\ Keeps
Unexpected == (Task("eat") \/ Task("leaf")) /\ Tok \notin Arg(2) /\ Halt("failed")
BehindTheEnd == Task("skip") /\ ~(i < Len(toks)) /\ Halt("crashed")
TrimToken == Task("trim") /\ toks' = [toks EXCEPT ![i] = IF @ = "<&" THEN "&" ELSE "<"] /\ Then(<<>>)
             /\ UNCHANGED <<i, vals, blocks, cur, obj, enabled, used, tuples, errors, status>>

Parse ==
    /\ \/ Task("if") /\ Then(IF Tok \in Arg(2) THEN Arg(3) ELSE Arg(4))
       \/ Task("until") /\ Then(IF Tok \in Arg(2) THEN <<>> ELSE Arg(3) \o <<Head(agenda)>>)
       \/ Task("while") /\ Then(IF Tok \in Arg(2) THEN Arg(3) \o <<Head(agenda)>> ELSE <<>>)
       \/ Task("call") /\ Then(Body(Arg(2), Arg(3)))
       \/ Task("expr") /\ Then(Prefix(Tok) \o <<<<"climb", Arg(2), Arg(3)>>>>)
       \/ Task("climb") /\ Then(Climb(Arg(2), Arg(3)))
    /\ UNCHANGED <<i, vals>> /\ Keeps

Build ==
    /\ \/ Task("mark") /\ vals' = Append(vals, <<>>)
       \/ Task("under") /\ vals' = Below(1) \o <<<<>>, Top>>
       \/ Task("put") /\ vals' = Append(vals, Arg(2))
       \/ Task("collect") /\ vals' = Append(SubSeq(vals, 1, Bottom - 1), <<Arg(2)>> \o Siblings)
    /\ Then(<<>>) /\ UNCHANGED i /\ Keeps

\* parse_identifier: names joined by ::, where :: before something else ends it
PathEnd[j \in Nat] == IF toks[j + 1] = "::" /\ toks[j + 2] \in Ids THEN PathEnd[j + 2] ELSE j
ParsePath == LET first == IF Tok = "::" /\ Peek(1) \in Ids THEN i + 1 ELSE i IN
    /\ Task("path")
    /\ IF toks[first] \in Ids
       THEN LET last == PathEnd[first] IN
            /\ i' = last + 1 /\ vals' = Append(vals, <<"ID", SubSeq(toks, i, last)>>) /\ Then(<<>>) /\ Keeps
       ELSE Halt("failed")

-----------------------------------------------------------------------------
(* What the functions do besides *)

RECURSIVE Compatible(_, _)
TypeKind(n) == CASE n[1] \in {"ID", "TUPLE"} -> "UNDEF" [] n[1] = "union" -> "struct" [] OTHER -> n[1]
Unqualified(n) == IF n[1] = "CONST" THEN n[2] ELSE n
HasBase(n) == n[1] \in {"&", "ARRAY", "VLA", "C_ARRAY", "DYN", "FN_TYPE"}
\* check_type: names are not compared
Compatible(x, y) == LET a == Unqualified(x) b == Unqualified(y) IN
    TypeKind(a) = TypeKind(b) /\ (HasBase(a) => Compatible(a[2], b[2]))
SameTuple(x, y) == Len(x) = Len(y) /\ \A n \in 2 .. Len(x) : Compatible(x[n], y[n])

MakeTuple ==
    /\ Task("tuple")
    /\ LET same == {n \in DOMAIN tuples : SameTuple(tuples[n], Top)} IN
       IF same = {} THEN tuples' = Append(tuples, Top) /\ UNCHANGED vals
       ELSE vals' = Append(Below(1), tuples[CHOOSE n \in same : \A m \in same : n <= m]) /\ UNCHANGED tuples
    /\ Then(<<>>) /\ UNCHANGED <<toks, i, blocks, cur, obj, enabled, used, errors, status>>

RECURSIVE MergeInto(_, _)
MergeInto(objs, n) ==
    IF \E k \in DOMAIN objs : n[1] = "NAMESPACE" /\ objs[k][1] = "NAMESPACE" /\ objs[k][2] = n[2]
    THEN LET k == CHOOSE m \in DOMAIN objs : objs[m][1] = "NAMESPACE" /\ objs[m][2] = n[2]
         IN [objs EXCEPT ![k] = SubSeq(@, 1, 2) \o FoldLeft(MergeInto, SubSeq(@, 3, Len(@)), SubSeq(n, 3, Len(n)))]
    ELSE Append(objs, n)
Merge ==
    /\ Task("merge")
    /\ vals' = SubSeq(vals, 1, Bottom) \o MergeInto(SubSeq(vals, Bottom + 1, Len(vals) - 1), Top)
    /\ Then(<<>>) /\ UNCHANGED i /\ Keeps

SetCurObj ==
    /\ \/ Task("obj") /\ obj' = Arg(2)
       \/ Task("enter") /\ obj' = IF Unqualified(Top[Len(Top)]) = Void THEN "void" ELSE "value"
    /\ Then(<<>>) /\ UNCHANGED <<toks, i, vals, blocks, cur, enabled, used, tuples, errors, status>>

OpenBlock ==
    /\ Task("open")
    /\ blocks' = Append(blocks, [kind |-> Arg(2), locals |-> <<>>]) /\ cur' = Len(blocks) + 1
    /\ Then(<<>>) /\ UNCHANGED <<toks, i, vals, obj, enabled, used, tuples, errors, status>>
CloseBlock == LET locals == blocks[Arg(2)].locals IN
    /\ Task("close")
    /\ vals' = IF locals = <<>> THEN vals ELSE Append(vals, <<"LOCALS">> \o locals)
    /\ cur' = Arg(3)
    /\ Then(<<>>) /\ UNCHANGED <<toks, i, blocks, obj, enabled, used, tuples, errors, status>>
RangeBlock ==
    /\ Task("range") /\ blocks' = [blocks EXCEPT ![cur].kind = "FOR_RANGE"]
    /\ Then(<<>>) /\ UNCHANGED <<toks, i, vals, cur, obj, enabled, used, tuples, errors, status>>
DeclareLocal ==
    /\ Task("local")
    /\ IF cur = 0 \/ blocks[cur].kind = "FOR_RANGE" THEN Halt("failed")
       ELSE /\ blocks' = [blocks EXCEPT ![cur].locals = Append(@, Top[3])]
            /\ Then(<<>>) /\ UNCHANGED <<toks, i, vals, cur, obj, enabled, used, tuples, errors, status>>

\* the calls, as written, and where the first argument of each goes
Calls == {"CALL", "infix"} \cup Customs
WithHole(n) == IF n[1] = "CALL" THEN SubSeq(n, 1, 2) \o <<<<"$">>>> \o SubSeq(n, 3, Len(n)) ELSE <<n[1], <<"$">>>> \o Tail(n)

BeginPipe ==
    /\ Task("pipe") /\ used' = FALSE /\ enabled' = TRUE
    /\ Then(<<>>) /\ UNCHANGED <<toks, i, vals, blocks, cur, obj, tuples, errors, status>>
Hole ==
    /\ Task("hole") /\ used' = TRUE
    /\ Then(<<>>) /\ UNCHANGED <<toks, i, vals, blocks, cur, obj, enabled, tuples, errors, status>>
EndPipe ==
    /\ Task("piped") /\ enabled' = FALSE /\ used' = Arg(2)
    /\ vals' = IF ~used /\ Top[1] \in Calls THEN Append(Below(1), WithHole(Top)) ELSE vals
    /\ Then(<<>>) /\ UNCHANGED <<toks, i, blocks, cur, obj, tuples, errors, status>>

RECURSIVE Executable(_)
Executable(n) ==
    \/ n[1] \in {"CALL", "infix", "++", ":", "."} \cup AssignOps \cup Customs
    \/ n[1] \in {"CLOSURE", "|>"} /\ Executable(n[Len(n)])
    \/ n[1] = "?" /\ Executable(n[3]) /\ Executable(n[4])

\* what is only counted, and what stops the parser
Complains ==
    \/ Task("error")
    \/ Task("executable") /\ ~Executable(Top)
    \/ Task("returns") /\ obj = "void"
    \/ Task("arity") /\ vals[Len(vals) - 1][1] \in Customs /\ Cardinality({n \in 2 .. Len(Top) : Top[n][1] = "ARG"}) \notin {1, 2}
Refuses ==
    \/ Task("fail")
    \/ Task("require") /\ Top[1] \notin Arg(2)
    \/ Task("onedefault") /\ Top[1] = "DEFAULT" /\ \E n \in 1 .. Len(Siblings) - 1 : Siblings[n][1] = "DEFAULT"
Derefs == Task("crash") \/ (Task("returns") /\ obj = "other")

Check == \E name \in {"error", "executable", "returns", "arity", "require", "onedefault"} :
    /\ Task(name) /\ ~Refuses /\ ~Derefs
    /\ errors' = IF Complains THEN errors + 1 ELSE errors
    /\ Then(<<>>) /\ UNCHANGED <<toks, i, vals, blocks, cur, obj, enabled, used, tuples, status>>
Refuse == Refuses /\ Halt("failed")
Deref == Derefs /\ Halt("crashed")
Finish == status = "parse" /\ agenda = <<>> /\ Halt("done")

Start(text) ==
    /\ toks = text /\ i = 1 /\ agenda = Program /\ vals = <<>>
    /\ blocks = <<>> /\ cur = 0 /\ obj = "none" /\ enabled = FALSE /\ used = FALSE
    /\ tuples = <<>> /\ errors = 0 /\ status = "parse"

Init == \E text \in Inputs : Start(text)

Next ==
    \/ EatToken \/ SkipToken \/ LeafToken \/ Unexpected \/ BehindTheEnd \/ TrimToken \/ Parse \/ Build \/ ParsePath
    \/ MakeTuple \/ Merge \/ SetCurObj \/ OpenBlock \/ CloseBlock \/ RangeBlock \/ DeclareLocal
    \/ BeginPipe \/ Hole \/ EndPipe \/ Check \/ Refuse \/ Deref \/ Finish

Spec == Init /\ [][Next]_vars /\ WF_vars(Next)

=============================================================================
