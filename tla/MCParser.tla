------------------------------ MODULE MCParser ------------------------------
EXTENDS ParserMeaning

A == <<"ID", <<"a">>>>
B == <<"ID", <<"a", "::", "b">>>>
T == <<"ID", <<"T">>>>
One == <<"1">>
Name == <<"f">>

\* every construct of an expression, around operands x and y
Around(x, y) ==
    {<<t, x>> : t \in {"-", "&", "<>", "len", "++", "^2"}}
    \cup {<<t, x, y>> : t \in {"+", "-", "*", "%", "=", "+=", "<>", "|>", "||", "&&", "|", "^", "&", "==", "<", "<<", "else"}}
    \cup {<<"CALL", x>>, <<"CALL", x, y>>, <<"CALL", x, <<"FTOB", y>>>>, <<"CALL", x, <<"BTOF", y>>, One>>, <<"INDEX", x, y>>, <<"FROM_BACK", x, y>>,
          <<"infix", x, B, y>>, <<":", x, T>>, <<".", x, A>>, <<"?", x, y, A>>, <<"?", A, x, y>>, <<"CLOSURE", x>>, <<"CLOSURE", x, y>>,
          <<"ARRAY_LIT", x, y>>, <<"STRUCT_LIT", x>>, <<"::{", B, x, y>>,
          <<"LAMBDA", <<"ARGS", <<"ARG", <<"b">>, T>>>>, <<"i32">>, <<"SHORT", x>>>>, <<"LAMBDA", <<"ARGS">>, Void, <<"BLOCK", <<"RETURN", x>>>>>>,
          <<"CONST_LAMBDA", <<"ARGS">>, T, <<"SHORT", x>>>>}
Shallow == Around(A, One)
Other == {<<"sizeof", T>>, <<"alignof", <<"VLA", T>>>>, <<"STR", <<"s">>, <<"s">>>>, <<"STR", <<"__func__">>>>, <<"true">>,
          <<"TYPE_EXPR", T, <<"<">>, <<"i32">>>>, <<"TYPE_EXPR", <<"is_int">>, T>>, <<"|>", A, <<"-", <<"$">>, One>>>>,
          <<"|>", A, <<"CALL", A, <<"$">>>>>>, <<"|>", A, <<"CLOSURE", <<"$">>, <<"|>", A, <<"CALL", A, One>>>>>>>>,
          <<"|>", A, <<"CALL", A, <<"|>", <<"$">>, <<"CALL", B>>>>>>>>, <<"|>", A, <<"CALL", A, <<"CLOSURE", <<"|>", A, <<"*", <<"$">>, One>>>>>>>>>>}
Exprs == Shallow \cup Other \cup UNION {Around(x, One) \cup Around(A, x) : x \in Shallow}

Decl == <<"DECL", Name, <<"ARGS">>, T>>
Program1(objs) == <<"PROGRAM">> \o objs
Short(e) == Program1(<<<<"FN", Decl, <<"SHORT", e>>>>>>)
InBlock(s) == Program1(<<<<"FN", Decl, <<"BLOCK", s>>>>>>)

Call_ == <<"EXPR_STMT", <<"CALL", A>>>>
Let == <<"LET", <<"let">>, <<"b">>, One>>
Stmts1(s) ==
    {<<"BLOCK", s>>, <<"BLOCK", s, Let, Let>>, <<"BLOCK", <<"DECLARE", <<"const">>, <<"b">>, T>>, s>>, <<"IF", A, s>>, <<"IF", A, s, Call_>>, <<"IF", A, Call_, s>>,
     <<"LOOP", s>>, <<"WHILE", A, s>>, <<"FOR", <<";">>, <<";">>, <<";">>, s>>, <<"FOR_RANGE", A, One, s>>,
     <<"FOR", <<"LET", <<"let">>, <<"a">>, T, One>>, <<";">>, <<"<", A, One>>, <<";">>, <<"++", A>>, <<";">>, s>>,
     <<"FOR", <<"=", A, One>>, <<";">>, <<";">>, <<"++", A>>, <<";">>, s>>,
     <<"MATCH", A, <<"CASE", One, s>>, <<"CASE", <<"<">>, One, Call_>>, <<"DEFAULT", s>>>>,
     <<"MATCH_TYPE", T, <<"CASE_TYPE", <<"i32">>, s>>, <<"DEFAULT", Call_>>>>,
     <<"WITH", <<"b">>, A, s>>, <<"WITH", <<"b">>, A, s, s>>, <<"DEFER", s>>, <<"USING", B, A, s>>}
Leaves == {Call_, Let, <<"RETURN">>, <<"RETURN", One>>, <<"break">>, <<"continue">>, <<"noop">>, <<";">>, <<"EXTERN_C", <<"STR", <<"s">>>>>>, <<"USING", A>>,
           <<"ASM", <<"STR", <<"s">>>>, <<"OUTPUT", A>>, One, B>>, <<"DO", <<"BLOCK", Let>>, <<"while">>, A>>, <<"DO", Call_, <<"unless">>, A>>}
TypeofTrees == {<<"DECLARE", <<"let">>, <<"b">>, <<"TYPEOF", x>>>> : x \in Shallow}
StmtTrees == TypeofTrees \cup Leaves \cup UNION {Stmts1(s) : s \in Leaves \cup UNION {Stmts1(t) : t \in {Call_, Let}}}

Types == {T, <<"i32">>, B, <<"VLA", T>>, <<"ARRAY", <<"&", T>>, One>>, <<"C_ARRAY", <<"VLA", T>>, One>>, <<"&", <<"&", <<"VLA", T>>>>>>, <<"CONST", <<"&", T>>>>,
          <<"FN_TYPE", T, <<"i32">>, <<"&", T>>>>, <<"FN_TYPE", <<"FN_TYPE", T>>>>, <<"struct", <<"MEMBER", Name, T>>, <<"EMBED", B>>>>, <<"union">>,
          <<"ENUM", <<"ENUMERATOR", Name, One>>, <<"ENUMERATOR", Name>>>>, <<"INTERFACE", Decl, <<"DECL", Name, <<"ARGS", <<"ARG", Name, T>>>>, Void>>>>,
          <<"TYPEOF", A>>, <<"DYN", T>>, <<"TUPLE", T, <<"&", T>>>>, <<"VLA", <<"TUPLE", <<"i32">>, T>>>>}
Var(t) == <<"GLOBAL", <<"let">>, Name, t>>
Objs == {Var(t) : t \in Types} \cup {<<"TYPEDEF", Name, t>> : t \in Types} \cup {<<"DYN_FN", t, <<"FN", <<"DECL", Name, <<"ARGS">>, Void>>, <<"BLOCK">>>>>> : t \in {T, <<"VLA", T>>}}
        \cup {<<"EXTERN", Var(T), Decl>>, <<"EXTERN", <<"DECL", Name, <<"ARGS", <<"ARG", Name, T>>, <<"VARIADIC", Name>>>>, T>>>>,
              <<"FN", <<"DECL", <<"<>">>, <<"ARGS", <<"ARG", Name, T>>>>, T>>, <<"SHORT", A>>>>,
              <<"GLOBAL", <<"const">>, Name, T, <<"ARRAY_LIT", One>>>>}
Tuple == <<"TUPLE", <<"i32">>, T>>
Space(n, objs) == <<"NAMESPACE", n>> \o objs
ObjTrees == {Program1(<<Var(Tuple), Var(<<"VLA", Tuple>>)>>)} \cup {Program1(<<o>>) : o \in Objs} \cup
    {Program1(<<Space(n1, <<Space(Name, <<Var(T)>>)>>), Var(T), Space(n2, <<Space(Name, <<Var(T), Var(T)>>)>>)>>) : n1, n2 \in {Name, <<"b">>}}

MCTrees == {t \in {Short(e) : e \in Exprs} \cup {InBlock(s) : s \in StmtTrees} \cup ObjTrees : Grouped(t)}

\* short texts over a few tokens, most of them no programs
Words(alphabet, n) == UNION {[1 .. m -> alphabet] : m \in 0 .. n}
MCInputs ==
    {<<"fn", "f", "(", ")", ":", "T", "=">> \o w \o <<";", "EOF">> : w \in Words({"a", "-", "(", ")", "|>", "$", "[", "]"}, 4)}
    \cup {<<"fn", "f", "(", ")", "{">> \o w \o <<"}", "EOF">> : w \in Words({"a", "(", ")", "{", "}", ";", "if", "else", "ret"}, 4)}
    \cup {w \o <<"EOF">> : w \in Words({"fn", "a", "(", ")", "{", "}", ":", "..."}, 4)}
    \cup {<<"fn", "f", "(", ")", "for">> \o w \o <<";", "a", "EOF">> : w \in Words({"a", "let", "=", ";", ".."}, 4)}
    \cup {<<"type", "a", ":", "fn">> \o w \o <<";", "EOF">> : w \in Words({"T", "<<", "<&", "<", ">"}, 4)}
    \cup {<<"import", "path", ";", "EOF">>, <<"let", "a", ":", "::", ";", "EOF">>, <<"}", "EOF">>, <<"let", "a", ":", "T", "=", "__func__", ";", "EOF">>,
          <<"namespace", "a", "{", "let", "f", ":", "T", "=", "||", "=>", "ret", "1", ";", "}", "EOF">>,
          <<"operator", "<>", "(", ")", "a", "(", ")", ";", "EOF">>, <<"fn", "f", "(", ")", "match", "a", "{", "_", "=>", ";", "_", "=>", ";", "}", "EOF">>}
=============================================================================
