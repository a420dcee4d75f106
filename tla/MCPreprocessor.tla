--------------------------- MODULE MCPreprocessor ---------------------------
EXTENDS PreprocessorMeaning

CONSTANT Missing

Token(x) == CASE x \in Open \cup Close \cup {","} -> [type |-> x, value |-> <<x>>]
              [] x = "@"                           -> [type |-> "AT", value |-> <<"@">>]
              [] x = ";"                           -> [type |-> "SEMICOLON", value |-> <<";">>]
              [] x \in {"macro", "import"}         -> [type |-> IF x = "macro" THEN "MACRO" ELSE "IMPORT", value |-> <<x>>]
              [] x \in {"one!", "two!", "pair!", "self!", "none!", "line!"} ->
                    [type |-> "MACRO_CALL", value |-> <<CASE x = "one!" -> "one" [] x = "two!" -> "two" [] x = "pair!" -> "pair" [] x = "self!" -> "self"
                                                          [] x = "line!" -> "__line__" [] OTHER -> "none">>]
              [] x \in {"a.csp", "b.csp", "main.csp", "gone.csp"} -> [type |-> "STRING", value |-> <<x>>]
              [] x = "let"                         -> [type |-> "KEYWORD", value |-> <<x>>]
              [] OTHER                             -> [type |-> "ID", value |-> <<x>>]
Text(f, xs) == [n \in DOMAIN xs |-> [type |-> Token(xs[n]).type, value |-> Token(xs[n]).value, line |-> n, source |-> f]]

Import(f) == <<"import", f, ";">>
Macro1(name, body) == <<"macro", name, "(", "p", ")", "{">> \o body \o <<"}">>
Macro0(name, body) == <<"macro", name, "{">> \o body \o <<"}">>

Strings == {"main.csp", "a.csp", "b.csp", "gone.csp"}
Files == {"main.csp", "a.csp", "lib/b.csp", "lib/a.csp"}
Local(f, v) == IF f \in {"main.csp", "a.csp"} THEN v ELSE "lib/" \o v

\* lib is also the directory of std, under a name of its own: what is found there is not the same path
PathOf(f, v) == CASE Local(f, v) \in Files    -> Local(f, v)
                  [] Local("lib/b.csp", v) \in Files /\ Local(f, v) \notin Files -> "std/" \o v
                  [] OTHER -> Missing

Program(main, a, b) ==
    [main |-> "main.csp",
     files |-> [f \in Files |-> Text(f, CASE f = "main.csp" -> main [] f = "a.csp" -> a [] f = "lib/b.csp" -> b [] OTHER -> <<"z">>)],
     resolve |-> [t \in {<<f, <<v>>>> : f \in Files, v \in Strings} |-> PathOf(t[1], t[2][1])],
     at |-> [p \in Files \cup {"std/a.csp", "std/b.csp"} |-> CASE p = "std/a.csp" -> "lib/a.csp" [] p = "std/b.csp" -> "lib/b.csp" [] OTHER -> p],
     stdNames |-> <<<<"__line__">>>>, stdBodies |-> <<[type |-> "ID", value |-> <<"__line__">>, line |-> 0, source |-> "std"]>>]

Imports == {<<>>, Import("a.csp"), Import("b.csp"), Import("main.csp"), Import("gone.csp"), Import("a.csp") \o Import("b.csp"), Import("a.csp") \o Import("a.csp"),
            <<"import", "a.csp", "import", "b.csp", ";">>}
ImportPrograms == {Program(m \o <<"x">>, <<"y">> \o a, b) : m \in Imports, a \in Imports, b \in Imports}

\* bodies of a macro of one parameter and of one without; texts that call them
Bodies1 == {<<>>, <<"p">>, <<"p", "x", "p">>, <<"{", "p", "}">>, <<"two!", "p">>, <<"p", "@", "x">>, <<"x", "@", "p">>, <<"p", "@", "{", "}">>,
            <<"macro", "p">>, <<"__line__">>, <<"line!">>, <<"one!", "(", "p", ")">>, <<"p", "line!", "p">>}
Bodies2 == {<<>>, <<"x">>, <<"y", "@", "let">>, <<"one!", "(", "y", ")">>, <<"two!">>, <<"one!", "[", "y", ",", "x", "]">>}
Calls == {<<"one!", "(", "a", ")">>, <<"one!", "[", "a", "b", "]">>, <<"one!", "(", "one!", "(", "a", ")", ")">>, <<"one!", "(", "two!", ")">>,
          <<"one!", "(", "{", "a", ",", "b", "}", ")">>, <<"two!">>, <<"two!", "two!">>, <<"two!", "(", ")">>, <<"one!", "(", "a", ")", "x", "one!", "(", "b", ")">>,
          <<"one!">>, <<"one!", "(", "a">>, <<"none!">>, <<"one!", "(", "none!", ")">>, <<"line!">>, <<"one!", "(", "line!", "two!", ")">>}
MacroPrograms ==
    {Program(Import("a.csp") \o call \o <<";">>, Macro1("one", b1) \o Macro0("two", b2), <<>>) : call \in Calls, b1 \in Bodies1, b2 \in Bodies2}
    \cup {Program(m, <<>>, <<>>) : m \in {Macro0("two", <<>>) \o Macro0("two", <<"x">>), Macro0("two", <<>>) \o Macro1("two", <<>>) \o <<"two!", "(", "x", ")">>,
            <<"macro", "pair", "(", "p", ",", "q", ")", "{", "p", "q", "x", "}", "pair!", "(", ",", "a", ")">>,
            <<"macro", "(">>, <<"macro", "m", "(", "x", "x", ")", "{", "}">>, <<"macro", "m", "(", "x", ",", "x", ")", "{", "}">>,
            <<"macro", "m", "x">>, <<"macro", "m", "{", "{", "}">>, <<"macro", "m", "(", "x", ",", ")", "{", "}">>, <<"import", ";">>}}
    \cup {Program(Import("a.csp") \o <<"import">>, <<"b.csp", "x">>, <<"y">>),
          Program(<<"x", "import">>, <<>>, <<>>), Program(Import("a.csp") \o <<"import">>, <<>>, <<>>),
          Program(Import("a.csp"), <<"y", "import">>, <<>>), Program(Import("a.csp"), Import("b.csp") \o <<"import">>, Import("a.csp"))}

MCPrograms == ImportPrograms \cup MacroPrograms
=============================================================================
