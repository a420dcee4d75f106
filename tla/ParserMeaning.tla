---------------------------- MODULE ParserMeaning ----------------------------
(***************************************************************************)
(* What a program means as a tree, stated from the tree: how a tree is     *)
(* written, which trees need no further brackets when they are written,    *)
(* and what the parser adds to the tree it reads.                          *)
(***************************************************************************)
EXTENDS Parser

CONSTANTS Trees   \* the programs that are written down and parsed
VARIABLE tree     \* the one that is parsed, <<>> for any other text

Children(n) == Tail(n)
Listed(texts, sep) == FoldRight(LAMBDA t, rest : IF rest = <<>> THEN t ELSE t \o sep \o rest, texts, <<>>)
Enclosed(l, text, r) == <<l>> \o text \o <<r>>
Opening == {"&", "CONST", "TYPEOF", "DYN"}   \* types that a suffix would become a part of

RECURSIVE Text(_), StmtText(_, _)
Texts(ns) == FlattenSeq([k \in DOMAIN ns |-> Text(ns[k])])
Commas(ns) == Listed([k \in DOMAIN ns |-> Text(ns[k])], <<",">>)
Base(n) == IF n[1] \in Opening THEN Enclosed("(", Text(n), ")") ELSE Text(n)
Returned(n) == IF n = Void THEN <<>> ELSE <<":">> \o Text(n)
Valued(ns, from) == IF Len(ns) >= from THEN <<"=">> \o Text(ns[from]) ELSE <<>>
Semi(needed) == IF needed THEN <<";">> ELSE <<>>

TypeText(n) ==
    CASE n[1] \in {"struct", "union"} -> Enclosed("{", Commas(Children(n)), "}")
      [] n[1] = "ENUM"       -> <<"enum">> \o Enclosed("{", Commas(Children(n)), "}")
      [] n[1] = "ENUMERATOR" -> Text(n[2]) \o Valued(n, 3)
      [] n[1] = "EMBED"      -> <<"embed">> \o Text(n[2])
      [] n[1] \in {"MEMBER", "ARG"} -> Text(n[2]) \o <<":">> \o Text(n[3])
      [] n[1] = "FN_TYPE"    -> <<"fn", "<">> \o Text(n[2]) \o <<">", "(">> \o Commas(SubSeq(n, 3, Len(n))) \o <<")">>
      [] n[1] = "INTERFACE"  -> <<"interface">> \o Enclosed("{", Commas(Children(n)), "}")
      [] n[1] = "TUPLE"      -> Enclosed("{", Commas(Children(n)), "}")
      [] n[1] = "TYPEOF"     -> <<"typeof">> \o Text(n[2])
      [] n[1] = "DYN"        -> <<"dyn">> \o Text(n[2])
      [] n[1] = "CONST"      -> <<"const">> \o Text(n[2])
      [] n[1] = "VLA"        -> Base(n[2]) \o <<"[", "]">>
      [] n[1] = "ARRAY"      -> Base(n[2]) \o Enclosed("[", Text(n[3]), "]")
      [] n[1] = "C_ARRAY"    -> Base(n[2]) \o <<"c-array">> \o Enclosed("[", Text(n[3]), "]")
TypeLabels == {"ENUM", "ENUMERATOR", "EMBED", "MEMBER", "ARG", "FN_TYPE", "INTERFACE", "TUPLE", "TYPEOF", "DYN", "CONST", "VLA", "ARRAY", "C_ARRAY"}

ObjText(n) ==
    CASE n[1] = "PROGRAM"   -> Texts(Children(n)) \o <<"EOF">>
      [] n[1] = "DECL"      -> (IF n[2][1] \in Customs THEN <<"operator">> ELSE <<"fn">>) \o Text(n[2]) \o Text(n[3]) \o Returned(n[4])
      [] n[1] = "ARGS"      -> Enclosed("(", Commas(Children(n)), ")")
      [] n[1] = "VARIADIC"  -> Text(n[2]) \o <<":", "...">>
      [] n[1] = "FN"        -> Text(n[2]) \o StmtText(n[3], TRUE)
      [] n[1] = "DYN_FN"    -> <<"dyn">> \o Enclosed("(", Text(n[2]), ")") \o Text(n[3])
      [] n[1] = "GLOBAL"    -> Text(n[2]) \o Text(n[3]) \o <<":">> \o Text(n[4]) \o Valued(n, 5) \o <<";">>
      [] n[1] = "TYPEDEF"   -> <<"type">> \o Text(n[2]) \o <<":">> \o Text(n[3]) \o <<";">>
      [] n[1] = "EXTERN"    -> <<"extern">> \o Enclosed("{", FlattenSeq([k \in 1 .. Len(n) - 1 |->
                                   Text(n[k + 1]) \o (IF n[k + 1][1] = "DECL" THEN <<";">> ELSE <<>>)]), "}")
      [] n[1] = "NAMESPACE" -> <<"namespace">> \o Text(n[2]) \o Enclosed("{", Texts(SubSeq(n, 3, Len(n))), "}")
ObjLabels == {"PROGRAM", "DECL", "ARGS", "VARIADIC", "FN", "DYN_FN", "GLOBAL", "TYPEDEF", "EXTERN", "NAMESPACE"}

LambdaText(n) == Enclosed("|", Commas(Children(n[2])), "|") \o (IF n[3] = Void THEN <<>> ELSE Text(n[3]))
                  \o (IF n[4][1] = "SHORT" THEN <<"=">> \o Text(n[4][2]) ELSE <<"=>">> \o StmtText(n[4], FALSE))
ExprText(n) ==
    CASE n[1] = "ID"         -> n[2]
      [] n[1] = "STR"        -> Texts(Children(n))
      [] n[1] = "FTOB"       -> <<"...">> \o Text(n[2])
      [] n[1] = "BTOF"       -> Text(n[2]) \o <<"...">>
      [] n[1] = "CALL"       -> Text(n[2]) \o Enclosed("(", Commas(SubSeq(n, 3, Len(n))), ")")
      [] n[1] = "INDEX"      -> Text(n[2]) \o Enclosed("[", Text(n[3]), "]")
      [] n[1] = "FROM_BACK"  -> Text(n[2]) \o <<"[">> \o Enclosed("^", Text(n[3]), "]")
      [] n[1] = "infix"      -> Text(n[2]) \o Enclosed("infix", Text(n[3]), "infix") \o Text(n[4])
      [] n[1] = "CLOSURE"    -> Enclosed("(", Commas(Children(n)), ")")
      [] n[1] = "ARRAY_LIT"  -> Enclosed("[", Commas(Children(n)), "]")
      [] n[1] = "STRUCT_LIT" -> Enclosed("{", Commas(Children(n)), "}")
      [] n[1] = "::{"        -> Text(n[2]) \o <<"::">> \o Enclosed("{", Commas(SubSeq(n, 3, Len(n))), "}")
      [] n[1] = "?"          -> <<"if">> \o Text(n[2]) \o <<"=>">> \o Text(n[3]) \o <<"else">> \o Text(n[4])
      [] n[1] = "LAMBDA"     -> LambdaText(n)
      [] n[1] = "CONST_LAMBDA" -> <<"const">> \o LambdaText(n)
      [] n[1] = "TYPE_EXPR" /\ Len(n) = 4 -> <<"type", "::">> \o Enclosed("(", Texts(Children(n)), ")")
      [] n[1] = "TYPE_EXPR" /\ Len(n) = 3 -> <<"type", "::">> \o Text(n[2]) \o Enclosed("(", Text(n[3]), ")")
      [] n[1] = "TYPE_EXPR" /\ Len(n) = 1 -> <<"type", "::">>
ExprLabels == {"ID", "STR", "FTOB", "BTOF", "CALL", "INDEX", "FROM_BACK", "infix", "CLOSURE", "ARRAY_LIT", "STRUCT_LIT", "::{", "?",
               "LAMBDA", "CONST_LAMBDA", "TYPE_EXPR"}
Postfix == {"++", "^2", "^3"}

\* the value of a pipe as the first of three operands has no place in the text
Text(n) ==
    CASE (n[1] = "infix" /\ Len(n) = 5) \/ (n[1] \in Customs /\ Len(n) = 4) -> Text(RemoveAt(n, 2))
      [] n[1] \in {"struct", "union"}  -> <<n[1]>> \o TypeText(n)
      [] n[1] \in TypeLabels           -> TypeText(n)
      [] n[1] \in ObjLabels            -> ObjText(n)
      [] n[1] \in ExprLabels           -> ExprText(n)
      [] n[1] \in Postfix              -> Text(n[2]) \o <<n[1]>>
      [] n[1] = "LOCALS"               -> <<>>
      [] Len(n) = 1                    -> <<n[1]>>
      [] Len(n) = 2                    -> <<n[1]>> \o Text(n[2])
      [] Len(n) = 3                    -> Text(n[2]) \o <<n[1]>> \o Text(n[3])

Stmts(ns) == FlattenSeq([k \in DOMAIN ns |-> StmtText(ns[k], TRUE)])
ElseText(n, k, ns) == IF Len(n) >= k THEN <<"else">> \o StmtText(n[k], ns) ELSE <<>>
IsStmt(n) == n[1] \in {"BLOCK", "SHORT", "RETURN", "IF", "LOOP", "WHILE", "FOR", "FOR_RANGE", "DEFAULT", "CASE", "CASE_TYPE", "MATCH", "MATCH_TYPE",
                       "EXPR_STMT", "LET", "DECLARE", "WITH", "DO", "DEFER", "USING", "EXTERN_C", "ASM", "OUTPUT", "break", "continue", "noop", ";", "LOCALS"}
ForParts(n, ns) == FlattenSeq([k \in DOMAIN n |-> IF n[k] = <<";">> THEN (IF k > 1 /\ n[k - 1][1] = "LET" THEN <<>> ELSE <<";">>)
                                                  ELSE IF IsStmt(n[k]) THEN StmtText(n[k], ns \/ n[k][1] = "LET") ELSE Text(n[k])])
StmtText(n, ns) ==
    CASE n[1] = "BLOCK"     -> Enclosed("{", Stmts(Children(n)), "}")
      [] n[1] = "SHORT"     -> <<"=">> \o Text(n[2]) \o <<";">>
      [] n[1] = "RETURN"    -> <<"ret">> \o Texts(Children(n)) \o Semi(ns)
      [] n[1] = "IF"        -> <<"if">> \o Text(n[2]) \o StmtText(n[3], ns) \o ElseText(n, 4, ns)
      [] n[1] = "LOOP"      -> <<"loop">> \o StmtText(n[2], ns)
      [] n[1] = "WHILE"     -> <<"while">> \o Text(n[2]) \o StmtText(n[3], ns)
      [] n[1] = "FOR"       -> <<"for">> \o ForParts(Children(n), ns)
      [] n[1] = "FOR_RANGE" -> <<"for">> \o Text(n[2]) \o <<"..">> \o Text(n[3]) \o StmtText(n[4], ns)
      [] n[1] = "DEFAULT"   -> <<"_", "=>">> \o StmtText(n[2], TRUE)
      [] n[1] \in {"CASE", "CASE_TYPE"} -> Texts(SubSeq(n, 2, Len(n) - 1)) \o <<"=>">> \o StmtText(n[Len(n)], TRUE)
      [] n[1] = "MATCH"     -> <<"match">> \o Text(n[2]) \o Enclosed("{", Stmts(SubSeq(n, 3, Len(n))), "}")
      [] n[1] = "MATCH_TYPE" -> <<"match", "(", "type", ")">> \o Text(n[2]) \o Enclosed("{", Stmts(SubSeq(n, 3, Len(n))), "}")
      [] n[1] = "EXPR_STMT" -> Text(n[2]) \o Semi(ns)
      [] n[1] = "LET"       -> Text(n[2]) \o Text(n[3]) \o (IF Len(n) = 5 THEN <<":">> \o Text(n[4]) ELSE <<>>) \o <<"=">> \o Text(n[Len(n)]) \o <<";">>
      [] n[1] = "DECLARE"   -> Text(n[2]) \o Text(n[3]) \o <<":">> \o Text(n[4]) \o <<";">>
      [] n[1] = "WITH"      -> <<"with">> \o Text(n[2]) \o <<"=">> \o Text(n[3]) \o StmtText(n[4], ns) \o ElseText(n, 5, ns)
      [] n[1] = "DO"        -> <<"do">> \o StmtText(n[2], FALSE) \o Text(n[3]) \o Text(n[4]) \o <<";">>
      [] n[1] = "DEFER"     -> <<"defer">> \o StmtText(n[2], ns)
      [] n[1] = "USING"     -> LET paths == SelectSeq(Children(n), LAMBDA c : c[1] = "ID") IN
                               <<"using">> \o Commas(paths) \o (IF Len(paths) < Len(n) - 1 THEN <<"for">> \o StmtText(n[Len(n)], ns) ELSE Semi(ns))
      [] n[1] = "EXTERN_C"  -> <<"extern", "C">> \o Enclosed("(", Text(n[2]), ")") \o <<";">>
      [] n[1] = "ASM"       -> <<"asm">> \o FlattenSeq([k \in 1 .. Len(n) - 1 |-> IF n[k + 1][1] = "OUTPUT" THEN <<"&">> \o Text(n[k + 1][2]) ELSE Text(n[k + 1])])
                               \o Semi(ns)
      [] n[1] = ";"         -> <<";">>
      [] n[1] = "LOCALS"    -> <<>>
      [] OTHER              -> <<n[1]>> \o Semi(ns)

-----------------------------------------------------------------------------
(* Which trees need no more brackets *)

IsInfix(n) == n[1] \in {"CALL", "INDEX", "FROM_BACK", "infix"} \cup Postfix \/ (Len(n) = 3 /\ n[1] \in BuiltinOps \cup Customs \cup {"else"})
OpOf(n) == CASE n[1] = "CALL" -> "(" [] n[1] \in {"INDEX", "FROM_BACK"} -> "[" [] OTHER -> n[1]

\* what the comments of Precedence_T list, from the loosest to the tightest, an operator for each level
Order == <<"=", "|>", "<>", "||", "&&", "infix", ":", "|", "^", "&", "==", "<", "<<", "+", "*", "%", "unary", "^2", "++", "sizeof", "(", "[", ".">>
Kin(t) == CASE t \in AssignOps -> "=" [] t \in Comparisons -> "<" [] t = "else" -> "infix" [] t = "-" -> "+" [] t = "^3" -> "^2"
            [] t = "alignof" -> "sizeof" [] OTHER -> t
Binds(t) == IF Contains(Order, Kin(t)) THEN SelectInSeq(Order, LAMBDA op : op = Kin(t)) ELSE 0

\* how tightly the last operand of a node is bound
IsUnary(n) == Len(n) = 2 /\ n[1] \in Unaries \cup Customs \cup {"len"}
ClosedInfix(n) == n[1] \in {"CALL", "INDEX", "FROM_BACK", ":"} \cup Postfix
IsOpen(n) == IsUnary(n) \/ n[1] = "?" \/ (IsInfix(n) /\ ~ClosedInfix(n))
LevelOf(n) == CASE IsUnary(n) -> IF n[1] = "len" THEN 0 ELSE Binds("unary")
               [] n[1] \in AssignOps \cup {"?"} -> 0
               [] OTHER -> Binds(n[1])

\* an operator t behind the text of n becomes part of n
RECURSIVE Absorbs(_, _), Fits(_, _, _), Grouped(_)
Absorbs(n, t) ==
    CASE n[1] \in {":", "sizeof", "alignof"} -> t = "["
      [] n[1] \in {"LAMBDA", "CONST_LAMBDA"} -> n[4][1] = "SHORT"
      [] IsOpen(n) -> LevelOf(n) < Binds(t) \/ Absorbs(Last(n), t)
      [] OTHER -> FALSE
\* the operators on the left edge of n are all taken by one loop
Fits(n, prec, end) == IsInfix(n) => prec < Binds(OpOf(n)) /\ OpOf(n) # end /\ Fits(n[2], prec, end)

RECURSIVE ElseOpen(_)   \* ends in an if that could still take an else
ElseOpen(n) == CASE n[1] = "IF" -> Len(n) = 3 \/ ElseOpen(Last(n))
                 [] n[1] = "WITH" -> Len(n) = 4 \/ ElseOpen(Last(n))
                 [] n[1] \in {"LOOP", "WHILE", "FOR", "FOR_RANGE", "DEFER"} -> ElseOpen(Last(n))
                 [] OTHER -> FALSE
Separate(stmt) == Binds(Head(StmtText(stmt, TRUE))) = 0

RECURSIVE ScopeText(_)
\* the locals and the ranges of one block or for loop
ScopeText(n) == FlattenSeq([k \in 1 .. Len(n) - 1 |-> LET c == n[k + 1] IN
    IF n[1] = "ID" \/ c[1] \in {"BLOCK", "FOR"} THEN <<>>
    ELSE IF c[1] \in {"LET", "DECLARE"} THEN <<"local">>
    ELSE (IF c[1] = "FOR_RANGE" THEN <<"range">> ELSE <<>>) \o ScopeText(c)])
\* parse_for_range leaves cur_block at its loop: no local can follow it in its block
LocalsFirst(n) == LET events == ScopeText(n) IN \A k, m \in DOMAIN events : k < m => events[k] # "range" \/ events[m] # "local"

Grouped(n) ==
    /\ n[1] \in {"BLOCK", "FOR"} => LocalsFirst(n)
    /\ \A k \in 2 .. Len(n) : n[1] = "ID" \/ Grouped(n[k])
    /\ IsInfix(n) => ~Absorbs(n[2], OpOf(n))
    /\ IsOpen(n) => Fits(Last(n), LevelOf(n), "EOF")
    /\ n[1] = "?" => ~Absorbs(n[3], "else") /\ Fits(n[3], 0, "else")
    /\ n[1] = "TYPEOF" => Fits(n[2], Binds("sizeof"), ";")
    /\ n[1] = "IF" => Separate(n[3]) /\ (Len(n) = 4 => ~ElseOpen(n[3]))
    /\ n[1] = "WITH" => Separate(n[4]) /\ (Len(n) = 5 => ~ElseOpen(n[4]))
    /\ n[1] \in {"WHILE", "FOR_RANGE"} => Separate(Last(n))

-----------------------------------------------------------------------------
(* What the parser adds *)

RECURSIVE Declared(_), Meant(_), Joined(_), UsesHole(_)
\* the locals of a block are those of no block or for loop inside it
Declared(n) == FlattenSeq([k \in 1 .. Len(n) - 1 |-> LET c == n[k + 1] IN
    IF n[1] = "ID" \/ c[1] \in {"BLOCK", "FOR"} THEN <<>>
    ELSE IF c[1] \in {"LET", "DECLARE"} THEN <<c[3]>> ELSE Declared(c)])
WithLocals(n, names) == IF names = <<>> THEN n ELSE Append(n, <<"LOCALS">> \o names)

\* the hole is used outside of the pipes inside
UsesHole(n) == n = <<"$">> \/ (n[1] # "ID" /\ \E k \in 2 .. (IF n[1] = "|>" THEN 2 ELSE Len(n)) : UsesHole(n[k]))
Piped(n) == IF n[3][1] \in {"CALL", "infix"} \cup Customs /\ ~UsesHole(n[3])
            THEN IF n[3][1] = "CALL" THEN [n EXCEPT ![3] = InsertAt(@, 3, <<"$">>)] ELSE [n EXCEPT ![3] = InsertAt(@, 2, <<"$">>)]
            ELSE n

\* the namespaces of one name are one
Joined(objs) == FlattenSeq([k \in DOMAIN objs |-> LET same(m) == objs[m][1] = "NAMESPACE" /\ objs[m][2] = objs[k][2] IN
    IF objs[k][1] # "NAMESPACE" THEN <<objs[k]>>
    ELSE IF \E m \in 1 .. k - 1 : same(m) THEN <<>>
    ELSE << <<"NAMESPACE", objs[k][2]>> \o
            Joined(FlattenSeq([m \in DOMAIN objs |-> IF same(m) THEN SubSeq(objs[m], 3, Len(objs[m])) ELSE <<>>])) >>])

Meant(n) == IF n[1] = "ID" \/ Len(n) = 1 THEN n ELSE
    LET m == <<n[1]>> \o [k \in 1 .. Len(n) - 1 |-> Meant(n[k + 1])] IN
    CASE n[1] \in {"BLOCK", "FOR"} -> WithLocals(m, Declared(n))
      [] n[1] = "|>"               -> Piped(m)
      [] n[1] = "PROGRAM"          -> <<"PROGRAM">> \o Joined(Children(m))
      [] n[1] = "NAMESPACE"        -> SubSeq(m, 1, 2) \o Joined(SubSeq(m, 3, Len(m)))
      [] OTHER                     -> m

-----------------------------------------------------------------------------
(* Properties *)

\* what may be left out or is left out of the tree: brackets, the type void and imports, which the preprocessor has followed
Punctuation == {",", ";", "(", ")", "{", "}", "$", ":", "void", "<", ">", "import", "path"}
IsWord(t) == t \notin Punctuation

ReadInit == (tree = <<>> /\ Init) \/ (\E t \in Trees : tree = t /\ Start(Text(t)))
ReadSpec == ReadInit /\ [][Next /\ UNCHANGED tree]_<<vars, tree>> /\ WF_vars(Next /\ UNCHANGED tree)

Reopens(text) == \E k, m \in DOMAIN text : k < m /\ text[k] = "namespace" /\ text[m] = "namespace" /\ text[k + 1] = text[m + 1]

\* Every parse keeps to its token list, its blocks and its three outcomes
\* (Parser_T, parser_pass).
TypeOK ==
    /\ i \in DOMAIN toks /\ cur \in 0 .. Len(blocks)
    /\ \A n \in DOMAIN blocks : blocks[n].kind \in {"BLOCK", "FOR", "FOR_RANGE"}
    /\ obj \in {"none", "void", "value", "other"} /\ enabled \in BOOLEAN /\ used \in BOOLEAN
    /\ errors \in Nat /\ status \in {"parse", "done", "failed", "crashed"}
    /\ status = "done" => i = Len(toks) /\ Len(vals) = 1

\* Every program written from a tree is accepted and read as that tree: the
\* operators group by parser.c's precedences, an else belongs to the last if,
\* locals to the innermost block, a pipe's value to its unused hole.
ParsesBack ==
    tree # <<>> /\ status # "parse" => status = "done" /\ vals = <<Meant(tree)>>

\* Whatever text is accepted, its words are those of the tree read from it,
\* in their order, but for what joins an earlier namespace: no parse function skips a token it did not look at.
NothingIsLost ==
    status = "done" /\ ~Reopens(toks) => SelectSeq(toks, IsWord) = SelectSeq(Text(vals[1]), IsWord)

\* Text and tree say the same, from either side: a text written from a tree is
\* read as that tree, and a tree read from any text has its words.
TreeIsTheText == ParsesBack /\ NothingIsLost

\* Every text is parsed, refused or brings the parser down (no loop of
\* parser.c spins at the end of the tokens).
Terminates == <>(status # "parse")
=============================================================================
