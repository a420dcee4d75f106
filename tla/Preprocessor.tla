---------------------------- MODULE Preprocessor ----------------------------
(***************************************************************************)
(* compiler/preprocessor/preprocessor.c: the tokens of the main file grow  *)
(* by those of its imports, macro definitions are taken out of them, macro *)
(* calls are replaced.  Lists hold pointers: a token is a cell of the heap *)
(* and may be in several lists, so that what is done to it in one (the     *)
(* concatenation with @) is done to it in all.  A step is one round of a   *)
(* loop; parse_macro_def and parse_macro_call are one step each.           *)
(***************************************************************************)
EXTENDS Lists, SequencesExt

CONSTANTS Programs,   \* the trees of files: [main, files, resolve, at, stdNames, stdBodies], see Init
          MaxDepth,   \* context->max_macro_call_depth
          NoPath      \* what an import resolves to when there is no such file

VARIABLES program,   \* the files read
          heap,      \* the cells of the tokens: [type, value, line, source], source the file they were written in
          stage,     \* "import", "define", "expand"; "done", "failed" or "undefined" at the end
          tokens,    \* pp.tokens, the list stages 1 and 2 read
          kept,      \* token_stage_2
          dest,      \* token_stage_3
          i,         \* the index of the stage's loop
          imports,   \* pp.imports: the paths
          macros,    \* pp.macros
          frames,    \* the invocations of expand_macro_call, innermost first
          calls      \* pp.macro_call_depth

vars == <<program, heap, stage, tokens, kept, dest, i, imports, macros, frames, calls>>

IsToken(t) == t = [type |-> t.type, value |-> t.value, line |-> t.line, source |-> t.source]

\* The path an import of string t stands for: beside the file it is written in, or else in the directory of std.
Resolve(p, t) == p.resolve[<<t.source, t.value>>]

\* Files and built-in macros are lists of tokens, and what an import names is a file or nothing.
ASSUME ProgramsAssumption ==
    /\ MaxDepth \in Nat
    /\ \A p \in Programs :
         /\ p.main \in DOMAIN p.files
         /\ \A f \in DOMAIN p.files :
              /\ IsList(p.files[f])
              /\ \A n \in 1..Len(p.files[f]) :
                   /\ IsToken(p.files[f][n])
                   /\ p.files[f][n].type = "STRING" =>
                       \/ Resolve(p, p.files[f][n]) = NoPath
                       \/ p.at[Resolve(p, p.files[f][n])] \in DOMAIN p.files
         /\ IsList(p.stdNames) /\ IsList(p.stdBodies) /\ Len(p.stdNames) = Len(p.stdBodies)
         /\ \A n \in 1..Len(p.stdBodies) : IsToken(p.stdBodies[n])

Open  == {"(", "[", "{"}
Close == {")", "]", "}"}
Closing(t) == CASE t = "(" -> ")" [] t = "[" -> "]" [] t = "{" -> "}"
Concatenateable == {"ID", "INT", "KEYWORD"}

Type(n)  == heap[n].type
Value(n) == heap[n].value
Ids(from, ts) == [n \in DOMAIN ts |-> from + n]

\* The tokens of a file as the lexer pushes them; the main file's EOF is popped until all are in.
Init ==
    /\ program \in Programs
    /\ heap = program.files[program.main] \o program.stdBodies
    /\ tokens = Ids(0, program.files[program.main])
    /\ macros = [n \in DOMAIN program.stdBodies |->
                    [name |-> program.stdNames[n], params |-> <<>>, body |-> <<Len(tokens) + n>>]]
    /\ stage = "import" /\ i = 1
    /\ kept = <<>> /\ dest = <<>> /\ imports = <<>> /\ frames = <<>> /\ calls = 0

Stop(how) == stage' = how /\ UNCHANGED <<heap, tokens, kept, dest, i, imports, macros, frames, calls>>

-----------------------------------------------------------------------------
(* Stage 1: imports, found while the list they are appended to is read *)

AtImport == stage = "import" /\ i <= Len(tokens) /\ Type(tokens[i]) = "IMPORT"
Imported == i < Len(tokens) /\ Type(tokens[i + 1]) = "STRING"
Path == Resolve(program, heap[tokens[i + 1]])

\* nothing has been appended: behind the list is still the EOF that was popped
EofIsBehind == Len(tokens) = Len(program.files[program.main])

SkipToken ==
    /\ stage = "import" /\ i <= Len(tokens) /\ Type(tokens[i]) # "IMPORT"
    /\ i' = i + 1
    /\ UNCHANGED <<heap, stage, tokens, kept, dest, imports, macros, frames, calls>>

MalformedImport == AtImport /\ ~Imported /\ (i < Len(tokens) \/ EofIsBehind) /\ Stop("failed")

\* the last token of a file that was appended: what is behind the list was never written
ReadsBehind == AtImport /\ i = Len(tokens) /\ ~EofIsBehind /\ Stop("undefined")

MissingImport == AtImport /\ Imported /\ Path = NoPath /\ Stop("failed")

\* mutant: returns to the loop without having moved on
KnownImportAgain ==
    /\ AtImport /\ Imported /\ \E n \in DOMAIN imports : imports[n] = Path
    /\ i' = i
    /\ UNCHANGED <<heap, stage, tokens, kept, dest, imports, macros, frames, calls>>

\* the token behind the string is skipped as well
KnownImport ==
    /\ AtImport /\ Imported /\ \E n \in DOMAIN imports : imports[n] = Path
    /\ i' = i + 3
    /\ UNCHANGED <<heap, stage, tokens, kept, dest, imports, macros, frames, calls>>

\* mutant: the search for a file begins behind the first that came in
NewImportButFirst ==
    /\ AtImport /\ Imported /\ Path # NoPath /\ \A n \in 2..Len(imports) : imports[n] # Path
    /\ LET ts == program.files[program.at[Path]]
       IN /\ tokens' = tokens \o Ids(Len(heap), ts)
          /\ heap' = heap \o ts
    /\ imports' = Append(imports, Path)
    /\ i' = i + 3
    /\ UNCHANGED <<stage, kept, dest, macros, frames, calls>>

NewImport ==
    /\ AtImport /\ Imported /\ Path # NoPath /\ \A n \in DOMAIN imports : imports[n] # Path
    /\ LET ts == program.files[program.at[Path]]
       IN /\ tokens' = tokens \o Ids(Len(heap), ts)
          /\ heap' = heap \o ts
    /\ imports' = Append(imports, Path)
    /\ i' = i + 3
    /\ UNCHANGED <<stage, kept, dest, macros, frames, calls>>

Eof == [type |-> "EOF", value |-> <<"EOF">>, line |-> 0, source |-> program.main]

EndImports ==
    /\ stage = "import" /\ i > Len(tokens)
    /\ heap' = Append(heap, Eof)
    /\ tokens' = Append(tokens, Len(heap) + 1)
    /\ stage' = "define" /\ i' = 1
    /\ UNCHANGED <<kept, dest, imports, macros, frames, calls>>

-----------------------------------------------------------------------------
(* Stage 2: macro definitions *)

\* how many brackets of `kinds' are open behind position n of list, counted from position `from'
Depth(list, from, opening, closing) ==
    LET d[n \in (from - 1)..Len(list)] ==
            IF n < from THEN 0
            ELSE CASE Type(list[n]) \in opening                    -> d[n - 1] + 1
                   [] Type(list[n]) \in closing /\ d[n - 1] > 0    -> d[n - 1] - 1
                   [] OTHER                                        -> d[n - 1]
    IN d

First(S) == CHOOSE n \in S : \A m \in S : n <= m

\* positions behind `from' where a bracket closes that was opened before it
Closers(list, from, type, opening, closing) ==
    LET d == Depth(list, from, opening, closing)
    IN {n \in from..Len(list) : Type(list[n]) = type /\ d[n - 1] = 0}

\* macro NAME ( params ) { body }: the end of the parameters is where the body's brace is
HasParams(at) == at + 2 <= Len(tokens) /\ Type(tokens[at + 2]) = "("
ParamsEnd(at) == First({n \in (at + 2)..Len(tokens) : Type(tokens[n]) # "ID" /\ Type(tokens[n]) # "," /\ Type(tokens[n]) # "("})
Brace(at) == IF HasParams(at) THEN ParamsEnd(at) + 1 ELSE at + 2
Params(at) == IF HasParams(at) THEN [n \in 1..((ParamsEnd(at) - at - 2) \div 2) |-> Value(tokens[at + 1 + 2 * n])] ELSE <<>>

ParamsWellFormed(at) ==
    HasParams(at) =>
        /\ Type(tokens[ParamsEnd(at)]) = ")"
        /\ \A n \in (at + 3)..(ParamsEnd(at) - 1) : Type(tokens[n]) = IF (n - at) % 2 = 1 THEN "ID" ELSE ","
        /\ \A n, m \in DOMAIN Params(at) : Params(at)[n] = Params(at)[m] => n = m

BodyEnds(at) == Closers(tokens, Brace(at) + 1, "}", {"{"}, {"}"})
Macro(at) == [name |-> Value(tokens[at + 1]), params |-> Params(at),
              body |-> SubSeq(tokens, Brace(at) + 1, First(BodyEnds(at)) - 1)]

Same(m, name, argc) == m.name = name /\ Len(m.params) = argc
Found(name, argc) == {n \in DOMAIN macros : Same(macros[n], name, argc)}

AtMacro == stage = "define" /\ i <= Len(tokens) /\ Type(tokens[i]) = "MACRO"
WellFormed(at) ==
    /\ Type(tokens[at + 1]) = "ID" /\ ParamsWellFormed(at)
    /\ Brace(at) <= Len(tokens) /\ Type(tokens[Brace(at)]) = "{" /\ BodyEnds(at) # {}

Define ==
    /\ AtMacro /\ WellFormed(i)
    /\ Found(Macro(i).name, Len(Macro(i).params)) = {}
    /\ macros' = Append(macros, Macro(i))
    /\ i' = First(BodyEnds(i)) + 1
    /\ UNCHANGED <<heap, stage, tokens, kept, dest, imports, frames, calls>>

MalformedMacro == AtMacro /\ ~WellFormed(i) /\ Stop("failed")
Redefinition == AtMacro /\ WellFormed(i) /\ Found(Macro(i).name, Len(Macro(i).params)) # {} /\ Stop("failed")

KeepToken ==
    /\ stage = "define" /\ i <= Len(tokens) /\ Type(tokens[i]) # "MACRO"
    /\ kept' = Append(kept, tokens[i]) /\ i' = i + 1
    /\ UNCHANGED <<heap, stage, tokens, dest, imports, macros, frames, calls>>

EndDefines ==
    /\ stage = "define" /\ i > Len(tokens)
    /\ stage' = "expand" /\ i' = 1
    /\ UNCHANGED <<heap, tokens, kept, dest, imports, macros, frames, calls>>

-----------------------------------------------------------------------------
(* Stage 3: expansion.  A frame is an invocation of expand_macro_call: the *)
(* call's token and macro, the ranges of its arguments in the list they    *)
(* were written in, and the positions of its two loops.                    *)

List(src) == IF src = 0 THEN kept ELSE macros[src].body

HasBrackets(list, at, max) == at + 1 < max /\ Type(list[at + 1]) \in Open
CallEnds(list, at) == Closers(list, at + 2, Closing(Type(list[at + 1])), Open, Close)
CallEnd(list, at, max) == IF HasBrackets(list, at, max) THEN First(CallEnds(list, at)) ELSE at

\* the members of S up to max, in order
InOrder(S, max) ==
    LET f[n \in 0..max] == IF n = 0 THEN <<>> ELSE IF n \in S THEN Append(f[n - 1], n) ELSE f[n - 1]
    IN f[max]

\* the commas between arguments; each ends a range, as does the closing bracket if there is any token
Commas(list, at, end) ==
    LET d == Depth(list, at + 2, Open, Close) IN {n \in (at + 2)..(end - 1) : Type(list[n]) = "," /\ d[n - 1] = 0}

Arguments(list, at, max) ==
    IF ~HasBrackets(list, at, max) THEN <<>>
    ELSE LET end  == CallEnd(list, at, max)
             commas == Commas(list, at, end)
             ends == InOrder(commas \cup (IF (at + 2)..(end - 1) = commas THEN {} ELSE {end}), end)
         IN [k \in 1..Len(ends) |-> <<IF k = 1 THEN at + 2 ELSE ends[k - 1] + 1, ends[k] - 1>>]

\* parse_macro_call fails when the bracket is not closed or the macro is not known
Callable(list, at, max) ==
    /\ HasBrackets(list, at, max) => CallEnds(list, at) # {}
    /\ Found(Value(list[at]), Len(Arguments(list, at, max))) # {}

Frame(src, at, max) ==
    LET args == Arguments(List(src), at, max)
    IN [call |-> List(src)[at], src |-> src, args |-> args, macro |-> First(Found(Value(List(src)[at]), Len(args))),
        k |-> 1,      \* the loop over the macro's body
        arg |-> 0,    \* arg_idx: the argument the body's token stands for, 0 for none
        j |-> 0,      \* the loop over this argument, 0 outside of it
        called |-> FALSE]   \* back from the call at k of the body

Top == frames[1]
Body == macros[Top.macro].body
Tok == Body[Top.k]
ParamIndex(v) == LET S == {n \in DOMAIN macros[Top.macro].params : macros[Top.macro].params[n] = v}
                 IN IF S = {} THEN 0 ELSE First(S)
Argument == Top.args[Top.arg]

Expanding == stage = "expand" /\ frames # <<>>
InBody == Expanding /\ Top.k <= Len(Body) /\ Top.j = 0 /\ ~Top.called /\ Type(Tok) # "FREED"
InArgument == Expanding /\ Top.j > 0

\* mutant: calls are counted and never refused
EnterUnchecked(frame, rest) ==
    IF FALSE
    THEN Stop("failed")
    ELSE /\ frames' = <<frame>> \o rest /\ calls' = calls + 1
         /\ UNCHANGED <<heap, stage, tokens, kept, dest, imports, macros>>

\* calling a macro counts; the count is never taken back before the outermost call is done
Enter(frame, rest) ==
    IF calls > MaxDepth
    THEN Stop("failed")
    ELSE /\ frames' = <<frame>> \o rest /\ calls' = calls + 1
         /\ UNCHANGED <<heap, stage, tokens, kept, dest, imports, macros>>

CopyToken ==
    /\ stage = "expand" /\ frames = <<>> /\ i <= Len(kept) /\ Type(kept[i]) # "MACRO_CALL"
    /\ dest' = Append(dest, kept[i]) /\ i' = i + 1
    /\ UNCHANGED <<heap, stage, tokens, kept, imports, macros, frames, calls>>

AtCall == stage = "expand" /\ frames = <<>> /\ i <= Len(kept) /\ Type(kept[i]) = "MACRO_CALL"

\* mutant: goes on at the closing bracket
CallMacroShort ==
    /\ AtCall /\ Callable(kept, i, Len(kept) + 1)
    /\ frames' = <<Frame(0, i, Len(kept) + 1)>> /\ calls' = 1
    /\ i' = CallEnd(kept, i, Len(kept) + 1)
    /\ UNCHANGED <<heap, stage, tokens, kept, dest, imports, macros>>

CallMacro ==
    /\ AtCall /\ Callable(kept, i, Len(kept) + 1)
    /\ frames' = <<Frame(0, i, Len(kept) + 1)>> /\ calls' = 1
    /\ i' = CallEnd(kept, i, Len(kept) + 1) + 1
    /\ UNCHANGED <<heap, stage, tokens, kept, dest, imports, macros>>

BadCall == AtCall /\ ~Callable(kept, i, Len(kept) + 1) /\ Stop("failed")

\* The last three tokens pushed are an identifier, an @ and something to append: the identifier's cell
\* is reallocated, which may leave it where it is or free it under the lists that still have it.
Joins(h, d) == Len(d) >= 3 /\ h[d[Len(d) - 1]].type = "AT" /\ h[d[Len(d) - 2]].type = "ID"
Joined(h, d) == [h[d[Len(d) - 2]] EXCEPT !.value = @ \o h[d[Len(d)]].value]
Freed == [type |-> "FREED", value |-> <<>>, line |-> 0, source |-> program.main]

\* the end of a round of the loop over the body: h and d are the cells and the list after what it has pushed
BodyRound(h, d, top) ==
    /\ frames' = <<[top EXCEPT !.k = @ + 1, !.arg = 0, !.j = 0, !.called = FALSE]>> \o Tail(frames)
    /\ \/ ~Joins(h, d) /\ dest' = d /\ heap' = h /\ UNCHANGED stage
       \/ /\ Joins(h, d) /\ h[d[Len(d)]].type \in Concatenateable /\ stage' = stage
          /\ \/ /\ heap' = [h EXCEPT ![d[Len(d) - 2]] = Joined(h, d)]
                /\ dest' = SubSeq(d, 1, Len(d) - 2)
             \/ /\ heap' = Append([h EXCEPT ![d[Len(d) - 2]] = Freed], Joined(h, d))
                /\ dest' = Append(SubSeq(d, 1, Len(d) - 3), Len(h) + 1)
       \/ Joins(h, d) /\ h[d[Len(d)]].type \notin Concatenateable /\ stage' = "failed" /\ dest' = d /\ heap' = h
    /\ UNCHANGED <<i, tokens, kept, imports, macros, calls>>

IsParam == Type(Tok) = "ID" /\ ParamIndex(Value(Tok)) # 0
IsLine == Type(Tok) = "ID" /\ ParamIndex(Value(Tok)) = 0 /\ Value(Tok) = <<"__line__">>

PushToken == InBody /\ Type(Tok) # "MACRO_CALL" /\ ~IsParam /\ ~IsLine /\ BodyRound(heap, Append(dest, Tok), Top)

LineToken == [type |-> "INT", value |-> <<heap[Top.call].line + 1>>, line |-> heap[Tok].line, source |-> heap[Tok].source]
PushLine == InBody /\ IsLine /\ BodyRound(Append(heap, LineToken), Append(dest, Len(heap) + 1), Top)

Given == Top.args[ParamIndex(Value(Tok))]
BeginArgument ==
    /\ InBody /\ IsParam /\ Given[1] <= Given[2]
    /\ frames' = <<[Top EXCEPT !.arg = ParamIndex(Value(Tok)), !.j = Given[1]]>> \o Tail(frames)
    /\ UNCHANGED <<heap, stage, tokens, kept, dest, i, imports, macros, calls>>

EmptyArgument == InBody /\ IsParam /\ Given[1] > Given[2] /\ BodyRound(heap, dest, Top)

\* mutant: a call inside of an argument is copied as it is
ArgumentTokenAny ==
    /\ InArgument /\ Top.j <= Argument[2] /\ Type(List(Top.src)[Top.j]) \notin {"FREED"}
    /\ dest' = Append(dest, List(Top.src)[Top.j])
    /\ frames' = <<[Top EXCEPT !.j = @ + 1]>> \o Tail(frames)
    /\ UNCHANGED <<heap, stage, tokens, kept, i, imports, macros, calls>>

ArgumentToken ==
    /\ InArgument /\ Top.j <= Argument[2] /\ Type(List(Top.src)[Top.j]) \notin {"MACRO_CALL", "FREED"}
    /\ dest' = Append(dest, List(Top.src)[Top.j])
    /\ frames' = <<[Top EXCEPT !.j = @ + 1]>> \o Tail(frames)
    /\ UNCHANGED <<heap, stage, tokens, kept, i, imports, macros, calls>>

\* a call inside of an argument: its arguments are written in the same list
ArgumentCall ==
    /\ InArgument /\ Top.j <= Argument[2] /\ Type(List(Top.src)[Top.j]) = "MACRO_CALL"
    /\ i' = i
    /\ IF Callable(List(Top.src), Top.j, Argument[2])
       THEN Enter(Frame(Top.src, Top.j, Argument[2]),
                  <<[Top EXCEPT !.j = CallEnd(List(Top.src), Top.j, Argument[2]) + 1]>> \o Tail(frames))
       ELSE Stop("failed")

EndArgument == InArgument /\ Top.j > Argument[2] /\ BodyRound(heap, dest, Top)

\* mutant: the loop over the body goes on behind the call's bracket, and moves on once more
BodyCallTwice ==
    /\ InBody /\ Type(Tok) = "MACRO_CALL"
    /\ i' = i
    /\ IF Callable(Body, Top.k, Len(Body) + 1)
       THEN Enter(Frame(Top.macro, Top.k, Len(Body) + 1),
                  <<[Top EXCEPT !.k = CallEnd(Body, Top.k, Len(Body) + 1) + 1, !.called = TRUE]>> \o Tail(frames))
       ELSE Stop("failed")

\* a call in the body: its arguments are the tokens of the body as they are written there
BodyCall ==
    /\ InBody /\ Type(Tok) = "MACRO_CALL"
    /\ i' = i
    /\ IF Callable(Body, Top.k, Len(Body) + 1)
       THEN Enter(Frame(Top.macro, Top.k, Len(Body) + 1),
                  <<[Top EXCEPT !.k = CallEnd(Body, Top.k, Len(Body) + 1), !.called = TRUE]>> \o Tail(frames))
       ELSE Stop("failed")

BodyCalled == Expanding /\ Top.called /\ BodyRound(heap, dest, Top)

\* the body, or the argument, holds a cell that was freed when an earlier use of it was joined
ReadsFreed ==
    /\ \/ Expanding /\ Top.k <= Len(Body) /\ Top.j = 0 /\ ~Top.called /\ Type(Tok) = "FREED"
       \/ InArgument /\ Top.j <= Argument[2] /\ Type(List(Top.src)[Top.j]) = "FREED"
    /\ Stop("undefined")

Leave ==
    /\ Expanding /\ Top.k > Len(Body)
    /\ frames' = Tail(frames)
    /\ UNCHANGED <<heap, stage, tokens, kept, dest, i, imports, macros, calls>>

EndExpansion ==
    /\ stage = "expand" /\ frames = <<>> /\ i > Len(kept)
    /\ stage' = "done"
    /\ UNCHANGED <<heap, tokens, kept, dest, i, imports, macros, frames, calls>>

-----------------------------------------------------------------------------
Next ==
    /\ UNCHANGED program
    /\ \/ SkipToken \/ MalformedImport \/ ReadsBehind \/ MissingImport \/ KnownImport \/ NewImport \/ EndImports
       \/ Define \/ MalformedMacro \/ Redefinition \/ KeepToken \/ EndDefines
       \/ CopyToken \/ CallMacro \/ BadCall \/ PushToken \/ PushLine
       \/ BeginArgument \/ EmptyArgument \/ ArgumentToken \/ ArgumentCall \/ EndArgument
       \/ BodyCall \/ BodyCalled \/ ReadsFreed \/ Leave \/ EndExpansion

Spec == Init /\ [][Next]_vars /\ WF_vars(Next)

-----------------------------------------------------------------------------
(* Properties *)

\* An invocation of expand_macro_call stays in its macro's body, has as many arguments as the macro has
\* parameters, and each of them lies in the list the call was written in.
FrameOK(f) ==
    /\ f \in [call : 1..Len(heap), src : 0..Len(macros), args : Seq(Nat \X Nat), macro : 1..Len(macros),
              k : Nat \ {0}, arg : Nat, j : Nat, called : BOOLEAN]
    /\ Len(f.args) = Len(macros[f.macro].params)
    /\ \A n \in 1..Len(f.args) : f.args[n][1] \in 1..(Len(List(f.src)) + 1) /\ f.args[n][2] \in 0..Len(List(f.src))
    /\ f.k <= Len(macros[f.macro].body) + 1 /\ f.arg <= Len(f.args)
    /\ f.j > 0 <=> f.arg > 0
    /\ f.j > 0 \/ f.called => f.k <= Len(macros[f.macro].body)

ListsOK ==
    /\ program \in Programs
    /\ stage \in {"import", "define", "expand", "done", "failed", "undefined"}
    /\ IsList(heap) /\ (\A n \in 1..Len(heap) : IsToken(heap[n])) /\ IsList(imports)
    /\ {tokens, kept, dest} \subseteq Seq(1..Len(heap))
    /\ IsList(macros) /\ \A n \in 1..Len(macros) : IsList(macros[n].params) /\ macros[n].body \in Seq(1..Len(heap))
IndexOK ==
    /\ i \in Nat \ {0}
    /\ stage = "import" => i <= Len(tokens) + 3
    /\ stage = "define" => i <= Len(tokens) + 1
    /\ stage = "expand" => i <= Len(kept) + 1
FramesOK == IsList(frames) /\ \A n \in 1..Len(frames) : FrameOK(frames[n])

\* The two ways to what the code leaves undefined: an expansion comes by a token that was freed when it was
\* joined, or stage 1 by an `import' at the end of its list when the list has grown.
UndefinedOK ==
    stage = "undefined" =>
        \/ frames # <<>>
        \/ i = Len(tokens) /\ Type(tokens[i]) = "IMPORT" /\ Len(tokens) # Len(program.files[program.main])

\* Lists name cells of the heap; the loops of stages 2 and 3 stay in their lists and those of the expansion in
\* their bodies and arguments; stage 1 reads behind its list only when that ends in `import'.
TypeOK == ListsOK /\ IndexOK /\ FramesOK /\ UndefinedOK

\* n is an import statement that stage 1 comes by: it skips the token behind a file's name unseen.
Statement(n) == /\ Type(tokens[n]) = "IMPORT"
                /\ \A m \in 1..(n - 1) : n <= m + 2 => Type(tokens[m]) # "IMPORT"
PathAt(n) == Resolve(program, heap[tokens[n + 1]])

\* When definitions are looked for, every import statement that stage 1 came by has been followed, those of
\* the files that came in meanwhile too; no file came in twice, and none that no statement names.
StatementsAreFollowed ==
    stage = "define" =>
        /\ \A n \in 1..Len(tokens) : Statement(n) => \E m \in 1..Len(imports) : imports[m] = PathAt(n)
        /\ \A m \in 1..Len(imports) : \E n \in 1..Len(tokens) : Type(tokens[n]) = "IMPORT" /\ PathAt(n) = imports[m]
        /\ \A m, n \in 1..Len(imports) : imports[m] = imports[n] => m = n

\* The texts that are in, the main file's first, and their tokens one behind the other.
Main == program.files[program.main]
FileAt(path) == program.files[program.at[path]]
Texts == [n \in 1..(Len(imports) + 1) |-> IF n = 1 THEN Main ELSE FileAt(imports[n - 1])]
Source == FlattenSeq(Texts)
Cells(list) == [n \in DOMAIN list |-> heap[list[n]]]

\* The files a text names, as it is written: those needed are the least set of files that has the ones the
\* main file names and the ones its own files name.
Names(text, n) == n < Len(text) /\ text[n].type = "IMPORT" /\ text[n + 1].type = "STRING"
Named(text) == {Resolve(program, text[n + 1]) : n \in {m \in 1..Len(text) : Names(text, m)}} \ {NoPath}
Paths == UNION {Named(program.files[f]) : f \in DOMAIN program.files}
Closed(paths) == Named(Main) \subseteq paths /\ \A path \in paths : Named(FileAt(path)) \subseteq paths
Followed == {imports[n] : n \in 1..Len(imports)}
Needless == {paths \in SUBSET Paths : Closed(paths) /\ ~(Followed \subseteq paths)}

\* A text that ends in the middle of an import statement may find its string in the next.
Torn == \E n \in 1..Len(Texts) : Len(Texts[n]) > 0 /\ Texts[n][Len(Texts[n])].type = "IMPORT"

\* Import statements found while the list they extend is being read bring in the needed files and no others,
\* however they are nested or go round in circles, unless one follows another with nothing between them; and
\* the list has their tokens, file by file, the main file's a second time when it is imported itself.
NeededFilesAreRead ==
    stage = "define" =>
        /\ Cells(tokens) = Append(Source, Eof)
        /\ ~Torn => Needless = {}
        /\ (\A n \in 1..Len(tokens) : Type(tokens[n]) = "IMPORT" => Statement(n)) => Closed(Followed)

\* What import statements ask for is what the list of tokens has, each path once.
ImportsAreFollowed == StatementsAreFollowed /\ NeededFilesAreRead

\* A macro that calls itself recurses no deeper than max_macro_call_depth lets it.
DepthIsBounded == Len(frames) <= calls /\ calls <= MaxDepth + 1

\* The parser never sees the call of a macro, and never the definition of one but where it stood in the
\* body of another.
NoCallIsLeft ==
    \A n \in 1..Len(dest) :
        /\ Type(dest[n]) # "MACRO_CALL"
        /\ Type(dest[n]) = "MACRO" => \E m \in 1..Len(macros) : \E k \in 1..Len(macros[m].body) : macros[m].body[k] = dest[n]

\* Expansion leaves no call behind, and does not go deeper than it may to get there.
ExpansionIsSound == NoCallIsLeft /\ DepthIsBounded
=============================================================================
