------------------------------- MODULE Lexer -------------------------------
(***************************************************************************)
(* compiler/lexer/lexer.c: lexer_pass over one file.  A step is one round  *)
(* of one of the lexer's loops; the cursor is the pair line, pos together  *)
(* with the character c read there, which lexer_advance keeps, and which   *)
(* the functions look past with lexer_peek.  A file is a sequence of       *)
(* lines, each but perhaps the last with its newline.                      *)
(***************************************************************************)
EXTENDS Lists

CONSTANTS Files,      \* the files that may be lexed
          MaxOverrun  \* bound: how far behind the last line a number that has no end is followed

\* Lines are what getline read: not empty, and all but the last end with their newline.
ASSUME FilesAssumption ==
    /\ MaxOverrun \in Nat
    /\ \A f \in Files :
         /\ IsList(f)
         /\ \A l \in 1..Len(f) : /\ IsList(f[l]) /\ f[l] # <<>>
                                 /\ l # Len(f) => f[l][Len(f[l])] = "\n"

NUL  == "NUL"    \* what c is behind the last character
None == "none"   \* -1: what get_char and lexer_peek return outside of a line

Blanks  == {" ", "\n"}
Digits  == {"0", "1"}
Alphas  == {"b", "c", "d", "o", "x"}
Symbols == {"(", ")", "[", "]", ",", ";", "_", "$", "@"}
OpChars == {"+", "-", "=", "<", ">", "!", "?", ".", ":", "&"}
IdChars == Alphas \cup Digits \cup {"_", "?", "'"}

\* what follows 0 for another base, and the characters strchr finds for it
PrefixDigits == [x |-> {"0", "1", "b", "c", "d", "_", NUL}, b |-> {"0", "1", "_", NUL}, o |-> {"0", "1", "_", NUL}]

\* the overrides of operators, and the keyword that can be spelled with Alphas
Overrides == [s \in {<<".", ".", ".">>, <<"<", "-">>, <<"=", ">">>} |->
                CASE s = <<".", ".", ".">> -> "VA_LIST" [] s = <<"<", "-">> -> "RETURN" [] OTHER -> "ARROW"]
Keywords == {<<"d", "o">>}

VARIABLES file,    \* the lines
          line, pos, c,
          mode,    \* the loop the lexer is in; "done" and "failed" end it
          depth,   \* nesting of comments
          buf,     \* tmp_buffer
          kind,    \* the token type or base decided so far
          toks     \* the tokens returned

vars == <<file, line, pos, c, mode, depth, buf, kind, toks>>
cursor == <<line, pos, c>>
token == <<buf, kind, toks>>

NumLines == Len(file)
LineLen(l) == IF l < NumLines THEN Len(file[l + 1]) ELSE 0
CharAt(l, p) == IF l < NumLines /\ p < LineLen(l) THEN file[l + 1][p + 1] ELSE None
Final(l) == NumLines > 0 /\ l + 1 >= NumLines
Peek(k) == CharAt(line, pos + k)
PeekBack(k) == IF pos >= k THEN CharAt(line, pos - k) ELSE None

\* mutant: a line is left one character late
AdvancedLate(at) ==
    LET p == at[2] + 1 IN
    CASE p <= LineLen(at[1])                     -> <<at[1], p, CharAt(at[1], p)>>
      [] p > LineLen(at[1]) /\ Final(at[1])      -> <<at[1], p, NUL>>
      [] p > LineLen(at[1]) /\ ~Final(at[1])     -> <<at[1] + 1, 0, CharAt(at[1] + 1, 0)>>

\* pos grows behind the end of the last line too, without limit
Advanced(at) ==
    LET p == at[2] + 1 IN
    CASE p < LineLen(at[1])                      -> <<at[1], p, CharAt(at[1], p)>>
      [] p >= LineLen(at[1]) /\ Final(at[1])     -> <<at[1], p, NUL>>
      [] p >= LineLen(at[1]) /\ ~Final(at[1])    -> <<at[1] + 1, 0, CharAt(at[1] + 1, 0)>>

MoveTo(at) == line' = at[1] /\ pos' = at[2] /\ c' = at[3]
Advance  == MoveTo(Advanced(cursor))
Advance2 == MoveTo(Advanced(Advanced(cursor)))

Token(type, value, p) == [type |-> type, value |-> value, line |-> line, pos |-> p]

Emit(type, value, p) ==
    /\ toks' = Append(toks, Token(type, value, p))
    /\ mode' = "next" /\ buf' = <<>> /\ kind' = "ID"

Fail == mode' = "failed" /\ UNCHANGED <<cursor, depth, token>>

Init ==
    /\ file \in Files
    /\ line = 0 /\ pos = 0 /\ c = CharAt(0, 0)
    /\ mode = "next" /\ depth = 0 /\ buf = <<>> /\ kind = "ID" /\ toks = <<>>

-----------------------------------------------------------------------------
(* Blanks and comments *)

SkipBlank == mode = "next" /\ c \in Blanks /\ Advance /\ UNCHANGED <<mode, depth, token>>

SkipLineComment ==
    /\ mode = "next" /\ c = "#" /\ Peek(1) # "["
    /\ MoveTo(IF Final(line) THEN <<line, pos, NUL>> ELSE <<line + 1, 0, CharAt(line + 1, 0)>>)
    /\ UNCHANGED <<mode, depth, token>>

BeginComment ==
    /\ mode = "next" /\ c = "#" /\ Peek(1) = "["
    /\ Advance2 /\ mode' = "comment" /\ depth' = 1
    /\ UNCHANGED token

\* mutant: comments do not nest
CommentEndsFirst == c = "]" /\ Peek(1) = "#"

CommentEnds == c = "]" /\ Peek(1) = "#" /\ depth = 1

CommentChar ==
    /\ mode = "comment" /\ ~CommentEnds /\ c # NUL
    /\ depth' = CASE c = "#" /\ Peek(1) = "[" -> depth + 1
                  [] c = "]" /\ Peek(1) = "#" -> depth - 1
                  [] OTHER                    -> depth
    /\ Advance
    /\ UNCHANGED <<mode, token>>

EndComment ==
    /\ mode = "comment" /\ CommentEnds
    /\ Advance2 /\ mode' = "next" /\ depth' = 0
    /\ UNCHANGED token

\* mutant: the end of the file is not noticed in a comment
OpenCommentIgnored == mode = "comment" /\ c = NUL /\ UNCHANGED <<cursor, mode, depth, token>>

OpenComment == mode = "comment" /\ c = NUL /\ Fail

-----------------------------------------------------------------------------
(* Identifiers, keywords and macro calls *)

StartsId == c \in Alphas \/ (c = "_" /\ Peek(1) \in {"_"} \cup Alphas \cup Digits)

BeginId == mode = "next" /\ StartsId /\ mode' = "id" /\ UNCHANGED <<cursor, depth, token>>

IdChar ==
    /\ mode = "id" /\ c \in IdChars
    /\ buf' = Append(buf, c) /\ Advance
    /\ UNCHANGED <<mode, depth, kind, toks>>

EndId ==
    /\ mode = "id" /\ c \notin IdChars /\ c # "!"
    /\ Emit(IF buf \in Keywords THEN "KEYWORD" ELSE "ID", buf, pos - 1)
    /\ UNCHANGED <<cursor, depth>>

EndMacroCall ==
    /\ mode = "id" /\ c = "!" 
    /\ Advance
    /\ toks' = Append(toks, [type |-> "MACRO_CALL", value |-> buf, line |-> line', pos |-> pos' - 2])
    /\ mode' = "next" /\ buf' = <<>> /\ kind' = "ID"
    /\ UNCHANGED depth

-----------------------------------------------------------------------------
(* Numbers: with a prefix for the base, or decimal with at most one point *)

BeginPrefixed ==
    /\ mode = "next" /\ ~StartsId /\ c = "0" /\ Peek(1) \in DOMAIN PrefixDigits
    /\ kind' = Peek(1) /\ Advance2 /\ mode' = "int"
    /\ UNCHANGED <<depth, buf, toks>>

\* strchr also finds the NUL at the end of its string: behind the last character this loop has no
\* end, and the model follows it as far as MaxOverrun
IntChar ==
    /\ mode = "int" /\ c \in PrefixDigits[kind] /\ pos < LineLen(line) + MaxOverrun
    /\ buf' = IF c \in {"_", NUL} THEN buf ELSE Append(buf, c)
    /\ Advance
    /\ UNCHANGED <<mode, depth, kind, toks>>

EndInt ==
    /\ mode = "int" /\ c \notin PrefixDigits[kind]
    /\ Emit("INT", <<"0", kind>> \o buf, pos)
    /\ UNCHANGED <<cursor, depth>>

BeginDecimal ==
    /\ mode = "next" /\ ~StartsId /\ c \in Digits /\ ~(c = "0" /\ Peek(1) \in DOMAIN PrefixDigits)
    /\ mode' = "dec" /\ kind' = "INT"
    /\ UNCHANGED <<cursor, depth, buf, toks>>

DecimalChar ==
    /\ mode = "dec" /\ c \in Digits \cup {"_"}
    /\ buf' = IF c = "_" THEN buf ELSE Append(buf, c)
    /\ Advance
    /\ UNCHANGED <<mode, depth, kind, toks>>

\* a point is in the buffer before the lexer sees that it begins the operator ..
DecimalRange ==
    /\ mode = "dec" /\ c = "." /\ Peek(1) = "."
    /\ Emit(kind, Append(buf, "."), pos)
    /\ UNCHANGED <<cursor, depth>>

DecimalPoint ==
    /\ mode = "dec" /\ c = "." /\ Peek(1) # "."
    /\ IF kind = "FLOAT"
       THEN Fail
       ELSE /\ buf' = Append(buf, ".") /\ kind' = "FLOAT"
            /\ Advance /\ UNCHANGED <<mode, depth, toks>>

\* mutant: the position is that of some later character
EndDecimalHere ==
    /\ mode = "dec" /\ c \notin Digits \cup {"_", "."}
    /\ Emit(kind, buf, pos + 9)
    /\ UNCHANGED <<cursor, depth>>

EndDecimal ==
    /\ mode = "dec" /\ c \notin Digits \cup {"_", "."}
    /\ Emit(kind, buf, pos - 1)
    /\ UNCHANGED <<cursor, depth>>

-----------------------------------------------------------------------------
(* Symbols, operators, strings, characters, the end and everything else *)

LexSymbol ==
    /\ mode = "next" /\ ~StartsId /\ c \in Symbols
    /\ Emit("SYMBOL", <<c>>, pos) /\ Advance
    /\ UNCHANGED depth

BeginOperator == mode = "next" /\ c \in OpChars /\ mode' = "op" /\ UNCHANGED <<cursor, depth, token>>

OperatorChar ==
    /\ mode = "op" /\ c \in OpChars
    /\ buf' = Append(buf, c) /\ Advance
    /\ UNCHANGED <<mode, depth, kind, toks>>

EndOperator ==
    /\ mode = "op" /\ c \notin OpChars
    /\ Emit(IF buf \in DOMAIN Overrides THEN Overrides[buf] ELSE "OPERATOR", buf, pos - 1)
    /\ UNCHANGED <<cursor, depth>>

BeginString == mode = "next" /\ c = "\"" /\ mode' = "str" /\ Advance /\ UNCHANGED <<depth, token>>

StringEnds == c = "\"" /\ ~(PeekBack(1) = "\\" /\ PeekBack(2) # "\\")

StringChar ==
    /\ mode = "str" /\ ~StringEnds
    /\ buf' = Append(buf, c) /\ Advance
    /\ mode' = IF c' = NUL THEN "failed" ELSE mode
    /\ UNCHANGED <<depth, kind, toks>>

EndString ==
    /\ mode = "str" /\ StringEnds
    /\ Advance
    /\ toks' = Append(toks, [type |-> "STRING", value |-> buf, line |-> line', pos |-> pos'])
    /\ mode' = "next" /\ buf' = <<>> /\ kind' = "ID"
    /\ UNCHANGED depth

BeginChar == mode = "next" /\ c = "'" /\ mode' = "char" /\ Advance /\ UNCHANGED <<depth, token>>

CArray ==
    /\ mode = "char" /\ c = "c" /\ Peek(1) # "'"
    /\ Emit("C_ARRAY", <<"'", c>>, pos) /\ Advance
    /\ UNCHANGED depth

\* the character, or a backslash and a character, then a quote
CharEnd(escape) == IF escape THEN Advanced(Advanced(cursor)) ELSE Advanced(cursor)

CharLiteral ==
    /\ mode = "char" /\ c # "'" /\ ~(c = "c" /\ Peek(1) # "'")
    /\ LET escape == c = "\\"
           at == IF escape THEN Advanced(cursor) ELSE cursor
           end == CharEnd(escape)
       IN IF end[3] # "'"
          THEN Fail
          ELSE /\ MoveTo(Advanced(end))
               /\ toks' = Append(toks, [type |-> "CHAR", value |-> IF escape THEN <<c, at[3]>> ELSE <<c>>,
                                        line |-> at[1], pos |-> at[2]])
               /\ mode' = "next" /\ UNCHANGED <<buf, kind, depth>>

EmptyChar == mode = "char" /\ c = "'" /\ Fail

LexEnd ==
    /\ mode = "next" /\ c \in {NUL, None}
    /\ toks' = Append(toks, Token("EOF", <<>>, pos)) /\ mode' = "done"
    /\ UNCHANGED <<cursor, depth, buf, kind>>

Unknown ==
    /\ mode = "next"
    /\ c \notin Blanks \cup Alphas \cup Digits \cup Symbols \cup OpChars \cup {"#", "\"", "'", NUL, None}
    /\ Fail

-----------------------------------------------------------------------------
Next ==
    /\ UNCHANGED file
    /\ \/ SkipBlank \/ SkipLineComment
       \/ BeginComment \/ CommentChar \/ EndComment \/ OpenComment
       \/ BeginId \/ IdChar \/ EndId \/ EndMacroCall
       \/ BeginPrefixed \/ IntChar \/ EndInt
       \/ BeginDecimal \/ DecimalChar \/ DecimalRange \/ DecimalPoint \/ EndDecimal
       \/ LexSymbol \/ BeginOperator \/ OperatorChar \/ EndOperator
       \/ BeginString \/ StringChar \/ EndString
       \/ BeginChar \/ CArray \/ CharLiteral \/ EmptyChar
       \/ LexEnd \/ Unknown

Spec == Init /\ [][Next]_vars /\ WF_vars(Next)

-----------------------------------------------------------------------------
\* The cached character c of lexer.c is the one at line, pos, and NUL only behind the last line;
\* pos is past the end of a line in two loops only: in a number with a base, which goes on there
\* without end, and in a string, which fails there.
TypeOK ==
    /\ mode \in {"next", "comment", "id", "int", "dec", "op", "str", "char", "done", "failed"}
    /\ kind \in {"ID", "INT", "FLOAT"} \cup DOMAIN PrefixDigits
    /\ depth \in Nat /\ line \in Nat /\ pos \in Nat
    /\ \/ NumLines = 0 /\ c = None
       \/ line < NumLines /\ pos < LineLen(line) /\ c = CharAt(line, pos)
       \/ line < NumLines /\ Final(line) /\ c = NUL
    /\ pos > LineLen(line) => mode \in {"int", "failed"}
    /\ \A i \in DOMAIN toks : toks[i].line \in Nat /\ toks[i].pos \in Nat

\* Error messages print the line a token names (get_line in default_error_handler), which must
\* exist, and underline up to pos: tokens stand in the file in the order they were read.
TokensAreInTheFile ==
    \A i \in DOMAIN toks :
        /\ NumLines > 0 => toks[i].line < NumLines /\ toks[i].pos <= LineLen(toks[i].line)
        /\ i > 1 => \/ toks[i - 1].line < toks[i].line
                    \/ toks[i - 1].line = toks[i].line /\ toks[i - 1].pos <= toks[i].pos
=============================================================================
