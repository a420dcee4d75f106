---------------------------- MODULE LexerMeaning ----------------------------
(***************************************************************************)
(* What the lexer is for: the text of a file, cut from the left into the   *)
(* longest lexemes.  A lexeme is described by what it looks like, not by   *)
(* how it is read.                                                         *)
(***************************************************************************)
EXTENDS Lexer, SequencesExt, FiniteSetsExt

Text(f) == FlattenSeq(f)

IsWord(s) ==
    /\ s # <<>> /\ \A i \in DOMAIN s : s[i] \in IdChars
    /\ s[1] \in Alphas \/ (Len(s) > 1 /\ s[1] = "_" /\ s[2] \in {"_"} \cup Alphas \cup Digits)

IsPrefixed(s) ==
    /\ Len(s) >= 2 /\ s[1] = "0" /\ s[2] \in DOMAIN PrefixDigits
    /\ \A i \in 3..Len(s) : s[i] \in PrefixDigits[s[2]]

\* digits and points; a point is not the first of an operator
IsDecimal(s, after) ==
    /\ s # <<>> /\ s[1] \in Digits
    /\ \A i \in DOMAIN s : s[i] \in Digits \cup {"_", "."}
    /\ \A i \in DOMAIN s : s[i] = "." => (IF i < Len(s) THEN s[i + 1] # "." ELSE after # ".")

\* a backslash takes the character behind it with it
RECURSIVE Closes(_)
Closes(s) == CASE s = <<>>        -> FALSE
               [] s = <<"\"">>    -> TRUE
               [] s[1] = "\\"     -> Len(s) > 2 /\ Closes(SubSeq(s, 3, Len(s)))
               [] OTHER           -> s[1] # "\"" /\ Closes(Tail(s))

IsString(s) == Len(s) >= 2 /\ s[1] = "\"" /\ Closes(Tail(s))

IsChar(s) ==
    /\ Len(s) \in {3, 4} /\ s[1] = "'" /\ s[Len(s)] = "'"
    /\ IF Len(s) = 3 THEN s[2] \notin {"'", "\\"} ELSE s[2] = "\\"

IsOperator(s) == s # <<>> /\ \A i \in DOMAIN s : s[i] \in OpChars

\* the kinds of lexeme that s is, when `after' follows it
Kinds(s, after) ==
    UNION {IF IsWord(s) THEN {IF s \in Keywords THEN "KEYWORD" ELSE "ID"} ELSE {},
           IF Len(s) > 1 /\ s[Len(s)] = "!" /\ IsWord(Front(s)) THEN {"MACRO_CALL"} ELSE {},
           IF IsPrefixed(s) THEN {"INT"} ELSE {},
           IF IsDecimal(s, after) THEN {IF "." \in ToSet(s) THEN "FLOAT" ELSE "INT"} ELSE {},
           IF Len(s) = 1 /\ s[1] \in Symbols THEN {"SYMBOL"} ELSE {},
           IF IsOperator(s) THEN {IF s \in DOMAIN Overrides THEN Overrides[s] ELSE "OPERATOR"} ELSE {},
           IF IsString(s) THEN {"STRING"} ELSE {},
           IF IsChar(s) THEN {"CHAR"} ELSE {},
           IF s = <<"'", "c">> /\ after # "'" THEN {"C_ARRAY"} ELSE {}}

\* what a lexeme means: numbers without separators, strings and characters without quotes
Value(type, s) ==
    CASE type \in {"INT", "FLOAT"}    -> SelectSeq(s, LAMBDA d : d # "_")
      [] type = "MACRO_CALL"          -> Front(s)
      [] type \in {"STRING", "CHAR"}  -> SubSeq(s, 2, Len(s) - 1)
      [] OTHER                        -> s

\* the length of a comment at the beginning of s, 0 if it is not closed
RECURSIVE CommentLength(_, _, _)
CommentLength(s, n, nested) ==
    CASE Len(s) < n + 2                                          -> 0
      [] s[n + 1] = "#" /\ s[n + 2] = "["                        -> CommentLength(s, n + 2, nested + 1)
      [] s[n + 1] = "]" /\ s[n + 2] = "#" /\ nested = 1          -> n + 2
      [] s[n + 1] = "]" /\ s[n + 2] = "#" /\ nested # 1          -> CommentLength(s, n + 2, nested - 1)
      [] OTHER                                                   -> CommentLength(s, n + 1, nested)

LineLength(s) == IF "\n" \in ToSet(s) THEN Min({i \in DOMAIN s : s[i] = "\n"}) ELSE Len(s)

Failure == [type |-> "FAILURE", value |-> <<>>]
After(s, n) == IF n < Len(s) THEN s[n + 1] ELSE NUL

\* the longest lexeme, but a literal that can end ends
Longest(s) ==
    LET lengths == {n \in DOMAIN s : Kinds(SubSeq(s, 1, n), After(s, n)) # {}}
    IN IF s[1] \in {"\"", "'"} THEN (IF lengths = {} THEN 0 ELSE Min(lengths))
       ELSE IF lengths = {} THEN 0 ELSE Max(lengths)

RECURSIVE Lexemes(_)
Lexemes(s) ==
    CASE s = <<>>                    -> <<[type |-> "EOF", value |-> <<>>]>>
      [] s # <<>> /\ s[1] \in Blanks -> Lexemes(Tail(s))
      [] s # <<>> /\ s[1] = "#"      ->
            IF Len(s) > 1 /\ s[2] = "["
            THEN LET n == CommentLength(s, 0, 0) IN
                 IF n = 0 THEN <<Failure>> ELSE Lexemes(SubSeq(s, n + 1, Len(s)))
            ELSE Lexemes(SubSeq(s, LineLength(s) + 1, Len(s)))
      [] OTHER                       ->
            LET n == Longest(s) IN
            IF n = 0 THEN <<Failure>>
            ELSE LET lexeme == SubSeq(s, 1, n)
                     type == CHOOSE k \in Kinds(lexeme, After(s, n)) : TRUE
                 IN IF type = "FLOAT" /\ Cardinality({i \in 1..n : s[i] = "."}) > 1
                    THEN <<Failure>>
                    ELSE <<[type |-> type, value |-> Value(type, lexeme)]>> \o Lexemes(SubSeq(s, n + 1, Len(s)))

\* the token the parser sees: atoll and sscanf stop at a point no digit follows
Seen(t) ==
    [type |-> t.type,
     value |-> IF t.type \in {"INT", "FLOAT"}
               THEN SubSeq(t.value, 1, Max({0} \cup {i \in DOMAIN t.value : t.value[i] # "."}))
               ELSE t.value]

Lexed == [i \in DOMAIN toks |-> Seen(toks[i])] \o (IF mode = "failed" THEN <<Failure>> ELSE <<>>)
Meant == LET l == Lexemes(Text(file)) IN [i \in DOMAIN l |-> Seen(l[i])]

-----------------------------------------------------------------------------
Occurs(s, t) == \E i \in 0..(Len(t) - Len(s)) : SubSeq(t, i + 1, i + Len(s)) = s

\* where the lexer's look-behind and look-ahead of one or two characters are known not to be enough
Overlapping(t) ==
    \/ Occurs(<<"]", "#", "[">>, t)
    \/ Occurs(<<"\\", "\\", "\\">>, t)

EndsInPrefixed(t) == \E n \in DOMAIN t : IsPrefixed(SubSeq(t, n, Len(t)))

-----------------------------------------------------------------------------
\* What lexer_pass returns is what the text says: every character is in one lexeme, in the order
\* of the text, the longest that fits, and lexing fails exactly on texts that have no such reading.
LexesTheText ==
    mode \in {"done", "failed"} /\ ~Overlapping(Text(file)) => Lexed = Meant

\* Lexing ends, whatever the text is, unless it ends in a number with a base and no newline.
Ends == ~EndsInPrefixed(Text(file)) => <>(mode \in {"done", "failed"})
=============================================================================
