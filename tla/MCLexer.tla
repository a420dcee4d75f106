------------------------------ MODULE MCLexer ------------------------------
EXTENDS LexerMeaning

\* a text is read by getline: lines end with their newline
RECURSIVE LinesOf(_)
LinesOf(s) == IF s = <<>> THEN <<>>
              ELSE LET n == LineLength(s) IN <<SubSeq(s, 1, n)>> \o LinesOf(SubSeq(s, n + 1, Len(s)))

Texts(chars, n) == UNION {[1..k -> chars] : k \in 0..n}

\* every short text, and longer ones of the characters of one kind of lexeme
MCFiles == {LinesOf(s) : s \in
    UNION {Texts(Alphas \cup {"0", "_", "?", "'", "!", ".", "=", "<", "(", "[", "#", "]", "\"", "\\", " ", "\n"}, 2),
           Texts({"#", "[", "]"}, 9), Texts({"#", "[", "]", "\n", "d"}, 5),
           Texts({"0", "x", "_", ".", "\n", "c"}, 5),
           Texts({"\"", "\\", "d", "\n"}, 6),
           Texts({"'", "c", "\\", "\n", "["}, 5),
           Texts({"d", "o", "!", "_", "=", "?"}, 4),
           Texts({".", "<", "-", "=", ">", "1"}, 4)}}
=============================================================================
