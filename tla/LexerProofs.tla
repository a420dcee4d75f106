---------------------------- MODULE LexerProofs -----------------------------
(***************************************************************************)
(* Proofs about module Lexer, for files of any lines.                      *)
(*                                                                         *)
(* The inductive invariant relates three things: the cursor, which is on a *)
(* character of the file or behind its end; the buffer, whose characters   *)
(* are behind the cursor on its line; and the last token, which stands no  *)
(* later than what is being read.                                          *)
(***************************************************************************)
EXTENDS Lexer, SequenceFacts

\* The place l1, p1 of the file is not behind the place l2, p2.
Before(l1, p1, l2, p2) == l1 < l2 \/ (l1 = l2 /\ p1 <= p2)

\* The cursor `at' is on a character, or behind the last line.
OnChar(at) == /\ at[1] \in Nat /\ at[2] \in Nat
              /\ at[1] < NumLines /\ at[2] < LineLen(at[1])
              /\ at[3] = CharAt(at[1], at[2])
AtEnd(at)  == /\ at[1] \in Nat /\ at[1] + 1 = NumLines
              /\ at[2] \in Nat /\ at[2] >= LineLen(at[1])
              /\ at[3] = NUL

\* Behind the last line only a number with a base goes on; a comment without a
\* newline ends the file from where it begins.
CursorOK ==
  \/ NumLines = 0 /\ line = 0 /\ pos = 0 /\ c = None /\ mode \in {"next", "done"}
  \/ OnChar(cursor)
  \/ AtEnd(cursor) /\ (mode \notin {"int", "failed"} => pos = LineLen(line))
  \/ /\ mode \in {"next", "done"}
     /\ line \in Nat /\ line + 1 = NumLines /\ pos \in 0 .. LineLen(line) /\ c = NUL

Words == {"id", "dec", "op"}

LexemeOK ==
  /\ mode \in {"next", "comment", "id", "int", "dec", "op", "str", "char", "done", "failed"}
  /\ kind \in {"ID", "INT", "FLOAT"} \cup DOMAIN PrefixDigits
  /\ mode = "int" => kind \in DOMAIN PrefixDigits
  /\ depth \in Nat /\ (mode = "comment" => depth # 0)
  /\ IsList(buf)
  /\ mode \in {"next", "comment", "char"} => buf = <<>>
  /\ mode \in Words => IF buf = <<>>
                       THEN c \in (CASE mode = "id"  -> IdChars
                                     [] mode = "dec" -> Digits
                                     [] mode = "op"  -> OpChars)
                       ELSE pos > 0

\* No token is behind this place of the line.
Start == IF mode \in Words /\ buf # <<>> THEN pos - 1 ELSE pos

InFile(t) == NumLines > 0 => t.line < NumLines /\ t.pos <= LineLen(t.line)

TokensOK ==
  /\ IsList(toks)
  /\ \A i \in 1 .. Len(toks) :
       /\ toks[i].line \in Nat /\ toks[i].pos \in Nat /\ InFile(toks[i])
       /\ i > 1 => Before(toks[i - 1].line, toks[i - 1].pos, toks[i].line, toks[i].pos)
  /\ Len(toks) > 0 => Before(toks[Len(toks)].line, toks[Len(toks)].pos, line, Start)

IInv == file \in Files /\ CursorOK /\ LexemeOK /\ TokensOK

-----------------------------------------------------------------------------
\* Lines are not empty, and all but the last end with a newline.
LEMMA LineFacts ==
  ASSUME file \in Files
  PROVE  /\ NumLines \in Nat /\ MaxOverrun \in Nat
         /\ \A l \in Nat : l < NumLines => LineLen(l) \in Nat \ {0}
         /\ \A l \in Nat : l + 1 < NumLines => CharAt(l, LineLen(l) - 1) = "\n"
<1>1. /\ MaxOverrun \in Nat
      /\ IsList(file)
      /\ \A l \in 1 .. Len(file) : /\ IsList(file[l]) /\ file[l] # <<>>
                                   /\ l # Len(file) => file[l][Len(file[l])] = "\n"
  BY FilesAssumption
<1>2. NumLines \in Nat /\ DOMAIN file = 1 .. NumLines
  BY <1>1, ListLength DEF NumLines
<1>3. ASSUME NEW l \in Nat, l < NumLines PROVE LineLen(l) \in Nat \ {0} /\ LineLen(l) = Len(file[l + 1])
  <2>1. l + 1 \in DOMAIN file
    BY <1>2, <1>3
  <2> DEFINE s == file[l + 1]
  <2>4. IsList(s) /\ s # <<>>
    <3> DEFINE k == l + 1
    <3>1. k \in 1 .. Len(file)
      BY <1>2, <2>1 DEF NumLines
    <3> HIDE DEF k
    <3>2. IsList(file[k]) /\ file[k] # <<>>
      BY <1>1, <3>1
    <3> QED BY <3>2 DEF k
  <2>2. LineLen(l) = Len(file[l + 1])
    BY <1>3 DEF LineLen
  <2>3. Len(file[l + 1]) \in Nat /\ Len(file[l + 1]) # 0
    <3> HIDE DEF s
    <3>1. Len(s) \in Nat /\ Len(s) # 0
      BY <2>4, ListLength
    <3> QED BY <3>1 DEF s
  <2> QED BY <2>2, <2>3
<1>4. ASSUME NEW l \in Nat, l + 1 < NumLines PROVE CharAt(l, LineLen(l) - 1) = "\n"
  <2>1. l + 1 \in DOMAIN file /\ l + 1 # Len(file) /\ l < NumLines
    <3>1. l + 1 \in 1 .. NumLines /\ l + 1 # NumLines /\ l < NumLines
      BY <1>2, <1>4
    <3> QED BY <1>2, <3>1 DEF NumLines
  <2>2. LineLen(l) \in Nat \ {0} /\ LineLen(l) = Len(file[l + 1])
    BY <1>3, <2>1
  <2>3. file[l + 1][LineLen(l)] = "\n"
    <3> DEFINE k == l + 1
    <3>1. k \in 1 .. Len(file) /\ k # Len(file)
      BY <1>2, <2>1 DEF NumLines
    <3> HIDE DEF k
    <3>2. file[k][Len(file[k])] = "\n"
      BY <1>1, <3>1
    <3> QED BY <2>2, <3>2 DEF k
  <2> QED BY <2>1, <2>2, <2>3 DEF CharAt
<1> QED BY <1>1, <1>2, <1>3, <1>4

\* lexer_advance goes on by one character, to the next line or behind the end; the
\* last of a line that has another behind it is a newline.
LEMMA AdvanceOnChar ==
  ASSUME file \in Files, NEW at, OnChar(at)
  PROVE  LET n == Advanced(at)
         IN /\ n = <<n[1], n[2], n[3]>>
            /\ n[1] \in Nat /\ n[2] \in Nat /\ n[1] < NumLines /\ n[2] <= LineLen(n[1])
            /\ OnChar(n) \/ (AtEnd(n) /\ n[2] = LineLen(n[1]))
            /\ \/ n[1] = at[1] /\ n[2] = at[2] + 1
               \/ n[1] = at[1] + 1 /\ n[2] = 0 /\ at[3] = "\n"
<1> DEFINE n == Advanced(at)
           l == at[1]
           p == at[2]
<1>1. /\ NumLines \in Nat /\ MaxOverrun \in Nat /\ l \in Nat /\ p \in Nat /\ l < NumLines
      /\ LineLen(l) \in Nat \ {0} /\ p < LineLen(l) /\ at[3] = CharAt(l, p)
  BY LineFacts DEF OnChar
<1>2. CASE p + 1 < LineLen(l)
  <2>1. n = <<l, p + 1, CharAt(l, p + 1)>>
    BY <1>1, <1>2 DEF Advanced
  <2> QED BY <1>1, <1>2, <2>1 DEF OnChar
<1>3. CASE ~(p + 1 < LineLen(l)) /\ Final(l)
  <2>1. n = <<l, p + 1, NUL>>
    BY <1>1, <1>3 DEF Advanced
  <2>2. p + 1 = LineLen(l)
    BY <1>1, <1>3
  <2>3. l + 1 = NumLines
    BY <1>1, <1>3 DEF Final
  <2> QED BY <1>1, <2>1, <2>2, <2>3 DEF AtEnd
<1>4. CASE ~(p + 1 < LineLen(l)) /\ ~Final(l)
  <2>1. n = <<l + 1, 0, CharAt(l + 1, 0)>>
    BY <1>1, <1>4 DEF Advanced
  <2>2. l + 1 < NumLines /\ p = LineLen(l) - 1
    BY <1>1, <1>4 DEF Final
  <2>3. CharAt(l, LineLen(l) - 1) = "\n" /\ LineLen(l + 1) \in Nat \ {0}
    BY <1>1, <2>2, LineFacts
  <2> QED BY <1>1, <2>1, <2>2, <2>3 DEF OnChar
<1> QED BY <1>2, <1>3, <1>4

\* Behind the end it stays there.
LEMMA AdvanceAtEnd ==
  ASSUME file \in Files, NEW at, AtEnd(at)
  PROVE  LET n == Advanced(at)
         IN n = <<at[1], n[2], NUL>> /\ n[2] \in Nat /\ n[2] >= at[2] /\ AtEnd(n)
<1>1. /\ NumLines \in Nat /\ LineLen(at[1]) \in Nat /\ at[1] \in Nat
      /\ at[1] + 1 = NumLines /\ at[2] \in Nat /\ at[2] >= LineLen(at[1])
  <2>1. at[1] < NumLines
    BY LineFacts DEF AtEnd
  <2> QED BY <2>1, LineFacts DEF AtEnd
<1>2. Advanced(at) = <<at[1], at[2] + 1, NUL>>
  <2>1. at[2] + 1 >= LineLen(at[1]) /\ Final(at[1]) /\ ~(at[2] + 1 < LineLen(at[1]))
    BY <1>1 DEF Final
  <2> QED BY <2>1 DEF Advanced
<1> QED BY <1>1, <1>2 DEF AtEnd

\* Whoever looks ahead sees a character or nothing.
LEMMA SeenAhead ==
  ASSUME file \in Files, OnChar(cursor), NEW k \in Nat, Peek(k) # None
  PROVE  OnChar(<<line, pos + k, Peek(k)>>)
<1>1. NumLines \in Nat /\ line \in Nat /\ pos \in Nat /\ line < NumLines /\ LineLen(line) \in Nat
  BY LineFacts DEF OnChar, cursor
<1>2. pos + k < LineLen(line)
  BY <1>1 DEF Peek, CharAt
<1> QED BY <1>1, <1>2 DEF OnChar, Peek

-----------------------------------------------------------------------------
\* What the lexer looks for is a character, and no newline unless it skips blanks.
LEMMA CharClasses ==
  /\ \A x \in IdChars \cup Alphas \cup Digits \cup OpChars \cup Symbols \cup {"_", "!", "\"", "'", "#", "[", "]", "."} :
       x # "\n" /\ x # NUL /\ x # None
  /\ \A x \in Blanks : x # NUL /\ x # None
  /\ DOMAIN PrefixDigits = {"x", "b", "o"}
  /\ \A k \in DOMAIN PrefixDigits : \A x \in PrefixDigits[k] : x # "\n" /\ x # None
  /\ NUL # None /\ NUL # "\n" /\ None # "\n"
<1>1. DOMAIN PrefixDigits = {"x", "b", "o"}
  BY DEF PrefixDigits
<1>2. \A k \in DOMAIN PrefixDigits : \A x \in PrefixDigits[k] : x # "\n" /\ x # None
  <2>1. /\ PrefixDigits["x"] = {"0", "1", "b", "c", "d", "_", NUL}
        /\ PrefixDigits["b"] = {"0", "1", "_", NUL} /\ PrefixDigits["o"] = {"0", "1", "_", NUL}
    BY DEF PrefixDigits
  <2>2. \A k \in DOMAIN PrefixDigits : k = "x" \/ k = "b" \/ k = "o"
    BY <1>1
  <2>3. \A y \in PrefixDigits["x"] \cup PrefixDigits["b"] \cup PrefixDigits["o"] : y # "\n" /\ y # None
    BY <2>1 DEF None, NUL
  <2> QED BY <2>2, <2>3
<1> QED BY <1>1, <1>2 DEF IdChars, Alphas, Digits, OpChars, Symbols, Blanks, NUL, None

\* What the invariant says of numbers and places.
LEMMA Places ==
  ASSUME IInv
  PROVE  /\ NumLines \in Nat /\ line \in Nat /\ pos \in Nat /\ Start \in Nat /\ Start <= pos
         /\ NumLines > 0 => line < NumLines /\ LineLen(line) \in Nat
         /\ c # NUL /\ c # None => OnChar(cursor)
         /\ mode \notin {"next", "done", "int", "failed"} =>
              /\ NumLines > 0 /\ pos <= LineLen(line)
              /\ OnChar(cursor) \/ (AtEnd(cursor) /\ pos = LineLen(line))
<1>1. NumLines \in Nat /\ \A l \in Nat : l < NumLines => LineLen(l) \in Nat
  BY LineFacts DEF IInv
<1>2. CASE NumLines = 0 /\ line = 0 /\ pos = 0 /\ c = None /\ mode \in {"next", "done"}
  BY <1>1, <1>2 DEF Start, Words
<1>3. CASE OnChar(cursor)
  BY <1>1, <1>3 DEF OnChar, cursor, Start, Words, IInv, LexemeOK
<1>4. CASE AtEnd(cursor) /\ (mode \notin {"int", "failed"} => pos = LineLen(line))
  <2>1. line \in Nat /\ line < NumLines /\ LineLen(line) \in Nat /\ c = NUL /\ MaxOverrun \in Nat
    BY <1>1, <1>4, LineFacts DEF AtEnd, cursor, IInv
  <2>2. pos \in Nat
    BY <1>4, <2>1 DEF AtEnd, cursor
  <2> QED BY <1>1, <1>4, <2>1, <2>2 DEF Start, Words, IInv, LexemeOK
<1>5. CASE /\ mode \in {"next", "done"}
           /\ line \in Nat /\ line + 1 = NumLines /\ pos \in 0 .. LineLen(line) /\ c = NUL
  <2>1. line < NumLines /\ LineLen(line) \in Nat
    BY <1>1, <1>5
  <2> QED BY <1>1, <1>5, <2>1 DEF Start, Words
<1> QED BY <1>2, <1>3, <1>4, <1>5 DEF IInv, CursorOK

\* One step of lexer_advance from a character.
LEMMA Moves ==
  ASSUME IInv, file' = file, OnChar(cursor), Advance
  PROVE  /\ CursorOK'
         /\ line' \in Nat /\ pos' \in Nat /\ line' < NumLines /\ pos' <= LineLen(line')
         /\ line < line' \/ (line = line' /\ pos' = pos + 1)
         /\ c # "\n" => line' = line /\ pos' = pos + 1
<1> DEFINE n == Advanced(cursor)
<1>1. cursor = <<line, pos, c>> /\ cursor' = <<line', pos', c'>>
  BY DEF cursor
<1>2. /\ n = <<n[1], n[2], n[3]>>
      /\ n[1] \in Nat /\ n[2] \in Nat /\ n[1] < NumLines /\ n[2] <= LineLen(n[1])
      /\ OnChar(n) \/ (AtEnd(n) /\ n[2] = LineLen(n[1]))
      /\ \/ n[1] = line /\ n[2] = pos + 1
         \/ n[1] = line + 1 /\ n[2] = 0 /\ c = "\n"
  BY <1>1, AdvanceOnChar DEF IInv
<1>3. line' = n[1] /\ pos' = n[2] /\ c' = n[3]
  BY DEF Advance, MoveTo
<1> HIDE DEF n
<1>4. CursorOK'
  BY <1>1, <1>2, <1>3 DEF CursorOK, OnChar, AtEnd, NumLines, LineLen, CharAt
<1> QED BY <1>1, <1>2, <1>3, <1>4, Places

\* Two steps, over characters that end no line.
LEMMA MovesTwice ==
  ASSUME IInv, file' = file, OnChar(cursor), c # "\n", Peek(1) # None, Peek(1) # "\n", Advance2
  PROVE  /\ CursorOK' /\ line' = line /\ pos' = pos + 2 /\ pos' \in Nat
<1> DEFINE m == Advanced(cursor)
           n == Advanced(m)
<1>1. cursor = <<line, pos, c>> /\ cursor' = <<line', pos', c'>> /\ line \in Nat /\ pos \in Nat
  BY Places DEF cursor
<1>2. /\ m = <<m[1], m[2], m[3]>>
      /\ OnChar(m) \/ (AtEnd(m) /\ m[2] = LineLen(m[1]))
      /\ m[1] = line /\ m[2] = pos + 1
  BY <1>1, AdvanceOnChar DEF IInv
<1>3. OnChar(<<line, pos + 1, Peek(1)>>)
  BY <1>1, SeenAhead DEF IInv
<1>4. OnChar(m) /\ m[3] = Peek(1)
  BY <1>1, <1>2, <1>3 DEF OnChar, AtEnd, Peek
<1> HIDE DEF m
<1>5. /\ n = <<n[1], n[2], n[3]>>
      /\ OnChar(n) \/ (AtEnd(n) /\ n[2] = LineLen(n[1]))
      /\ n[1] = line /\ n[2] = (pos + 1) + 1
  BY <1>2, <1>4, AdvanceOnChar DEF IInv
<1>6. line' = n[1] /\ pos' = n[2] /\ c' = n[3]
  BY DEF Advance2, MoveTo, m
<1> HIDE DEF n
<1>7. CursorOK'
  BY <1>1, <1>5, <1>6 DEF CursorOK, OnChar, AtEnd, NumLines, LineLen, CharAt
<1> QED BY <1>1, <1>5, <1>6, <1>7

\* Without moving, every loop can be left or entered on a character, and the loops
\* over lexemes behind the end as well.
LEMMA Stays ==
  ASSUME IInv, file' = file, UNCHANGED cursor,
         OnChar(cursor) \/ mode \notin {"next", "done", "int", "failed"}
  PROVE  CursorOK' /\ line' = line /\ pos' = pos
<1>1. OnChar(cursor) \/ (AtEnd(cursor) /\ pos = LineLen(line))
  BY Places
<1>2. cursor' = cursor /\ line' = line /\ pos' = pos /\ c' = c
  BY DEF cursor
<1> QED BY <1>1, <1>2 DEF CursorOK, OnChar, AtEnd, NumLines, LineLen, CharAt

\* The tokens stay in order when what is being read starts no earlier.
LEMMA TokensKept ==
  ASSUME IInv, file' = file, toks' = toks, line' \in Nat, Start' \in Nat,
         Before(line, Start, line', Start')
  PROVE  TokensOK'
<1>1. line \in Nat /\ Start \in Nat
  BY Places
<1>2. TokensOK
  BY DEF IInv
<1>3. \A t : InFile(t)' = InFile(t)
  BY DEF InFile, NumLines, LineLen
<1>4. Len(toks) > 0 => Before(toks[Len(toks)].line, toks[Len(toks)].pos, line', Start')
  <2>1. SUFFICES ASSUME Len(toks) > 0
                 PROVE  Before(toks[Len(toks)].line, toks[Len(toks)].pos, line', Start')
    OBVIOUS
  <2> DEFINE t == toks[Len(toks)]
  <2>2. t.line \in Nat /\ t.pos \in Nat /\ Before(t.line, t.pos, line, Start)
    BY <1>2, <2>1, ListLength DEF TokensOK
  <2> HIDE DEF t
  <2>3. Before(t.line, t.pos, line', Start')
    BY <1>1, <2>2 DEF Before
  <2> QED BY <2>3 DEF t
<1> QED BY <1>2, <1>3, <1>4 DEF TokensOK, Before

\* A token is added behind the others, no later than what is read next.
LEMMA TokenAdded ==
  ASSUME IInv, file' = file, NEW t, toks' = Append(toks, t), t.line \in Nat, t.pos \in Nat, InFile(t),
         Before(line, Start, t.line, t.pos), Before(t.line, t.pos, line', Start')
  PROVE  TokensOK'
<1>1. line \in Nat /\ Start \in Nat
  BY Places
<1>2. TokensOK /\ IsList(toks)
  BY DEF IInv, TokensOK
<1>3. /\ IsList(toks') /\ Len(toks) \in Nat /\ Len(toks') = Len(toks) + 1
      /\ \A i \in 1 .. Len(toks) : toks'[i] = toks[i]
      /\ toks'[Len(toks) + 1] = t
  BY <1>2, Grown
<1>4. \A x : InFile(x)' = InFile(x)
  BY DEF InFile, NumLines, LineLen
<1> DEFINE n == Len(toks)
<1>5. n > 0 => Before(toks[n].line, toks[n].pos, t.line, t.pos)
  <2>1. SUFFICES ASSUME n > 0 PROVE Before(toks[n].line, toks[n].pos, t.line, t.pos)
    OBVIOUS
  <2> DEFINE u == toks[n]
  <2>2. u.line \in Nat /\ u.pos \in Nat /\ Before(u.line, u.pos, line, Start)
    BY <1>2, <1>3, <2>1 DEF TokensOK
  <2> HIDE DEF u
  <2>3. Before(u.line, u.pos, t.line, t.pos)
    BY <1>1, <2>2 DEF Before
  <2> QED BY <2>3 DEF u
<1> HIDE DEF n
<1>6. ASSUME NEW i \in 1 .. n + 1
      PROVE  /\ toks'[i].line \in Nat /\ toks'[i].pos \in Nat /\ InFile(toks'[i])
             /\ i > 1 => Before(toks'[i - 1].line, toks'[i - 1].pos, toks'[i].line, toks'[i].pos)
  <2>1. CASE i = n + 1
    <3>1. toks'[i] = t
      BY <1>3, <2>1 DEF n
    <3>2. i > 1 => toks'[i - 1] = toks[n] /\ n > 0
      BY <1>3, <2>1 DEF n
    <3> QED BY <1>5, <3>1, <3>2
  <2>2. CASE i # n + 1
    <3>1. i \in 1 .. n /\ toks'[i] = toks[i]
      BY <1>3, <2>2 DEF n
    <3>2. i > 1 => i - 1 \in 1 .. n /\ toks'[i - 1] = toks[i - 1]
      BY <1>3, <3>1 DEF n
    <3> QED BY <1>2, <3>1, <3>2 DEF TokensOK, n
  <2> QED BY <2>1, <2>2
<1>7. Len(toks') = n + 1 /\ toks'[n + 1] = t
  BY <1>3 DEF n
<1> QED BY <1>3, <1>4, <1>6, <1>7 DEF TokensOK, Before

-----------------------------------------------------------------------------
\* Blanks and comments give no token.
LEMMA CommentSteps ==
  ASSUME IInv, file' = file,
         SkipBlank \/ SkipLineComment \/ BeginComment \/ CommentChar \/ EndComment \/ OpenComment
  PROVE  IInv'
<1>0. /\ file' \in Files /\ LexemeOK /\ line \in Nat /\ pos \in Nat
  BY Places DEF IInv
<1>1. CASE SkipBlank
  <2>1. OnChar(cursor) /\ Advance /\ mode = "next" /\ UNCHANGED <<mode, depth, buf, kind, toks>>
    BY <1>1, Places, CharClasses DEF SkipBlank, token
  <2>2. CursorOK' /\ line' \in Nat /\ pos' \in Nat /\ Before(line, Start, line', Start')
    BY <1>0, <2>1, Moves DEF Before, Start, Words
  <2>3. LexemeOK'
    BY <1>0, <2>1 DEF LexemeOK, Words
  <2> QED BY <1>0, <2>1, <2>2, <2>3, TokensKept DEF IInv, Start, Words
<1>2. CASE SkipLineComment
  <2>1. /\ OnChar(cursor) /\ mode = "next" /\ UNCHANGED <<mode, depth, buf, kind, toks>>
        /\ MoveTo(IF Final(line) THEN <<line, pos, NUL>> ELSE <<line + 1, 0, CharAt(line + 1, 0)>>)
    BY <1>2, Places, CharClasses DEF SkipLineComment, token
  <2>2. /\ NumLines \in Nat /\ line < NumLines /\ pos < LineLen(line)
    BY <2>1, Places DEF OnChar, cursor
  <2>3. CursorOK' /\ line' \in Nat /\ pos' \in Nat /\ Before(line, pos, line', pos')
    <3>1. CASE Final(line)
      <4>1. line' = line /\ pos' = pos /\ c' = NUL
        BY <2>1, <3>1 DEF MoveTo
      <4>2. line + 1 = NumLines /\ LineLen(line) \in Nat
        BY <1>0, <2>2, <3>1, Places DEF Final
      <4> QED BY <1>0, <2>1, <2>2, <4>1, <4>2 DEF CursorOK, NumLines, LineLen, Before
    <3>2. CASE ~Final(line)
      <4>1. line' = line + 1 /\ pos' = 0 /\ c' = CharAt(line + 1, 0)
        BY <2>1, <3>2 DEF MoveTo
      <4>2. line + 1 < NumLines /\ LineLen(line + 1) \in Nat \ {0}
        BY <1>0, <2>2, <3>2, LineFacts DEF Final, IInv
      <4>3. OnChar(<<line', pos', c'>>)
        BY <1>0, <4>1, <4>2 DEF OnChar
      <4>4. OnChar(cursor)'
        BY <4>3 DEF OnChar, cursor, NumLines, LineLen, CharAt
      <4> QED BY <1>0, <4>1, <4>4 DEF CursorOK, Before
    <3> QED BY <3>1, <3>2
  <2>4. LexemeOK'
    BY <1>0, <2>1 DEF LexemeOK, Words
  <2>5. Start = pos /\ Start' = pos'
    BY <2>1 DEF Start, Words
  <2> QED BY <1>0, <2>1, <2>3, <2>4, <2>5, TokensKept DEF IInv
<1>3. CASE BeginComment
  <2>1. /\ OnChar(cursor) /\ mode = "next" /\ UNCHANGED <<buf, kind, toks>>
        /\ c # "\n" /\ Peek(1) # "\n" /\ Peek(1) # None /\ Advance2 /\ mode' = "comment" /\ depth' = 1
    BY <1>3, Places, CharClasses DEF BeginComment, token
  <2>2. CursorOK' /\ line' \in Nat /\ pos' \in Nat /\ Before(line, Start, line', Start')
    BY <1>0, <2>1, MovesTwice DEF Before, Start, Words
  <2>3. LexemeOK'
    BY <1>0, <2>1 DEF LexemeOK, Words
  <2> QED BY <1>0, <2>1, <2>2, <2>3, TokensKept DEF IInv, Start, Words
<1>4. CASE CommentChar
  <2>1. /\ OnChar(cursor) /\ mode = "comment" /\ UNCHANGED <<mode, buf, kind, toks>> /\ Advance
    BY <1>4, Places DEF CommentChar, token, AtEnd, cursor
  <2>2. CursorOK' /\ line' \in Nat /\ pos' \in Nat /\ Before(line, Start, line', Start')
    BY <1>0, <2>1, Moves DEF Before, Start, Words
  <2>3. depth' \in Nat /\ depth' # 0
    <3>1. depth \in Nat \ {0}
      BY <1>0, <2>1 DEF LexemeOK
    <3>2. c = "]" /\ Peek(1) = "#" => depth # 1
      BY <1>4 DEF CommentChar, CommentEnds
    <3>3. depth' = CASE c = "#" /\ Peek(1) = "[" -> depth + 1
                     [] c = "]" /\ Peek(1) = "#" -> depth - 1
                     [] OTHER                    -> depth
      BY <1>4 DEF CommentChar
    <3> QED BY <3>1, <3>2, <3>3
  <2>4. LexemeOK'
    BY <1>0, <2>1, <2>3 DEF LexemeOK, Words
  <2> QED BY <1>0, <2>1, <2>2, <2>4, TokensKept DEF IInv, Start, Words
<1>5. CASE EndComment
  <2>1. /\ OnChar(cursor) /\ mode = "comment" /\ UNCHANGED <<buf, kind, toks>>
        /\ c # "\n" /\ Peek(1) # "\n" /\ Peek(1) # None /\ Advance2 /\ mode' = "next" /\ depth' = 0
    BY <1>5, Places, CharClasses DEF EndComment, CommentEnds, token
  <2>2. CursorOK' /\ line' \in Nat /\ pos' \in Nat /\ Before(line, Start, line', Start')
    BY <1>0, <2>1, MovesTwice DEF Before, Start, Words
  <2>3. LexemeOK'
    BY <1>0, <2>1 DEF LexemeOK, Words
  <2> QED BY <1>0, <2>1, <2>2, <2>3, TokensKept DEF IInv, Start, Words
<1>6. CASE OpenComment
  <2>1. /\ mode = "comment" /\ mode' = "failed" /\ UNCHANGED <<cursor, depth, buf, kind, toks>>
    BY <1>6 DEF OpenComment, Fail, token
  <2>2. CursorOK' /\ line' = line /\ pos' = pos
    BY <2>1, Stays
  <2>3. LexemeOK'
    BY <1>0, <2>1 DEF LexemeOK, Words
  <2>4. Start' = Start /\ Start = pos
    BY <2>1, <2>2 DEF Start, Words
  <2> QED BY <1>0, <2>1, <2>2, <2>3, <2>4, TokensKept DEF IInv, Before
<1> QED BY <1>1, <1>2, <1>3, <1>4, <1>5, <1>6

-----------------------------------------------------------------------------
\* A token of what is behind the cursor on its line.
LEMMA Emitted ==
  ASSUME IInv, file' = file, UNCHANGED <<cursor, depth>>,
         OnChar(cursor) \/ mode \notin {"next", "done", "int", "failed"},
         NEW type, NEW value, NEW p \in Nat, Start <= p, p <= pos, Emit(type, value, p)
  PROVE  IInv'
<1>1. CursorOK' /\ line' = line /\ pos' = pos
  BY Stays
<1> DEFINE t == Token(type, value, p)
<1>2. t.line = line /\ t.pos = p
  BY DEF Token
<1>3. /\ toks' = Append(toks, t) /\ mode' = "next" /\ buf' = <<>> /\ kind' = "ID"
  BY DEF Emit
<1>4. line \in Nat /\ pos \in Nat /\ Start \in Nat /\ NumLines > 0 => line < NumLines /\ pos <= LineLen(line)
  BY Places DEF OnChar, cursor
<1>5. InFile(t)
  <2>1. line \in Nat /\ pos \in Nat /\ (NumLines > 0 => line < NumLines /\ LineLen(line) \in Nat)
    BY Places
  <2>2. pos <= LineLen(line)
    BY <2>1, Places DEF OnChar, cursor
  <2> HIDE DEF t
  <2> QED BY <1>2, <2>1, <2>2 DEF InFile
<1>6. Start' = pos
  BY <1>1, <1>3 DEF Start, Words
<1>7. LexemeOK'
  BY <1>3, EmptyIsList DEF IInv, LexemeOK, Words
<1> HIDE DEF t
<1>8. line \in Nat /\ pos \in Nat /\ Start \in Nat
  BY Places
<1>9. Before(line, Start, t.line, t.pos) /\ Before(t.line, t.pos, line', Start')
  BY <1>1, <1>2, <1>6, <1>8 DEF Before
<1>10. TokensOK'
  BY <1>2, <1>3, <1>5, <1>8, <1>9, TokenAdded
<1> QED BY <1>1, <1>7, <1>10 DEF IInv

\* A token of one character, which is left behind.
LEMMA EmittedAndMoved ==
  ASSUME IInv, file' = file, depth' = depth, OnChar(cursor), mode \notin Words,
         NEW type, NEW value, Emit(type, value, pos), Advance
  PROVE  IInv'
<1>1. CursorOK' /\ line' \in Nat /\ pos' \in Nat /\ Before(line, pos, line', pos')
  BY Places, Moves DEF Before
<1> DEFINE t == Token(type, value, pos)
<1>2. t.line = line /\ t.pos = pos
  BY DEF Token
<1>3. /\ toks' = Append(toks, t) /\ mode' = "next" /\ buf' = <<>> /\ kind' = "ID"
  BY DEF Emit
<1>4. Start = pos /\ Start' = pos'
  BY <1>3 DEF Start, Words
<1>5. line \in Nat /\ pos \in Nat /\ line < NumLines /\ pos <= LineLen(line)
  BY Places DEF OnChar, cursor
<1> HIDE DEF t
<1>6. InFile(t) /\ Before(line, Start, t.line, t.pos) /\ Before(t.line, t.pos, line', Start')
  BY <1>1, <1>2, <1>4, <1>5 DEF InFile, Before
<1>7. LexemeOK'
  BY <1>3, EmptyIsList DEF IInv, LexemeOK, Words
<1>8. TokensOK'
  BY <1>2, <1>3, <1>5, <1>6, TokenAdded
<1> QED BY <1>1, <1>7, <1>8 DEF IInv

\* A character goes into the buffer of a word, or not.
LEMMA WordGrows ==
  ASSUME IInv, file' = file, OnChar(cursor), c # "\n", mode \in Words, Advance, mode' = mode,
         depth' = depth, toks' = toks, IsList(buf'), buf' # <<>>,
         kind' \in {"ID", "INT", "FLOAT"} \cup DOMAIN PrefixDigits
  PROVE  IInv'
<1>1. CursorOK' /\ line' = line /\ pos' = pos + 1 /\ line \in Nat /\ pos \in Nat /\ Start \in Nat /\ Start <= pos
  BY Places, Moves
<1>2. Start' = (pos + 1) - 1 /\ Before(line, Start, line', Start')
  BY <1>1 DEF Start, Before
<1>3. LexemeOK'
  BY <1>1 DEF IInv, LexemeOK, Words
<1>4. TokensOK'
  BY <1>1, <1>2, TokensKept
<1> QED BY <1>1, <1>3, <1>4 DEF IInv

\* A lexeme is begun, or the lexer gives up, on the character it looks at.
LEMMA Turns ==
  ASSUME IInv, file' = file, UNCHANGED <<cursor, depth, toks>>,
         OnChar(cursor) \/ mode \notin {"next", "done", "int", "failed"}, LexemeOK',
         mode' = "failed" \/ (mode' \in Words /\ mode = "next" /\ buf' = <<>>)
  PROVE  IInv'
<1>1. CursorOK' /\ line' = line /\ pos' = pos /\ line \in Nat /\ pos \in Nat /\ Start \in Nat /\ Start <= pos
  BY Places, Stays
<1>2. Start' = pos
  BY <1>1 DEF Start, Words
<1>3. TokensOK'
  BY <1>1, <1>2, TokensKept DEF Before
<1> QED BY <1>1, <1>3 DEF IInv

\* Identifiers, keywords and macro calls.
LEMMA WordSteps ==
  ASSUME IInv, file' = file, BeginId \/ IdChar \/ EndId \/ EndMacroCall
  PROVE  IInv'
<1>0. LexemeOK /\ IsList(buf) /\ line \in Nat /\ pos \in Nat
  BY Places DEF IInv, LexemeOK
<1>1. CASE BeginId
  <2>1. c \in Alphas \cup {"_"} /\ mode = "next" /\ mode' = "id" /\ UNCHANGED <<cursor, depth, buf, kind, toks>>
    BY <1>1 DEF BeginId, StartsId, token
  <2>2. OnChar(cursor) /\ c' = c /\ c \in IdChars
    BY <2>1, Places, CharClasses DEF cursor, IdChars
  <2>3. LexemeOK' /\ buf' = <<>>
    BY <1>0, <2>1, <2>2 DEF LexemeOK, Words
  <2> QED BY <2>1, <2>2, <2>3, Turns DEF Words
<1>2. CASE IdChar
  <2>1. /\ mode = "id" /\ c \in IdChars /\ buf' = Append(buf, c) /\ Advance
        /\ UNCHANGED <<mode, depth, kind, toks>>
    BY <1>2 DEF IdChar
  <2>2. OnChar(cursor) /\ c # "\n"
    BY <2>1, Places, CharClasses
  <2>3. IsList(buf') /\ buf' # <<>>
    BY <1>0, <2>1, Grown
  <2>4. kind' \in {"ID", "INT", "FLOAT"} \cup DOMAIN PrefixDigits
    BY <1>0, <2>1 DEF LexemeOK
  <2> QED BY <2>1, <2>2, <2>3, <2>4, WordGrows DEF Words
<1>3. CASE EndId
  <2>1. /\ mode = "id" /\ c \notin IdChars /\ UNCHANGED <<cursor, depth>>
        /\ Emit(IF buf \in Keywords THEN "KEYWORD" ELSE "ID", buf, pos - 1)
    BY <1>3 DEF EndId
  <2>2. buf # <<>> /\ pos > 0
    BY <1>0, <2>1 DEF LexemeOK, Words
  <2>3. pos - 1 \in Nat /\ Start = pos - 1 /\ pos - 1 <= pos
    BY <1>0, <2>1, <2>2 DEF Start, Words
  <2>4. Start <= pos - 1 /\ mode \notin {"next", "done", "int", "failed"}
    BY <2>1, <2>3
  <2> QED BY <2>1, <2>3, <2>4, Emitted
<1>4. CASE EndMacroCall
  <2> DEFINE t == [type |-> "MACRO_CALL", value |-> buf, line |-> line', pos |-> pos' - 2]
  <2>1. /\ mode = "id" /\ c = "!" /\ Advance /\ toks' = Append(toks, t)
        /\ mode' = "next" /\ buf' = <<>> /\ kind' = "ID" /\ depth' = depth
    BY <1>4 DEF EndMacroCall
  <2>2. OnChar(cursor) /\ c # "\n" /\ "!" \notin IdChars
    BY <2>1, Places, CharClasses DEF IdChars, Alphas, Digits
  <2>3. buf # <<>> /\ pos > 0
    BY <1>0, <2>1, <2>2 DEF LexemeOK, Words
  <2>4. CursorOK' /\ line' = line /\ pos' = pos + 1 /\ line < NumLines /\ pos' <= LineLen(line')
    BY <2>1, <2>2, Moves
  <2>5. LineLen(line) \in Nat
    BY <1>0, <2>4, LineFacts DEF IInv
  <2>6. t.line = line /\ t.pos = pos - 1 /\ pos - 1 \in Nat
    BY <1>0, <2>3, <2>4
  <2>7. Start = pos - 1 /\ Start' = pos + 1
    BY <2>1, <2>3, <2>4 DEF Start, Words
  <2> HIDE DEF t
  <2>8. InFile(t) /\ Before(line, Start, t.line, t.pos) /\ Before(t.line, t.pos, line', Start')
    BY <1>0, <2>4, <2>5, <2>6, <2>7 DEF InFile, Before
  <2>9. LexemeOK'
    BY <1>0, <2>1, EmptyIsList DEF LexemeOK, Words
  <2>10. TokensOK'
    BY <1>0, <2>1, <2>6, <2>8, TokenAdded
  <2> QED BY <2>4, <2>9, <2>10 DEF IInv
<1> QED BY <1>1, <1>2, <1>3, <1>4

\* Numbers.
LEMMA NumberSteps ==
  ASSUME IInv, file' = file,
         \/ BeginPrefixed \/ IntChar \/ EndInt
         \/ BeginDecimal \/ DecimalChar \/ DecimalRange \/ DecimalPoint \/ EndDecimal
  PROVE  IInv'
<1>0. LexemeOK /\ IsList(buf) /\ line \in Nat /\ pos \in Nat /\ Start <= pos /\ CursorOK
  BY Places DEF IInv, LexemeOK
<1>1. CASE BeginPrefixed
  <2>1. /\ mode = "next" /\ c = "0" /\ Peek(1) \in DOMAIN PrefixDigits /\ kind' = Peek(1) /\ Advance2
        /\ mode' = "int" /\ UNCHANGED <<depth, buf, toks>>
    BY <1>1 DEF BeginPrefixed
  <2>2. OnChar(cursor) /\ c # "\n" /\ Peek(1) # None /\ Peek(1) # "\n"
    BY <2>1, Places, CharClasses DEF Digits, None
  <2>3. CursorOK' /\ line' = line /\ pos' = pos + 2 /\ pos' \in Nat
    BY <2>1, <2>2, MovesTwice
  <2>4. LexemeOK'
    BY <1>0, <2>1 DEF LexemeOK, Words
  <2>5. Start = pos /\ Start' = pos'
    BY <2>1 DEF Start, Words
  <2>6. TokensOK'
    BY <1>0, <2>1, <2>3, <2>5, TokensKept DEF Before
  <2> QED BY <2>3, <2>4, <2>6 DEF IInv
<1>2. CASE IntChar
  <2>1. /\ mode = "int" /\ buf' = (IF c \in {"_", NUL} THEN buf ELSE Append(buf, c)) /\ Advance
        /\ UNCHANGED <<mode, depth, kind, toks>>
    BY <1>2 DEF IntChar
  <2>2. IsList(buf')
    BY <1>0, <2>1, Grown
  <2>3. LexemeOK'
    BY <1>0, <2>1, <2>2 DEF LexemeOK, Words
  <2>4. Start = pos /\ Start' = pos'
    BY <2>1 DEF Start, Words
  <2>5. CursorOK' /\ line' \in Nat /\ pos' \in Nat /\ Before(line, pos, line', pos')
    <3>0. Advance /\ mode' = mode /\ mode = "int"
      BY <2>1
    <3>1. CASE OnChar(cursor)
      BY <1>0, <3>0, <3>1, Moves DEF Before
    <3>2. CASE AtEnd(cursor)
      <4> DEFINE n == Advanced(cursor)
      <4>1. n = <<line, n[2], NUL>> /\ n[2] \in Nat /\ n[2] >= pos /\ AtEnd(n)
        BY <3>2, AdvanceAtEnd DEF IInv, cursor
      <4>2. line' = n[1] /\ pos' = n[2] /\ c' = n[3]
        BY <2>1 DEF Advance, MoveTo
      <4> HIDE DEF n
      <4>3. AtEnd(cursor)'
        BY <4>1, <4>2 DEF AtEnd, cursor, NumLines, LineLen
      <4>4. line' = line
        BY <4>1, <4>2
      <4>5. CursorOK'
        BY <2>1, <4>3 DEF CursorOK
      <4> QED BY <1>0, <4>1, <4>2, <4>4, <4>5 DEF Before
    <3> QED BY <1>0, <2>1, <3>1, <3>2 DEF CursorOK
  <2> QED BY <2>1, <2>3, <2>4, <2>5, TokensKept DEF IInv
<1>3. CASE EndInt
  <2>1. /\ mode = "int" /\ c \notin PrefixDigits[kind] /\ UNCHANGED <<cursor, depth>>
        /\ Emit("INT", <<"0", kind>> \o buf, pos)
    BY <1>3 DEF EndInt
  <2>2. c # NUL
    <3>1. kind = "x" \/ kind = "b" \/ kind = "o"
      BY <1>0, <2>1, CharClasses DEF LexemeOK
    <3>2. NUL \in PrefixDigits["x"] /\ NUL \in PrefixDigits["b"] /\ NUL \in PrefixDigits["o"]
      BY DEF PrefixDigits
    <3> QED BY <2>1, <3>1, <3>2
  <2>3. OnChar(cursor)
    BY <1>0, <2>1, <2>2 DEF CursorOK, AtEnd, cursor
  <2> QED BY <1>0, <2>1, <2>3, Emitted
<1>4. CASE BeginDecimal
  <2>1. /\ mode = "next" /\ c \in Digits /\ mode' = "dec" /\ kind' = "INT" /\ UNCHANGED <<cursor, depth, buf, toks>>
    BY <1>4 DEF BeginDecimal
  <2>2. OnChar(cursor) /\ c' = c
    BY <2>1, Places, CharClasses DEF cursor
  <2>3. LexemeOK' /\ buf' = <<>>
    BY <1>0, <2>1, <2>2 DEF LexemeOK, Words
  <2> QED BY <2>1, <2>2, <2>3, Turns DEF Words
<1>5. CASE DecimalChar
  <2>1. /\ mode = "dec" /\ c \in Digits \cup {"_"} /\ buf' = (IF c = "_" THEN buf ELSE Append(buf, c))
        /\ Advance /\ UNCHANGED <<mode, depth, kind, toks>>
    BY <1>5 DEF DecimalChar
  <2>2. OnChar(cursor) /\ c # "\n"
    BY <2>1, Places, CharClasses
  <2>3. c = "_" => buf # <<>>
    BY <1>0, <2>1 DEF LexemeOK, Words, Digits
  <2>4. IsList(buf') /\ buf' # <<>>
    BY <1>0, <2>1, <2>3, Grown
  <2>5. kind' \in {"ID", "INT", "FLOAT"} \cup DOMAIN PrefixDigits
    BY <1>0, <2>1 DEF LexemeOK
  <2> QED BY <2>1, <2>2, <2>4, <2>5, WordGrows DEF Words
<1>6. CASE DecimalRange
  <2>1. /\ mode = "dec" /\ UNCHANGED <<cursor, depth>> /\ Emit(kind, Append(buf, "."), pos)
    BY <1>6 DEF DecimalRange
  <2> QED BY <1>0, <2>1, Emitted
<1>7. CASE DecimalPoint
  <2>1. mode = "dec" /\ c = "." /\ OnChar(cursor) /\ c # "\n"
    BY <1>7, Places, CharClasses DEF DecimalPoint
  <2>2. CASE kind = "FLOAT"
    <3>1. mode' = "failed" /\ UNCHANGED <<cursor, depth, buf, kind, toks>>
      BY <1>7, <2>2 DEF DecimalPoint, Fail, token
    <3>2. LexemeOK'
      BY <1>0, <3>1 DEF LexemeOK, Words
    <3> QED BY <2>1, <3>1, <3>2, Turns
  <2>3. CASE kind # "FLOAT"
    <3>1. buf' = Append(buf, ".") /\ kind' = "FLOAT" /\ Advance /\ UNCHANGED <<mode, depth, toks>>
      BY <1>7, <2>3 DEF DecimalPoint
    <3>2. IsList(buf') /\ buf' # <<>>
      BY <1>0, <3>1, Grown
    <3> QED BY <2>1, <3>1, <3>2, WordGrows DEF Words
  <2> QED BY <2>2, <2>3
<1>8. CASE EndDecimal
  <2>1. /\ mode = "dec" /\ c \notin Digits /\ UNCHANGED <<cursor, depth>> /\ Emit(kind, buf, pos - 1)
    BY <1>8 DEF EndDecimal
  <2>2. buf # <<>> /\ pos > 0
    BY <1>0, <2>1 DEF LexemeOK, Words
  <2>3. pos - 1 \in Nat /\ Start = pos - 1 /\ pos - 1 <= pos
    BY <1>0, <2>1, <2>2 DEF Start, Words
  <2>4. Start <= pos - 1 /\ mode \notin {"next", "done", "int", "failed"}
    BY <2>1, <2>3
  <2> QED BY <2>1, <2>3, <2>4, Emitted
<1> QED BY <1>1, <1>2, <1>3, <1>4, <1>5, <1>6, <1>7, <1>8

\* Symbols, operators, strings, characters, the end and what the lexer does not know.
LEMMA OperatorSteps ==
  ASSUME IInv, file' = file,
         LexSymbol \/ BeginOperator \/ OperatorChar \/ EndOperator \/ LexEnd \/ Unknown
  PROVE  IInv'
<1>0. LexemeOK /\ IsList(buf) /\ line \in Nat /\ pos \in Nat /\ Start \in Nat /\ Start <= pos /\ CursorOK
  BY Places DEF IInv, LexemeOK
<1>1. CASE LexSymbol
  <2>1. mode = "next" /\ c \in Symbols /\ Emit("SYMBOL", <<c>>, pos) /\ Advance /\ depth' = depth
    BY <1>1 DEF LexSymbol
  <2>2. OnChar(cursor)
    BY <2>1, Places, CharClasses
  <2> QED BY <2>1, <2>2, EmittedAndMoved DEF Words
<1>2. CASE BeginOperator
  <2>1. mode = "next" /\ c \in OpChars /\ mode' = "op" /\ UNCHANGED <<cursor, depth, buf, kind, toks>>
    BY <1>2 DEF BeginOperator, token
  <2>2. OnChar(cursor) /\ c' = c
    BY <2>1, Places, CharClasses DEF cursor
  <2>3. LexemeOK' /\ buf' = <<>>
    BY <1>0, <2>1, <2>2 DEF LexemeOK, Words
  <2> QED BY <2>1, <2>2, <2>3, Turns DEF Words
<1>3. CASE OperatorChar
  <2>1. /\ mode = "op" /\ c \in OpChars /\ buf' = Append(buf, c) /\ Advance
        /\ UNCHANGED <<mode, depth, kind, toks>>
    BY <1>3 DEF OperatorChar
  <2>2. OnChar(cursor) /\ c # "\n"
    BY <2>1, Places, CharClasses
  <2>3. IsList(buf') /\ buf' # <<>>
    BY <1>0, <2>1, Grown
  <2>4. kind' \in {"ID", "INT", "FLOAT"} \cup DOMAIN PrefixDigits
    BY <1>0, <2>1 DEF LexemeOK
  <2> QED BY <2>1, <2>2, <2>3, <2>4, WordGrows DEF Words
<1>4. CASE EndOperator
  <2>1. /\ mode = "op" /\ c \notin OpChars /\ UNCHANGED <<cursor, depth>>
        /\ Emit(IF buf \in DOMAIN Overrides THEN Overrides[buf] ELSE "OPERATOR", buf, pos - 1)
    BY <1>4 DEF EndOperator
  <2>2. buf # <<>> /\ pos > 0
    BY <1>0, <2>1 DEF LexemeOK, Words
  <2>3. pos - 1 \in Nat /\ Start = pos - 1 /\ pos - 1 <= pos
    BY <1>0, <2>1, <2>2 DEF Start, Words
  <2>4. Start <= pos - 1 /\ mode \notin {"next", "done", "int", "failed"}
    BY <2>1, <2>3
  <2> QED BY <2>1, <2>3, <2>4, Emitted
<1>5. CASE LexEnd
  <2> DEFINE t == Token("EOF", <<>>, pos)
  <2>1. /\ mode = "next" /\ mode' = "done" /\ toks' = Append(toks, t) /\ UNCHANGED <<cursor, depth, buf, kind>>
    BY <1>5 DEF LexEnd
  <2>2. t.line = line /\ t.pos = pos
    BY DEF Token
  <2>3. line' = line /\ pos' = pos /\ c' = c
    BY <2>1 DEF cursor
  <2>4. CursorOK'
    BY <1>0, <2>1, <2>3 DEF CursorOK, OnChar, AtEnd, cursor, NumLines, LineLen, CharAt
  <2>5. NumLines > 0 => line < NumLines /\ pos <= LineLen(line)
    <3>1. NumLines \in Nat /\ (NumLines > 0 => line < NumLines /\ LineLen(line) \in Nat)
      BY Places
    <3> QED BY <1>0, <2>1, <3>1 DEF CursorOK, OnChar, cursor
  <2>6. Start = pos /\ Start' = pos
    BY <2>1, <2>3 DEF Start, Words
  <2> HIDE DEF t
  <2>7. InFile(t) /\ Before(line, Start, t.line, t.pos) /\ Before(t.line, t.pos, line', Start')
    BY <1>0, <2>2, <2>3, <2>5, <2>6 DEF InFile, Before
  <2>8. LexemeOK'
    BY <1>0, <2>1 DEF LexemeOK, Words
  <2>9. TokensOK'
    BY <1>0, <2>1, <2>2, <2>7, TokenAdded
  <2> QED BY <2>4, <2>8, <2>9 DEF IInv
<1>6. CASE Unknown
  <2>1. /\ mode = "next" /\ c # NUL /\ c # None /\ mode' = "failed" /\ UNCHANGED <<cursor, depth, buf, kind, toks>>
    BY <1>6 DEF Unknown, Fail, token
  <2>2. OnChar(cursor)
    BY <2>1, Places
  <2>3. LexemeOK'
    BY <1>0, <2>1 DEF LexemeOK, Words
  <2> QED BY <2>1, <2>2, <2>3, Turns
<1> QED BY <1>1, <1>2, <1>3, <1>4, <1>5, <1>6

\* Strings may hold newlines, and end the lexer at the end of the file.
LEMMA StringSteps ==
  ASSUME IInv, file' = file, BeginString \/ StringChar \/ EndString
  PROVE  IInv'
<1>0. LexemeOK /\ IsList(buf) /\ line \in Nat /\ pos \in Nat /\ CursorOK
  BY Places DEF IInv, LexemeOK
<1>1. CASE BeginString
  <2>1. mode = "next" /\ mode' = "str" /\ Advance /\ UNCHANGED <<depth, buf, kind, toks>>
    BY <1>1 DEF BeginString, token
  <2>2. OnChar(cursor)
    BY <1>1, Places, CharClasses DEF BeginString
  <2>3. CursorOK' /\ line' \in Nat /\ pos' \in Nat /\ Before(line, Start, line', Start')
    BY <1>0, <2>1, <2>2, Moves DEF Before, Start, Words
  <2>4. LexemeOK'
    BY <1>0, <2>1 DEF LexemeOK, Words
  <2> QED BY <2>1, <2>3, <2>4, TokensKept DEF IInv, Start, Words
<1>2. CASE StringChar
  <2>1. /\ mode = "str" /\ buf' = Append(buf, c) /\ Advance /\ mode' = (IF c' = NUL THEN "failed" ELSE mode)
        /\ UNCHANGED <<depth, kind, toks>>
    BY <1>2 DEF StringChar
  <2>2. IsList(buf')
    BY <1>0, <2>1, Grown
  <2>3. LexemeOK'
    BY <1>0, <2>1, <2>2 DEF LexemeOK, Words
  <2>4. Start = pos /\ Start' = pos'
    BY <2>1 DEF Start, Words
  <2>5. CursorOK' /\ line' \in Nat /\ pos' \in Nat /\ Before(line, pos, line', pos')
    <3>0. Advance /\ mode = "str" /\ (c' = NUL => mode' = "failed")
      BY <2>1
    <3>1. CASE OnChar(cursor)
      BY <1>0, <3>0, <3>1, Moves DEF Before
    <3>2. CASE AtEnd(cursor)
      <4> DEFINE n == Advanced(cursor)
      <4>1. n = <<line, n[2], NUL>> /\ n[2] \in Nat /\ n[2] >= pos /\ AtEnd(n)
        BY <3>2, AdvanceAtEnd DEF IInv, cursor
      <4>2. line' = n[1] /\ pos' = n[2] /\ c' = n[3]
        BY <3>0 DEF Advance, MoveTo
      <4> HIDE DEF n
      <4>3. AtEnd(cursor)'
        BY <4>1, <4>2 DEF AtEnd, cursor, NumLines, LineLen
      <4>4. line' = line /\ c' = NUL
        BY <4>1, <4>2
      <4>5. CursorOK'
        BY <3>0, <4>3, <4>4 DEF CursorOK
      <4> QED BY <1>0, <4>1, <4>2, <4>4, <4>5 DEF Before
    <3>3. OnChar(cursor) \/ AtEnd(cursor)
      BY <1>0, <3>0 DEF CursorOK
    <3> QED BY <3>1, <3>2, <3>3
  <2> QED BY <2>1, <2>3, <2>4, <2>5, TokensKept DEF IInv
<1>3. CASE EndString
  <2> DEFINE t == [type |-> "STRING", value |-> buf, line |-> line', pos |-> pos']
  <2>1. /\ mode = "str" /\ Advance /\ toks' = Append(toks, t)
        /\ mode' = "next" /\ buf' = <<>> /\ kind' = "ID" /\ depth' = depth
    BY <1>3 DEF EndString
  <2>2. OnChar(cursor)
    BY <1>3, Places, CharClasses DEF EndString, StringEnds
  <2>3. /\ CursorOK' /\ line' \in Nat /\ pos' \in Nat /\ line' < NumLines /\ pos' <= LineLen(line')
        /\ Before(line, pos, line', pos')
    BY <1>0, <2>1, <2>2, Moves DEF Before
  <2>4. t.line = line' /\ t.pos = pos'
    OBVIOUS
  <2>5. Start = pos /\ Start' = pos'
    BY <2>1 DEF Start, Words
  <2> HIDE DEF t
  <2>6. InFile(t) /\ Before(line, Start, t.line, t.pos) /\ Before(t.line, t.pos, line', Start')
    BY <2>3, <2>4, <2>5 DEF InFile, Before
  <2>7. LexemeOK'
    BY <1>0, <2>1, EmptyIsList DEF LexemeOK, Words
  <2>8. TokensOK'
    BY <2>1, <2>3, <2>4, <2>6, TokenAdded
  <2> QED BY <2>3, <2>7, <2>8 DEF IInv
<1> QED BY <1>1, <1>2, <1>3

\* A character is where its quote is, or behind; the closing quote is a character of
\* the file.
LEMMA CharSteps ==
  ASSUME IInv, file' = file, BeginChar \/ CArray \/ CharLiteral \/ EmptyChar
  PROVE  IInv'
<1>0. /\ LexemeOK /\ IsList(buf) /\ line \in Nat /\ pos \in Nat /\ CursorOK /\ file \in Files
      /\ NumLines \in Nat
  BY Places DEF IInv, LexemeOK
<1>1. CASE BeginChar
  <2>1. mode = "next" /\ mode' = "char" /\ c = "'" /\ Advance /\ UNCHANGED <<depth, buf, kind, toks>>
    BY <1>1 DEF BeginChar, token
  <2>2. OnChar(cursor)
    BY <2>1, Places, CharClasses
  <2>3. CursorOK' /\ line' \in Nat /\ pos' \in Nat /\ Before(line, Start, line', Start')
    BY <1>0, <2>1, <2>2, Moves DEF Before, Start, Words
  <2>4. LexemeOK'
    BY <1>0, <2>1 DEF LexemeOK, Words
  <2> QED BY <2>1, <2>3, <2>4, TokensKept DEF IInv, Start, Words
<1>2. CASE CArray
  <2>1. mode = "char" /\ c = "c" /\ Emit("C_ARRAY", <<"'", c>>, pos) /\ Advance /\ depth' = depth
    BY <1>2 DEF CArray
  <2>2. OnChar(cursor)
    BY <2>1, Places, CharClasses DEF Alphas
  <2> QED BY <2>1, <2>2, EmittedAndMoved DEF Words
<1>3. CASE EmptyChar \/ (CharLiteral /\ Fail)
  <2>1. mode = "char" /\ mode' = "failed" /\ UNCHANGED <<cursor, depth, buf, kind, toks>>
    BY <1>3 DEF EmptyChar, CharLiteral, Fail, token
  <2>2. LexemeOK'
    BY <1>0, <2>1 DEF LexemeOK, Words
  <2> QED BY <2>1, <2>2, Turns
<1>4. CASE CharLiteral /\ ~Fail
  <2> DEFINE escape == c = "\\"
             at == IF escape THEN Advanced(cursor) ELSE cursor
             end == Advanced(at)
             n == Advanced(end)
             t == [type |-> "CHAR", value |-> IF escape THEN <<c, at[3]>> ELSE <<c>>,
                   line |-> at[1], pos |-> at[2]]
  <2>1. /\ mode = "char" /\ end[3] = "'" /\ MoveTo(n) /\ toks' = Append(toks, t)
        /\ mode' = "next" /\ UNCHANGED <<buf, kind, depth>>
    BY <1>4 DEF CharLiteral, CharEnd
  <2>2. OnChar(cursor) \/ AtEnd(cursor)
    BY <2>1, Places
  <2>3. cursor[1] = line /\ cursor[2] = pos /\ NUL # "'"
    BY DEF cursor, NUL
  <2>4. OnChar(at) /\ at[1] \in Nat /\ at[2] \in Nat /\ Before(line, pos, at[1], at[2])
    <3>1. ~AtEnd(at)
      <4>1. SUFFICES ASSUME AtEnd(at) PROVE FALSE
        OBVIOUS
      <4> HIDE DEF at
      <4>2. end = <<at[1], end[2], NUL>>
        BY <1>0, <4>1, AdvanceAtEnd
      <4> HIDE DEF end
      <4> QED BY <2>1, <2>3, <4>2
    <3>2. CASE escape
      <4>1. at = Advanced(cursor)
        BY <3>2
      <4> HIDE DEF at
      <4>2. ~AtEnd(cursor)
        BY <1>0, <3>1, <4>1, AdvanceAtEnd
      <4> QED BY <1>0, <2>2, <2>3, <3>1, <4>1, <4>2, AdvanceOnChar DEF Before
    <3>3. CASE ~escape
      <4>1. at = cursor
        BY <3>3
      <4> HIDE DEF at
      <4> QED BY <1>0, <2>2, <2>3, <3>1, <4>1 DEF Before
    <3> QED BY <3>2, <3>3
  <2>5. t.line = at[1] /\ t.pos = at[2]
    OBVIOUS
  <2> HIDE DEF at, t
  <2>6. OnChar(end) /\ end[1] \in Nat /\ end[2] \in Nat /\ Before(at[1], at[2], end[1], end[2])
    <3>1. ~AtEnd(end)
      <4> HIDE DEF end
      <4> QED BY <2>1, <2>3 DEF AtEnd
    <3> QED BY <1>0, <2>4, <3>1, AdvanceOnChar DEF Before
  <2> HIDE DEF end
  <2>7. /\ n = <<n[1], n[2], n[3]>> /\ n[1] \in Nat /\ n[2] \in Nat
        /\ OnChar(n) \/ (AtEnd(n) /\ n[2] = LineLen(n[1]))
        /\ Before(end[1], end[2], n[1], n[2])
    BY <1>0, <2>6, AdvanceOnChar DEF Before
  <2>8. line' = n[1] /\ pos' = n[2] /\ c' = n[3]
    BY <2>1 DEF MoveTo
  <2> HIDE DEF n
  <2>9. CursorOK'
    BY <2>7, <2>8 DEF CursorOK, OnChar, AtEnd, cursor, NumLines, LineLen, CharAt
  <2>10. Start = pos /\ Start' = pos'
    BY <2>1 DEF Start, Words
  <2>11. InFile(t)
    <3>1. at[1] < NumLines /\ at[2] < LineLen(at[1]) /\ LineLen(at[1]) \in Nat
      BY <1>0, <2>4, LineFacts DEF OnChar
    <3> QED BY <2>4, <2>5, <3>1 DEF InFile
  <2>12. Before(line, Start, t.line, t.pos) /\ Before(t.line, t.pos, line', Start')
    BY <1>0, <2>4, <2>5, <2>6, <2>7, <2>8, <2>10 DEF Before
  <2>13. LexemeOK'
    BY <1>0, <2>1 DEF LexemeOK, Words
  <2>14. TokensOK'
    BY <2>1, <2>4, <2>5, <2>11, <2>12, TokenAdded
  <2> QED BY <2>9, <2>13, <2>14 DEF IInv
<1> QED BY <1>1, <1>2, <1>3, <1>4

-----------------------------------------------------------------------------
\* The lexer starts on the first character, if there is one.
LEMMA InitOK == Init => IInv
<1> SUFFICES ASSUME Init PROVE IInv
  OBVIOUS
<1>1. /\ file \in Files /\ line = 0 /\ pos = 0 /\ c = CharAt(0, 0)
      /\ mode = "next" /\ depth = 0 /\ buf = <<>> /\ kind = "ID" /\ toks = <<>>
  BY DEF Init
<1>2. NumLines \in Nat /\ (0 < NumLines => LineLen(0) \in Nat \ {0})
  BY <1>1, LineFacts
<1>3. CursorOK
  <2>1. CASE NumLines = 0
    BY <1>1, <2>1 DEF CursorOK, CharAt
  <2>2. CASE NumLines # 0
    BY <1>1, <1>2, <2>2 DEF CursorOK, OnChar, cursor
  <2> QED BY <2>1, <2>2
<1>4. LexemeOK
  BY <1>1, EmptyIsList DEF LexemeOK, Words
<1>5. TokensOK
  BY <1>1, EmptyIsList DEF TokensOK
<1> QED BY <1>1, <1>3, <1>4, <1>5 DEF IInv

\* Every step of a loop keeps it.
LEMMA NextOK == IInv /\ [Next]_vars => IInv'
<1> SUFFICES ASSUME IInv, [Next]_vars PROVE IInv'
  OBVIOUS
<1>1. CASE UNCHANGED vars
  BY <1>1 DEF vars, IInv, CursorOK, LexemeOK, TokensOK, OnChar, AtEnd, cursor, Start, InFile, NumLines,
     LineLen, CharAt, Before
<1>2. CASE Next
  BY <1>2, CommentSteps, WordSteps, NumberSteps, OperatorSteps, StringSteps, CharSteps DEF Next
<1> QED BY <1>1, <1>2

\* The lexer of lexer.c keeps its cursor, its buffer and its tokens in step, whatever
\* the file is.
THEOREM LexerInvariant == Spec => []IInv
<1> QED BY InitOK, NextOK, PTL DEF Spec

\* Whatever the file is and whatever loop of lexer.c reads it, the cached character is the
\* one under the cursor, or NUL behind the last line; and the cursor leaves its line only in
\* a number with a base that ends the file, and in a string that is not closed.
THEOREM LexerTypeCorrect == Spec => []TypeOK
<1>1. IInv => TypeOK
  <2> SUFFICES ASSUME IInv PROVE TypeOK
    OBVIOUS
  <2>1. NumLines \in Nat /\ line \in Nat /\ pos \in Nat /\ LexemeOK
    BY Places DEF IInv
  <2>2. /\ \/ NumLines = 0 /\ c = None
           \/ line < NumLines /\ pos < LineLen(line) /\ c = CharAt(line, pos)
           \/ line < NumLines /\ Final(line) /\ c = NUL
        /\ pos > LineLen(line) => mode \in {"int", "failed"}
    <3>1. NumLines > 0 => line < NumLines /\ LineLen(line) \in Nat \ {0}
      BY <2>1, Places, LineFacts DEF IInv
    <3>2. CASE NumLines = 0 /\ line = 0 /\ pos = 0 /\ c = None
      BY <3>2 DEF LineLen
    <3>3. CASE OnChar(cursor)
      <4>1. line < NumLines /\ pos < LineLen(line) /\ c = CharAt(line, pos)
        BY <3>3 DEF OnChar, cursor
      <4> QED BY <2>1, <3>1, <4>1
    <3>4. CASE AtEnd(cursor) /\ (mode \notin {"int", "failed"} => pos = LineLen(line))
      <4>1. line + 1 = NumLines /\ c = NUL
        BY <3>4 DEF AtEnd, cursor
      <4> QED BY <2>1, <3>1, <3>4, <4>1 DEF Final
    <3>5. CASE line + 1 = NumLines /\ pos \in 0 .. LineLen(line) /\ c = NUL
      BY <2>1, <3>1, <3>5 DEF Final
    <3> QED BY <3>2, <3>3, <3>4, <3>5 DEF IInv, CursorOK
  <2>3. \A i \in DOMAIN toks : toks[i].line \in Nat /\ toks[i].pos \in Nat
    BY ListLength DEF IInv, TokensOK
  <2> QED BY <2>1, <2>2, <2>3 DEF LexemeOK, TypeOK
<1> QED BY <1>1, LexerInvariant, PTL

\* The error handler finds the line of every token lexer_pass returns, and the place it
\* underlines on it; the parser gets the tokens in the order of the text.
THEOREM TokensStandInTheFile == Spec => []TokensAreInTheFile
<1>1. IInv => TokensAreInTheFile
  <2> SUFFICES ASSUME IInv PROVE TokensAreInTheFile
    OBVIOUS
  <2>1. DOMAIN toks = 1 .. Len(toks) /\ Len(toks) \in Nat /\ TokensOK
    BY ListLength DEF IInv, TokensOK
  <2> QED BY <2>1 DEF TokensOK, InFile, Before, TokensAreInTheFile
<1> QED BY <1>1, LexerInvariant, PTL
=============================================================================
