------------------------- MODULE PreprocessorProofs -------------------------
(***************************************************************************)
(* Proofs about module Preprocessor, for any files, any macros and any     *)
(* bound on the depth of calls.                                            *)
(*                                                                         *)
(* What stage 1 has followed is told by how far its loop has come: the     *)
(* inductive invariant says that every import statement before the index   *)
(* is followed, and that nothing else is.  That the definitions of stage 2 *)
(* end before their lists do needs the EOF that stage 1 put behind them.   *)
(* What the files say that are read is a second invariant (SourceOK).      *)
(* In stage 3 lists share cells, which may be written or freed in the      *)
(* middle of the expansion: what is claimed of dest is claimed of cells.   *)
(***************************************************************************)
EXTENDS Preprocessor, SequenceFacts

\* A set of numbers that is not empty has a least one.
LEMMA Least ==
  ASSUME NEW S, S \subseteq Nat, S # {}
  PROVE  First(S) \in S /\ \A m \in S : First(S) <= m
<1> DEFINE T == {n \in Nat : \A m \in S : n <= m}
<1>1. \E n \in S : \A m \in S : n <= m
  <2>1. SUFFICES ASSUME \A n \in S : \E m \in S : ~(n <= m) PROVE FALSE
    OBVIOUS
  <2>2. 0 \in T
    OBVIOUS
  <2>3. ASSUME NEW n \in Nat, n \in T PROVE n + 1 \in T
    <3>1. n \notin S
      BY <2>1, <2>3
    <3> QED BY <2>3, <3>1
  <2>4. Nat \subseteq T
    <3> HIDE DEF T
    <3> QED BY ONLY <2>2, <2>3, NatIsInductive
  <2>5. PICK m \in S : TRUE
    OBVIOUS
  <2>6. m + 1 \in T
    BY <2>4, <2>5
  <2> QED BY <2>5, <2>6
<1> QED BY <1>1 DEF First

\* The members of a set in order are some of its members up to the bound.
LEMMA InOrderIsASequence ==
  ASSUME NEW S, NEW max \in Nat
  PROVE  InOrder(S, max) \in Seq({n \in S : n \in 1 .. max})
<1> DEFINE D == {n \in S : n \in 1 .. max}
           B == Seq(D)
           h == [n \in 1 .. max |-> [s \in B |-> IF n \in S THEN Append(s, n) ELSE s]]
           e(f, n) == IF n = 0 THEN <<>> ELSE IF n \in S THEN Append(f[n - 1], n) ELSE f[n - 1]
           F(f) == f = [n \in 0 .. max |-> e(f, n)]
           g == CHOOSE f : F(f)
<1>1. h \in [1 .. max -> [B -> B]]
  <2>1. ASSUME NEW n \in 1 .. max PROVE [s \in B |-> IF n \in S THEN Append(s, n) ELSE s] \in [B -> B]
    <3>1. ASSUME NEW s \in B, n \in S PROVE Append(s, n) \in B
      <4>1. n \in D
        BY <3>1
      <4> HIDE DEF D
      <4> QED BY <4>1
    <3> HIDE DEF B
    <3> QED BY <3>1
  <2> HIDE DEF B
  <2> QED BY <2>1
<1>2. <<>> \in B
  OBVIOUS
<1> DEFINE z == <<>>
<1>3. \E f \in [0 .. max -> B] : f[0] = z /\ \A n \in 1 .. max : f[n] = h[n][f[n - 1]]
  <2>1. z \in B
    BY <1>2
  <2> HIDE DEF h, B, z
  <2> QED BY ONLY <1>1, <2>1, max \in Nat, IterationExists
<1>4. PICK f \in [0 .. max -> B] : f[0] = <<>> /\ \A n \in 1 .. max : f[n] = h[n][f[n - 1]]
  BY <1>3
<1>5. \A n \in 1 .. max : f[n - 1] \in B
  <2> HIDE DEF B
  <2> QED BY <1>4
<1>6. \A n \in 1 .. max : f[n] = IF n \in S THEN Append(f[n - 1], n) ELSE f[n - 1]
  <2> HIDE DEF B
  <2> QED BY <1>4, <1>5
<1>7. \A n \in 0 .. max : f[n] = e(f, n)
  <2>1. f[0] = e(f, 0)
    BY <1>4
  <2>2. ASSUME NEW n \in 1 .. max PROVE f[n] = e(f, n)
    <3>1. n # 0
      OBVIOUS
    <3> HIDE DEF B
    <3> QED BY <1>6, <3>1
  <2> HIDE DEF e
  <2> QED BY <2>1, <2>2
<1>8. F(f)
  <2> HIDE DEF B, e
  <2>1. f = [n \in 0 .. max |-> f[n]]
    BY <1>4
  <2> QED BY <2>1, <1>7
<1>9. F(g)
  <2> HIDE DEF F
  <2> QED BY <1>8
<1>10. /\ g[0] = <<>>
       /\ \A n \in 1 .. max : g[n] = IF n \in S THEN Append(g[n - 1], n) ELSE g[n - 1]
  <2>1. \A n \in 0 .. max : g[n] = e(g, n)
    <3> HIDE DEF g, e
    <3> QED BY <1>9
  <2> HIDE DEF g
  <2> QED BY <2>1
<1>11. \A n \in 0 .. max : f[n] = g[n]
  <2> HIDE DEF g, B
  <2>1. f[0] = g[0]
    BY <1>4, <1>10
  <2>2. \A n \in 1 .. max : f[n - 1] = g[n - 1] => f[n] = g[n]
    BY <1>6, <1>10
  <2> QED BY ONLY <2>1, <2>2, max \in Nat, IterationsAgree, ZenonT(40)
<1>12. f[max] \in B
  <2> HIDE DEF B
  <2> QED BY <1>4
<1>13. InOrder(S, max) = g[max]
  BY DEF InOrder
<1>14. g[max] \in B
  <2> HIDE DEF g, B
  <2> QED BY <1>11, <1>12
<1> QED BY <1>13, <1>14

\* A bracket that closes lies behind the one it closes, in the same list.
LEMMA CallEndLies ==
  ASSUME NEW X, NEW list \in Seq(X), NEW at \in 1 .. Len(list), NEW max,
         HasBrackets(list, at, max) => CallEnds(list, at) # {}
  PROVE  /\ CallEnd(list, at, max) \in at .. Len(list)
         /\ HasBrackets(list, at, max) => CallEnd(list, at, max) \in (at + 2) .. Len(list)
<1>1. CASE HasBrackets(list, at, max)
  <2>1. CallEnds(list, at) \subseteq (at + 2) .. Len(list)
    BY DEF CallEnds, Closers
  <2>2. CallEnds(list, at) \subseteq Nat
    BY <2>1
  <2>3. First(CallEnds(list, at)) \in CallEnds(list, at)
    BY ONLY <1>1, <2>2, Least, HasBrackets(list, at, max) => CallEnds(list, at) # {}
  <2> QED BY <1>1, <2>1, <2>3 DEF CallEnd
<1>2. CASE ~HasBrackets(list, at, max)
  BY <1>2 DEF CallEnd
<1> QED BY <1>1, <1>2

\* The arguments of a call lie in the list it is written in.
LEMMA ArgumentsLie ==
  ASSUME NEW X, NEW list \in Seq(X), NEW at \in 1 .. Len(list), NEW max,
         HasBrackets(list, at, max) => CallEnds(list, at) # {}
  PROVE  /\ Arguments(list, at, max) \in Seq(Nat \X Nat)
         /\ \A n \in 1 .. Len(Arguments(list, at, max)) :
              /\ Arguments(list, at, max)[n][1] \in 1 .. (Len(list) + 1)
              /\ Arguments(list, at, max)[n][2] \in 0 .. Len(list)
<1>1. CASE ~HasBrackets(list, at, max)
  <2>1. Arguments(list, at, max) = <<>>
    BY <1>1 DEF Arguments
  <2> QED BY <2>1
<1>2. CASE HasBrackets(list, at, max)
  <2> DEFINE end == CallEnd(list, at, max)
             S == Commas(list, at, end)
                    \cup (IF (at + 2) .. (end - 1) = Commas(list, at, end) THEN {} ELSE {end})
             ends == InOrder(S, end)
             Pair(k) == <<IF k = 1 THEN at + 2 ELSE ends[k - 1] + 1, ends[k] - 1>>
             P == (1 .. (Len(list) + 1)) \X (0 .. Len(list))
  <2>1. end \in (at + 2) .. Len(list)
    BY <1>2, CallEndLies
  <2>2. S \subseteq (at + 2) .. end
    <3> HIDE DEF end
    <3>1. Commas(list, at, end) \subseteq (at + 2) .. (end - 1)
      BY DEF Commas
    <3> QED BY <2>1, <3>1
  <2>3. Arguments(list, at, max) = [k \in 1 .. Len(ends) |-> Pair(k)]
    BY <1>2 DEF Arguments
  <2> HIDE DEF end, S
  <2>4. ends \in Seq({n \in S : n \in 1 .. end})
    BY <2>1, InOrderIsASequence
  <2> HIDE DEF ends
  <2>5. Len(ends) \in Nat /\ \A k \in 1 .. Len(ends) : ends[k] \in (at + 2) .. Len(list)
    BY <2>1, <2>2, <2>4
  <2>6. ASSUME NEW k \in 1 .. Len(ends) PROVE Pair(k) \in P
    <3>1. ends[k] - 1 \in 0 .. Len(list)
      BY <2>5
    <3>2. CASE k = 1
      <4>1. at + 2 \in 1 .. Len(list) + 1
        BY <2>1
      <4> QED BY <3>1, <3>2, <4>1
    <3>3. CASE k # 1
      <4>1. k - 1 \in 1 .. Len(ends)
        BY <3>3, <2>5
      <4>2. ends[k - 1] + 1 \in 1 .. Len(list) + 1
        BY <4>1, <2>5
      <4> QED BY <3>1, <3>3, <4>2
    <3> QED BY <3>2, <3>3
  <2> DEFINE args == [k \in 1 .. Len(ends) |-> Pair(k)]
  <2>7. args \in [1 .. Len(ends) -> P]
    <3> HIDE DEF Pair, P
    <3> QED BY <2>6
  <2>8. \A k \in 1 .. Len(ends) : args[k][1] \in 1 .. (Len(list) + 1) /\ args[k][2] \in 0 .. Len(list)
    <3> HIDE DEF args
    <3> QED BY <2>7
  <2>9. args \in Seq(Nat \X Nat) /\ Len(args) = Len(ends)
    <3>1. P \subseteq Nat \X Nat
      OBVIOUS
    <3> HIDE DEF args, P
    <3> QED BY <2>5, <2>7, <3>1
  <2> HIDE DEF args
  <2> QED BY <2>3, <2>8, <2>9 DEF args
<1> QED BY <1>1, <1>2

\* The token in cell x is one of a file.
Read(x) == \E f \in DOMAIN program.files : \E n \in 1 .. Len(program.files[f]) : heap[x] = program.files[f][n]

\* The cell x is in the body of a macro.
InABody(x) == \E m \in 1 .. Len(macros) : \E k \in 1 .. Len(macros[m].body) : macros[m].body[k] = x

\* What the stages leave for one another.
StageOK ==
  /\ calls \in Nat
  /\ stage \in {"import", "define"} => frames = <<>>
  /\ \A n \in 1 .. Len(kept) : Type(kept[n]) # "MACRO"
  /\ stage = "import" => \A n \in 1 .. Len(tokens) : Read(tokens[n])
  /\ stage = "define" => Len(tokens) > 0 /\ Type(tokens[Len(tokens)]) = "EOF"

\* What the loop of stage 1 has come by.
Passed(n) == Statement(n) /\ (stage = "import" => n < i)

\* The statements passed are followed, each once, and none besides.
ImportsOK ==
  stage \in {"import", "define"} =>
    /\ \A n \in 1 .. Len(tokens) : Passed(n) =>
         n < Len(tokens) /\ \E m \in 1 .. Len(imports) : imports[m] = PathAt(n)
    /\ \A m \in 1 .. Len(imports) : \E n \in 1 .. Len(tokens) :
         n < Len(tokens) /\ Type(tokens[n]) = "IMPORT" /\ PathAt(n) = imports[m]
    /\ \A m, n \in 1 .. Len(imports) : imports[m] = imports[n] => m = n

\* The inductive invariant of the variables.
IInv == ListsOK /\ IndexOK /\ FramesOK /\ NoCallIsLeft /\ DepthIsBounded /\ StageOK /\ ImportsOK

-----------------------------------------------------------------------------
\* A sequence of small numbers is one of numbers that may be larger.
LEMMA Wider ==
  ASSUME NEW a \in Nat, NEW b \in Nat, a <= b, NEW s \in Seq(1 .. a)
  PROVE  s \in Seq(1 .. b) /\ Len(s) \in Nat /\ \A n \in 1 .. Len(s) : s[n] \in 1 .. a
<1>1. 1 .. a \subseteq 1 .. b
  OBVIOUS
<1>2. \A n \in 1 .. Len(s) : s[n] \in 1 .. b
  BY <1>1
<1> QED BY <1>2

\* What an import names is a file, if anything.
LEMMA FileOfPath ==
  ASSUME ListsOK, StageOK, AtImport, Imported, i \in Nat \ {0}, Path # NoPath
  PROVE  /\ program.at[Path] \in DOMAIN program.files /\ IsList(program.files[program.at[Path]])
         /\ \A n \in 1 .. Len(program.files[program.at[Path]]) : IsToken(program.files[program.at[Path]][n])
<1>1. Len(tokens) \in Nat
  BY DEF ListsOK
<1>2. i + 1 \in 1 .. Len(tokens) /\ stage = "import"
  BY <1>1 DEF AtImport, Imported
<1>file. PICK f \in DOMAIN program.files : \E n \in 1 .. Len(program.files[f]) : heap[tokens[i + 1]] = program.files[f][n]
  BY <1>2 DEF StageOK, Read
<1>3. PICK n \in 1 .. Len(program.files[f]) : heap[tokens[i + 1]] = program.files[f][n]
  BY <1>file
<1>4. program.files[f][n].type = "STRING" /\ Path = Resolve(program, program.files[f][n])
  BY <1>3 DEF Imported, Path, Type
<1>5. program \in Programs
  BY DEF ListsOK
<1> QED BY <1>3, <1>4, <1>5, ProgramsAssumption

\* The invariant holds when the main file has been read.
LEMMA Initially == Init => IInv
<1>1. SUFFICES ASSUME Init PROVE IInv
  OBVIOUS
<1> DEFINE file == program.files[program.main]
           std == program.stdBodies
           X == 1 .. Len(heap)
<1>2. /\ program \in Programs /\ program.main \in DOMAIN program.files
      /\ IsList(file) /\ IsList(std)
      /\ \A n \in 1 .. Len(file) : IsToken(file[n])
      /\ \A n \in 1 .. Len(std) : IsToken(std[n])
  BY <1>1, ProgramsAssumption DEF Init
<1>3. /\ heap = file \o std /\ IsList(heap) /\ Len(file) \in Nat /\ Len(std) \in Nat /\ Len(heap) = Len(file) + Len(std)
      /\ \A n \in 1 .. Len(file) : heap[n] = file[n]
      /\ \A n \in 1 .. Len(std) : heap[Len(file) + n] = std[n]
  <2>1. heap = file \o std
    BY <1>1 DEF Init
  <2>2. /\ IsList(file \o std) /\ Len(file) \in Nat /\ Len(std) \in Nat
        /\ Len(file \o std) = Len(file) + Len(std)
        /\ \A n \in 1 .. Len(file) : (file \o std)[n] = file[n]
        /\ \A n \in 1 .. Len(std) : (file \o std)[Len(file) + n] = std[n]
    <3>1. IsList(file) /\ IsList(std)
      BY <1>2
    <3> HIDE DEF file, std
    <3> QED BY ONLY <3>1, Joining
  <2> HIDE DEF file, std
  <2> QED BY <2>1, <2>2
<1>4. tokens = [n \in 1 .. Len(file) |-> n]
  <2>1. tokens = [n \in DOMAIN file |-> 0 + n]
    BY <1>1 DEF Init, Ids
  <2>2. DOMAIN file = 1 .. Len(file)
    BY <1>2, ListLength
  <2> HIDE DEF file
  <2> QED BY <2>1, <2>2
<1>5. tokens \in Seq(X) /\ Len(tokens) = Len(file)
  <2> HIDE DEF file, std
  <2> QED BY <1>3, <1>4
<1> DEFINE M(n) == [name |-> program.stdNames[n], params |-> <<>>, body |-> <<Len(tokens) + n>>]
           R == {M(n) : n \in 1 .. Len(std)}
<1>6. macros = [n \in 1 .. Len(std) |-> M(n)]
  <2>1. DOMAIN std = 1 .. Len(std)
    BY <1>2, ListLength
  <2> QED BY <1>1, <2>1 DEF Init
<1>7. IsList(macros) /\ Len(macros) = Len(std)
  <2>1. macros \in [1 .. Len(std) -> R]
    <3> HIDE DEF M, std
    <3> QED BY <1>6
  <2> HIDE DEF R, std
  <2> QED BY <2>1, <1>3, FunIsList
<1>8. IsList(<<>>) /\ Len(<<>>) = 0
  BY DEF IsList
<1>9. \A n \in 1 .. Len(macros) : IsList(macros[n].params) /\ macros[n].body \in Seq(X)
  <2>1. TAKE n \in 1 .. Len(macros)
  <2>2. macros[n].params = <<>> /\ macros[n].body = <<Len(tokens) + n>>
    <3> HIDE DEF std
    <3> QED BY <1>6, <1>7
  <2>3. Len(tokens) + n \in X
    <3> HIDE DEF std, file
    <3> QED BY <1>3, <1>5, <1>7
  <2> HIDE DEF X
  <2> QED BY <1>8, <2>2, <2>3
<1>10. /\ stage = "import" /\ i = 1 /\ kept = <<>> /\ dest = <<>> /\ imports = <<>> /\ frames = <<>> /\ calls = 0
  BY <1>1 DEF Init
<1>11. ListsOK
  <2>1. {tokens, kept, dest} \subseteq Seq(X)
    <3> HIDE DEF X
    <3> QED BY <1>5, <1>10
  <2>2. IsList(imports)
    BY <1>8, <1>10
  <2>3. ASSUME NEW n \in 1 .. Len(heap) PROVE IsToken(heap[n])
    <3> HIDE DEF file, std
    <3>1. CASE n <= Len(file)
      BY <1>2, <1>3, <3>1
    <3>2. CASE n > Len(file)
      <4>1. n - Len(file) \in 1 .. Len(std) /\ Len(file) + (n - Len(file)) = n
        BY <1>3, <3>2
      <4>2. heap[n] = std[n - Len(file)]
        BY <1>3, <4>1
      <4> QED BY <1>2, <4>1, <4>2
    <3> QED BY <1>3, <3>1, <3>2
  <2> QED BY <1>2, <1>3, <1>7, <1>9, <1>10, <2>1, <2>2, <2>3 DEF ListsOK
<1>12. IndexOK
  BY <1>3, <1>5, <1>10 DEF IndexOK
<1>13. FramesOK
  BY <1>8, <1>10 DEF FramesOK
<1>14. NoCallIsLeft /\ DepthIsBounded
  <2>1. MaxDepth \in Nat
    BY ProgramsAssumption
  <2> QED BY <1>8, <1>10, <2>1 DEF NoCallIsLeft, DepthIsBounded
<1>15. StageOK
  <2>1. ASSUME NEW n \in 1 .. Len(tokens) PROVE Read(tokens[n])
    <3>1. tokens[n] = n /\ n \in 1 .. Len(file)
      <4> HIDE DEF file
      <4> QED BY <1>4, <1>5
    <3>2. heap[tokens[n]] = file[n]
      BY <1>3, <3>1
    <3> QED BY <1>2, <3>1, <3>2 DEF Read
  <2> QED BY <1>8, <1>10, <2>1 DEF StageOK
<1>16. ImportsOK
  <2>1. \A n \in 1 .. Len(tokens) : ~(n < i)
    BY <1>3, <1>5, <1>10
  <2> QED BY <1>8, <1>10, <2>1 DEF ImportsOK, Passed
<1> QED BY <1>11, <1>12, <1>13, <1>14, <1>15, <1>16 DEF IInv

\* Ending changes nothing but the stage.
LEMMA Stopped ==
  ASSUME IInv, NEW how \in {"failed", "undefined", "done"}, Stop(how), program' = program
  PROVE  IInv'
<1> USE DEF Stop
<1>1. ListsOK'
  BY DEF IInv, ListsOK
<1>2. IndexOK'
  BY DEF IInv, IndexOK
<1>3. FramesOK'
  BY DEF IInv, FramesOK, FrameOK, List
<1>4. NoCallIsLeft' /\ DepthIsBounded'
  BY DEF IInv, NoCallIsLeft, DepthIsBounded, Type
<1>5. StageOK'
  BY DEF IInv, StageOK, Type
<1>6. ImportsOK'
  BY DEF ImportsOK
<1> QED BY <1>1, <1>2, <1>3, <1>4, <1>5, <1>6 DEF IInv

-----------------------------------------------------------------------------
(* Stage 1 *)

\* Going on in the list, past import statements that have been followed.
LEMMA Moved ==
  ASSUME IInv, stage = "import", i' \in Nat, i < i', i' <= Len(tokens) + 3,
         \A n \in 1 .. Len(tokens) : Statement(n) /\ n < i' /\ ~(n < i) =>
            n < Len(tokens) /\ \E m \in 1 .. Len(imports) : imports[m] = PathAt(n),
         UNCHANGED <<program, heap, stage, tokens, kept, dest, imports, macros, frames, calls>>
  PROVE  IInv'
<1>1. ListsOK'
  BY DEF IInv, ListsOK
<1>2. IndexOK'
  BY DEF IInv, IndexOK
<1>3. FramesOK'
  BY DEF IInv, FramesOK, FrameOK, List
<1>4. NoCallIsLeft' /\ DepthIsBounded'
  BY DEF IInv, NoCallIsLeft, DepthIsBounded, Type
<1>5. StageOK'
  BY DEF IInv, StageOK, Type, Read
<1>6. ImportsOK'
  <2>1. ASSUME NEW n PROVE (Statement(n) <=> Statement(n)') /\ PathAt(n)' = PathAt(n) /\ Type(tokens[n])' = Type(tokens[n])
    BY DEF Statement, PathAt, Type
  <2>2. ASSUME NEW n \in 1 .. Len(tokens), Passed(n)'
        PROVE  n < Len(tokens) /\ \E m \in 1 .. Len(imports) : imports[m] = PathAt(n)
    <3>1. Statement(n) /\ n < i'
      BY <2>1, <2>2 DEF Passed
    <3>2. CASE n < i
      BY <3>1, <3>2 DEF IInv, ImportsOK, Passed
    <3>3. CASE ~(n < i)
      BY <3>1, <3>3
    <3> QED BY <3>2, <3>3
  <2> QED BY <2>1, <2>2 DEF IInv, ImportsOK
<1> QED BY <1>1, <1>2, <1>3, <1>4, <1>5, <1>6 DEF IInv

\* Stage 1: a token that is no import is passed.
LEMMA SkippedToken ==
  ASSUME IInv, SkipToken, program' = program
  PROVE  IInv'
<1>1. Len(tokens) \in Nat /\ i \in Nat \ {0}
  BY DEF IInv, ListsOK, IndexOK
<1>2. stage = "import" /\ i' = i + 1 /\ i <= Len(tokens)
  BY DEF SkipToken
<1>3. \A n \in 1 .. Len(tokens) : ~(Statement(n) /\ n < i' /\ ~(n < i))
  <2>1. TAKE n \in 1 .. Len(tokens)
  <2>2. ~(n < i) /\ n < i' => n = i
    BY <1>1, <1>2
  <2> QED BY <2>2 DEF SkipToken, Statement
<1>4. UNCHANGED <<program, heap, stage, tokens, kept, dest, imports, macros, frames, calls>>
  BY DEF SkipToken
<1> QED BY <1>1, <1>2, <1>3, <1>4, Moved

\* An import statement, the file's name and the token behind it are gone by.
LEMMA StatementOver ==
  ASSUME Len(tokens) \in Nat, i \in Nat \ {0}, AtImport, Imported,
         NEW n \in 1 .. Len(tokens), Statement(n), n < i + 3, ~(n < i)
  PROVE  n = i /\ n < Len(tokens) /\ PathAt(n) = Path
<1>1. n = i \/ n = i + 1 \/ n = i + 2
  OBVIOUS
<1>2. n # i + 1
  BY DEF Statement, Imported, Type
<1>3. n # i + 2
  <2>1. SUFFICES ASSUME n = i + 2 PROVE FALSE
    OBVIOUS
  <2>2. i \in 1 .. (n - 1) /\ n <= i + 2
    BY <2>1
  <2> QED BY <2>2 DEF Statement, AtImport
<1> QED BY <1>1, <1>2, <1>3 DEF Imported, Path, PathAt

\* Stage 1: an import of a file that is in already is passed.
LEMMA KnewImport ==
  ASSUME IInv, KnownImport, program' = program
  PROVE  IInv'
<1>1. Len(tokens) \in Nat /\ i \in Nat \ {0} /\ DOMAIN imports = 1 .. Len(imports)
  BY ListLength DEF IInv, ListsOK, IndexOK
<1>2. stage = "import" /\ i' = i + 3 /\ i <= Len(tokens) /\ AtImport /\ Imported
  BY DEF KnownImport, AtImport
<1>3. PICK m \in 1 .. Len(imports) : imports[m] = Path
  BY <1>1 DEF KnownImport
<1>4. \A n \in 1 .. Len(tokens) : Statement(n) /\ n < i' /\ ~(n < i) =>
            n < Len(tokens) /\ \E k \in 1 .. Len(imports) : imports[k] = PathAt(n)
  <2>1. TAKE n \in 1 .. Len(tokens)
  <2>2. HAVE Statement(n) /\ n < i' /\ ~(n < i)
  <2>3. n < Len(tokens) /\ PathAt(n) = Path
    BY <1>1, <1>2, <2>2, StatementOver
  <2> QED BY <1>3, <2>3
<1>5. UNCHANGED <<program, heap, stage, tokens, kept, dest, imports, macros, frames, calls>>
  BY DEF KnownImport
<1> QED BY <1>1, <1>2, <1>4, <1>5, Moved

\* Appending cells and tokens for them disturbs nothing that was there.
LEMMA Appended ==
  ASSUME ListsOK, IsList(heap'), IsList(tokens'), Len(heap) <= Len(heap'), Len(tokens) <= Len(tokens'),
         \A n \in 1 .. Len(heap) : heap'[n] = heap[n],
         \A n \in 1 .. Len(tokens) : tokens'[n] = tokens[n],
         tokens' \in Seq(1 .. Len(heap')),
         UNCHANGED <<program, kept, dest, macros, frames>>
  PROVE  /\ kept' \in Seq(1 .. Len(heap')) /\ dest' \in Seq(1 .. Len(heap')) /\ tokens' \in Seq(1 .. Len(heap'))
         /\ Len(heap) \in Nat /\ Len(heap') \in Nat /\ Len(tokens) \in Nat /\ Len(tokens') \in Nat
         /\ \A n \in 1 .. Len(macros') : IsList(macros'[n].params) /\ macros'[n].body \in Seq(1 .. Len(heap'))
         /\ FramesOK => FramesOK'
         /\ NoCallIsLeft => NoCallIsLeft'
         /\ \A n \in 1 .. Len(kept) : Type(kept[n])' = Type(kept[n])
         /\ \A n \in 1 .. Len(tokens) : heap'[tokens'[n]] = heap[tokens[n]]
<1>1. Len(heap) \in Nat /\ Len(heap') \in Nat /\ Len(tokens) \in Nat /\ Len(tokens') \in Nat
  BY ListLength DEF ListsOK
<1>2. ASSUME NEW s \in Seq(1 .. Len(heap))
      PROVE  s \in Seq(1 .. Len(heap')) /\ \A n \in 1 .. Len(s) : heap'[s[n]] = heap[s[n]]
  BY <1>1, <1>2, Wider
<1>3. kept \in Seq(1 .. Len(heap)) /\ dest \in Seq(1 .. Len(heap)) /\ tokens \in Seq(1 .. Len(heap))
  BY DEF ListsOK
<1>4. \A n \in 1 .. Len(macros') : IsList(macros'[n].params) /\ macros'[n].body \in Seq(1 .. Len(heap'))
  BY <1>2 DEF ListsOK
<1>5. FramesOK => FramesOK'
  <2>1. ASSUME NEW f, FrameOK(f) PROVE FrameOK(f)'
    <3>1. f.call \in 1 .. Len(heap')
      BY <1>1, <2>1 DEF FrameOK
    <3> QED BY <2>1, <3>1 DEF FrameOK, List
  <2> QED BY <2>1 DEF FramesOK
<1>6. NoCallIsLeft => NoCallIsLeft'
  BY <1>2, <1>3 DEF NoCallIsLeft, Type
<1>7. \A n \in 1 .. Len(kept) : Type(kept[n])' = Type(kept[n])
  BY <1>2, <1>3 DEF Type
<1>8. \A n \in 1 .. Len(tokens) : heap'[tokens'[n]] = heap[tokens[n]]
  BY <1>2, <1>3
<1> QED BY <1>1, <1>2, <1>3, <1>4, <1>5, <1>6, <1>7, <1>8

\* The cells of a file that is read come behind all others, and its tokens behind the list.
LEMMA FileComesIn ==
  ASSUME IInv, NewImport, program' = program, NEW ts, ts = FileAt(Path)
  PROVE  /\ program.at[Path] \in DOMAIN program.files /\ IsList(ts) /\ \A n \in 1 .. Len(ts) : IsToken(ts[n])
         /\ Len(heap) \in Nat /\ Len(tokens) \in Nat /\ Len(ts) \in Nat
         /\ IsList(heap') /\ Len(heap') = Len(heap) + Len(ts)
         /\ \A n \in 1 .. Len(heap) : heap'[n] = heap[n]
         /\ \A n \in 1 .. Len(ts) : heap'[Len(heap) + n] = ts[n]
         /\ IsList(tokens') /\ Len(tokens') = Len(tokens) + Len(ts)
         /\ \A n \in 1 .. Len(tokens) : tokens'[n] = tokens[n]
         /\ \A n \in 1 .. Len(ts) : tokens'[Len(tokens) + n] = Len(heap) + n
         /\ tokens' \in Seq(1 .. Len(heap'))
<1> DEFINE ids == Ids(Len(heap), ts)
<1>1. /\ AtImport /\ Imported /\ Path # NoPath
      /\ tokens' = tokens \o ids /\ heap' = heap \o ts
  BY DEF NewImport, FileAt
<1>2. /\ IsList(heap) /\ IsList(tokens) /\ i \in Nat \ {0}
      /\ tokens \in Seq(1 .. Len(heap))
  BY SeqIsList DEF IInv, ListsOK, IndexOK
<1>3. /\ program.at[Path] \in DOMAIN program.files /\ IsList(ts)
      /\ \A n \in 1 .. Len(ts) : IsToken(ts[n])
  BY <1>1, <1>2, FileOfPath DEF IInv, FileAt
<1>4. Len(heap) \in Nat /\ Len(tokens) \in Nat /\ Len(ts) \in Nat
  BY <1>2, <1>3, ListLength
<1>5. ids = [n \in 1 .. Len(ts) |-> Len(heap) + n]
  <2>1. DOMAIN ts = 1 .. Len(ts)
    BY <1>3, ListLength
  <2> QED BY <2>1 DEF Ids
<1> HIDE DEF ids
<1>6. /\ IsList(heap') /\ Len(heap') = Len(heap) + Len(ts)
      /\ \A n \in 1 .. Len(heap) : heap'[n] = heap[n]
      /\ \A n \in 1 .. Len(ts) : heap'[Len(heap) + n] = ts[n]
  BY <1>1, <1>2, <1>3, Joining
<1>7. ids \in [1 .. Len(ts) -> 1 .. Len(heap')]
  BY <1>4, <1>5, <1>6
<1>8. IsList(ids) /\ Len(ids) = Len(ts)
  BY <1>4, <1>7, FunIsList
<1>9. /\ IsList(tokens') /\ Len(tokens') = Len(tokens) + Len(ts)
      /\ \A n \in 1 .. Len(tokens) : tokens'[n] = tokens[n]
      /\ \A n \in 1 .. Len(ts) : tokens'[Len(tokens) + n] = Len(heap) + n
  <2>1. /\ IsList(tokens') /\ Len(tokens') = Len(tokens) + Len(ids)
        /\ \A n \in 1 .. Len(tokens) : tokens'[n] = tokens[n]
        /\ \A n \in 1 .. Len(ids) : tokens'[Len(tokens) + n] = ids[n]
    <3> DEFINE X == 1 .. Len(heap')
    <3>a. tokens \in Seq(X)
      BY <1>2, <1>4, <1>6, Wider
    <3>b. ids \in Seq(X)
      BY <1>4, <1>7
    <3>1. tokens \in Seq(X) /\ ids \in Seq(X)
      BY <3>a, <3>b
    <3> HIDE DEF X
    <3>2. tokens \o ids \in Seq(X)
      BY <3>1
    <3>3. IsList(tokens')
      BY <1>1, <3>2, SeqIsList
    <3> QED BY <1>1, <3>1, <3>3
  <2> QED BY <2>1, <1>5, <1>8
<1>10. tokens' \in Seq(1 .. Len(heap'))
  <2>1. tokens \in Seq(1 .. Len(heap'))
    BY <1>2, <1>4, <1>6, Wider
  <2>2. ids \in Seq(1 .. Len(heap'))
    BY <1>4, <1>7
  <2> QED BY <1>1, <2>1, <2>2
<1> QED BY <1>3, <1>4, <1>6, <1>9, <1>10

\* A file comes in behind the list that is being read.
LEMMA ImportedFile ==
  ASSUME IInv, NewImport, program' = program
  PROVE  IInv'
<1>1. /\ AtImport /\ Imported /\ Path # NoPath /\ stage = "import" /\ stage' = "import"
      /\ imports' = Append(imports, Path) /\ i' = i + 3
      /\ UNCHANGED <<program, kept, dest, macros, frames, calls>>
  BY DEF NewImport, AtImport
<1>2. IsList(imports) /\ i \in Nat \ {0}
  BY DEF IInv, ListsOK, IndexOK
<1> DEFINE ts == FileAt(Path)
<1>3. /\ program.at[Path] \in DOMAIN program.files /\ IsList(ts) /\ \A n \in 1 .. Len(ts) : IsToken(ts[n])
      /\ Len(heap) \in Nat /\ Len(tokens) \in Nat /\ Len(ts) \in Nat
      /\ IsList(heap') /\ Len(heap') = Len(heap) + Len(ts)
      /\ \A n \in 1 .. Len(heap) : heap'[n] = heap[n]
      /\ \A n \in 1 .. Len(ts) : heap'[Len(heap) + n] = ts[n]
      /\ IsList(tokens') /\ Len(tokens') = Len(tokens) + Len(ts)
      /\ \A n \in 1 .. Len(tokens) : tokens'[n] = tokens[n]
      /\ \A n \in 1 .. Len(ts) : tokens'[Len(tokens) + n] = Len(heap) + n
      /\ tokens' \in Seq(1 .. Len(heap'))
  <2> HIDE DEF ts
  <2> QED BY FileComesIn DEF ts
<1> HIDE DEF ts
<1>4. Len(heap) \in Nat /\ Len(tokens) \in Nat /\ Len(imports) \in Nat /\ Len(ts) \in Nat
  BY <1>2, <1>3, ListLength
<1>6. /\ IsList(heap') /\ Len(heap') = Len(heap) + Len(ts)
      /\ \A n \in 1 .. Len(heap) : heap'[n] = heap[n]
      /\ \A n \in 1 .. Len(ts) : heap'[Len(heap) + n] = ts[n]
  BY <1>3
<1>9. /\ IsList(tokens') /\ Len(tokens') = Len(tokens) + Len(ts)
      /\ \A n \in 1 .. Len(tokens) : tokens'[n] = tokens[n]
      /\ \A n \in 1 .. Len(ts) : tokens'[Len(tokens) + n] = Len(heap) + n
  BY <1>3
<1>10. tokens' \in Seq(1 .. Len(heap'))
  BY <1>3
<1>11. Len(heap) <= Len(heap') /\ Len(tokens) <= Len(tokens')
  BY <1>4, <1>6, <1>9
<1>12. /\ kept' \in Seq(1 .. Len(heap')) /\ dest' \in Seq(1 .. Len(heap'))
       /\ \A n \in 1 .. Len(macros') : IsList(macros'[n].params) /\ macros'[n].body \in Seq(1 .. Len(heap'))
       /\ FramesOK => FramesOK'
       /\ NoCallIsLeft => NoCallIsLeft'
       /\ \A n \in 1 .. Len(kept) : Type(kept[n])' = Type(kept[n])
       /\ \A n \in 1 .. Len(tokens) : heap'[tokens'[n]] = heap[tokens[n]]
  BY <1>1, <1>6, <1>9, <1>10, <1>11, Appended DEF IInv
<1>13. /\ IsList(imports') /\ Len(imports') = Len(imports) + 1
       /\ \A n \in 1 .. Len(imports) : imports'[n] = imports[n]
       /\ imports'[Len(imports) + 1] = Path
  BY <1>1, <1>2, Grown
<1>14. ListsOK'
  <2>1. ASSUME NEW n \in 1 .. Len(heap') PROVE IsToken(heap'[n])
    <3>1. CASE n <= Len(heap)
      BY <1>4, <1>6, <3>1 DEF IInv, ListsOK
    <3>2. CASE n > Len(heap)
      <4>1. n - Len(heap) \in 1 .. Len(ts) /\ Len(heap) + (n - Len(heap)) = n
        BY <1>4, <1>6, <3>2
      <4>2. heap'[n] = ts[n - Len(heap)]
        BY <1>6, <4>1
      <4> QED BY <1>3, <4>1, <4>2
    <3> QED BY <1>4, <1>6, <3>1, <3>2
  <2> QED BY <1>1, <1>6, <1>10, <1>12, <1>13, <2>1 DEF IInv, ListsOK
<1>15. IndexOK'
  <2>1. i' \in Nat \ {0} /\ i' <= Len(tokens') + 3
    BY <1>1, <1>2, <1>4, <1>9 DEF AtImport
  <2> QED BY <1>1, <2>1 DEF IndexOK
<1>16. FramesOK' /\ NoCallIsLeft' /\ DepthIsBounded'
  BY <1>1, <1>12 DEF IInv, DepthIsBounded
<1>17. StageOK'
  <2>1. ASSUME NEW n \in 1 .. Len(tokens') PROVE Read(tokens[n])'
    <3>1. CASE n <= Len(tokens)
      <4>1. n \in 1 .. Len(tokens)
        BY <3>1, <1>4
      <4>2. Read(tokens[n])
        BY <1>1, <4>1 DEF IInv, StageOK
      <4> QED BY <1>1, <1>12, <4>1, <4>2 DEF Read
    <3>2. CASE n > Len(tokens)
      <4>1. PICK k \in 1 .. Len(ts) : n = Len(tokens) + k
        <5>1. n - Len(tokens) \in 1 .. Len(ts) /\ n = Len(tokens) + (n - Len(tokens))
          BY <3>2, <1>4, <1>9
        <5> QED BY <5>1
      <4>2. heap'[tokens'[n]] = ts[k]
        BY <4>1, <1>6, <1>9
      <4>3. PICK f \in DOMAIN program.files : ts = program.files[f]
        BY <1>3 DEF ts, FileAt
      <4> QED BY <1>1, <4>2, <4>3 DEF Read
    <3> QED BY <1>4, <1>9, <3>1, <3>2
  <2> QED BY <1>1, <1>12, <2>1 DEF IInv, StageOK
<1>18. ImportsOK'
  <2>1. i \in 1 .. Len(tokens) /\ i < Len(tokens) /\ Type(tokens[i]) = "IMPORT" /\ PathAt(i) = Path
    BY <1>1, <1>2, <1>4 DEF AtImport, Imported, PathAt, Path
  <2>2. \A n \in 1 .. Len(tokens) : Type(tokens[n])' = Type(tokens[n]) /\ (Statement(n)' <=> Statement(n))
    <3>1. \A n \in 1 .. Len(tokens) : Type(tokens[n])' = Type(tokens[n])
      BY <1>12 DEF Type
    <3> QED BY <1>4, <3>1 DEF Statement
  <2>3. \A n \in 1 .. Len(tokens) : n < Len(tokens) => PathAt(n)' = PathAt(n)
    <3>1. TAKE n \in 1 .. Len(tokens)
    <3>2. HAVE n < Len(tokens)
    <3>3. n + 1 \in 1 .. Len(tokens)
      BY <1>4, <3>2
    <3>4. heap'[tokens'[n + 1]] = heap[tokens[n + 1]]
      BY <1>12, <3>3
    <3> QED BY <1>1, <3>4 DEF PathAt
  <2>4. ASSUME NEW n \in 1 .. Len(tokens'), Passed(n)'
        PROVE  n < Len(tokens') /\ \E m \in 1 .. Len(imports') : imports'[m] = PathAt(n)'
    <3>1. n < i + 3 /\ Statement(n)'
      BY <1>1, <2>4 DEF Passed
    <3>2. CASE n \in 1 .. Len(tokens)
      <4>1. Statement(n)
        BY <2>2, <3>1, <3>2
      <4>2. CASE n < i
        <5>1. n < Len(tokens) /\ \E m \in 1 .. Len(imports) : imports[m] = PathAt(n)
          BY <1>1, <3>2, <4>1, <4>2 DEF IInv, ImportsOK, Passed
        <5>2. PICK m \in 1 .. Len(imports) : imports[m] = PathAt(n)
          BY <5>1
        <5>3. m \in 1 .. Len(imports') /\ imports'[m] = PathAt(n)'
          BY <5>1, <5>2, <1>4, <1>13, <2>3, <3>2
        <5>4. n < Len(tokens')
          BY <5>1, <1>4, <1>9
        <5> QED BY <5>3, <5>4
      <4>3. CASE ~(n < i)
        <5>1. n = i
          BY <1>1, <1>2, <1>4, <3>1, <3>2, <4>1, <4>3, StatementOver
        <5>2. Len(imports) + 1 \in 1 .. Len(imports') /\ imports'[Len(imports) + 1] = PathAt(n)'
          BY <5>1, <1>4, <1>13, <2>1, <2>3
        <5> QED BY <5>1, <5>2, <2>1, <1>4, <1>9
      <4> QED BY <4>2, <4>3
    <3>3. CASE n > Len(tokens)
      <4>1. n = Len(tokens) + 1 \/ n = Len(tokens) + 2
        BY <3>1, <3>3, <1>2, <1>4, <2>1
      <4>2. i \in 1 .. (n - 1) /\ n <= i + 2
        BY <3>1, <3>3, <1>2, <1>4, <2>1
      <4>3. heap'[tokens'[i]].type # "IMPORT"
        BY <3>1, <4>2 DEF Statement, Type
      <4> QED BY <2>1, <1>12, <4>3 DEF Type
    <3> QED BY <1>4, <3>2, <3>3
  <2>5. ASSUME NEW m \in 1 .. Len(imports')
        PROVE  \E n \in 1 .. Len(tokens') :
                 n < Len(tokens') /\ Type(tokens[n])' = "IMPORT" /\ PathAt(n)' = imports'[m]
    <3>1. CASE m \in 1 .. Len(imports)
      <4>1. PICK n \in 1 .. Len(tokens) : n < Len(tokens) /\ Type(tokens[n]) = "IMPORT" /\ PathAt(n) = imports[m]
        BY <1>1, <3>1 DEF IInv, ImportsOK
      <4>2. n \in 1 .. Len(tokens') /\ n < Len(tokens')
        BY <4>1, <1>4, <1>9
      <4>3. PathAt(n)' = imports'[m]
        BY <4>1, <3>1, <1>13, <2>3
      <4>4. Type(tokens[n])' = "IMPORT"
        BY <4>1, <1>12 DEF Type
      <4> QED BY <4>2, <4>3, <4>4
    <3>2. CASE m = Len(imports) + 1
      <4> PICK n \in 1 .. Len(tokens) : n = i
        BY <2>1
      <4>1. n \in 1 .. Len(tokens') /\ n < Len(tokens')
        BY <2>1, <1>4, <1>9
      <4>2. PathAt(n)' = imports'[m]
        BY <3>2, <1>13, <2>1, <2>3
      <4>3. Type(tokens[n])' = "IMPORT"
        BY <2>1, <1>12 DEF Type
      <4> QED BY <4>1, <4>2, <4>3
    <3> QED BY <1>4, <1>13, <3>1, <3>2
  <2>6. ASSUME NEW m \in 1 .. Len(imports'), NEW n \in 1 .. Len(imports'), imports'[m] = imports'[n]
        PROVE  m = n
    <3>1. \A k \in 1 .. Len(imports) : imports[k] # Path
      BY <1>2, ListLength DEF NewImport
    <3>2. \A k, l \in 1 .. Len(imports) : imports[k] = imports[l] => k = l
      BY <1>1 DEF IInv, ImportsOK
    <3> QED BY <2>6, <3>1, <3>2, <1>4, <1>13
  <2> QED BY <2>4, <2>5, <2>6 DEF ImportsOK
<1> QED BY <1>14, <1>15, <1>16, <1>17, <1>18 DEF IInv

\* The end of stage 1: the file's end comes behind all.
LEMMA ImportsEnded ==
  ASSUME IInv, EndImports, program' = program
  PROVE  IInv'
<1>1. /\ stage = "import" /\ stage' = "define" /\ i > Len(tokens) /\ i' = 1
      /\ heap' = Append(heap, Eof) /\ tokens' = Append(tokens, Len(heap) + 1)
      /\ UNCHANGED <<program, kept, dest, imports, macros, frames, calls>>
  BY DEF EndImports
<1>2. /\ IsList(heap) /\ IsList(tokens) /\ i \in Nat \ {0} /\ tokens \in Seq(1 .. Len(heap))
  BY SeqIsList DEF IInv, ListsOK, IndexOK
<1>3. Eof.type = "EOF" /\ IsToken(Eof)
  BY DEF IsToken, Eof
<1>4. /\ IsList(heap') /\ Len(heap) \in Nat /\ Len(heap') = Len(heap) + 1
      /\ \A n \in 1 .. Len(heap) : heap'[n] = heap[n]
      /\ heap'[Len(heap) + 1] = Eof
  BY <1>1, <1>2, Grown
<1>5. /\ IsList(tokens') /\ Len(tokens) \in Nat /\ Len(tokens') = Len(tokens) + 1
      /\ \A n \in 1 .. Len(tokens) : tokens'[n] = tokens[n]
      /\ tokens'[Len(tokens) + 1] = Len(heap) + 1
  BY <1>1, <1>2, Grown
<1>6. tokens' \in Seq(1 .. Len(heap'))
  <2>1. tokens \in Seq(1 .. Len(heap'))
    BY <1>2, <1>4, Wider
  <2>2. Len(heap) + 1 \in 1 .. Len(heap')
    BY <1>4
  <2> QED BY <1>1, <2>1, <2>2
<1>7. Len(heap) <= Len(heap') /\ Len(tokens) <= Len(tokens')
  BY <1>4, <1>5
<1>8. /\ kept' \in Seq(1 .. Len(heap')) /\ dest' \in Seq(1 .. Len(heap'))
      /\ \A n \in 1 .. Len(macros') : IsList(macros'[n].params) /\ macros'[n].body \in Seq(1 .. Len(heap'))
      /\ FramesOK => FramesOK'
      /\ NoCallIsLeft => NoCallIsLeft'
      /\ \A n \in 1 .. Len(kept) : Type(kept[n])' = Type(kept[n])
      /\ \A n \in 1 .. Len(tokens) : heap'[tokens'[n]] = heap[tokens[n]]
  BY <1>1, <1>4, <1>5, <1>6, <1>7, Appended DEF IInv
<1>9. ListsOK'
  <2>1. ASSUME NEW n \in 1 .. Len(heap') PROVE IsToken(heap'[n])
    <3>1. CASE n \in 1 .. Len(heap)
      BY <1>4, <3>1 DEF IInv, ListsOK
    <3>2. CASE n = Len(heap) + 1
      BY <1>3, <1>4, <3>2
    <3> QED BY <1>4, <3>1, <3>2
  <2> QED BY <1>1, <1>4, <1>6, <1>8, <2>1 DEF IInv, ListsOK
<1>10. IndexOK'
  BY <1>1, <1>5 DEF IndexOK
<1>11. FramesOK' /\ NoCallIsLeft' /\ DepthIsBounded'
  BY <1>1, <1>8 DEF IInv, DepthIsBounded
<1>12. Type(tokens[Len(tokens)])' = "EOF"
  BY <1>3, <1>4, <1>5 DEF Type
<1>13. StageOK'
  BY <1>1, <1>5, <1>8, <1>12 DEF IInv, StageOK
<1>14. ImportsOK'
  <2>1. \A n \in 1 .. Len(tokens) : Type(tokens[n])' = Type(tokens[n]) /\ (Statement(n)' <=> Statement(n))
    <3>1. \A n \in 1 .. Len(tokens) : Type(tokens[n])' = Type(tokens[n])
      BY <1>8 DEF Type
    <3> QED BY <1>5, <3>1 DEF Statement
  <2>2. \A n \in 1 .. Len(tokens) : n < Len(tokens) => PathAt(n)' = PathAt(n)
    <3>1. TAKE n \in 1 .. Len(tokens)
    <3>2. HAVE n < Len(tokens)
    <3>3. n + 1 \in 1 .. Len(tokens)
      BY <1>5, <3>2
    <3>4. heap'[tokens'[n + 1]] = heap[tokens[n + 1]]
      BY <1>8, <3>3
    <3> QED BY <1>1, <3>4 DEF PathAt
  <2>3. ASSUME NEW n \in 1 .. Len(tokens'), Passed(n)'
        PROVE  n < Len(tokens') /\ \E m \in 1 .. Len(imports') : imports'[m] = PathAt(n)'
    <3>1. Statement(n)'
      BY <2>3 DEF Passed
    <3>2. n # Len(tokens')
      BY <1>12, <3>1 DEF Statement
    <3>3. n \in 1 .. Len(tokens) /\ n < i
      BY <1>1, <1>2, <1>5, <3>2
    <3>4. n < Len(tokens) /\ \E m \in 1 .. Len(imports) : imports[m] = PathAt(n)
      BY <1>1, <2>1, <3>1, <3>3 DEF IInv, ImportsOK, Passed
    <3> QED BY <1>1, <1>5, <2>2, <3>3, <3>4
  <2>4. ASSUME NEW m \in 1 .. Len(imports')
        PROVE  \E n \in 1 .. Len(tokens') :
                 n < Len(tokens') /\ Type(tokens[n])' = "IMPORT" /\ PathAt(n)' = imports'[m]
    <3>1. PICK n \in 1 .. Len(tokens) : n < Len(tokens) /\ Type(tokens[n]) = "IMPORT" /\ PathAt(n) = imports[m]
      BY <1>1 DEF IInv, ImportsOK
    <3>2. n \in 1 .. Len(tokens') /\ n < Len(tokens')
      BY <3>1, <1>5
    <3>3. PathAt(n)' = imports'[m]
      BY <1>1, <3>1, <2>2
    <3>4. Type(tokens[n])' = "IMPORT"
      BY <3>1, <1>8 DEF Type
    <3> QED BY <3>2, <3>3, <3>4
  <2>5. \A m, n \in 1 .. Len(imports') : imports'[m] = imports'[n] => m = n
    BY <1>1 DEF IInv, ImportsOK
  <2> QED BY <2>3, <2>4, <2>5 DEF ImportsOK
<1> QED BY <1>9, <1>10, <1>11, <1>13, <1>14 DEF IInv

-----------------------------------------------------------------------------
(* Stage 2 *)

\* A definition that is taken out ends in the list, and so does its body.
LEMMA MacroLies ==
  ASSUME ListsOK, StageOK, AtMacro, WellFormed(i), i \in Nat \ {0}
  PROVE  /\ IsList(Macro(i).params) /\ Macro(i).body \in Seq(1 .. Len(heap))
         /\ First(BodyEnds(i)) \in 1 .. Len(tokens)
<1>1. /\ tokens \in Seq(1 .. Len(heap)) /\ Len(tokens) \in Nat
      /\ i \in 1 .. Len(tokens) /\ Type(tokens[Len(tokens)]) = "EOF"
  BY DEF ListsOK, StageOK, AtMacro
<1>2. ASSUME HasParams(i) PROVE ParamsEnd(i) \in (i + 2) .. Len(tokens)
  <2> DEFINE Ends(t) == Type(t) # "ID" /\ Type(t) # "," /\ Type(t) # "("
             S == {n \in (i + 2) .. Len(tokens) : Ends(tokens[n])}
  <2>3. ParamsEnd(i) = First(S)
    BY DEF ParamsEnd
  <2>a. Len(tokens) \in (i + 2) .. Len(tokens)
    BY <1>1, <1>2 DEF HasParams
  <2>b. Ends(tokens[Len(tokens)])
    BY <1>1
  <2> HIDE DEF Ends
  <2>1. Len(tokens) \in S
    BY <2>a, <2>b
  <2>c. S \subseteq (i + 2) .. Len(tokens)
    OBVIOUS
  <2>d. (i + 2) .. Len(tokens) \subseteq Nat
    BY <1>1
  <2>2. S \subseteq Nat /\ S \subseteq (i + 2) .. Len(tokens)
    BY <2>c, <2>d
  <2> HIDE DEF S
  <2>4. First(S) \in S
    BY ONLY <2>1, <2>2, Least
  <2> QED BY <2>2, <2>3, <2>4
<1>3. Brace(i) \in Nat /\ Brace(i) >= i + 2
  <2>1. CASE HasParams(i)
    BY <2>1, <1>1, <1>2 DEF Brace
  <2>2. CASE ~HasParams(i)
    BY <2>2, <1>1 DEF Brace
  <2> QED BY <2>1, <2>2
<1>4. First(BodyEnds(i)) \in (Brace(i) + 1) .. Len(tokens)
  <2>1. BodyEnds(i) \subseteq (Brace(i) + 1) .. Len(tokens)
    BY DEF BodyEnds, Closers
  <2>2. BodyEnds(i) \subseteq Nat /\ BodyEnds(i) # {}
    <3>1. (Brace(i) + 1) .. Len(tokens) \subseteq Nat
      BY <1>1, <1>3
    <3> QED BY <2>1, <3>1 DEF WellFormed
  <2>3. First(BodyEnds(i)) \in BodyEnds(i)
    BY ONLY <2>2, Least
  <2> QED BY <2>1, <2>3
<1>5. Macro(i).body \in Seq(1 .. Len(heap))
  <2> DEFINE m == Brace(i) + 1
             n == First(BodyEnds(i)) - 1
             X == 1 .. Len(heap)
  <2>1. Macro(i).body = SubSeq(tokens, m, n)
    BY DEF Macro
  <2>2. m \in 1 .. Len(tokens) + 1 /\ n \in 0 .. Len(tokens)
    BY <1>1, <1>3, <1>4, SMTT(30)
  <2> HIDE DEF m, n, X
  <2>3. tokens \in Seq(X)
    BY <1>1 DEF X
  <2>4. SubSeq(tokens, m, n) \in Seq(X)
    <3>1. \A k \in m .. n : tokens[k] \in X
      BY <1>1, <2>2, <2>3
    <3> QED BY <1>1, <2>2, <2>3, <3>1
  <2> QED BY <2>1, <2>4 DEF X
<1>6. IsList(Macro(i).params)
  <2>1. Macro(i).params = Params(i)
    BY DEF Macro
  <2>2. CASE ~HasParams(i)
    <3>1. IsList(<<>>)
      BY DEF IsList
    <3> QED BY <2>1, <2>2, <3>1 DEF Params
  <2>3. CASE HasParams(i)
    <3> DEFINE k == (ParamsEnd(i) - i - 2) \div 2
               X == {Value(tokens[i + 1 + 2 * n]) : n \in 1 .. k}
               p == [n \in 1 .. k |-> Value(tokens[i + 1 + 2 * n])]
    <3>1. k \in Nat
      <4>1. ParamsEnd(i) - i - 2 \in Nat
        BY <1>1, <1>2, <2>3
      <4> QED BY <4>1
    <3>2. Params(i) = p
      BY <2>3 DEF Params
    <3> HIDE DEF k
    <3>3. p \in [1 .. k -> X]
      OBVIOUS
    <3> HIDE DEF p, X
    <3>4. IsList(p)
      BY <3>1, <3>3, FunIsList
    <3> QED BY <2>1, <3>2, <3>4
  <2> QED BY <2>2, <2>3
<1> QED BY <1>1, <1>3, <1>4, <1>5, <1>6

\* Stage 2 leaves the imports alone.
LEMMA ImportsKept ==
  ASSUME ImportsOK, stage = "define", UNCHANGED <<program, heap, stage, tokens, imports>>
  PROVE  ImportsOK'
<1>1. ASSUME NEW n
      PROVE  /\ Type(tokens[n])' = Type(tokens[n]) /\ PathAt(n)' = PathAt(n)
             /\ Passed(n)' => Passed(n)
  BY DEF Passed, Statement, PathAt, Type
<1>2. \A n \in 1 .. Len(tokens) : Passed(n)' =>
         n < Len(tokens) /\ \E m \in 1 .. Len(imports) : imports[m] = PathAt(n)
  BY <1>1 DEF ImportsOK
<1>3. ASSUME NEW m \in 1 .. Len(imports)
      PROVE  \E n \in 1 .. Len(tokens) :
                n < Len(tokens) /\ Type(tokens[n])' = "IMPORT" /\ PathAt(n)' = imports[m]
  BY <1>1 DEF ImportsOK
<1>4. \A m, n \in 1 .. Len(imports) : imports[m] = imports[n] => m = n
  BY DEF ImportsOK
<1> QED BY <1>1, <1>2, <1>3, <1>4 DEF ImportsOK

\* Stage 2: a definition moves from the list to the macros, its body made of cells of the list.
LEMMA Defined ==
  ASSUME IInv, Define, program' = program
  PROVE  IInv'
<1>1. /\ AtMacro /\ WellFormed(i) /\ stage = "define" /\ stage' = "define"
      /\ macros' = Append(macros, Macro(i)) /\ i' = First(BodyEnds(i)) + 1
      /\ UNCHANGED <<program, heap, stage, tokens, kept, dest, imports, frames, calls>>
  BY DEF Define, AtMacro
<1>2. /\ IsList(macros) /\ i \in Nat \ {0} /\ tokens \in Seq(1 .. Len(heap)) /\ Len(tokens) \in Nat
  BY DEF IInv, ListsOK, IndexOK
<1>3. /\ IsList(Macro(i).params) /\ Macro(i).body \in Seq(1 .. Len(heap))
      /\ First(BodyEnds(i)) \in 1 .. Len(tokens)
  BY <1>1, <1>2, MacroLies DEF IInv
<1> DEFINE new == Macro(i)
<1> HIDE DEF new
<1>4. /\ IsList(macros') /\ Len(macros) \in Nat /\ Len(macros') = Len(macros) + 1
      /\ \A n \in 1 .. Len(macros) : macros'[n] = macros[n]
      /\ macros'[Len(macros) + 1] = new
  BY <1>1, <1>2, Grown DEF new
<1>5. ListsOK'
  <2>1. ASSUME NEW n \in 1 .. Len(macros')
        PROVE  IsList(macros'[n].params) /\ macros'[n].body \in Seq(1 .. Len(heap))
    <3>1. CASE n \in 1 .. Len(macros)
      BY <3>1, <1>4 DEF IInv, ListsOK
    <3>2. CASE n = Len(macros) + 1
      BY <3>2, <1>3, <1>4 DEF new
    <3> QED BY <3>1, <3>2, <1>4
  <2> QED BY <1>1, <1>4, <2>1 DEF IInv, ListsOK
<1>6. IndexOK'
  <2>1. i' \in Nat \ {0} /\ i' <= Len(tokens) + 1
    BY <1>1, <1>2, <1>3
  <2> QED BY <1>1, <2>1 DEF IndexOK
<1>7. frames = <<>> /\ frames' = <<>>
  BY <1>1 DEF IInv, StageOK
<1>8. FramesOK'
  <2>1. IsList(frames') /\ Len(frames') = 0
    BY <1>7 DEF IsList
  <2> QED BY <2>1 DEF FramesOK
<1>9. NoCallIsLeft'
  <2>1. ASSUME NEW n \in 1 .. Len(dest), Type(dest[n]) = "MACRO"
        PROVE  \E m \in 1 .. Len(macros') : \E k \in 1 .. Len(macros'[m].body) : macros'[m].body[k] = dest[n]
    <3>1. PICK m \in 1 .. Len(macros) : \E k \in 1 .. Len(macros[m].body) : macros[m].body[k] = dest[n]
      BY <2>1 DEF IInv, NoCallIsLeft
    <3>2. m \in 1 .. Len(macros') /\ macros'[m] = macros[m]
      BY <1>4
    <3> QED BY <3>1, <3>2
  <2> QED BY <1>1, <2>1 DEF IInv, NoCallIsLeft, Type
<1>10. DepthIsBounded'
  BY <1>1 DEF IInv, DepthIsBounded
<1>11. StageOK'
  BY <1>1 DEF IInv, StageOK, Type
<1>12. ImportsOK'
  BY <1>1, ImportsKept DEF IInv
<1> QED BY <1>5, <1>6, <1>8, <1>9, <1>10, <1>11, <1>12 DEF IInv

\* Stage 2: any other token is kept.
LEMMA KeptToken ==
  ASSUME IInv, KeepToken, program' = program
  PROVE  IInv'
<1>1. /\ stage = "define" /\ stage' = "define" /\ i <= Len(tokens) /\ Type(tokens[i]) # "MACRO"
      /\ kept' = Append(kept, tokens[i]) /\ i' = i + 1
      /\ UNCHANGED <<program, heap, tokens, dest, imports, macros, frames, calls>>
  BY DEF KeepToken
<1>2. /\ i \in Nat \ {0} /\ tokens \in Seq(1 .. Len(heap)) /\ Len(tokens) \in Nat
      /\ kept \in Seq(1 .. Len(heap)) /\ Len(kept) \in Nat
  BY DEF IInv, ListsOK, IndexOK
<1>3. tokens[i] \in 1 .. Len(heap)
  BY <1>1, <1>2
<1>4. /\ kept' \in Seq(1 .. Len(heap)) /\ Len(kept') = Len(kept) + 1
      /\ \A n \in 1 .. Len(kept) : kept'[n] = kept[n]
      /\ kept'[Len(kept) + 1] = tokens[i]
  BY <1>1, <1>2, <1>3
<1>5. ListsOK'
  BY <1>1, <1>4 DEF IInv, ListsOK
<1>6. IndexOK'
  BY <1>1, <1>2 DEF IndexOK
<1>7. frames = <<>> /\ frames' = <<>>
  BY <1>1 DEF IInv, StageOK
<1>8. FramesOK'
  <2>1. IsList(frames') /\ Len(frames') = 0
    BY <1>7 DEF IsList
  <2> QED BY <2>1 DEF FramesOK
<1>9. NoCallIsLeft' /\ DepthIsBounded'
  BY <1>1 DEF IInv, NoCallIsLeft, Type, DepthIsBounded
<1>10. StageOK'
  <2>1. ASSUME NEW n \in 1 .. Len(kept') PROVE heap[kept'[n]].type # "MACRO"
    <3>1. CASE n \in 1 .. Len(kept)
      BY <3>1, <1>4 DEF IInv, StageOK, Type
    <3>2. CASE n = Len(kept) + 1
      BY <3>2, <1>1, <1>4 DEF Type
    <3> QED BY <3>1, <3>2, <1>2, <1>4
  <2> QED BY <1>1, <2>1 DEF IInv, StageOK, Type
<1>11. ImportsOK'
  BY <1>1, ImportsKept DEF IInv
<1> QED BY <1>5, <1>6, <1>8, <1>9, <1>10, <1>11 DEF IInv

\* The end of stage 2: the kept tokens hold no definition.
LEMMA DefinesEnded ==
  ASSUME IInv, EndDefines, program' = program
  PROVE  IInv'
<1>1. /\ stage = "define" /\ stage' = "expand" /\ i' = 1
      /\ UNCHANGED <<program, heap, tokens, kept, dest, imports, macros, frames, calls>>
  BY DEF EndDefines
<1>2. kept \in Seq(1 .. Len(heap)) /\ Len(kept) \in Nat
  BY DEF IInv, ListsOK
<1>3. ListsOK' /\ IndexOK'
  BY <1>1, <1>2 DEF IInv, ListsOK, IndexOK
<1>4. FramesOK'
  BY <1>1 DEF IInv, FramesOK, FrameOK, List
<1>5. NoCallIsLeft' /\ DepthIsBounded'
  BY <1>1 DEF IInv, NoCallIsLeft, Type, DepthIsBounded
<1>6. StageOK' /\ ImportsOK'
  BY <1>1 DEF IInv, StageOK, ImportsOK, Type
<1> QED BY <1>3, <1>4, <1>5, <1>6 DEF IInv

-----------------------------------------------------------------------------
(* Stage 3 *)

\* What calls are written in: the kept tokens or a body.
LEMMA ListIs ==
  ASSUME ListsOK, NEW src \in 0 .. Len(macros)
  PROVE  /\ List(src) \in Seq(1 .. Len(heap)) /\ Len(List(src)) \in Nat /\ Len(heap) \in Nat
         /\ \A n \in 1 .. Len(List(src)) : List(src)[n] \in 1 .. Len(heap)
<1>1. kept \in Seq(1 .. Len(heap)) /\ \A n \in 1 .. Len(macros) : macros[n].body \in Seq(1 .. Len(heap))
  BY DEF ListsOK
<1>2. Len(macros) \in Nat /\ Len(heap) \in Nat
  BY ListLength DEF ListsOK
<1>3. List(src) \in Seq(1 .. Len(heap))
  <2>1. CASE src = 0
    BY <2>1, <1>1 DEF List
  <2>2. CASE src # 0
    <3>1. src \in 1 .. Len(macros)
      BY <2>2, <1>2
    <3> QED BY <2>2, <3>1, <1>1 DEF List
  <2> QED BY <2>1, <2>2
<1> QED BY <1>2, <1>3

\* A call that is accepted becomes an invocation as it should be.
LEMMA NewFrame ==
  ASSUME ListsOK, NEW src \in 0 .. Len(macros), NEW at \in 1 .. Len(List(src)), NEW max,
         Callable(List(src), at, max)
  PROVE  FrameOK(Frame(src, at, max)) /\ CallEnd(List(src), at, max) \in at .. Len(List(src))
<1> DEFINE list == List(src)
           args == Arguments(list, at, max)
           found == Found(Value(list[at]), Len(args))
           m == First(found)
           f == Frame(src, at, max)
<1>1. /\ list \in Seq(1 .. Len(heap)) /\ Len(list) \in Nat /\ Len(heap) \in Nat
      /\ \A n \in 1 .. Len(list) : list[n] \in 1 .. Len(heap)
  BY ListIs
<1>2. HasBrackets(list, at, max) => CallEnds(list, at) # {}
  BY DEF Callable
<1>3. CallEnd(list, at, max) \in at .. Len(list)
  <2> HIDE DEF list
  <2> QED BY <1>1, <1>2, CallEndLies DEF list
<1>4. /\ args \in Seq(Nat \X Nat)
      /\ \A n \in 1 .. Len(args) : args[n][1] \in 1 .. (Len(list) + 1) /\ args[n][2] \in 0 .. Len(list)
  <2>1. at \in 1 .. Len(list)
    OBVIOUS
  <2> HIDE DEF list
  <2> QED BY <1>1, <1>2, <2>1, ArgumentsLie
<1>5. m \in 1 .. Len(macros) /\ Len(macros[m].params) = Len(args)
  <2>1. found # {}
    BY DEF Callable
  <2>2. found \subseteq 1 .. Len(macros) /\ Len(macros) \in Nat
    <3>1. DOMAIN macros = 1 .. Len(macros) /\ Len(macros) \in Nat
      BY ListLength DEF ListsOK
    <3> HIDE DEF args, list
    <3> QED BY <3>1 DEF Found
  <2>3. found \subseteq Nat
    <3> HIDE DEF found
    <3> QED BY <2>2
  <2>4. m \in found
    <3> HIDE DEF found
    <3> QED BY ONLY <2>1, <2>3, Least
  <2>5. Len(macros[m].params) = Len(args)
    <3> HIDE DEF m, args, list
    <3> QED BY <2>4 DEF Found, Same
  <2> HIDE DEF found, m
  <2> QED BY <2>2, <2>4, <2>5
<1>6. f = [call |-> list[at], src |-> src, args |-> args, macro |-> m, k |-> 1, arg |-> 0, j |-> 0, called |-> FALSE]
  BY DEF Frame
<1>7. Len(macros[m].body) \in Nat
  <2> HIDE DEF m
  <2> QED BY <1>5 DEF ListsOK
<1> HIDE DEF list, args, found, m, f
<1>8. list[at] \in 1 .. Len(heap)
  BY <1>1 DEF list
<1>9. f \in [call : 1..Len(heap), src : 0..Len(macros), args : Seq(Nat \X Nat), macro : 1..Len(macros),
              k : Nat \ {0}, arg : Nat, j : Nat, called : BOOLEAN]
  BY <1>4, <1>5, <1>6, <1>8
<1>10. /\ f.src = src /\ f.args = args /\ f.macro = m /\ f.k = 1 /\ f.arg = 0 /\ f.j = 0 /\ f.called = FALSE
  BY <1>6
<1>12. /\ Len(f.args) = Len(macros[f.macro].params)
      /\ \A n \in 1 .. Len(f.args) : f.args[n][1] \in 1 .. (Len(List(f.src)) + 1) /\ f.args[n][2] \in 0 .. Len(List(f.src))
  BY <1>4, <1>5, <1>10 DEF list
<1>13. f.k <= Len(macros[f.macro].body) + 1 /\ f.arg <= Len(f.args)
  BY <1>4, <1>7, <1>10
<1>14. (f.j > 0 <=> f.arg > 0) /\ ~(f.j > 0) /\ ~f.called
  BY <1>10
<1>11. FrameOK(f)
  BY <1>9, <1>12, <1>13, <1>14 DEF FrameOK
<1> QED BY <1>3, <1>11 DEF list, f

\* The innermost invocation and its macro's body.
LEMMA AtTop ==
  ASSUME IInv, Expanding
  PROVE  /\ Len(frames) \in Nat \ {0} /\ FrameOK(Top)
         /\ Body \in Seq(1 .. Len(heap)) /\ Len(Body) \in Nat
         /\ Top.macro \in 1 .. Len(macros) /\ Top.src \in 0 .. Len(macros)
<1>1. Len(frames) \in Nat \ {0}
  BY ListLength DEF IInv, FramesOK, Expanding
<1>2. FrameOK(Top)
  BY <1>1 DEF IInv, FramesOK, Top
<1>3. Top.macro \in 1 .. Len(macros) /\ Top.src \in 0 .. Len(macros)
  BY <1>2 DEF FrameOK
<1>4. Body \in Seq(1 .. Len(heap))
  BY <1>3 DEF IInv, ListsOK, Body
<1> QED BY <1>1, <1>2, <1>3, <1>4

\* A token of dest: not a call, and a definition only where a body has it.
Clean(h, x) == h[x].type # "MACRO_CALL" /\ (h[x].type = "MACRO" => InABody(x))

\* What a step of stage 3 has to show.
LEMMA Stepped ==
  ASSUME IInv, stage = "expand", stage' \in {"expand", "done", "failed", "undefined"},
         UNCHANGED <<program, tokens, kept, imports, macros>>,
         IsList(heap'), Len(heap) <= Len(heap'),
         \A n \in 1 .. Len(heap') : IsToken(heap'[n]),
         \A n \in 1 .. Len(heap) : heap'[n].type = heap[n].type \/ heap'[n].type \notin {"MACRO", "MACRO_CALL"},
         dest' \in Seq(1 .. Len(heap')), \A n \in 1 .. Len(dest') : Clean(heap', dest'[n]),
         i' \in Nat \ {0}, stage' = "expand" => i' <= Len(kept) + 1,
         IsList(frames'), \A n \in 1 .. Len(frames') : FrameOK(frames'[n]),
         calls' \in Nat, Len(frames') <= calls', calls' <= MaxDepth + 1
  PROVE  IInv'
<1>1. Len(heap) \in Nat /\ Len(heap') \in Nat
  BY ListLength DEF IInv, ListsOK
<1>2. ASSUME NEW s \in Seq(1 .. Len(heap))
      PROVE  s \in Seq(1 .. Len(heap')) /\ \A n \in 1 .. Len(s) : s[n] \in 1 .. Len(heap)
  BY <1>1, <1>2, Wider
<1>3. ListsOK'
  <2>1. tokens \in Seq(1 .. Len(heap')) /\ kept \in Seq(1 .. Len(heap'))
    BY <1>2 DEF IInv, ListsOK
  <2>2. \A n \in 1 .. Len(macros) : IsList(macros[n].params) /\ macros[n].body \in Seq(1 .. Len(heap'))
    BY <1>2 DEF IInv, ListsOK
  <2> QED BY <2>1, <2>2 DEF IInv, ListsOK
<1>4. IndexOK'
  BY DEF IndexOK
<1>5. FramesOK'
  <2>1. ASSUME NEW f, FrameOK(f) PROVE FrameOK(f)'
    <3>1. 1 .. Len(heap) \subseteq 1 .. Len(heap')
      BY <1>1
    <3>2. f \in [call : 1..Len(heap'), src : 0..Len(macros'), args : Seq(Nat \X Nat), macro : 1..Len(macros'),
              k : Nat \ {0}, arg : Nat, j : Nat, called : BOOLEAN]
      BY <2>1, <3>1 DEF FrameOK
    <3> QED BY <2>1, <3>2 DEF FrameOK, List
  <2> QED BY <2>1 DEF FramesOK
<1>6. NoCallIsLeft'
  <2>1. \A x : InABody(x) => InABody(x)'
    BY DEF InABody
  <2> QED BY <2>1 DEF Clean, NoCallIsLeft, InABody, Type
<1>7. DepthIsBounded'
  BY DEF DepthIsBounded
<1>8. StageOK'
  <2>1. \A n \in 1 .. Len(kept) : heap'[kept[n]].type # "MACRO"
    <3>1. TAKE n \in 1 .. Len(kept)
    <3>2. heap[kept[n]].type # "MACRO"
      BY DEF IInv, StageOK, Type
    <3>3. kept[n] \in 1 .. Len(heap)
      BY <1>2 DEF IInv, ListsOK
    <3> QED BY <3>2, <3>3
  <2> QED BY <2>1 DEF StageOK, Type
<1>9. ImportsOK'
  BY DEF ImportsOK
<1> QED BY <1>3, <1>4, <1>5, <1>6, <1>7, <1>8, <1>9 DEF IInv

\* What holds of the parts that a step leaves as they are.
LEMMA Standing ==
  ASSUME IInv, stage = "expand"
  PROVE  /\ IsList(heap) /\ Len(heap) \in Nat /\ \A n \in 1 .. Len(heap) : IsToken(heap[n])
         /\ dest \in Seq(1 .. Len(heap)) /\ Len(dest) \in Nat /\ \A n \in 1 .. Len(dest) : Clean(heap, dest[n])
         /\ kept \in Seq(1 .. Len(heap)) /\ Len(kept) \in Nat
         /\ i \in Nat \ {0} /\ i <= Len(kept) + 1
         /\ IsList(frames) /\ Len(frames) \in Nat /\ \A n \in 1 .. Len(frames) : FrameOK(frames[n])
         /\ calls \in Nat /\ Len(frames) <= calls /\ calls <= MaxDepth + 1 /\ MaxDepth \in Nat
<1>1. MaxDepth \in Nat
  BY ProgramsAssumption
<1>2. Len(heap) \in Nat /\ Len(frames) \in Nat
  BY ListLength DEF IInv, ListsOK, FramesOK
<1>3. \A n \in 1 .. Len(dest) : Clean(heap, dest[n])
  BY DEF IInv, NoCallIsLeft, Clean, InABody, Type
<1>4. dest \in Seq(1 .. Len(heap)) /\ kept \in Seq(1 .. Len(heap))
  BY DEF IInv, ListsOK
<1> QED BY <1>1, <1>2, <1>3, <1>4 DEF IInv, ListsOK, IndexOK, FramesOK, StageOK, DepthIsBounded

\* A list of clean tokens that a clean one is appended to is such a list.
LEMMA CleanAppended ==
  ASSUME NEW X, NEW d \in Seq(X), NEW x \in X, NEW h, \A n \in 1 .. Len(d) : Clean(h, d[n]), Clean(h, x)
  PROVE  /\ Append(d, x) \in Seq(X) /\ Len(Append(d, x)) = Len(d) + 1
         /\ \A n \in 1 .. Len(Append(d, x)) : Clean(h, Append(d, x)[n])
OBVIOUS

\* Stage 3: a token outside of all calls is passed on.
LEMMA CopiedToken ==
  ASSUME IInv, CopyToken, program' = program
  PROVE  IInv'
<1>1. /\ stage = "expand" /\ stage' = "expand" /\ i <= Len(kept) /\ heap[kept[i]].type # "MACRO_CALL"
      /\ dest' = Append(dest, kept[i]) /\ i' = i + 1
      /\ UNCHANGED <<program, heap, tokens, kept, imports, macros, frames, calls>>
  BY DEF CopyToken, Type
<1>2. kept[i] \in 1 .. Len(heap) /\ Clean(heap, kept[i])
  <2>1. i \in 1 .. Len(kept) /\ kept[i] \in 1 .. Len(heap)
    BY <1>1, Standing, SMTT(30)
  <2> QED BY <1>1, <2>1 DEF IInv, StageOK, Type, Clean
<1>3. dest' \in Seq(1 .. Len(heap)) /\ \A n \in 1 .. Len(dest') : Clean(heap, dest'[n])
  BY <1>1, <1>2, Standing, CleanAppended
<1>4. i' \in Nat \ {0} /\ i' <= Len(kept) + 1
  BY <1>1, Standing
<1>5. Len(heap) <= Len(heap')
  BY <1>1, Standing
<1> QED BY <1>1, <1>3, <1>4, <1>5, Standing, Stepped

\* The end of stage 3.
LEMMA ExpansionEnded ==
  ASSUME IInv, EndExpansion, program' = program
  PROVE  IInv'
<1>1. /\ stage = "expand" /\ stage' = "done"
      /\ UNCHANGED <<program, heap, tokens, kept, dest, i, imports, macros, frames, calls>>
  BY DEF EndExpansion
<1>2. Len(heap) <= Len(heap')
  BY <1>1, Standing
<1> QED BY <1>1, <1>2, Standing, Stepped

\* Steps that touch the invocations only, and the position in the kept tokens.
LEMMA Framed ==
  ASSUME IInv, stage = "expand", stage' = "expand",
         UNCHANGED <<program, heap, tokens, kept, dest, imports, macros>>,
         i' \in Nat \ {0}, i' <= Len(kept) + 1,
         IsList(frames'), \A n \in 1 .. Len(frames') : FrameOK(frames'[n]),
         calls' \in Nat, Len(frames') <= calls', calls' <= MaxDepth + 1
  PROVE  IInv'
<1>1. Len(heap) <= Len(heap')
  BY Standing
<1> QED BY <1>1, Standing, Stepped

\* Stage 3: a call outside of all others opens the first invocation.
LEMMA CalledMacro ==
  ASSUME IInv, CallMacro, program' = program
  PROVE  IInv'
<1> DEFINE f == Frame(0, i, Len(kept) + 1)
<1>1. /\ stage = "expand" /\ stage' = "expand" /\ i <= Len(kept) /\ Callable(kept, i, Len(kept) + 1)
      /\ frames' = <<f>> /\ calls' = 1 /\ i' = CallEnd(kept, i, Len(kept) + 1) + 1
      /\ UNCHANGED <<program, heap, tokens, kept, dest, imports, macros>>
  BY DEF CallMacro, AtCall
<1>2. List(0) = kept /\ i \in 1 .. Len(kept) /\ ListsOK
  BY <1>1, Standing DEF List, IInv
<1>3. 0 \in 0 .. Len(macros)
  BY ListLength DEF IInv, ListsOK
<1>4. FrameOK(f) /\ CallEnd(kept, i, Len(kept) + 1) \in i .. Len(kept)
  BY <1>1, <1>2, <1>3, NewFrame
<1> HIDE DEF f
<1>5. i' \in Nat \ {0} /\ i' <= Len(kept) + 1
  BY <1>1, <1>2, <1>4, Standing
<1>6. IsList(frames') /\ Len(frames') = 1 /\ frames'[1] = f
  <2>1. <<f>> \in Seq({f})
    OBVIOUS
  <2>2. IsList(<<f>>)
    BY <2>1, SeqIsList
  <2> QED BY <1>1, <2>2
<1>7. \A n \in 1 .. Len(frames') : FrameOK(frames'[n])
  BY <1>4, <1>6
<1>8. calls' \in Nat /\ Len(frames') <= calls' /\ calls' <= MaxDepth + 1
  BY <1>1, <1>6, Standing
<1> QED BY <1>1, <1>5, <1>6, <1>7, <1>8, Framed

\* An invocation that has come to the end of the body returns.
LEMMA Left ==
  ASSUME IInv, Leave, program' = program
  PROVE  IInv'
<1>1. /\ stage = "expand" /\ stage' = "expand" /\ frames # <<>> /\ frames' = Tail(frames)
      /\ UNCHANGED <<program, heap, tokens, kept, dest, i, imports, macros, calls>>
  BY DEF Leave, Expanding
<1>2. /\ IsList(frames') /\ Len(frames) \in Nat \ {0} /\ Len(frames') = Len(frames) - 1
      /\ \A n \in 1 .. Len(frames) - 1 : frames'[n] = frames[n + 1]
  BY <1>1, Standing, Shortened
<1>3. \A n \in 1 .. Len(frames') : FrameOK(frames'[n])
  <2>1. TAKE n \in 1 .. Len(frames')
  <2>2. n + 1 \in 1 .. Len(frames) /\ frames'[n] = frames[n + 1]
    BY <1>2
  <2> QED BY <1>1, <2>2, Standing
<1>4. calls' \in Nat /\ Len(frames') <= calls' /\ calls' <= MaxDepth + 1
  BY <1>1, <1>2, Standing
<1>5. i' \in Nat \ {0} /\ i' <= Len(kept) + 1
  BY <1>1, Standing
<1> QED BY <1>1, <1>2, <1>3, <1>4, <1>5, Framed

\* The fields of an invocation.
FrameType == [call : 1..Len(heap), src : 0..Len(macros), args : Seq(Nat \X Nat), macro : 1..Len(macros),
              k : Nat \ {0}, arg : Nat, j : Nat, called : BOOLEAN]

\* An invocation whose positions are moved keeps its other fields.
LEMMA Fields ==
  ASSUME NEW A, NEW B, NEW C, NEW D, NEW t \in [call : A, src : B, args : C, macro : D,
              k : Nat \ {0}, arg : Nat, j : Nat, called : BOOLEAN],
         NEW k \in Nat \ {0}, NEW arg \in Nat, NEW j \in Nat, NEW called \in BOOLEAN,
         NEW g, \/ g = [t EXCEPT !.k = k, !.arg = arg, !.j = j, !.called = called]
                \/ g = [t EXCEPT !.arg = arg, !.j = j] /\ k = t.k /\ called = t.called
                \/ g = [t EXCEPT !.j = j] /\ k = t.k /\ called = t.called /\ arg = t.arg
                \/ g = [t EXCEPT !.k = k, !.called = called] /\ j = t.j /\ arg = t.arg
  PROVE  /\ g \in [call : A, src : B, args : C, macro : D, k : Nat \ {0}, arg : Nat, j : Nat, called : BOOLEAN]
         /\ g.src = t.src /\ g.args = t.args /\ g.macro = t.macro /\ g.k = k /\ g.arg = arg /\ g.j = j /\ g.called = called
<1>1. CASE g = [t EXCEPT !.k = k, !.arg = arg, !.j = j, !.called = called]
  BY <1>1
<1>2. CASE g = [t EXCEPT !.arg = arg, !.j = j] /\ k = t.k /\ called = t.called
  BY <1>2
<1>3. CASE g = [t EXCEPT !.j = j] /\ k = t.k /\ called = t.called /\ arg = t.arg
  BY <1>3
<1>4. CASE g = [t EXCEPT !.k = k, !.called = called] /\ j = t.j /\ arg = t.arg
  BY <1>4
<1> QED BY <1>1, <1>2, <1>3, <1>4

\* An invocation that has moved on.
LEMMA MovedFrame ==
  ASSUME NEW f, FrameOK(f),
         NEW g \in FrameType,
         g.src = f.src, g.args = f.args, g.macro = f.macro,
         g.k <= Len(macros[f.macro].body) + 1, g.arg <= Len(f.args), g.j > 0 <=> g.arg > 0,
         g.j > 0 \/ g.called => g.k <= Len(macros[f.macro].body)
  PROVE  FrameOK(g)
BY DEF FrameOK, FrameType

\* The invocations are as they should be when the innermost one is replaced by one that is.
LEMMA OtherTopOK ==
  ASSUME IInv, Expanding, NEW f, FrameOK(f)
  PROVE  /\ IsList(<<f>> \o Tail(frames)) /\ Len(<<f>> \o Tail(frames)) = Len(frames)
         /\ \A n \in 1 .. Len(<<f>> \o Tail(frames)) : FrameOK((<<f>> \o Tail(frames))[n])
<1>1. IsList(frames) /\ frames # <<>> /\ Len(frames) \in Nat /\ \A n \in 1 .. Len(frames) : FrameOK(frames[n])
  BY Standing DEF Expanding
<1> DEFINE s == <<f>> \o Tail(frames)
<1>2. /\ IsList(s) /\ Len(s) = Len(frames) /\ s[1] = f
      /\ \A n \in 2 .. Len(frames) : s[n] = frames[n]
  BY <1>1, OtherTop
<1> HIDE DEF s
<1>3. \A n \in 1 .. Len(s) : FrameOK(s[n])
  <2>1. TAKE n \in 1 .. Len(s)
  <2>2. CASE n = 1
    BY <1>2, <2>2
  <2>3. CASE n # 1
    <3>1. n \in 2 .. Len(frames) /\ n \in 1 .. Len(frames)
      BY <1>1, <1>2, <2>3
    <3> QED BY <1>1, <1>2, <3>1
  <2> QED BY <2>2, <2>3
<1> QED BY <1>2, <1>3 DEF s

\* A call that is entered, or refused.
LEMMA Entered ==
  ASSUME IInv, Expanding, program' = program, i' = i, NEW f, FrameOK(f), NEW g, FrameOK(g),
         Enter(f, <<g>> \o Tail(frames))
  PROVE  IInv'
<1>1. CASE calls > MaxDepth
  <2>1. Stop("failed")
    BY <1>1 DEF Enter
  <2> QED BY <2>1, Stopped
<1>2. CASE ~(calls > MaxDepth)
  <2> DEFINE s == <<g>> \o Tail(frames)
  <2>1. IsList(s) /\ Len(s) = Len(frames) /\ \A n \in 1 .. Len(s) : FrameOK(s[n])
    BY OtherTopOK
  <2>2. /\ stage = "expand" /\ stage' = "expand" /\ frames' = <<f>> \o s /\ calls' = calls + 1
        /\ UNCHANGED <<program, heap, tokens, kept, dest, imports, macros>>
    BY <1>2 DEF Enter, Expanding
  <2> HIDE DEF s
  <2>3. /\ IsList(frames') /\ Len(s) \in Nat /\ Len(frames') = Len(s) + 1
        /\ frames'[1] = f /\ \A n \in 2 .. Len(s) + 1 : frames'[n] = s[n - 1]
    BY <2>1, <2>2, Prefixed
  <2>4. \A n \in 1 .. Len(frames') : FrameOK(frames'[n])
    <3>1. TAKE n \in 1 .. Len(frames')
    <3>2. CASE n = 1
      BY <2>3, <3>2
    <3>3. CASE n # 1
      <4>1. n \in 2 .. Len(s) + 1 /\ n - 1 \in 1 .. Len(s)
        BY <2>3, <3>3
      <4> QED BY <2>1, <2>3, <4>1
    <3> QED BY <3>2, <3>3
  <2>5. calls' \in Nat /\ Len(frames') <= calls' /\ calls' <= MaxDepth + 1
    BY <1>2, <2>1, <2>2, <2>3, Standing
  <2>6. i' \in Nat \ {0} /\ i' <= Len(kept) + 1
    BY <2>2, Standing
  <2> QED BY <2>2, <2>3, <2>4, <2>5, <2>6, Framed
<1> QED BY <1>1, <1>2

\* In the loop over an argument: its tokens are in the list the call is written in.
LEMMA AtArgument ==
  ASSUME IInv, InArgument
  PROVE  /\ Top.j \in Nat \ {0} /\ Argument[2] \in 0 .. Len(List(Top.src)) /\ Top.k <= Len(Body)
         /\ Top.j <= Argument[2] => Top.j \in 1 .. Len(List(Top.src))
<1>1. FrameOK(Top) /\ Top.j > 0
  BY AtTop DEF InArgument
<1>2. Top.j \in Nat \ {0} /\ Top.arg \in 1 .. Len(Top.args)
  BY <1>1 DEF FrameOK
<1>3. Argument[2] \in 0 .. Len(List(Top.src))
  BY <1>1, <1>2 DEF FrameOK, Argument
<1>4. Top.k <= Len(Body)
  BY <1>1 DEF FrameOK, Body
<1>5. Len(List(Top.src)) \in Nat
  BY <1>1, ListIs DEF IInv, FrameOK
<1> QED BY <1>2, <1>3, <1>4, <1>5

\* In the loop over the body.
LEMMA AtBody ==
  ASSUME IInv, InBody
  PROVE  /\ Top.k \in 1 .. Len(Body) /\ Tok \in 1 .. Len(heap)
         /\ Top.j = 0 /\ Top.arg = 0 /\ Top.called = FALSE
         /\ List(Top.macro) = Body
<1>1. /\ FrameOK(Top) /\ Top.j = 0 /\ ~Top.called /\ Top.k <= Len(Body)
      /\ Body \in Seq(1 .. Len(heap)) /\ Len(Body) \in Nat /\ Top.macro \in 1 .. Len(macros)
  BY AtTop DEF InBody
<1>2. Top.k \in Nat \ {0} /\ Top.called \in BOOLEAN /\ Top.arg \in Nat /\ ~(Top.arg > 0)
  BY <1>1 DEF FrameOK
<1>3. Top.k \in 1 .. Len(Body)
  BY <1>1, <1>2
<1>4. Tok \in 1 .. Len(heap)
  BY <1>1, <1>3 DEF Tok
<1>5. List(Top.macro) = Body
  BY <1>1 DEF List, Body
<1>6. Top.called = FALSE
  BY <1>1, <1>2
<1> QED BY <1>1, <1>2, <1>3, <1>4, <1>5, <1>6

\* A call in an argument.
LEMMA CalledInArgument ==
  ASSUME IInv, ArgumentCall, program' = program
  PROVE  IInv'
<1> DEFINE list == List(Top.src)
           f == Frame(Top.src, Top.j, Argument[2])
           g == [Top EXCEPT !.j = CallEnd(list, Top.j, Argument[2]) + 1]
<1>1. InArgument /\ Expanding /\ i' = i /\ Top.j <= Argument[2]
  BY DEF ArgumentCall, InArgument
<1>2. CASE Callable(list, Top.j, Argument[2])
  <2>1. Enter(f, <<g>> \o Tail(frames))
    BY <1>2 DEF ArgumentCall
  <2>2. FrameOK(Top) /\ Top.src \in 0 .. Len(macros) /\ Top.j \in 1 .. Len(list) /\ Top.k <= Len(Body) /\ ListsOK
    BY <1>1, AtTop, AtArgument DEF IInv
  <2>3. FrameOK(f) /\ CallEnd(list, Top.j, Argument[2]) \in Top.j .. Len(list)
    BY <1>2, <2>2, NewFrame
  <2>4. FrameOK(g)
    <3> DEFINE e == CallEnd(list, Top.j, Argument[2]) + 1
    <3>1. e \in Nat /\ e > 0
      BY <2>2, <2>3
    <3> HIDE DEF e
    <3>2. Top.j > 0 /\ Top.arg > 0
      BY <2>2 DEF FrameOK
    <3>3. /\ g \in FrameType
          /\ g.src = Top.src /\ g.args = Top.args /\ g.macro = Top.macro
          /\ g.k = Top.k /\ g.arg = Top.arg /\ g.called = Top.called /\ g.j = e
      <4>1. Top \in FrameType /\ Top.k \in Nat \ {0} /\ Top.arg \in Nat /\ Top.called \in BOOLEAN
        BY <2>2 DEF FrameOK, FrameType
      <4>2. g = [Top EXCEPT !.j = e]
        BY DEF e
      <4> HIDE DEF g
      <4> QED BY ONLY <3>1, <4>1, <4>2, Fields DEF FrameType
    <3> HIDE DEF g
    <3>4. g.k <= Len(macros[Top.macro].body)
      BY <2>2, <3>3 DEF Body
    <3>5. /\ g.k <= Len(macros[Top.macro].body) + 1 /\ g.arg <= Len(Top.args)
          /\ (g.j > 0 <=> g.arg > 0)
      BY <2>2, <3>1, <3>2, <3>3 DEF FrameOK
    <3> QED BY <2>2, <3>3, <3>4, <3>5, MovedFrame
  <2> HIDE DEF f, g
  <2> QED BY <1>1, <2>1, <2>3, <2>4, Entered
<1>3. CASE ~Callable(list, Top.j, Argument[2])
  <2>1. Stop("failed")
    BY <1>3 DEF ArgumentCall
  <2> QED BY <2>1, Stopped
<1> QED BY <1>2, <1>3

\* A call in the body.
LEMMA CalledInBody ==
  ASSUME IInv, BodyCall, program' = program
  PROVE  IInv'
<1> DEFINE f == Frame(Top.macro, Top.k, Len(Body) + 1)
           g == [Top EXCEPT !.k = CallEnd(Body, Top.k, Len(Body) + 1), !.called = TRUE]
<1>1. InBody /\ Expanding /\ i' = i
  BY DEF BodyCall, InBody
<1>2. CASE Callable(Body, Top.k, Len(Body) + 1)
  <2>1. Enter(f, <<g>> \o Tail(frames))
    BY <1>2 DEF BodyCall
  <2>2. /\ FrameOK(Top) /\ Top.macro \in 1 .. Len(macros) /\ Top.k \in 1 .. Len(Body)
        /\ Top.j = 0 /\ Top.arg = 0 /\ List(Top.macro) = Body /\ ListsOK
        /\ Len(Body) \in Nat
    BY <1>1, AtTop, AtBody DEF IInv
  <2>3. FrameOK(f) /\ CallEnd(Body, Top.k, Len(Body) + 1) \in Top.k .. Len(Body)
    <3>1. Top.macro \in 0 .. Len(macros) /\ Top.k \in 1 .. Len(List(Top.macro))
          /\ Callable(List(Top.macro), Top.k, Len(Body) + 1)
      BY <1>2, <2>2
    <3> QED BY <2>2, <3>1, NewFrame
  <2>4. FrameOK(g)
    <3> DEFINE e == CallEnd(Body, Top.k, Len(Body) + 1)
    <3>1. e \in Nat \ {0} /\ e <= Len(Body)
      BY <2>2, <2>3
    <3> HIDE DEF e
    <3>3. /\ g \in FrameType
          /\ g.src = Top.src /\ g.args = Top.args /\ g.macro = Top.macro
          /\ g.k = e /\ g.arg = Top.arg /\ g.j = Top.j
      <4>1. Top \in FrameType /\ Top.j \in Nat /\ Top.arg \in Nat
        BY <2>2 DEF FrameOK, FrameType
      <4>2. g = [Top EXCEPT !.k = e, !.called = TRUE]
        BY DEF e
      <4> HIDE DEF g
      <4> QED BY ONLY <3>1, <4>1, <4>2, Fields DEF FrameType
    <3> HIDE DEF g
    <3>4. g.k <= Len(macros[Top.macro].body)
      BY <3>1, <3>3 DEF Body
    <3>5. /\ g.k <= Len(macros[Top.macro].body) + 1 /\ g.arg <= Len(Top.args)
          /\ (g.j > 0 <=> g.arg > 0)
      <4>1. Len(macros[Top.macro].body) \in Nat
        BY <2>2 DEF Body
      <4> QED BY <2>2, <3>1, <3>3, <3>4, <4>1 DEF FrameOK
    <3> QED BY <2>2, <3>3, <3>4, <3>5, MovedFrame
  <2> HIDE DEF f, g
  <2> QED BY <1>1, <2>1, <2>3, <2>4, Entered
<1>3. CASE ~Callable(Body, Top.k, Len(Body) + 1)
  <2>1. Stop("failed")
    BY <1>3 DEF BodyCall
  <2> QED BY <2>1, Stopped
<1> QED BY <1>2, <1>3

\* What a token becomes when text is appended to it.
LEMMA JoinedIs ==
  ASSUME NEW t, IsToken(t), NEW v
  PROVE  IsToken([t EXCEPT !.value = v]) /\ [t EXCEPT !.value = v].type = t.type
<1>1. t = [type |-> t.type, value |-> t.value, line |-> t.line, source |-> t.source]
  BY DEF IsToken
<1>2. [t EXCEPT !.value = v] = [type |-> t.type, value |-> v, line |-> t.line, source |-> t.source]
  BY <1>1
<1> DEFINE u == [type |-> t.type, value |-> v, line |-> t.line, source |-> t.source]
<1>3. IsToken(u) /\ u.type = t.type
  BY DEF IsToken
<1> QED BY <1>2, <1>3

\* The first elements of a list are a list.
LEMMA FrontIs ==
  ASSUME NEW X, NEW d \in Seq(X), NEW m \in 0 .. Len(d)
  PROVE  /\ SubSeq(d, 1, m) \in Seq(X) /\ Len(SubSeq(d, 1, m)) = m
         /\ \A n \in 1 .. m : SubSeq(d, 1, m)[n] = d[n]
<1>1. \A n \in 1 .. m : d[n] \in X
  OBVIOUS
<1>2. SubSeq(d, 1, m) = [n \in 1 .. m |-> d[n]]
  OBVIOUS
<1> DEFINE s == [n \in 1 .. m |-> d[n]]
<1>3. s \in [1 .. m -> X]
  BY <1>1
<1>4. s \in Seq(X) /\ Len(s) = m
  BY <1>3
<1> QED BY <1>2, <1>4

\* The end of a round of the loop over the body, after whatever it has pushed.
LEMMA RoundOver ==
  ASSUME IInv, Expanding, Top.k <= Len(Body), program' = program,
         NEW h, IsList(h), Len(heap) <= Len(h), \A n \in 1 .. Len(heap) : h[n] = heap[n],
         \A n \in 1 .. Len(h) : IsToken(h[n]),
         NEW d \in Seq(1 .. Len(h)), \A n \in 1 .. Len(d) : Clean(h, d[n]),
         BodyRound(h, d, Top)
  PROVE  IInv'
<1> DEFINE f == [Top EXCEPT !.k = @ + 1, !.arg = 0, !.j = 0, !.called = FALSE]
<1>1. /\ stage = "expand" /\ frames' = <<f>> \o Tail(frames)
      /\ UNCHANGED <<program, i, tokens, kept, imports, macros, calls>>
  BY DEF BodyRound, Expanding
<1>2. FrameOK(f)
  <2>1. FrameOK(Top) /\ Len(Body) \in Nat
    BY AtTop
  <2>2. Top \in FrameType /\ Top.k + 1 \in Nat \ {0} /\ Len(Top.args) \in Nat
    BY <2>1 DEF FrameOK, FrameType
  <2> DEFINE k == Top.k + 1
  <2>3. f = [Top EXCEPT !.k = k, !.arg = 0, !.j = 0, !.called = FALSE]
    OBVIOUS
  <2> HIDE DEF f, k
  <2>4. k \in Nat \ {0} /\ 0 \in Nat /\ FALSE \in BOOLEAN
    BY <2>2 DEF k
  <2>5. /\ f \in FrameType /\ f.src = Top.src /\ f.args = Top.args /\ f.macro = Top.macro
        /\ f.k = k /\ f.arg = 0 /\ f.j = 0 /\ f.called = FALSE
    BY ONLY <2>2, <2>3, <2>4, Fields DEF FrameType
  <2>6. f.k <= Len(macros[Top.macro].body) + 1
    <3>1. Top.k <= Len(macros[Top.macro].body) /\ Len(macros[Top.macro].body) \in Nat /\ Top.k \in Nat
      BY <2>1 DEF Body, FrameOK
    <3> QED BY <3>1, <2>5 DEF k
  <2>7. f.arg <= Len(Top.args) /\ (f.j > 0 <=> f.arg > 0) /\ ~(f.j > 0 \/ f.called)
    BY <2>2, <2>5
  <2> QED BY <2>1, <2>5, <2>6, <2>7, MovedFrame
<1> HIDE DEF f
<1>3. IsList(frames') /\ Len(frames') = Len(frames) /\ \A n \in 1 .. Len(frames') : FrameOK(frames'[n])
  BY <1>1, <1>2, OtherTopOK
<1>4. /\ calls' \in Nat /\ Len(frames') <= calls' /\ calls' <= MaxDepth + 1
      /\ i' \in Nat \ {0} /\ i' <= Len(kept) + 1 /\ Len(heap) \in Nat
  BY <1>1, <1>3, Standing
<1>5. Len(h) \in Nat /\ Len(d) \in Nat /\ \A n \in 1 .. Len(d) : d[n] \in 1 .. Len(h)
  BY ListLength
<1>6. ASSUME dest' = d, heap' = h, stage' \in {"expand", "failed"} PROVE IInv'
  BY <1>1, <1>3, <1>4, <1>6, Stepped
<1>7. CASE ~Joins(h, d)
  BY <1>1, <1>6, <1>7 DEF BodyRound
<1>8. CASE Joins(h, d) /\ h[d[Len(d)]].type \notin Concatenateable
  BY <1>6, <1>8 DEF BodyRound
<1>9. CASE Joins(h, d) /\ h[d[Len(d)]].type \in Concatenateable
  <2> DEFINE x == d[Len(d) - 2]
             J == Joined(h, d)
             s == SubSeq(d, 1, Len(d) - 3)
  <2>1. Len(d) >= 3 /\ x \in 1 .. Len(h) /\ h[x].type = "ID"
    BY <1>5, <1>9 DEF Joins
  <2>2. IsToken(J) /\ J.type = "ID"
    <3>1. J = [h[x] EXCEPT !.value = h[x].value \o h[d[Len(d)]].value]
      BY DEF Joined
    <3> DEFINE t == h[x]
               v == h[x].value \o h[d[Len(d)]].value
    <3>2. IsToken(t) /\ t.type = "ID" /\ J = [t EXCEPT !.value = v]
      BY <2>1, <3>1
    <3> HIDE DEF t, v, J
    <3> QED BY <3>2, JoinedIs
  <2>3. /\ stage' = "expand"
        /\ \/ heap' = [h EXCEPT ![x] = J] /\ dest' = SubSeq(d, 1, Len(d) - 2)
           \/ heap' = Append([h EXCEPT ![x] = Freed], J) /\ dest' = Append(s, Len(h) + 1)
    BY <1>1, <1>9 DEF BodyRound
  <2> HIDE DEF J
  <2>4. CASE heap' = [h EXCEPT ![x] = J] /\ dest' = SubSeq(d, 1, Len(d) - 2)
    <3>1. /\ IsList(heap') /\ Len(heap') = Len(h)
          /\ \A n \in 1 .. Len(h) : heap'[n] = IF n = x THEN J ELSE h[n]
      <4>1. /\ DOMAIN heap' = DOMAIN h /\ heap' = [n \in DOMAIN heap' |-> heap'[n]]
            /\ \A n \in DOMAIN h : heap'[n] = IF n = x THEN J ELSE h[n]
        <5> HIDE DEF x
        <5> QED BY ONLY <2>4
      <4> HIDE DEF x
      <4> QED BY ONLY <4>1, IsList(h), Replaced
    <3>2. /\ dest' \in Seq(1 .. Len(h)) /\ Len(dest') = Len(d) - 2
          /\ \A n \in 1 .. Len(d) - 2 : dest'[n] = d[n]
      <4>1. Len(d) - 2 \in 0 .. Len(d)
        BY <1>5, <2>1
      <4> QED BY <2>4, <4>1, FrontIs
    <3> HIDE DEF x
    <3>3. \A n \in 1 .. Len(dest') : Clean(heap', dest'[n])
      <4>1. TAKE n \in 1 .. Len(dest')
      <4>a. n \in 1 .. Len(d) - 2
        BY <3>2
      <4>b. n \in 1 .. Len(d)
        BY <1>5, <2>1, <4>a
      <4>2. n \in 1 .. Len(d) /\ dest'[n] = d[n] /\ d[n] \in 1 .. Len(h)
        BY <1>5, <3>2, <4>a, <4>b
      <4>3. CASE d[n] = x
        <5>1. heap'[d[n]].type = "ID"
          BY <2>2, <3>1, <4>2, <4>3
        <5> QED BY <4>2, <5>1 DEF Clean
      <4>4. CASE d[n] # x
        <5>1. heap'[d[n]] = h[d[n]]
          BY <3>1, <4>2, <4>4
        <5> QED BY <4>2, <5>1 DEF Clean
      <4> QED BY <4>3, <4>4
    <3>4. \A n \in 1 .. Len(heap') : IsToken(heap'[n])
      BY <2>2, <3>1
    <3>5. \A n \in 1 .. Len(heap) : heap'[n].type = heap[n].type \/ heap'[n].type \notin {"MACRO", "MACRO_CALL"}
      <4>1. TAKE n \in 1 .. Len(heap)
      <4>2. n \in 1 .. Len(h) /\ h[n] = heap[n]
        BY <1>4, <1>5
      <4>3. heap'[n] = J \/ heap'[n] = heap[n]
        BY <3>1, <4>2
      <4> QED BY <2>2, <4>3
    <3>6. Len(heap) <= Len(heap') /\ dest' \in Seq(1 .. Len(heap'))
      BY <3>1, <3>2
    <3> QED BY <1>1, <1>3, <1>4, <2>3, <3>1, <3>3, <3>4, <3>5, <3>6, Stepped
  <2>5. CASE heap' = Append([h EXCEPT ![x] = Freed], J) /\ dest' = Append(s, Len(h) + 1)
    <3> DEFINE g == [h EXCEPT ![x] = Freed]
    <3>0. IsToken(Freed) /\ Freed.type = "FREED"
      BY DEF Freed, IsToken
    <3>1. /\ IsList(g) /\ Len(g) = Len(h)
          /\ \A n \in 1 .. Len(h) : g[n] = IF n = x THEN Freed ELSE h[n]
      <4>1. /\ DOMAIN g = DOMAIN h /\ g = [n \in DOMAIN g |-> g[n]]
            /\ \A n \in DOMAIN h : g[n] = IF n = x THEN Freed ELSE h[n]
        <5> HIDE DEF x
        <5> QED OBVIOUS
      <4> HIDE DEF g, x
      <4> QED BY ONLY <4>1, IsList(h), Replaced
    <3> HIDE DEF g
    <3>2. /\ IsList(heap') /\ Len(heap') = Len(h) + 1
          /\ \A n \in 1 .. Len(h) : heap'[n] = g[n]
          /\ heap'[Len(h) + 1] = J
      <4>1. heap' = Append(g, J)
        BY <2>5 DEF g
      <4> QED BY <3>1, <4>1, Grown
    <3>3. /\ s \in Seq(1 .. Len(h)) /\ Len(s) = Len(d) - 3
          /\ \A n \in 1 .. Len(d) - 3 : s[n] = d[n]
      <4>1. Len(d) - 3 \in 0 .. Len(d)
        BY <1>5, <2>1
      <4> QED BY <4>1, FrontIs
    <3> HIDE DEF x, s
    <3>4. s \in Seq(1 .. Len(heap')) /\ Len(h) + 1 \in 1 .. Len(heap')
      BY <1>5, <3>2, <3>3, Wider
    <3>5. \A n \in 1 .. Len(s) : Clean(heap', s[n])
      <4>1. TAKE n \in 1 .. Len(s)
      <4>a. n \in 1 .. Len(d) - 3
        BY <3>3
      <4>b. n \in 1 .. Len(d)
        BY <1>5, <2>1, <4>a
      <4>2. n \in 1 .. Len(d) /\ s[n] = d[n] /\ d[n] \in 1 .. Len(h)
        BY <1>5, <3>3, <4>a, <4>b
      <4>3. CASE d[n] = x
        <5>1. heap'[d[n]].type = "FREED"
          BY <3>0, <3>1, <3>2, <4>2, <4>3
        <5> QED BY <4>2, <5>1 DEF Clean
      <4>4. CASE d[n] # x
        <5>1. heap'[d[n]] = h[d[n]]
          BY <3>1, <3>2, <4>2, <4>4
        <5> QED BY <4>2, <5>1 DEF Clean
      <4> QED BY <4>3, <4>4
    <3>6. Clean(heap', Len(h) + 1)
      BY <2>2, <3>2 DEF Clean
    <3>7. dest' \in Seq(1 .. Len(heap')) /\ \A n \in 1 .. Len(dest') : Clean(heap', dest'[n])
      <4> DEFINE X == 1 .. Len(heap')
      <4>1. s \in Seq(X) /\ Len(h) + 1 \in X
        BY <3>4
      <4> HIDE DEF X
      <4>2. dest' \in Seq(X) /\ \A n \in 1 .. Len(dest') : Clean(heap', dest'[n])
        BY <2>5, <3>5, <3>6, <4>1, CleanAppended
      <4> QED BY <4>2 DEF X
    <3>8. \A n \in 1 .. Len(heap') : IsToken(heap'[n])
      <4>1. TAKE n \in 1 .. Len(heap')
      <4>2. CASE n \in 1 .. Len(h)
        BY <3>0, <3>1, <3>2, <4>2
      <4>3. CASE n = Len(h) + 1
        BY <2>2, <3>2, <4>3
      <4> QED BY <1>5, <3>2, <4>2, <4>3
    <3>9. \A n \in 1 .. Len(heap) : heap'[n].type = heap[n].type \/ heap'[n].type \notin {"MACRO", "MACRO_CALL"}
      <4>1. TAKE n \in 1 .. Len(heap)
      <4>2. n \in 1 .. Len(h) /\ h[n] = heap[n]
        BY <1>4, <1>5
      <4>3. heap'[n] = Freed \/ heap'[n] = heap[n]
        BY <3>1, <3>2, <4>2
      <4> QED BY <3>0, <4>3
    <3>10. Len(heap) <= Len(heap')
      BY <1>4, <1>5, <3>2
    <3> QED BY <1>1, <1>3, <1>4, <2>3, <3>2, <3>7, <3>8, <3>9, <3>10, Stepped
  <2> QED BY <2>3, <2>4, <2>5
<1> QED BY <1>7, <1>8, <1>9

\* A token of the body goes to dest.
LEMMA PushedToken ==
  ASSUME IInv, PushToken, program' = program
  PROVE  IInv'
<1>1. /\ InBody /\ Expanding /\ stage = "expand" /\ heap[Tok].type # "MACRO_CALL"
      /\ BodyRound(heap, Append(dest, Tok), Top)
  BY DEF PushToken, InBody, Expanding, Type
<1>2. Top.k \in 1 .. Len(Body) /\ Tok \in 1 .. Len(heap) /\ Top.k <= Len(Body)
  BY <1>1, AtBody, AtTop
<1>3. Clean(heap, Tok)
  <2>1. InABody(Tok)
    BY <1>1, <1>2, AtTop DEF InABody, Tok, Body
  <2> QED BY <1>1, <2>1 DEF Clean
<1> DEFINE d == Append(dest, Tok)
<1>4. d \in Seq(1 .. Len(heap)) /\ \A n \in 1 .. Len(d) : Clean(heap, d[n])
  BY <1>1, <1>2, <1>3, Standing, CleanAppended
<1>5. BodyRound(heap, d, Top)
  BY <1>1
<1> HIDE DEF d
<1>6. IsList(heap) /\ Len(heap) <= Len(heap) /\ \A n \in 1 .. Len(heap) : IsToken(heap[n])
  BY <1>1, Standing
<1> QED BY <1>1, <1>2, <1>4, <1>5, <1>6, RoundOver

\* The line of the call goes to dest.
LEMMA PushedLine ==
  ASSUME IInv, PushLine, program' = program
  PROVE  IInv'
<1> DEFINE h == Append(heap, LineToken)
           d == Append(dest, Len(heap) + 1)
           X == 1 .. Len(h)
<1>1. InBody /\ Expanding /\ stage = "expand" /\ BodyRound(h, d, Top)
  BY DEF PushLine, InBody, Expanding
<1>2. Top.k <= Len(Body)
  BY <1>1 DEF InBody
<1>3. LineToken.type = "INT" /\ IsToken(LineToken)
  BY DEF LineToken, IsToken
<1>4. /\ IsList(h) /\ Len(heap) \in Nat /\ Len(h) = Len(heap) + 1
      /\ \A n \in 1 .. Len(heap) : h[n] = heap[n]
      /\ h[Len(heap) + 1] = LineToken
  BY <1>1, Standing, Grown
<1> HIDE DEF h
<1>5. Len(heap) <= Len(h) /\ Len(heap) + 1 \in X
  BY <1>4
<1>6. \A n \in 1 .. Len(h) : IsToken(h[n])
  <2>1. TAKE n \in 1 .. Len(h)
  <2>2. CASE n \in 1 .. Len(heap)
    BY <1>1, <1>4, <2>2, Standing
  <2>3. CASE n = Len(heap) + 1
    BY <1>3, <1>4, <2>3
  <2> QED BY <1>4, <2>2, <2>3
<1>7. dest \in Seq(X) /\ \A n \in 1 .. Len(dest) : Clean(h, dest[n])
  <2>1. dest \in Seq(1 .. Len(heap)) /\ \A n \in 1 .. Len(dest) : Clean(heap, dest[n])
    BY <1>1, Standing
  <2>2. dest \in Seq(X) /\ \A n \in 1 .. Len(dest) : dest[n] \in 1 .. Len(heap)
    BY <1>4, <1>5, <2>1, Wider
  <2>3. ASSUME NEW n \in 1 .. Len(dest) PROVE Clean(h, dest[n])
    <3>1. h[dest[n]] = heap[dest[n]] /\ Clean(heap, dest[n])
      BY <1>4, <2>1, <2>2
    <3> QED BY <3>1 DEF Clean
  <2> QED BY <2>2, <2>3
<1>8. Clean(h, Len(heap) + 1)
  BY <1>3, <1>4 DEF Clean
<1>9. d \in Seq(X) /\ \A n \in 1 .. Len(d) : Clean(h, d[n])
  <2> HIDE DEF X
  <2> QED BY <1>5, <1>7, <1>8, CleanAppended
<1> HIDE DEF d
<1> QED BY <1>1, <1>2, <1>4, <1>5, <1>6, <1>9, RoundOver

\* A round in which nothing is pushed any more.
LEMMA RoundWithout ==
  ASSUME IInv, Expanding, Top.k <= Len(Body), BodyRound(heap, dest, Top), program' = program
  PROVE  IInv'
<1>1. stage = "expand"
  BY DEF Expanding
<1>2. /\ IsList(heap) /\ Len(heap) <= Len(heap) /\ (\A n \in 1 .. Len(heap) : IsToken(heap[n]))
      /\ dest \in Seq(1 .. Len(heap)) /\ \A n \in 1 .. Len(dest) : Clean(heap, dest[n])
  BY <1>1, Standing
<1> QED BY <1>2, RoundOver

\* The loop over an argument ends, or was empty from the start.
LEMMA EndedArgument ==
  ASSUME IInv, EmptyArgument \/ EndArgument \/ BodyCalled, program' = program
  PROVE  IInv'
<1>1. Expanding /\ BodyRound(heap, dest, Top)
  BY DEF EmptyArgument, EndArgument, BodyCalled, InBody, InArgument
<1>2. Top.k <= Len(Body)
  <2>1. CASE EmptyArgument
    BY <2>1 DEF EmptyArgument, InBody
  <2>2. CASE EndArgument
    BY <2>2, AtArgument DEF EndArgument
  <2>3. CASE BodyCalled
    BY <2>3, <1>1, AtTop DEF BodyCalled, FrameOK, Body
  <2> QED BY <2>1, <2>2, <2>3
<1> QED BY <1>1, <1>2, RoundWithout

\* The loop over an argument begins: the argument lies in its list.
LEMMA BegunArgument ==
  ASSUME IInv, BeginArgument, program' = program
  PROVE  IInv'
<1> DEFINE p == ParamIndex(Value(Tok))
           g == [Top EXCEPT !.arg = p, !.j = Given[1]]
<1>1. /\ InBody /\ Expanding /\ stage = "expand" /\ stage' = "expand" /\ p # 0
      /\ frames' = <<g>> \o Tail(frames)
      /\ UNCHANGED <<program, heap, tokens, kept, dest, i, imports, macros, calls>>
  BY DEF BeginArgument, InBody, Expanding, IsParam
<1>2. /\ FrameOK(Top) /\ Top.macro \in 1 .. Len(macros) /\ Top.k <= Len(Body)
  BY <1>1, AtTop, AtBody
<1>3. p \in 1 .. Len(Top.args)
  <2> DEFINE S == {n \in DOMAIN macros[Top.macro].params : macros[Top.macro].params[n] = Value(Tok)}
  <2>1. IsList(macros[Top.macro].params)
    BY <1>2 DEF IInv, ListsOK
  <2>2. DOMAIN macros[Top.macro].params = 1 .. Len(macros[Top.macro].params) /\ Len(macros[Top.macro].params) = Len(Top.args)
    BY <1>2, <2>1, ListLength DEF FrameOK
  <2>3. S \subseteq 1 .. Len(Top.args) /\ S \subseteq Nat
    BY <2>2
  <2>4. p = IF S = {} THEN 0 ELSE First(S)
    BY DEF ParamIndex
  <2> HIDE DEF S, p
  <2>5. S # {} /\ p = First(S)
    BY <1>1, <2>4
  <2>6. p \in S
    BY <2>3, <2>5, Least
  <2> QED BY <2>3, <2>6
<1>4. Given = Top.args[p]
  BY DEF Given
<1> HIDE DEF p
<1>5. Given[1] \in Nat \ {0}
  <2>1. Top.args[p][1] \in 1 .. (Len(List(Top.src)) + 1)
    BY <1>2, <1>3 DEF FrameOK
  <2>2. Given[1] = Top.args[p][1]
    BY <1>4
  <2>3. Len(List(Top.src)) \in Nat
    BY <1>2, ListIs DEF IInv, FrameOK
  <2> HIDE DEF Given
  <2> QED BY <2>1, <2>2, <2>3
<1>6. FrameOK(g)
  <2> DEFINE e == Given[1]
  <2>1. Top \in FrameType /\ Top.k \in Nat \ {0} /\ Top.called \in BOOLEAN
    BY <1>2 DEF FrameOK, FrameType
  <2>2. e \in Nat /\ e > 0 /\ p \in Nat /\ p > 0 /\ p <= Len(Top.args)
    BY <1>3, <1>5
  <2>3. g = [Top EXCEPT !.arg = p, !.j = e]
    OBVIOUS
  <2> HIDE DEF e, g
  <2>4. /\ g \in FrameType /\ g.src = Top.src /\ g.args = Top.args /\ g.macro = Top.macro
        /\ g.k = Top.k /\ g.arg = p /\ g.j = e /\ g.called = Top.called
    BY ONLY <2>1, <2>2, <2>3, Fields DEF FrameType
  <2>5. g.k <= Len(macros[Top.macro].body) /\ g.k <= Len(macros[Top.macro].body) + 1
    BY <1>2, <2>4 DEF FrameOK, Body
  <2>6. g.arg <= Len(Top.args) /\ (g.j > 0 <=> g.arg > 0)
    BY <2>2, <2>4
  <2> QED BY <1>2, <2>4, <2>5, <2>6, MovedFrame
<1> HIDE DEF g
<1>7. IsList(frames') /\ Len(frames') = Len(frames) /\ \A n \in 1 .. Len(frames') : FrameOK(frames'[n])
  BY <1>1, <1>6, OtherTopOK
<1>8. calls' \in Nat /\ Len(frames') <= calls' /\ calls' <= MaxDepth + 1
  BY <1>1, <1>7, Standing
<1>9. i' \in Nat \ {0} /\ i' <= Len(kept) + 1
  BY <1>1, Standing
<1> QED BY <1>1, <1>7, <1>8, <1>9, Framed

\* A token of an argument goes to dest.
LEMMA CopiedArgument ==
  ASSUME IInv, ArgumentToken, program' = program
  PROVE  IInv'
<1> DEFINE list == List(Top.src)
           x == list[Top.j]
           g == [Top EXCEPT !.j = Top.j + 1]
<1>1. /\ InArgument /\ Expanding /\ stage = "expand" /\ stage' = "expand" /\ Top.j <= Argument[2]
      /\ heap[x].type # "MACRO_CALL" /\ dest' = Append(dest, x) /\ frames' = <<g>> \o Tail(frames)
      /\ UNCHANGED <<program, heap, tokens, kept, i, imports, macros, calls>>
  BY DEF ArgumentToken, InArgument, Expanding, Type
<1>2. /\ FrameOK(Top) /\ Top.src \in 0 .. Len(macros) /\ Top.macro \in 1 .. Len(macros)
      /\ Top.j \in 1 .. Len(list) /\ Top.j \in Nat \ {0} /\ Top.k <= Len(Body)
  BY <1>1, AtTop, AtArgument
<1>3. x \in 1 .. Len(heap)
  BY <1>2, ListIs DEF IInv
<1>4. Clean(heap, x)
  <2>1. CASE Top.src = 0
    BY <1>1, <1>2, <2>1 DEF Clean, List, IInv, StageOK, Type
  <2>2. CASE Top.src # 0
    <3>1. Top.src \in 1 .. Len(macros) /\ list = macros[Top.src].body
      BY <1>2, <2>2, ListLength DEF List, IInv, ListsOK
    <3>2. InABody(x)
      BY <1>2, <3>1 DEF InABody
    <3> QED BY <1>1, <3>2 DEF Clean
  <2> QED BY <2>1, <2>2
<1> HIDE DEF x
<1>5. dest' \in Seq(1 .. Len(heap)) /\ \A n \in 1 .. Len(dest') : Clean(heap, dest'[n])
  BY <1>1, <1>3, <1>4, Standing, CleanAppended
<1>6. FrameOK(g)
  <2> DEFINE e == Top.j + 1
  <2>1. Top \in FrameType /\ Top.k \in Nat \ {0} /\ Top.called \in BOOLEAN /\ Top.arg \in Nat /\ Top.arg > 0 /\ Top.arg <= Len(Top.args)
    BY <1>2 DEF FrameOK, FrameType
  <2>2. e \in Nat /\ e > 0
    BY <1>2
  <2>3. g = [Top EXCEPT !.j = e]
    OBVIOUS
  <2> HIDE DEF e, g
  <2>4. /\ g \in FrameType /\ g.src = Top.src /\ g.args = Top.args /\ g.macro = Top.macro
        /\ g.k = Top.k /\ g.arg = Top.arg /\ g.j = e /\ g.called = Top.called
    BY ONLY <2>1, <2>2, <2>3, Fields DEF FrameType
  <2>5. g.k <= Len(macros[Top.macro].body) /\ g.k <= Len(macros[Top.macro].body) + 1
    BY <1>2, <2>4 DEF FrameOK, Body
  <2>6. g.arg <= Len(Top.args) /\ (g.j > 0 <=> g.arg > 0)
    BY <2>1, <2>2, <2>4
  <2> QED BY <1>2, <2>4, <2>5, <2>6, MovedFrame
<1> HIDE DEF g
<1>7. IsList(frames') /\ Len(frames') = Len(frames) /\ \A n \in 1 .. Len(frames') : FrameOK(frames'[n])
  BY <1>1, <1>6, OtherTopOK
<1>8. calls' \in Nat /\ Len(frames') <= calls' /\ calls' <= MaxDepth + 1
  BY <1>1, <1>7, Standing
<1>9. i' \in Nat \ {0} /\ i' <= Len(kept) + 1 /\ Len(heap) <= Len(heap')
  BY <1>1, Standing
<1> QED BY <1>1, <1>5, <1>7, <1>8, <1>9, Standing, Stepped

-----------------------------------------------------------------------------
(* Which files are read, and what of them *)

\* The tokens of all files, and the texts that come in by the imports of a list.
FileTokens == UNION {{program.files[f][n] : n \in 1 .. Len(program.files[f])} : f \in DOMAIN program.files}
TextsOf(list) == [n \in 1 .. Len(list) + 1 |-> IF n = 1 THEN Main ELSE FileAt(list[n - 1])]
AreFiles(list) == \A n \in 1 .. Len(list) : program.at[list[n]] \in DOMAIN program.files

\* The tokens are those of the texts; and as long as no text is torn, all files that came in are needed.
SourceOK ==
  stage \in {"import", "define"} =>
    /\ AreFiles(imports)
    /\ Cells(tokens) = IF stage = "import" THEN Source ELSE Append(Source, Eof)
    /\ ~Torn => \A paths \in SUBSET Paths : Closed(paths) => Followed \subseteq paths

\* A file is a sequence of the files' tokens.
LEMMA FileIsText ==
  ASSUME program \in Programs, NEW f \in DOMAIN program.files
  PROVE  program.files[f] \in Seq(FileTokens) /\ IsList(program.files[f])
<1> DEFINE t == program.files[f]
           A == {t[n] : n \in DOMAIN t}
<1>1. IsList(t)
  BY ProgramsAssumption
<1>2. t \in Seq(A) /\ DOMAIN t = 1 .. Len(t)
  BY <1>1, ListLength DEF IsList
<1>3. A \subseteq FileTokens
  BY <1>2 DEF FileTokens
<1>4. t \in Seq(FileTokens)
  <2> HIDE DEF t, A
  <2> QED BY <1>2, <1>3
<1> QED BY <1>1, <1>4

\* So is the main file.
LEMMA MainIsText ==
  ASSUME program \in Programs
  PROVE  Main \in Seq(FileTokens)
BY ProgramsAssumption, FileIsText DEF Main

\* The texts are the main file and those of the list.
LEMMA TextsAre ==
  ASSUME program \in Programs, NEW list, IsList(list), AreFiles(list)
  PROVE  /\ TextsOf(list) \in Seq(Seq(FileTokens)) /\ Len(list) \in Nat /\ Len(TextsOf(list)) = Len(list) + 1
         /\ TextsOf(list)[1] = Main
         /\ \A n \in 1 .. Len(list) : TextsOf(list)[n + 1] = FileAt(list[n])
         /\ \A k \in 2 .. Len(list) + 1 : TextsOf(list)[k] = FileAt(list[k - 1])
<1> DEFINE P == Seq(FileTokens)
           T == TextsOf(list)
<1>1. Len(list) \in Nat
  BY ListLength
<1>2. ASSUME NEW n \in 1 .. Len(list) + 1 PROVE T[n] = (IF n = 1 THEN Main ELSE FileAt(list[n - 1])) /\ T[n] \in P
  <2>1. T[n] = IF n = 1 THEN Main ELSE FileAt(list[n - 1])
    BY DEF TextsOf
  <2>2. CASE n = 1
    BY <2>1, <2>2, MainIsText
  <2>3. CASE n # 1
    <3>1. n - 1 \in 1 .. Len(list)
      BY <1>1, <2>3
    <3>2. FileAt(list[n - 1]) \in P
      BY <3>1, FileIsText DEF AreFiles, FileAt
    <3> QED BY <2>1, <2>3, <3>2
  <2> QED BY <2>2, <2>3, <2>1
<1>3. T = [n \in 1 .. Len(list) + 1 |-> T[n]]
  BY DEF TextsOf
<1> HIDE DEF P, T
<1>4. T \in [1 .. Len(list) + 1 -> P]
  BY <1>2, <1>3
<1>5. T \in Seq(P) /\ Len(T) = Len(list) + 1
  BY <1>1, <1>4
<1>6. T[1] = Main
  BY <1>1, <1>2
<1>7. ASSUME NEW k \in 2 .. Len(list) + 1 PROVE T[k] = FileAt(list[k - 1])
  BY <1>1, <1>2
<1>8. ASSUME NEW n \in 1 .. Len(list) PROVE T[n + 1] = FileAt(list[n])
  <2>1. n + 1 \in 2 .. Len(list) + 1 /\ (n + 1) - 1 = n
    BY <1>1
  <2> QED BY <1>7, <2>1
<1> QED BY <1>1, <1>5, <1>6, <1>7, <1>8 DEF P, T

\* One more file on the list is one more text, and its tokens come behind the others'.
LEMMA TextsGrow ==
  ASSUME program \in Programs, NEW list, IsList(list), AreFiles(list),
         NEW path, program.at[path] \in DOMAIN program.files
  PROVE  /\ AreFiles(Append(list, path)) /\ IsList(Append(list, path))
         /\ TextsOf(Append(list, path)) = Append(TextsOf(list), FileAt(path))
         /\ FlattenSeq(TextsOf(Append(list, path))) = FlattenSeq(TextsOf(list)) \o FileAt(path)
<1> DEFINE more == Append(list, path)
           Q == Seq(FileTokens)
           T == TextsOf(list)
           U == TextsOf(more)
           t == FileAt(path)
<1>1. /\ IsList(more) /\ Len(list) \in Nat /\ Len(more) = Len(list) + 1 /\ more[Len(list) + 1] = path
      /\ \A n \in 1 .. Len(list) : more[n] = list[n]
  BY Grown
<1> HIDE DEF more
<1>2. AreFiles(more)
  <2>1. \A n \in 1 .. Len(more) : n \in 1 .. Len(list) \/ n = Len(list) + 1
    BY <1>1
  <2> QED BY <1>1, <2>1 DEF AreFiles
<1>3. /\ T \in Seq(Q) /\ Len(T) = Len(list) + 1 /\ T[1] = Main
      /\ \A k \in 2 .. Len(list) + 1 : T[k] = FileAt(list[k - 1])
  BY TextsAre
<1>4. /\ U \in Seq(Q) /\ Len(U) = Len(more) + 1 /\ U[1] = Main
      /\ \A k \in 2 .. Len(more) + 1 : U[k] = FileAt(more[k - 1])
  BY <1>1, <1>2, TextsAre
<1>5. t \in Q
  BY FileIsText DEF FileAt
<1> HIDE DEF T, U, t
<1>6. Len(T) # 0
  BY <1>1, <1>3
<1>7. /\ Append(T, t) \in Seq(Q) /\ Len(Append(T, t)) = Len(T) + 1
      /\ FlattenSeq(Append(T, t)) = FlattenSeq(T) \o t
  BY <1>3, <1>5, <1>6, FlatGrows
<1> HIDE DEF Q
<1>8. \A k \in 1 .. Len(T) : Append(T, t)[k] = T[k]
  BY <1>3, <1>5
<1>9. Append(T, t)[Len(T) + 1] = t
  BY <1>3, <1>5
<1>10. ASSUME NEW k \in 1 .. Len(U) PROVE U[k] = Append(T, t)[k]
  <2>1. CASE k = 1
    BY <1>1, <1>3, <1>4, <1>8, <2>1
  <2>2. CASE k \in 2 .. Len(list) + 1
    <3>1. k - 1 \in 1 .. Len(list) /\ k \in 1 .. Len(T) /\ k \in 2 .. Len(more) + 1
      BY <1>1, <1>3, <2>2
    <3>2. U[k] = FileAt(more[k - 1]) /\ more[k - 1] = list[k - 1]
      BY <1>1, <1>4, <3>1
    <3>3. Append(T, t)[k] = T[k] /\ T[k] = FileAt(list[k - 1])
      BY <1>3, <1>8, <2>2, <3>1
    <3> QED BY <3>2, <3>3
  <2>3. CASE k = Len(list) + 2
    <3>1. k - 1 = Len(list) + 1 /\ k \in 2 .. Len(more) + 1 /\ k = Len(T) + 1
      BY <1>1, <1>3, <2>3
    <3>2. U[k] = FileAt(more[k - 1]) /\ more[k - 1] = path
      BY <1>1, <1>4, <3>1
    <3>3. U[k] = t
      BY <3>2 DEF t
    <3>4. Append(T, t)[k] = t
      BY <1>9, <3>1
    <3> QED BY <3>3, <3>4
  <2>4. k = 1 \/ k \in 2 .. Len(list) + 1 \/ k = Len(list) + 2
    <3>1. Len(list) \in Nat /\ Len(more) = Len(list) + 1 /\ Len(U) = Len(more) + 1
      BY <1>1, <1>4
    <3> QED BY ONLY <3>1, k \in 1 .. Len(U)
  <2> QED BY <2>1, <2>2, <2>3, <2>4
<1>11. U = Append(T, t)
  <2>1. Len(U) = Len(Append(T, t))
    BY <1>1, <1>3, <1>4, <1>7
  <2> QED BY ONLY <1>4, <1>7, <1>10, <2>1, SameLists
<1> QED BY <1>1, <1>2, <1>7, <1>11 DEF T, U, t, more

\* A function on the first k numbers has length k.
LEMMA LengthIs ==
  ASSUME NEW k \in Nat, NEW f, f = [n \in 1 .. k |-> f[n]]
  PROVE  Len(f) = k
<1> DEFINE X == {f[n] : n \in 1 .. k}
<1>1. f \in [1 .. k -> X]
  OBVIOUS
<1> HIDE DEF X
<1> QED BY <1>1, FunIsList

\* The texts that are in.
LEMMA TextsIn ==
  ASSUME ListsOK, AreFiles(imports)
  PROVE  /\ Texts = TextsOf(imports)
         /\ Texts \in Seq(Seq(FileTokens)) /\ Len(imports) \in Nat /\ Len(Texts) = Len(imports) + 1
         /\ Texts[1] = Main
         /\ \A n \in 1 .. Len(imports) : Texts[n + 1] = FileAt(imports[n])
         /\ \A k \in 2 .. Len(imports) + 1 : Texts[k] = FileAt(imports[k - 1])
         /\ Source \in Seq(FileTokens)
<1>1. program \in Programs /\ IsList(imports)
  BY DEF ListsOK
<1>2. Texts = TextsOf(imports)
  BY DEF Texts, TextsOf
<1>3. /\ Texts \in Seq(Seq(FileTokens)) /\ Len(imports) \in Nat /\ Len(Texts) = Len(imports) + 1
      /\ Texts[1] = Main
      /\ \A n \in 1 .. Len(imports) : Texts[n + 1] = FileAt(imports[n])
      /\ \A k \in 2 .. Len(imports) + 1 : Texts[k] = FileAt(imports[k - 1])
  BY <1>1, <1>2, TextsAre
<1>4. Source \in Seq(FileTokens)
  BY ONLY <1>3, Flat DEF Source
<1> QED BY <1>2, <1>3, <1>4

\* What a text that is in names is in every closed set that has the files that are in.
LEMMA NamedByTexts ==
  ASSUME ListsOK, AreFiles(imports), NEW paths, Closed(paths), Followed \subseteq paths, NEW k \in 1 .. Len(Texts)
  PROVE  Named(Texts[k]) \subseteq paths
<1>1. /\ Len(imports) \in Nat /\ Len(Texts) = Len(imports) + 1 /\ Texts[1] = Main
      /\ \A j \in 2 .. Len(imports) + 1 : Texts[j] = FileAt(imports[j - 1])
  BY TextsIn
<1>2. CASE k = 1
  BY <1>1, <1>2 DEF Closed
<1>3. CASE k # 1
  <2>1. k \in 2 .. Len(imports) + 1 /\ k - 1 \in 1 .. Len(imports)
    BY <1>1, <1>3
  <2>2. imports[k - 1] \in paths
    BY <2>1 DEF Followed
  <2>3. Texts[k] = FileAt(imports[k - 1])
    BY <1>1, <2>1
  <2> QED BY <2>2, <2>3 DEF Closed
<1> QED BY <1>2, <1>3

\* The import stage 1 has come to is one of a text that is in, unless that is torn.
LEMMA ImportIsNamed ==
  ASSUME ListsOK, AreFiles(imports), Cells(tokens) = Source, ~Torn, AtImport, Imported, Path # NoPath, i \in Nat \ {0}
  PROVE  \E k \in 1 .. Len(Texts) : Path \in Named(Texts[k])
<1>1. /\ Texts \in Seq(Seq(FileTokens)) /\ Len(Texts) # 0 /\ Source \in Seq(FileTokens)
  BY TextsIn
<1>2. Len(tokens) \in Nat /\ DOMAIN tokens = 1 .. Len(tokens)
  BY DEF ListsOK
<1>3. /\ i \in 1 .. Len(tokens) /\ i + 1 \in 1 .. Len(tokens)
      /\ heap[tokens[i]].type = "IMPORT" /\ heap[tokens[i + 1]].type = "STRING"
      /\ Path = Resolve(program, heap[tokens[i + 1]])
  BY <1>2 DEF AtImport, Imported, Path, Type
<1>4. Len(Source) = Len(tokens) /\ \A n \in 1 .. Len(tokens) : Source[n] = heap[tokens[n]]
  <2>1. Source = [n \in 1 .. Len(tokens) |-> heap[tokens[n]]]
    BY <1>2 DEF Cells
  <2>2. Source = [n \in 1 .. Len(tokens) |-> Source[n]]
    BY <2>1
  <2>3. Len(Source) = Len(tokens)
    BY ONLY <1>2, <2>2, LengthIs
  <2> QED BY <2>1, <2>3
<1>5. \E k \in 1 .. Len(Texts) : \E m \in 1 .. Len(Texts[k]) : Spot(Source, i, Texts[k], m)
  <2>1. \A q \in 1 .. Len(Source) : \E k \in 1 .. Len(Texts) : \E m \in 1 .. Len(Texts[k]) : Spot(Source, q, Texts[k], m)
    BY ONLY <1>1, FlatHas DEF Source
  <2> QED BY <1>3, <1>4, <2>1
<1>6. PICK k \in 1 .. Len(Texts) : \E m \in 1 .. Len(Texts[k]) : Spot(Source, i, Texts[k], m)
  BY <1>5
<1>7. PICK m \in 1 .. Len(Texts[k]) : Spot(Source, i, Texts[k], m)
  BY <1>6
<1>8. Len(Texts[k]) \in Nat
  <2>1. Texts[k] \in Seq(FileTokens)
    BY <1>1
  <2> QED BY <2>1
<1>9. Texts[k][m].type = "IMPORT"
  BY <1>3, <1>4, <1>7 DEF Spot
<1>10. m < Len(Texts[k])
  <2>1. m # Len(Texts[k])
    BY <1>8, <1>9 DEF Torn
  <2> QED BY <1>8, <2>1
<1>11. Texts[k][m + 1] = heap[tokens[i + 1]]
  BY <1>3, <1>4, <1>7, <1>10 DEF Spot
<1>12. Names(Texts[k], m)
  BY <1>3, <1>9, <1>10, <1>11 DEF Names
<1>13. Path = Resolve(program, Texts[k][m + 1])
  BY <1>3, <1>11
<1> HIDE DEF Path
<1> QED BY <1>12, <1>13 DEF Named

\* What is true of the texts is so while no file comes in.
LEMMA SourceStays ==
  ASSUME UNCHANGED <<program, imports>>
  PROVE  /\ Texts' = Texts /\ Source' = Source /\ (Torn' <=> Torn) /\ Followed' = Followed /\ Paths' = Paths
         /\ \A paths : Closed(paths)' <=> Closed(paths)
         /\ AreFiles(imports)' <=> AreFiles(imports)
<1>1. Texts' = Texts
  BY DEF Texts, Main, FileAt
<1>2. Source' = Source /\ (Torn' <=> Torn) /\ Followed' = Followed
  BY <1>1 DEF Source, Torn, Followed
<1>3. \A text : Named(text)' = Named(text)
  BY DEF Named, Names
<1>4. Paths' = Paths /\ \A paths : Closed(paths)' <=> Closed(paths)
  BY <1>3 DEF Paths, Closed, Main, FileAt
<1> QED BY <1>1, <1>2, <1>4 DEF AreFiles

\* Most steps leave the texts and the list alone, or are none of the first two stages'.
LEMMA SourceKept ==
  ASSUME SourceOK, UNCHANGED <<program, imports>>,
         stage' \in {"import", "define"} => UNCHANGED <<stage, heap, tokens>>
  PROVE  SourceOK'
<1>1. SUFFICES ASSUME stage' \in {"import", "define"} PROVE SourceOK'
  BY DEF SourceOK
<1>2. UNCHANGED <<program, imports, stage, heap, tokens>>
  BY <1>1
<1>3. Cells(tokens)' = Cells(tokens)
  BY <1>2 DEF Cells
<1> QED BY <1>1, <1>2, <1>3, SourceStays DEF SourceOK, Eof

\* The cells of what is appended come behind those there were.
LEMMA CellsGrow ==
  ASSUME NEW P, Cells(tokens) \in Seq(P), NEW more \in Seq(P),
         Len(tokens) \in Nat, DOMAIN tokens = 1 .. Len(tokens),
         DOMAIN tokens' = 1 .. Len(tokens'), Len(tokens') = Len(tokens) + Len(more),
         \A n \in 1 .. Len(tokens) : heap'[tokens'[n]] = heap[tokens[n]],
         \A n \in 1 .. Len(more) : heap'[tokens'[Len(tokens) + n]] = more[n]
  PROVE  Cells(tokens)' = Cells(tokens) \o more
<1> DEFINE c == Cells(tokens)
           d == Cells(tokens)'
           w == c \o more
<1>1. Len(more) \in Nat /\ Len(tokens') \in Nat
  OBVIOUS
<1>2. c = [n \in 1 .. Len(tokens) |-> heap[tokens[n]]] /\ d = [n \in 1 .. Len(tokens') |-> heap'[tokens'[n]]]
  BY DEF Cells
<1> HIDE DEF c, d
<1>3. Len(c) = Len(tokens) /\ Len(d) = Len(tokens')
  <2>1. c = [n \in 1 .. Len(tokens) |-> c[n]] /\ d = [n \in 1 .. Len(tokens') |-> d[n]]
    BY <1>2
  <2> QED BY ONLY <1>1, <2>1, Len(tokens) \in Nat, LengthIs
<1>4. c \in Seq(P)
  BY DEF c
<1>5. /\ w \in Seq(P) /\ Len(w) = Len(tokens')
      /\ \A n \in 1 .. Len(tokens) : w[n] = c[n]
      /\ \A n \in 1 .. Len(more) : w[Len(tokens) + n] = more[n]
  <2>1. /\ w \in Seq(P) /\ Len(w) = Len(c) + Len(more)
        /\ \A n \in 1 .. Len(c) : w[n] = c[n]
        /\ \A n \in 1 .. Len(more) : w[Len(c) + n] = more[n]
    BY ONLY <1>4, more \in Seq(P)
  <2> HIDE DEF w
  <2> QED BY <1>3, <2>1
<1> HIDE DEF w
<1>6. ASSUME NEW n \in 1 .. Len(tokens') PROVE d[n] = w[n]
  <2>1. CASE n \in 1 .. Len(tokens)
    BY <1>2, <1>5, <2>1
  <2>2. CASE n \notin 1 .. Len(tokens)
    <3>1. PICK m \in 1 .. Len(more) : n = Len(tokens) + m
      <4>1. n - Len(tokens) \in 1 .. Len(more) /\ n = Len(tokens) + (n - Len(tokens))
        BY <1>1, <2>2
      <4> QED BY <4>1
    <3> QED BY <1>2, <1>5, <3>1
  <2> QED BY <2>1, <2>2
<1>7. d \in Seq(P)
  <2>1. \A n \in 1 .. Len(tokens') : d[n] \in P
    BY <1>5, <1>6
  <2>2. d \in [1 .. Len(tokens') -> P]
    BY <1>2, <2>1
  <2> QED BY ONLY <1>1, <2>2
<1>8. d = w
  <2>1. Len(d) = Len(w) /\ \A n \in 1 .. Len(d) : d[n] = w[n]
    BY <1>3, <1>5, <1>6
  <2> QED BY ONLY <1>5, <1>7, <2>1, SameLists
<1> QED BY <1>8 DEF c, d, w

\* A file that comes in has been named by a text that is in.
LEMMA SourceImported ==
  ASSUME IInv, SourceOK, NewImport, program' = program
  PROVE  SourceOK'
<1>1. /\ AtImport /\ Imported /\ Path # NoPath /\ stage = "import" /\ stage' = "import"
      /\ imports' = Append(imports, Path) /\ ListsOK /\ program \in Programs /\ IsList(imports) /\ i \in Nat \ {0}
  BY DEF NewImport, AtImport, IInv, ListsOK, IndexOK
<1>2. AreFiles(imports) /\ Cells(tokens) = Source
  BY <1>1 DEF SourceOK
<1> DEFINE ts == FileAt(Path)
<1>3. /\ program.at[Path] \in DOMAIN program.files /\ IsList(ts)
      /\ Len(heap) \in Nat /\ Len(tokens) \in Nat /\ Len(ts) \in Nat
      /\ IsList(heap') /\ Len(heap') = Len(heap) + Len(ts)
      /\ \A n \in 1 .. Len(heap) : heap'[n] = heap[n]
      /\ \A n \in 1 .. Len(ts) : heap'[Len(heap) + n] = ts[n]
      /\ IsList(tokens') /\ Len(tokens') = Len(tokens) + Len(ts)
      /\ \A n \in 1 .. Len(tokens) : tokens'[n] = tokens[n]
      /\ \A n \in 1 .. Len(ts) : tokens'[Len(tokens) + n] = Len(heap) + n
  <2> HIDE DEF ts
  <2> QED BY FileComesIn DEF ts
<1>4. ts \in Seq(FileTokens)
  BY <1>1, <1>3, FileIsText DEF FileAt
<1> HIDE DEF ts
<1>5. /\ AreFiles(imports') /\ IsList(imports')
      /\ TextsOf(imports') = Append(TextsOf(imports), ts)
      /\ FlattenSeq(TextsOf(imports')) = FlattenSeq(TextsOf(imports)) \o ts
  BY <1>1, <1>2, <1>3, TextsGrow DEF ts
<1>6. /\ Texts = TextsOf(imports) /\ Texts \in Seq(Seq(FileTokens)) /\ Source \in Seq(FileTokens)
  BY <1>1, <1>2, TextsIn
<1>7. Texts' = Append(Texts, ts) /\ Source' = Source \o ts
  <2>1. Texts' = TextsOf(imports')
    BY DEF Texts, TextsOf, Main, FileAt
  <2> QED BY <1>5, <1>6, <2>1 DEF Source
<1>8. AreFiles(imports)'
  BY <1>5 DEF AreFiles
<1>9. Cells(tokens)' = Source'
  <2>1. Cells(tokens) \in Seq(FileTokens)
    BY <1>2, <1>6
  <2>2. DOMAIN tokens = 1 .. Len(tokens) /\ \A n \in 1 .. Len(tokens) : tokens[n] \in 1 .. Len(heap)
    BY <1>1 DEF ListsOK
  <2>3. DOMAIN tokens' = 1 .. Len(tokens')
    BY <1>3, ListLength
  <2>4. \A n \in 1 .. Len(tokens) : heap'[tokens'[n]] = heap[tokens[n]]
    BY <1>3, <2>2
  <2>5. \A n \in 1 .. Len(ts) : heap'[tokens'[Len(tokens) + n]] = ts[n]
    BY <1>3
  <2>6. Cells(tokens)' = Cells(tokens) \o ts
    BY <1>3, <1>4, <2>1, <2>2, <2>3, <2>4, <2>5, CellsGrow
  <2> QED BY <1>2, <1>7, <2>6
<1>10. ASSUME ~Torn', NEW paths \in SUBSET Paths, Closed(paths) PROVE Followed' \subseteq paths
  <2>1. ~Torn
    <3>1. \A n \in 1 .. Len(Texts) : Texts'[n] = Texts[n] /\ n \in 1 .. Len(Texts')
      <4> DEFINE Q == Seq(FileTokens)
      <4>1. Texts \in Seq(Q) /\ ts \in Q
        BY <1>4, <1>6
      <4> HIDE DEF Q
      <4> QED BY <1>7, <4>1
    <3> QED BY <1>10, <3>1 DEF Torn
  <2>2. Followed \subseteq paths
    BY <1>1, <1>10, <2>1 DEF SourceOK
  <2>3. PICK k \in 1 .. Len(Texts) : Path \in Named(Texts[k])
    BY <1>1, <1>2, <2>1, ImportIsNamed
  <2>4. Path \in paths
    BY <1>1, <1>2, <1>10, <2>2, <2>3, NamedByTexts
  <2>5. \A n \in 1 .. Len(imports') : imports'[n] \in paths
    <3>1. /\ Len(imports) \in Nat /\ Len(imports') = Len(imports) + 1 /\ imports'[Len(imports) + 1] = Path
          /\ \A n \in 1 .. Len(imports) : imports'[n] = imports[n]
      BY <1>1, Grown
    <3>2. ASSUME NEW n \in 1 .. Len(imports') PROVE n \in 1 .. Len(imports) \/ n = Len(imports) + 1
      BY <3>1
    <3> QED BY <2>2, <2>4, <3>1, <3>2 DEF Followed
  <2> QED BY <2>5 DEF Followed
<1>11. Paths' = Paths /\ \A paths : Closed(paths)' <=> Closed(paths)
  <2>1. \A text : Named(text)' = Named(text)
    BY DEF Named, Names
  <2> QED BY <2>1 DEF Paths, Closed, Main, FileAt
<1>12. ~Torn' => \A paths \in SUBSET Paths' : Closed(paths)' => Followed' \subseteq paths
  BY <1>10, <1>11
<1> QED BY <1>1, <1>8, <1>9, <1>12 DEF SourceOK

\* At the end of stage 1 the end of the file is put behind all.
LEMMA SourceEnded ==
  ASSUME IInv, SourceOK, EndImports, program' = program
  PROVE  SourceOK'
<1>1. /\ stage = "import" /\ stage' = "define" /\ heap' = Append(heap, Eof) /\ tokens' = Append(tokens, Len(heap) + 1)
      /\ UNCHANGED <<program, imports>>
      /\ IsList(heap) /\ IsList(tokens) /\ tokens \in Seq(1 .. Len(heap)) /\ ListsOK
  BY SeqIsList DEF EndImports, IInv, ListsOK
<1>2. AreFiles(imports) /\ Cells(tokens) = Source /\ Source \in Seq(FileTokens)
  <2>1. AreFiles(imports) /\ Cells(tokens) = Source
    BY <1>1 DEF SourceOK
  <2> QED BY <1>1, <2>1, TextsIn
<1>3. /\ IsList(heap') /\ Len(heap) \in Nat /\ Len(heap') = Len(heap) + 1
      /\ \A n \in 1 .. Len(heap) : heap'[n] = heap[n]
      /\ heap'[Len(heap) + 1] = Eof
  BY <1>1, Grown
<1>4. /\ IsList(tokens') /\ Len(tokens) \in Nat /\ Len(tokens') = Len(tokens) + 1
      /\ \A n \in 1 .. Len(tokens) : tokens'[n] = tokens[n]
      /\ tokens'[Len(tokens) + 1] = Len(heap) + 1
  BY <1>1, Grown
<1>5. DOMAIN tokens = 1 .. Len(tokens) /\ DOMAIN tokens' = 1 .. Len(tokens')
  BY <1>1, <1>4, ListLength
<1> DEFINE P == FileTokens \cup {Eof}
           end == <<Eof>>
<1>6. Cells(tokens) \in Seq(P) /\ end \in Seq(P) /\ Len(end) = 1 /\ end[1] = Eof
  BY <1>2
<1>7. \A n \in 1 .. Len(tokens) : heap'[tokens'[n]] = heap[tokens[n]]
  <2>1. \A n \in 1 .. Len(tokens) : tokens[n] \in 1 .. Len(heap)
    BY <1>1
  <2> QED BY <1>3, <1>4, <2>1
<1> HIDE DEF P, end
<1>8. \A n \in 1 .. Len(end) : heap'[tokens'[Len(tokens) + n]] = end[n]
  BY <1>3, <1>4, <1>6
<1>9. Len(tokens') = Len(tokens) + Len(end)
  BY <1>4, <1>6
<1>10. Cells(tokens)' = Cells(tokens) \o end
  BY <1>4, <1>5, <1>6, <1>7, <1>8, <1>9, CellsGrow
<1>11. Cells(tokens) \o end = Append(Source, Eof)
  <2>1. Source \in Seq(P) /\ Eof \in P
    BY <1>2, <1>6 DEF P
  <2> QED BY <1>2, <2>1 DEF end
<1> QED BY <1>1, <1>2, <1>10, <1>11, SourceStays DEF SourceOK, Eof

-----------------------------------------------------------------------------
\* The invariant speaks of nothing but the variables.
LEMMA Stutter == IInv /\ UNCHANGED vars => IInv'
<1>1. SUFFICES ASSUME IInv, UNCHANGED vars PROVE IInv'
  OBVIOUS
<1> USE <1>1 DEF vars
<1>2. ListsOK' /\ IndexOK'
  BY DEF IInv, ListsOK, IndexOK
<1>3. FramesOK'
  BY DEF IInv, FramesOK, FrameOK, List
<1>4. NoCallIsLeft' /\ DepthIsBounded'
  BY DEF IInv, NoCallIsLeft, DepthIsBounded, Type
<1>5. StageOK'
  BY DEF IInv, StageOK, Type, Read
<1>6. ImportsOK'
  <2>1. CASE stage = "define"
    BY <2>1, ImportsKept DEF IInv
  <2>2. CASE stage = "import"
    <3>1. ASSUME NEW n
          PROVE  /\ Type(tokens[n])' = Type(tokens[n]) /\ PathAt(n)' = PathAt(n)
                 /\ Passed(n)' => Passed(n)
      BY DEF Passed, Statement, PathAt, Type
    <3> QED BY <2>2, <3>1 DEF IInv, ImportsOK
  <2>3. CASE stage \notin {"import", "define"}
    BY <2>3 DEF ImportsOK
  <2> QED BY <2>1, <2>2, <2>3
<1> QED BY <1>2, <1>3, <1>4, <1>5, <1>6 DEF IInv

\* Every step keeps the invariant.
LEMMA Inductive == IInv /\ [Next]_vars => IInv'
<1>1. SUFFICES ASSUME IInv, Next PROVE IInv'
  BY Stutter
<1>2. program' = program
  BY <1>1 DEF Next
<1>3. CASE SkipToken
  BY <1>1, <1>2, <1>3, SkippedToken
<1>4. CASE MalformedImport \/ MissingImport \/ MalformedMacro \/ Redefinition \/ BadCall
  <2>1. Stop("failed")
    BY <1>4 DEF MalformedImport, MissingImport, MalformedMacro, Redefinition, BadCall
  <2> QED BY <1>1, <1>2, <2>1, Stopped
<1>5. CASE KnownImport
  BY <1>1, <1>2, <1>5, KnewImport
<1>6. CASE NewImport
  BY <1>1, <1>2, <1>6, ImportedFile
<1>7. CASE EndImports
  BY <1>1, <1>2, <1>7, ImportsEnded
<1>8. CASE Define
  BY <1>1, <1>2, <1>8, Defined
<1>9. CASE KeepToken
  BY <1>1, <1>2, <1>9, KeptToken
<1>10. CASE EndDefines
  BY <1>1, <1>2, <1>10, DefinesEnded
<1>11. CASE CopyToken
  BY <1>1, <1>2, <1>11, CopiedToken
<1>12. CASE CallMacro
  BY <1>1, <1>2, <1>12, CalledMacro
<1>13. CASE PushToken
  BY <1>1, <1>2, <1>13, PushedToken
<1>14. CASE PushLine
  BY <1>1, <1>2, <1>14, PushedLine
<1>15. CASE BeginArgument
  BY <1>1, <1>2, <1>15, BegunArgument
<1>16. CASE EmptyArgument \/ EndArgument \/ BodyCalled
  BY <1>1, <1>2, <1>16, EndedArgument
<1>17. CASE ArgumentToken
  BY <1>1, <1>2, <1>17, CopiedArgument
<1>18. CASE ArgumentCall
  BY <1>1, <1>2, <1>18, CalledInArgument
<1>19. CASE BodyCall
  BY <1>1, <1>2, <1>19, CalledInBody
<1>20. CASE ReadsFreed \/ ReadsBehind
  <2>1. Stop("undefined")
    BY <1>20 DEF ReadsFreed, ReadsBehind
  <2> QED BY <1>1, <1>2, <2>1, Stopped
<1>21. CASE Leave
  BY <1>1, <1>2, <1>21, Left
<1>22. CASE EndExpansion
  BY <1>1, <1>2, <1>22, ExpansionEnded
<1> QED BY <1>1, <1>3, <1>4, <1>5, <1>6, <1>7, <1>8, <1>9, <1>10, <1>11, <1>12, <1>13, <1>14, <1>15,
           <1>16, <1>17, <1>18, <1>19, <1>20, <1>21, <1>22 DEF Next

\* The main file is all that is in when stage 1 begins.
LEMMA SourceInitially == Init => SourceOK
<1>1. SUFFICES ASSUME Init PROVE SourceOK
  OBVIOUS
<1>2. /\ stage = "import" /\ imports = <<>> /\ program \in Programs
      /\ heap = Main \o program.stdBodies /\ tokens = [n \in DOMAIN Main |-> 0 + n]
  BY <1>1 DEF Init, Main, Ids
<1>3. IsList(imports) /\ Len(imports) = 0
  BY <1>2, EmptyIsList
<1>4. AreFiles(imports)
  BY <1>3 DEF AreFiles
<1>5. Followed = {}
  BY <1>3 DEF Followed
<1>6. Main \in Seq(FileTokens) /\ IsList(Main) /\ IsList(program.stdBodies)
  BY <1>2, MainIsText, ProgramsAssumption DEF Main
<1>7. Source = Main
  <2>1. Texts \in Seq(Seq(FileTokens)) /\ Len(Texts) = 1 /\ Texts[1] = Main
    <3>1. ListsOK
      BY <1>1, Initially DEF IInv
    <3> QED BY <1>3, <1>4, <3>1, TextsIn
  <2>2. Len(Texts) # 0
    BY <2>1
  <2>3. PICK F : F[1] = Texts[1] /\ FlattenSeq(Texts) = F[Len(Texts)]
    BY ONLY <2>1, <2>2, FlatIs
  <2> QED BY <2>1, <2>3 DEF Source
<1>8. Cells(tokens) = Main
  <2>1. DOMAIN Main = 1 .. Len(Main) /\ Main = [n \in 1 .. Len(Main) |-> Main[n]]
    BY <1>6
  <2>2. \A n \in 1 .. Len(Main) : heap[n] = Main[n]
    BY <1>2, <1>6, Joining
  <2>3. Cells(tokens) = [n \in 1 .. Len(Main) |-> heap[n]]
    BY <1>2, <2>1 DEF Cells
  <2> QED BY <2>1, <2>2, <2>3
<1> QED BY <1>2, <1>4, <1>5, <1>7, <1>8 DEF SourceOK

\* Every step keeps what is said of the texts.
LEMMA SourceInductive == IInv /\ SourceOK /\ [Next]_vars => SourceOK'
<1>1. ASSUME SourceOK, UNCHANGED vars PROVE SourceOK'
  BY <1>1, SourceKept DEF vars
<1>2. SUFFICES ASSUME IInv, SourceOK, Next PROVE SourceOK'
  BY <1>1
<1>3. program' = program
  BY <1>2 DEF Next
<1>4. CASE NewImport
  BY <1>2, <1>3, <1>4, SourceImported
<1>5. CASE EndImports
  BY <1>2, <1>3, <1>5, SourceEnded
<1>6. CASE SkipToken \/ KnownImport \/ Define \/ KeepToken
  <2>1. UNCHANGED <<imports, stage, heap, tokens>>
    BY <1>6 DEF SkipToken, KnownImport, Define, KeepToken
  <2> QED BY <1>2, <1>3, <2>1, SourceKept
<1>7. ASSUME NEW how, Stop(how), how \notin {"import", "define"} PROVE SourceOK'
  <2>1. imports' = imports /\ stage' \notin {"import", "define"}
    BY <1>7 DEF Stop
  <2> QED BY <1>2, <1>3, <2>1, SourceKept
<1>8. CASE MalformedImport \/ MissingImport \/ MalformedMacro \/ Redefinition \/ BadCall
  <2>1. Stop("failed")
    BY <1>8 DEF MalformedImport, MissingImport, MalformedMacro, Redefinition, BadCall
  <2> QED BY <1>7, <2>1
<1>9. CASE ReadsFreed \/ ReadsBehind
  <2>1. Stop("undefined")
    BY <1>9 DEF ReadsFreed, ReadsBehind
  <2> QED BY <1>7, <2>1
<1>10. ASSUME imports' = imports, stage' \in {"expand", "done", "failed"} PROVE SourceOK'
  BY <1>2, <1>3, <1>10, SourceKept
<1>11. CASE EndDefines \/ CopyToken \/ CallMacro \/ BeginArgument \/ ArgumentToken \/ Leave \/ EndExpansion
  <2>1. imports' = imports /\ stage' \in {"expand", "done"}
    BY <1>11 DEF EndDefines, CopyToken, CallMacro, AtCall, BeginArgument, ArgumentToken, Leave, EndExpansion,
                 InBody, InArgument, Expanding
  <2> QED BY <1>10, <2>1
<1>12. ASSUME NEW h, NEW d, NEW top, stage = "expand", BodyRound(h, d, top) PROVE SourceOK'
  <2>1. imports' = imports /\ stage' \in {"expand", "failed"}
    BY <1>12 DEF BodyRound
  <2> QED BY <1>10, <2>1
<1>13. CASE PushToken \/ PushLine \/ EmptyArgument \/ EndArgument \/ BodyCalled
  <2>1. stage = "expand"
    BY <1>13 DEF PushToken, PushLine, EmptyArgument, EndArgument, BodyCalled, InBody, InArgument, Expanding
  <2>2. \E h, d, top : BodyRound(h, d, top)
    BY <1>13 DEF PushToken, PushLine, EmptyArgument, EndArgument, BodyCalled
  <2> QED BY <1>12, <2>1, <2>2
<1>14. CASE ArgumentCall \/ BodyCall
  <2>1. stage = "expand"
    BY <1>14 DEF ArgumentCall, BodyCall, InBody, InArgument, Expanding
  <2>2. ASSUME NEW frame, NEW rest, Enter(frame, rest) PROVE imports' = imports /\ stage' \in {"expand", "failed"}
    BY <2>1, <2>2 DEF Enter, Stop
  <2>3. ASSUME Stop("failed") PROVE imports' = imports /\ stage' \in {"expand", "failed"}
    BY <2>3 DEF Stop
  <2>4. (\E frame, rest : Enter(frame, rest)) \/ Stop("failed")
    BY <1>14 DEF ArgumentCall, BodyCall
  <2> QED BY <1>10, <2>2, <2>3, <2>4
<1> QED BY <1>2, <1>4, <1>5, <1>6, <1>8, <1>9, <1>11, <1>13, <1>14 DEF Next

\* The inductive invariant, for any files and any max_macro_call_depth.
THEOREM PreprocessorInvariant == Spec => []IInv
BY Initially, Inductive, PTL DEF Spec

\* Undefined behaviour is reached in two ways only.
LEMMA UndefinedInductive == UndefinedOK /\ [Next]_vars => UndefinedOK'
<1>1. ASSUME UndefinedOK, UNCHANGED vars PROVE UndefinedOK'
  BY <1>1 DEF UndefinedOK, Type, vars
<1>2. SUFFICES ASSUME Next PROVE UndefinedOK'
  BY <1>1
<1>3. program' = program
  BY <1>2 DEF Next
<1>4. CASE ReadsBehind
  <2>1. UNCHANGED <<heap, tokens, i>> /\ i = Len(tokens) /\ Type(tokens[i]) = "IMPORT"
    BY <1>4 DEF ReadsBehind, AtImport, Stop
  <2>2. Len(tokens) # Len(program.files[program.main])
    BY <1>4 DEF ReadsBehind, EofIsBehind
  <2> QED BY <1>3, <2>1, <2>2 DEF UndefinedOK, Type
<1>5. CASE ReadsFreed
  BY <1>5 DEF ReadsFreed, Expanding, InArgument, Stop, UndefinedOK
<1>6. ASSUME stage' # "undefined" PROVE UndefinedOK'
  BY <1>6 DEF UndefinedOK
<1>7. CASE MalformedImport \/ MissingImport \/ MalformedMacro \/ Redefinition \/ BadCall
  <2>1. Stop("failed")
    BY <1>7 DEF MalformedImport, MissingImport, MalformedMacro, Redefinition, BadCall
  <2> QED BY <1>6, <2>1 DEF Stop
<1>8. CASE SkipToken \/ KnownImport \/ NewImport \/ EndImports \/ Define \/ KeepToken \/ EndDefines
  BY <1>6, <1>8 DEF SkipToken, KnownImport, NewImport, EndImports, Define, KeepToken, EndDefines, AtImport, AtMacro
<1>9. CASE CopyToken \/ CallMacro \/ BeginArgument \/ ArgumentToken \/ Leave \/ EndExpansion
  <2>1. stage' \in {"expand", "done"}
    BY <1>9 DEF CopyToken, CallMacro, AtCall, BeginArgument, ArgumentToken, Leave, EndExpansion,
                InBody, InArgument, Expanding
  <2> QED BY <1>6, <2>1
<1>10. CASE PushToken \/ PushLine \/ EmptyArgument \/ EndArgument \/ BodyCalled
  <2>1. stage = "expand"
    BY <1>10 DEF PushToken, PushLine, EmptyArgument, EndArgument, BodyCalled, InBody, InArgument, Expanding
  <2>2. PICK h, d, top : BodyRound(h, d, top)
    BY <1>10 DEF PushToken, PushLine, EmptyArgument, EndArgument, BodyCalled
  <2> QED BY <1>6, <2>1, <2>2 DEF BodyRound
<1>11. CASE ArgumentCall \/ BodyCall
  <2>1. stage = "expand"
    BY <1>11 DEF ArgumentCall, BodyCall, InBody, InArgument, Expanding
  <2>2. ASSUME NEW frame, NEW rest, Enter(frame, rest) PROVE stage' # "undefined"
    BY <2>1, <2>2 DEF Enter, Stop
  <2>3. Stop("failed") => stage' # "undefined"
    BY DEF Stop
  <2>4. (\E frame, rest : Enter(frame, rest)) \/ Stop("failed")
    BY <1>11 DEF ArgumentCall, BodyCall
  <2> QED BY <1>6, <2>2, <2>3, <2>4
<1> QED BY <1>2, <1>4, <1>5, <1>7, <1>8, <1>9, <1>10, <1>11 DEF Next

\* For any files: stages 2 and 3 of preprocessor_pass stay in their lists and expand_macro_call in its bodies
\* and arguments; stage 1 leaves its list in one case only, that of an `import' which is the last token of a
\* list that has grown, where parse_import_def reads what was never written.
THEOREM PreprocessorTypeCorrect == Spec => []TypeOK
<1>1. Init => UndefinedOK
  BY DEF Init, UndefinedOK
<1>2. Spec => []UndefinedOK
  BY <1>1, UndefinedInductive, PTL DEF Spec
<1>3. IInv /\ UndefinedOK => TypeOK
  BY DEF IInv, TypeOK
<1> QED BY <1>2, <1>3, PreprocessorInvariant, PTL

\* What the texts that are in name has come in, if stage 1 has come by every import statement.
LEMMA NamedIsFollowed ==
  ASSUME IInv, SourceOK, stage = "define", \A n \in 1 .. Len(tokens) : Type(tokens[n]) = "IMPORT" => Statement(n),
         NEW k \in 1 .. Len(Texts)
  PROVE  Named(Texts[k]) \subseteq Followed
<1> DEFINE T == Texts[k]
<1>1. ListsOK /\ AreFiles(imports) /\ Cells(tokens) = Append(Source, Eof)
  BY DEF IInv, SourceOK
<1>2. Texts \in Seq(Seq(FileTokens)) /\ Len(Texts) # 0 /\ Source \in Seq(FileTokens)
  BY <1>1, TextsIn
<1>3. T \in Seq(FileTokens) /\ Len(T) \in Nat
  BY <1>2
<1>4. DOMAIN tokens = 1 .. Len(tokens) /\ Len(tokens) \in Nat
  BY <1>1 DEF ListsOK
<1>5. /\ Len(tokens) = Len(Source) + 1 /\ Len(Source) \in Nat
      /\ \A n \in 1 .. Len(Source) : heap[tokens[n]] = Source[n]
  <2> DEFINE P == FileTokens \cup {Eof}
             c == Cells(tokens)
  <2>1. Source \in Seq(P) /\ Eof \in P
    BY <1>2
  <2>2. c = [n \in 1 .. Len(tokens) |-> heap[tokens[n]]]
    BY <1>4 DEF Cells
  <2> HIDE DEF P, c
  <2>3. Len(c) = Len(tokens)
    <3>1. c = [n \in 1 .. Len(tokens) |-> c[n]]
      BY <2>2
    <3> QED BY ONLY <1>4, <3>1, LengthIs
  <2>4. /\ Len(Append(Source, Eof)) = Len(Source) + 1 /\ Len(Source) \in Nat
        /\ \A n \in 1 .. Len(Source) : Append(Source, Eof)[n] = Source[n]
    BY ONLY <2>1
  <2>5. c = Append(Source, Eof)
    BY <1>1 DEF c
  <2>6. \A n \in 1 .. Len(Source) : n \in 1 .. Len(tokens) /\ c[n] = Source[n]
    BY <2>3, <2>4, <2>5
  <2>7. \A n \in 1 .. Len(tokens) : c[n] = heap[tokens[n]]
    BY <2>2
  <2>8. Len(tokens) = Len(Source) + 1
    BY <2>3, <2>4, <2>5
  <2> QED BY <2>4, <2>6, <2>7, <2>8
<1> HIDE DEF T
<1>6. SUFFICES ASSUME NEW m \in 1 .. Len(T), Names(T, m) PROVE Resolve(program, T[m + 1]) \in Followed
  BY DEF Named, T
<1>7. m < Len(T) /\ T[m].type = "IMPORT"
  BY <1>6 DEF Names
<1>8. PICK q \in 1 .. Len(Source) : Spot(Source, q, T, m)
  <2>1. \A j \in 1 .. Len(Texts) : \A n \in 1 .. Len(Texts[j]) : \E q \in 1 .. Len(Source) : Spot(Source, q, Texts[j], n)
    BY ONLY <1>2, FlatHas DEF Source
  <2> QED BY <2>1 DEF T
<1>9. q + 1 \in 1 .. Len(Source) /\ Source[q] = T[m] /\ Source[q + 1] = T[m + 1]
  BY <1>7, <1>8 DEF Spot
<1>10. q \in 1 .. Len(tokens) /\ Type(tokens[q]) = "IMPORT"
  BY <1>5, <1>7, <1>9 DEF Type
<1>11. PathAt(q) = Resolve(program, T[m + 1])
  BY <1>5, <1>9 DEF PathAt
<1>12. Passed(q)
  BY <1>10 DEF Passed
<1>13. PICK n \in 1 .. Len(imports) : imports[n] = PathAt(q)
  BY <1>10, <1>12 DEF IInv, ImportsOK
<1> QED BY <1>11, <1>13 DEF Followed

\* Of ImportsAreFollowed: however files import one another, all that are named come in, each once; the files
\* that come in are the least set that the main file's imports and their own ask for, and their tokens are
\* the list that stage 2 reads.
THEOREM EveryImportIsFollowed == Spec => []ImportsAreFollowed
<1>1. IInv => StatementsAreFollowed
  <2>1. SUFFICES ASSUME IInv, stage = "define" PROVE StatementsAreFollowed
    BY DEF StatementsAreFollowed
  <2> QED BY <2>1 DEF IInv, ImportsOK, Passed, StatementsAreFollowed
<1>2. IInv /\ SourceOK => NeededFilesAreRead
  <2>1. SUFFICES ASSUME IInv, SourceOK, stage = "define" PROVE NeededFilesAreRead
    BY DEF NeededFilesAreRead
  <2>2. Cells(tokens) = Append(Source, Eof)
    BY <2>1 DEF SourceOK
  <2>3. ASSUME ~Torn PROVE Needless = {}
    BY <2>1, <2>3 DEF SourceOK, Needless
  <2>4. ASSUME \A n \in 1 .. Len(tokens) : Type(tokens[n]) = "IMPORT" => Statement(n) PROVE Closed(Followed)
    <3>1. /\ Len(imports) \in Nat /\ Len(Texts) = Len(imports) + 1 /\ Texts[1] = Main
          /\ \A n \in 1 .. Len(imports) : Texts[n + 1] = FileAt(imports[n])
      BY <2>1, TextsIn DEF IInv, SourceOK
    <3>2. \A k \in 1 .. Len(Texts) : Named(Texts[k]) \subseteq Followed
      BY <2>1, <2>4, NamedIsFollowed
    <3>3. Named(Main) \subseteq Followed
      BY <3>1, <3>2
    <3>4. ASSUME NEW path \in Followed PROVE Named(FileAt(path)) \subseteq Followed
      <4>1. PICK n \in 1 .. Len(imports) : path = imports[n]
        BY <3>4 DEF Followed
      <4>2. n + 1 \in 1 .. Len(Texts)
        BY <3>1
      <4> QED BY <3>1, <3>2, <4>1, <4>2
    <3> QED BY <3>3, <3>4 DEF Closed
  <2> QED BY <2>2, <2>3, <2>4 DEF NeededFilesAreRead
<1>3. Spec => [](IInv /\ SourceOK)
  BY Initially, Inductive, SourceInitially, SourceInductive, PTL DEF Spec
<1>4. IInv /\ SourceOK => ImportsAreFollowed
  BY <1>1, <1>2 DEF ImportsAreFollowed
<1> QED BY <1>3, <1>4, PTL

\* Of ExpansionIsSound: whatever is expanded, no call of a macro is in the tokens the parser gets, and the
\* definition of one only where a body held it; and macros that call themselves recurse
\* max_macro_call_depth + 1 deep at most.
THEOREM CallsAreReplaced == Spec => []ExpansionIsSound
<1>1. IInv => ExpansionIsSound
  BY DEF IInv, ExpansionIsSound
<1> QED BY <1>1, PreprocessorInvariant, PTL
=============================================================================
