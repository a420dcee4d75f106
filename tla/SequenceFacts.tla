---------------------------- MODULE SequenceFacts ----------------------------
(***************************************************************************)
(* Facts about numbers, functions and lists that the other proof modules   *)
(* need, whatever they are about.                                          *)
(*                                                                         *)
(* The induction theorems of the library take the statement as a parameter *)
(* of theirs, which no back end here can instantiate.  NatIsInductive      *)
(* takes the set of the numbers it holds of instead, and rests on          *)
(* FS_Injection: an injection of a finite set into itself is surjective.   *)
(***************************************************************************)
EXTENDS Lists, Integers, SequencesExt, FiniteSetTheorems, SequenceTheorems, TLAPS

\* Induction: a set with 0 and with the successor of each of its numbers has them
\* all.  Were m the one that is missing, k |-> k + 1 would be an injection of the
\* numbers below m that are in it into themselves that misses 0.
LEMMA NatIsInductive ==
   ASSUME NEW S, 0 \in S, \A n \in Nat : n \in S => n + 1 \in S
   PROVE  Nat \subseteq S
<1>1. SUFFICES ASSUME NEW m \in Nat, m \notin S PROVE FALSE
  OBVIOUS
<1> DEFINE D == {k \in 0 .. m : k \in S}
           f == [k \in D |-> k + 1]
<1>2. IsFiniteSet(D)
  BY FS_Interval, FS_Subset, 0 \in Int, m \in Int
<1>3. \A k \in D : k + 1 \in D
  BY <1>1
<1>4. f \in Injection(D, D)
  BY <1>3 DEF Injection, IsInjective
<1>5. f \in Surjection(D, D)
  <2> HIDE DEF D, f
  <2> QED BY <1>2, <1>4, FS_Injection
<1>6. \E k \in D : f[k] = 0
  <2>1. 0 \in D
    OBVIOUS
  <2> HIDE DEF D, f
  <2> QED BY <1>5, <2>1 DEF Surjection
<1>7. \A k \in D : f[k] # 0
  OBVIOUS
<1> QED BY <1>6, <1>7

\* A function may be defined by what it is at 0 and how each value follows from the
\* one before.
LEMMA IterationExists ==
  ASSUME NEW B, NEW z \in B, NEW n \in Nat, NEW h \in [1 .. n -> [B -> B]]
  PROVE  \E f \in [0 .. n -> B] : f[0] = z /\ \A i \in 1 .. n : f[i] = h[i][f[i - 1]]
<1> DEFINE Good(m, f) == f[0] = z /\ \A i \in 1 .. m : f[i] = h[i][f[i - 1]]
           S == {m \in Nat : m <= n => \E f \in [0 .. m -> B] : Good(m, f)}
<1>1. 0 \in S
  <2>1. [i \in 0 .. 0 |-> z] \in [0 .. 0 -> B] /\ Good(0, [i \in 0 .. 0 |-> z])
    OBVIOUS
  <2> QED BY <2>1
<1>2. ASSUME NEW m \in Nat, m \in S PROVE m + 1 \in S
  <2>1. SUFFICES ASSUME m + 1 <= n PROVE \E f \in [0 .. m + 1 -> B] : Good(m + 1, f)
    OBVIOUS
  <2>2. PICK f \in [0 .. m -> B] : Good(m, f)
    BY <1>2, <2>1
  <2> DEFINE g == [i \in 0 .. m + 1 |-> IF i <= m THEN f[i] ELSE h[m + 1][f[m]]]
  <2>3. m + 1 \in 1 .. n /\ f[m] \in B
    BY <2>1
  <2>4. h[m + 1][f[m]] \in B
    BY <2>3
  <2>5. g \in [0 .. m + 1 -> B]
    BY <2>4
  <2>6. g[0] = z
    BY <2>2
  <2>7. ASSUME NEW i \in 1 .. m + 1 PROVE g[i] = h[i][g[i - 1]]
    <3>1. CASE i <= m
      BY <2>2, <3>1
    <3>2. CASE i = m + 1
      BY <3>2
    <3> QED BY <3>1, <3>2
  <2> HIDE DEF g
  <2> QED BY <2>5, <2>6, <2>7
<1>3. Nat \subseteq S
  <2> HIDE DEF S
  <2> QED BY <1>1, <1>2, NatIsInductive
<1>4. n \in S
  BY <1>3
<1> QED BY <1>4

\* There is only one such function.
LEMMA IterationsAgree ==
  ASSUME NEW n \in Nat, NEW f, NEW g, f[0] = g[0],
         \A i \in 1 .. n : f[i - 1] = g[i - 1] => f[i] = g[i]
  PROVE  \A i \in 0 .. n : f[i] = g[i]
<1> DEFINE S == {m \in Nat : m <= n => f[m] = g[m]}
<1>1. 0 \in S
  OBVIOUS
<1>2. ASSUME NEW m \in Nat, m \in S PROVE m + 1 \in S
  <2>1. SUFFICES ASSUME m + 1 <= n PROVE f[m + 1] = g[m + 1]
    OBVIOUS
  <2>2. m + 1 \in 1 .. n /\ f[(m + 1) - 1] = g[(m + 1) - 1]
    BY <1>2, <2>1
  <2> QED BY <2>2
<1>3. Nat \subseteq S
  <2> HIDE DEF S
  <2> QED BY <1>1, <1>2, NatIsInductive
<1> QED BY <1>3

\* The length of a list is a number, and counts its places.
LEMMA ListLength ==
  ASSUME NEW s, IsList(s)
  PROVE  Len(s) \in Nat /\ DOMAIN s = 1 .. Len(s) /\ (s # <<>> => Len(s) # 0)
BY DEF IsList

\* What is empty is a list.
LEMMA EmptyIsList == IsList(<<>>)
BY DEF IsList

\* Sequences over a set are lists.
LEMMA SeqIsList ==
  ASSUME NEW X, NEW s \in Seq(X)
  PROVE  IsList(s)
<1> DEFINE B == {s[n] : n \in DOMAIN s}
<1>1. \A n \in 1 .. Len(s) : s[n] \in B
  OBVIOUS
<1> HIDE DEF B
<1>2. s \in Seq(B)
  BY <1>1
<1> QED BY <1>2 DEF IsList, B

\* Functions on the first k numbers are lists of length k.
LEMMA FunIsList ==
  ASSUME NEW k \in Nat, NEW X, NEW f \in [1 .. k -> X]
  PROVE  IsList(f) /\ Len(f) = k
<1>1. f \in Seq(X) /\ Len(f) = k
  OBVIOUS
<1> QED BY <1>1, SeqIsList

\* A list that an element is appended to is a list, one longer, with the old elements where they were.
LEMMA Grown ==
  ASSUME NEW s, IsList(s), NEW x
  PROVE  /\ IsList(Append(s, x)) /\ Append(s, x) # <<>>
         /\ Len(s) \in Nat /\ Len(Append(s, x)) = Len(s) + 1
         /\ \A n \in 1 .. Len(s) : Append(s, x)[n] = s[n]
         /\ Append(s, x)[Len(s) + 1] = x
<1> DEFINE A == {s[n] : n \in DOMAIN s}
<1>1. s \in Seq(A) /\ s \in Seq(A \cup {x})
  BY DEF IsList
<1> HIDE DEF A
<1>2. Append(s, x) \in Seq(A \cup {x})
  BY <1>1
<1>3. IsList(Append(s, x))
  BY <1>2, SeqIsList
<1> QED BY <1>1, <1>3, SMTT(30)

\* Two lists in a row are a list: first the one, then the other.
LEMMA Joining ==
  ASSUME NEW s, IsList(s), NEW t, IsList(t)
  PROVE  /\ IsList(s \o t)
         /\ Len(s) \in Nat /\ Len(t) \in Nat /\ Len(s \o t) = Len(s) + Len(t)
         /\ \A n \in 1 .. Len(s) : (s \o t)[n] = s[n]
         /\ \A n \in 1 .. Len(t) : (s \o t)[Len(s) + n] = t[n]
<1> DEFINE A == {s[n] : n \in DOMAIN s}
           B == {t[n] : n \in DOMAIN t}
<1>1. s \in Seq(A \cup B) /\ t \in Seq(A \cup B)
  <2>1. s \in Seq(A) /\ t \in Seq(B)
    BY DEF IsList
  <2> HIDE DEF A, B
  <2> QED BY <2>1
<1> HIDE DEF A, B
<1>2. s \o t \in Seq(A \cup B)
  BY <1>1
<1>3. IsList(s \o t)
  BY <1>2, SeqIsList
<1> QED BY <1>1, <1>3

\* A list one of whose places is written is a list of the same length.
LEMMA Replaced ==
  ASSUME NEW s, IsList(s), NEW r, DOMAIN r = DOMAIN s, r = [n \in DOMAIN r |-> r[n]]
  PROVE  /\ IsList(r) /\ Len(r) = Len(s) /\ DOMAIN s = 1 .. Len(s)
<1> DEFINE X == {r[n] : n \in 1 .. Len(s)}
<1>1. Len(s) \in Nat /\ DOMAIN s = 1 .. Len(s)
  BY ListLength
<1>2. r \in [1 .. Len(s) -> X]
  BY <1>1
<1>3. IsList(r) /\ Len(r) = Len(s)
  <2> HIDE DEF X
  <2> QED BY <1>1, <1>2, FunIsList
<1> QED BY <1>1, <1>3

\* A list that an element is put before is a list, its elements one place on.
LEMMA Prefixed ==
  ASSUME NEW s, IsList(s), NEW x
  PROVE  /\ IsList(<<x>> \o s) /\ Len(s) \in Nat /\ Len(<<x>> \o s) = Len(s) + 1
         /\ (<<x>> \o s)[1] = x
         /\ \A n \in 2 .. Len(s) + 1 : (<<x>> \o s)[n] = s[n - 1]
<1> DEFINE A == {s[n] : n \in DOMAIN s}
<1>1. s \in Seq(A)
  BY DEF IsList
<1> HIDE DEF A
<1>2. s \in Seq(A \cup {x}) /\ <<x>> \in Seq(A \cup {x})
  BY <1>1
<1>3. <<x>> \o s \in Seq(A \cup {x})
  BY <1>2
<1>4. IsList(<<x>> \o s)
  BY <1>3, SeqIsList
<1> QED BY <1>2, <1>3, <1>4

\* A list without its first element is a list, its elements one place back.
LEMMA Shortened ==
  ASSUME NEW s, IsList(s), s # <<>>
  PROVE  /\ IsList(Tail(s)) /\ Len(s) \in Nat \ {0} /\ Len(Tail(s)) = Len(s) - 1
         /\ \A n \in 1 .. Len(s) - 1 : Tail(s)[n] = s[n + 1]
<1> DEFINE A == {s[n] : n \in DOMAIN s}
<1>1. s \in Seq(A)
  BY DEF IsList
<1> HIDE DEF A
<1>2. Tail(s) \in Seq(A)
  BY <1>1
<1>3. IsList(Tail(s))
  BY <1>2, SeqIsList
<1> QED BY <1>1, <1>2, <1>3

\* A list whose first element is replaced has the length and the other elements it had.
LEMMA OtherTop ==
  ASSUME NEW s, IsList(s), s # <<>>, NEW x
  PROVE  /\ IsList(<<x>> \o Tail(s)) /\ Len(<<x>> \o Tail(s)) = Len(s)
         /\ (<<x>> \o Tail(s))[1] = x
         /\ \A n \in 2 .. Len(s) : (<<x>> \o Tail(s))[n] = s[n]
<1> DEFINE t == Tail(s)
<1>1. /\ IsList(t) /\ Len(s) \in Nat \ {0} /\ Len(t) = Len(s) - 1
      /\ \A n \in 1 .. Len(s) - 1 : t[n] = s[n + 1]
  BY Shortened
<1> HIDE DEF t
<1>2. /\ IsList(<<x>> \o t) /\ Len(<<x>> \o t) = Len(t) + 1
      /\ (<<x>> \o t)[1] = x
      /\ \A n \in 2 .. Len(t) + 1 : (<<x>> \o t)[n] = t[n - 1]
  BY <1>1, Prefixed
<1>3. \A n \in 2 .. Len(s) : (<<x>> \o t)[n] = s[n]
  BY <1>1, <1>2
<1> QED BY <1>1, <1>2, <1>3 DEF t

\* Lists in a row, flattened, are put together one after the other.
LEMMA FlatIs ==
  ASSUME NEW P, NEW s \in Seq(Seq(P)), Len(s) # 0
  PROVE  \E F \in [1 .. Len(s) -> Seq(P)] :
           /\ F[1] = s[1] /\ \A i \in 2 .. Len(s) : F[i] = F[i - 1] \o s[i]
           /\ FlattenSeq(s) = F[Len(s)]
<1> DEFINE n == Len(s)
           Eq(f) == f = [i \in 1 .. n |-> IF i = 1 THEN s[i] ELSE f[i - 1] \o s[i]]
           F == CHOOSE f : Eq(f)
           h == [i \in 1 .. n |-> [a \in Seq(P) |-> a \o s[i]]]
<1>1. n \in Nat /\ n >= 1 /\ \A i \in 1 .. n : s[i] \in Seq(P)
  OBVIOUS
<1>2. FlattenSeq(s) = F[n]
  BY DEF FlattenSeq
<1>3. \E f : Eq(f)
  <2> DEFINE B == Seq(P)
             z == <<>>
  <2>1. h \in [1 .. n -> [B -> B]] /\ z \in B
    BY <1>1
  <2>2. n \in Nat
    BY <1>1
  <2>3. PICK f \in [0 .. n -> B] : f[0] = z /\ \A i \in 1 .. n : f[i] = h[i][f[i - 1]]
    <3> HIDE DEF h, n, B, z
    <3> QED BY ONLY <2>1, <2>2, IterationExists, SMTT(40)
  <2> DEFINE g == [i \in 1 .. n |-> f[i]]
  <2>4. ASSUME NEW i \in 1 .. n PROVE f[i] = IF i = 1 THEN s[i] ELSE g[i - 1] \o s[i]
    <3>1. f[i - 1] \in Seq(P) /\ s[i] \in Seq(P)
      <4>1. i - 1 \in 0 .. n
        BY <1>1
      <4> QED BY <1>1, <2>3, <4>1
    <3>2. f[i] = f[i - 1] \o s[i]
      BY <2>3, <3>1
    <3>3. CASE i = 1
      <4>1. f[i - 1] = <<>>
        BY <2>3, <3>3
      <4> QED BY <3>1, <3>2, <3>3, <4>1
    <3>4. CASE i # 1
      <4>1. i - 1 \in 1 .. n
        BY <1>1, <3>4
      <4> QED BY <3>2, <3>4, <4>1
    <3> QED BY <3>3, <3>4
  <2>5. Eq(g)
    BY <2>4
  <2> QED BY <2>5
<1>4. Eq(F)
  <2> HIDE DEF Eq
  <2> QED BY <1>3
<1> DEFINE S == {i \in Nat : i + 1 <= n => F[i + 1] \in Seq(P)}
<1>5. F[1] = s[1]
  <2> HIDE DEF F
  <2> QED BY <1>1, <1>4
<1>6. \A i \in 2 .. n : F[i] = F[i - 1] \o s[i]
  <2> HIDE DEF F
  <2>1. ASSUME NEW i \in 2 .. n PROVE F[i] = F[i - 1] \o s[i]
    <3>1. i \in 1 .. n /\ i # 1
      BY <1>1
    <3> HIDE DEF n
    <3> QED BY <1>4, <3>1
  <2> QED BY <2>1
<1>7. 0 \in S
  <2> HIDE DEF F
  <2> QED BY <1>1, <1>5
<1>8. ASSUME NEW i \in Nat, i \in S PROVE i + 1 \in S
  <2> HIDE DEF F
  <2>1. SUFFICES ASSUME i + 1 + 1 <= n PROVE F[i + 1 + 1] \in Seq(P)
    OBVIOUS
  <2>2. i + 1 + 1 \in 2 .. n /\ i + 1 + 1 \in 1 .. n /\ (i + 1 + 1) - 1 = i + 1
    BY <1>1, <2>1
  <2>3. F[i + 1 + 1] = F[i + 1] \o s[i + 1 + 1]
    BY <1>6, <2>2
  <2>4. F[i + 1] \in Seq(P) /\ s[i + 1 + 1] \in Seq(P)
    BY <1>1, <1>8, <2>1, <2>2
  <2> QED BY <2>3, <2>4
<1>9. Nat \subseteq S
  <2> HIDE DEF S
  <2> QED BY <1>7, <1>8, NatIsInductive
<1>10. \A i \in 1 .. n : F[i] \in Seq(P)
  <2> HIDE DEF F, n
  <2>1. ASSUME NEW i \in 1 .. n PROVE F[i] \in Seq(P)
    <3>1. i - 1 \in Nat /\ (i - 1) + 1 = i /\ i <= n
      BY <1>1
    <3>2. i - 1 \in S
      <4> HIDE DEF S
      <4> QED BY <1>9, <3>1
    <3> QED BY <3>1, <3>2
  <2> QED BY <2>1
<1>11. F = [i \in 1 .. n |-> F[i]]
  <2> HIDE DEF F
  <2> QED BY <1>4
<1> HIDE DEF F
<1>12. F \in [1 .. n -> Seq(P)]
  BY <1>10, <1>11
<1> QED BY <1>2, <1>5, <1>6, <1>12

\* They are a sequence over what they are sequences over.
LEMMA Flat ==
  ASSUME NEW P, NEW s \in Seq(Seq(P))
  PROVE  FlattenSeq(s) \in Seq(P)
<1>1. CASE Len(s) = 0
  BY <1>1 DEF FlattenSeq
<1>2. CASE Len(s) # 0
  <2>1. PICK F \in [1 .. Len(s) -> Seq(P)] : FlattenSeq(s) = F[Len(s)]
    BY <1>2, FlatIs
  <2>2. Len(s) \in 1 .. Len(s)
    BY <1>2
  <2> QED BY ONLY <2>1, <2>2
<1> QED BY <1>1, <1>2

\* Lists with the same elements are the same.
LEMMA SameLists ==
  ASSUME NEW P, NEW s \in Seq(P), NEW t \in Seq(P), Len(s) = Len(t), \A n \in 1 .. Len(s) : s[n] = t[n]
  PROVE  s = t
<1>1. s = [n \in 1 .. Len(s) |-> s[n]] /\ t = [n \in 1 .. Len(t) |-> t[n]]
  OBVIOUS
<1> QED BY <1>1

\* One more list in the row, flattened, comes behind the others.
LEMMA FlatGrows ==
  ASSUME NEW P, NEW s \in Seq(Seq(P)), Len(s) # 0, NEW t \in Seq(P)
  PROVE  /\ Append(s, t) \in Seq(Seq(P)) /\ Len(Append(s, t)) = Len(s) + 1
         /\ FlattenSeq(Append(s, t)) = FlattenSeq(s) \o t
<1> DEFINE u == Append(s, t)
           n == Len(s)
<1>1. /\ u \in Seq(Seq(P)) /\ n \in Nat \ {0} /\ Len(u) = n + 1 /\ u[n + 1] = t
      /\ \A k \in 1 .. n : u[k] = s[k]
  <2> DEFINE Q == Seq(P)
  <2>1. s \in Seq(Q) /\ t \in Q /\ Len(s) # 0
    OBVIOUS
  <2> HIDE DEF Q
  <2>2. /\ u \in Seq(Q) /\ n \in Nat \ {0} /\ Len(u) = n + 1 /\ u[n + 1] = t
        /\ \A k \in 1 .. n : u[k] = s[k]
    BY <2>1
  <2> QED BY <2>2 DEF Q
<1> HIDE DEF u
<1>2. PICK F : /\ F[1] = s[1] /\ \A i \in 2 .. n : F[i] = F[i - 1] \o s[i]
               /\ FlattenSeq(s) = F[n]
  BY ONLY s \in Seq(Seq(P)), Len(s) # 0, FlatIs DEF n
<1>3. Len(u) # 0
  BY <1>1
<1>4. PICK G : /\ G[1] = u[1] /\ \A i \in 2 .. Len(u) : G[i] = G[i - 1] \o u[i]
               /\ FlattenSeq(u) = G[Len(u)]
  BY ONLY <1>1, <1>3, FlatIs
<1> HIDE DEF n
<1>a. PICK f : f = [i \in Nat |-> F[i + 1]]
  OBVIOUS
<1>b. PICK g : g = [i \in Nat |-> G[i + 1]]
  OBVIOUS
<1>5. f[0] = g[0]
  <2>1. 1 \in 1 .. n /\ 1 \in 1 .. Len(u)
    BY <1>1
  <2>2. F[1] = G[1]
    BY <1>1, <1>2, <1>4, <2>1
  <2> QED BY <1>a, <1>b, <2>2
<1>6. ASSUME NEW i \in 1 .. n - 1, f[i - 1] = g[i - 1] PROVE f[i] = g[i]
  <2>1. i + 1 \in 2 .. n /\ i + 1 \in 2 .. Len(u) /\ i + 1 \in 1 .. n /\ (i + 1) - 1 = i /\ i \in Nat /\ i - 1 \in Nat /\ (i - 1) + 1 = i
    <3>1. n \in Nat /\ Len(u) = n + 1 /\ i \in 1 .. n - 1
      BY <1>1
    <3> QED BY ONLY <3>1
  <2>2. F[i] = G[i]
    BY <1>a, <1>b, <1>6, <2>1
  <2>3. F[i + 1] = F[i] \o s[i + 1] /\ G[i + 1] = G[i] \o u[i + 1] /\ u[i + 1] = s[i + 1]
    BY <1>1, <1>2, <1>4, <2>1
  <2> QED BY <1>a, <1>b, <2>1, <2>2, <2>3
<1>7. \A i \in 0 .. n - 1 : f[i] = g[i]
  <2> DEFINE k == n - 1
  <2>1. k \in Nat
    BY <1>1
  <2>2. \A i \in 1 .. k : f[i - 1] = g[i - 1] => f[i] = g[i]
    BY <1>6
  <2> HIDE DEF k
  <2>3. \A i \in 0 .. k : f[i] = g[i]
    BY ONLY <2>1, <2>2, <1>5, IterationsAgree, ZenonT(60)
  <2> QED BY <2>3 DEF k
<1>8. F[n] = G[n]
  <2>1. n - 1 \in 0 .. n - 1 /\ n - 1 \in Nat /\ (n - 1) + 1 = n
    <3>1. n \in Nat \ {0}
      BY <1>1
    <3> QED BY ONLY <3>1
  <2>2. f[n - 1] = g[n - 1]
    BY <1>7, <2>1
  <2> QED BY <1>a, <1>b, <2>1, <2>2
<1>9. G[n + 1] = G[n] \o t
  <2>1. n + 1 \in 2 .. Len(u) /\ (n + 1) - 1 = n
    BY <1>1
  <2> QED BY <1>1, <1>4, <2>1
<1>10. FlattenSeq(u) = FlattenSeq(s) \o t
  BY <1>1, <1>2, <1>4, <1>8, <1>9
<1> QED BY <1>1, <1>10 DEF u, n

\* Where v has the m-th element of t, and the next one behind it if t has one.
Spot(v, q, t, m) == v[q] = t[m] /\ (m < Len(t) => q + 1 \in 1 .. Len(v) /\ v[q + 1] = t[m + 1])

\* Two lists in a row have what each has.
LEMMA SpotsJoin ==
  ASSUME NEW P, NEW v \in Seq(P), NEW t \in Seq(P)
  PROVE  /\ v \o t \in Seq(P) /\ Len(v) \in Nat /\ Len(t) \in Nat /\ Len(v \o t) = Len(v) + Len(t)
         /\ \A q \in 1 .. Len(v) : \A u, m : Spot(v, q, u, m) => Spot(v \o t, q, u, m)
         /\ \A m \in 1 .. Len(t) : Spot(v \o t, Len(v) + m, t, m)
<1> DEFINE w == v \o t
<1>1. /\ w \in Seq(P) /\ Len(v) \in Nat /\ Len(t) \in Nat /\ Len(w) = Len(v) + Len(t)
      /\ \A q \in 1 .. Len(v) : w[q] = v[q]
      /\ \A m \in 1 .. Len(t) : w[Len(v) + m] = t[m]
  OBVIOUS
<1> HIDE DEF w
<1>2. ASSUME NEW q \in 1 .. Len(v), NEW u, NEW m, Spot(v, q, u, m) PROVE Spot(w, q, u, m)
  <2>1. ASSUME q + 1 \in 1 .. Len(v) PROVE q + 1 \in 1 .. Len(w) /\ w[q + 1] = v[q + 1]
    BY <1>1, <2>1
  <2> QED BY <1>1, <1>2, <2>1 DEF Spot
<1>3. ASSUME NEW m \in 1 .. Len(t) PROVE Spot(w, Len(v) + m, t, m)
  <2>1. w[Len(v) + m] = t[m]
    BY <1>1
  <2>2. ASSUME m < Len(t) PROVE Len(v) + m + 1 \in 1 .. Len(w) /\ w[Len(v) + m + 1] = t[m + 1]
    <3>1. m + 1 \in 1 .. Len(t) /\ Len(v) + (m + 1) = Len(v) + m + 1
      BY <1>1, <2>2
    <3> QED BY <1>1, <3>1
  <2> QED BY <2>1, <2>2 DEF Spot
<1> QED BY <1>1, <1>2, <1>3 DEF w

\* Lists in a row, flattened, have what each of them has, and nothing else.
LEMMA FlatHas ==
  ASSUME NEW P, NEW s \in Seq(Seq(P)), Len(s) # 0
  PROVE  /\ \A k \in 1 .. Len(s) : \A m \in 1 .. Len(s[k]) :
              \E q \in 1 .. Len(FlattenSeq(s)) : Spot(FlattenSeq(s), q, s[k], m)
         /\ \A q \in 1 .. Len(FlattenSeq(s)) :
              \E k \in 1 .. Len(s) : \E m \in 1 .. Len(s[k]) : Spot(FlattenSeq(s), q, s[k], m)
<1> DEFINE n == Len(s)
           Has(v, i) == /\ \A k \in 1 .. i : \A m \in 1 .. Len(s[k]) : \E q \in 1 .. Len(v) : Spot(v, q, s[k], m)
                        /\ \A q \in 1 .. Len(v) : \E k \in 1 .. i : \E m \in 1 .. Len(s[k]) : Spot(v, q, s[k], m)
<1>1. n \in Nat \ {0} /\ \A k \in 1 .. n : s[k] \in Seq(P) /\ Len(s[k]) \in Nat
  OBVIOUS
<1>2. PICK F \in [1 .. n -> Seq(P)] :
        /\ F[1] = s[1] /\ \A i \in 2 .. n : F[i] = F[i - 1] \o s[i]
        /\ FlattenSeq(s) = F[n]
  BY ONLY s \in Seq(Seq(P)), Len(s) # 0, FlatIs DEF n
<1> HIDE DEF n
<1> DEFINE S == {i \in Nat : i + 1 <= n => Has(F[i + 1], i + 1)}
<1>3. Has(F[1], 1)
  <2>1. \A m \in 1 .. Len(s[1]) : Spot(s[1], m, s[1], m)
    BY <1>1 DEF Spot
  <2> QED BY <1>2, <2>1
<1>4. ASSUME NEW i \in Nat, i \in S PROVE i + 1 \in S
  <2>1. SUFFICES ASSUME i + 1 + 1 <= n PROVE Has(F[i + 1 + 1], i + 1 + 1)
    OBVIOUS
  <2> DEFINE j == i + 1
             v == F[j]
             t == s[j + 1]
             w == v \o t
  <2>2. /\ j \in Nat /\ j + 1 \in 2 .. n /\ j \in 1 .. n /\ j + 1 \in 1 .. n /\ (j + 1) - 1 = j /\ j + 1 = i + 1 + 1
        /\ \A k \in 1 .. j + 1 : k \in 1 .. j \/ k = j + 1
        /\ \A k \in 1 .. j : k \in 1 .. j + 1
        /\ j + 1 \in 1 .. j + 1
    BY <1>1, <2>1
  <2>3. v \in Seq(P) /\ t \in Seq(P) /\ F[j + 1] = w /\ Has(v, j)
    <3>1. v \in Seq(P)
      BY <1>2, <2>2
    <3>2. F[j + 1] = w
      BY <1>2, <2>2
    <3>3. Has(v, j)
      <4>1. j <= n
        BY ONLY <2>1, i \in Nat, <1>1 DEF j
      <4> HIDE DEF Has
      <4> QED BY <1>4, <4>1
    <3> QED BY <1>1, <2>2, <3>1, <3>2, <3>3
  <2> HIDE DEF v, t, j
  <2>4. /\ Len(v) \in Nat /\ Len(t) \in Nat /\ Len(w) = Len(v) + Len(t)
        /\ \A q \in 1 .. Len(v) : \A u, m : Spot(v, q, u, m) => Spot(w, q, u, m)
        /\ \A m \in 1 .. Len(t) : Spot(w, Len(v) + m, t, m)
    BY ONLY <2>3, SpotsJoin
  <2> HIDE DEF w
  <2>5. ASSUME NEW k \in 1 .. j + 1, NEW m \in 1 .. Len(s[k]) PROVE \E q \in 1 .. Len(w) : Spot(w, q, s[k], m)
    <3>1. CASE k \in 1 .. j
      <4>1. PICK q \in 1 .. Len(v) : Spot(v, q, s[k], m)
        BY <2>3, <2>5, <3>1
      <4>2. q \in 1 .. Len(w)
        BY <2>4
      <4> QED BY <2>4, <4>1, <4>2
    <3>2. CASE k = j + 1
      <4>1. m \in 1 .. Len(t) /\ s[k] = t
        BY <2>5, <3>2 DEF t
      <4>2. Len(v) + m \in 1 .. Len(w)
        BY <2>4, <4>1
      <4> QED BY <2>4, <4>1, <4>2
    <3> QED BY <2>2, <3>1, <3>2
  <2>6. ASSUME NEW q \in 1 .. Len(w) PROVE \E k \in 1 .. j + 1 : \E m \in 1 .. Len(s[k]) : Spot(w, q, s[k], m)
    <3>1. CASE q \in 1 .. Len(v)
      <4>1. PICK k \in 1 .. j : \E m \in 1 .. Len(s[k]) : Spot(v, q, s[k], m)
        BY <2>3, <3>1
      <4>2. PICK m \in 1 .. Len(s[k]) : Spot(v, q, s[k], m)
        BY <4>1
      <4>3. Spot(w, q, s[k], m) /\ k \in 1 .. j + 1
        BY <2>2, <2>4, <3>1, <4>2
      <4> QED BY <4>3
    <3>2. CASE q \notin 1 .. Len(v)
      <4>1. PICK m \in 1 .. Len(t) : q = Len(v) + m
        <5>1. q - Len(v) \in 1 .. Len(t) /\ q = Len(v) + (q - Len(v))
          BY <2>4, <3>2
        <5> QED BY <5>1
      <4>2. Spot(w, q, t, m)
        BY <2>4, <4>1
      <4> QED BY <2>2, <4>2 DEF t
    <3> QED BY <3>1, <3>2
  <2>7. Has(w, j + 1)
    BY <2>5, <2>6
  <2> QED BY <2>2, <2>3, <2>7
<1>5. Nat \subseteq S
  <2>1. 0 \in S
    BY <1>3
  <2> HIDE DEF S
  <2> QED BY <1>4, <2>1, NatIsInductive
<1>6. Has(F[n], n)
  <2>1. n - 1 \in Nat /\ (n - 1) + 1 = n
    BY <1>1
  <2>2. n - 1 \in S
    <3> HIDE DEF S
    <3> QED BY <1>5, <2>1
  <2> HIDE DEF Has
  <2> QED BY <1>1, <2>1, <2>2
<1> QED BY <1>2, <1>6 DEF n

\* Part of a list is one.
LEMMA CutOff ==
  ASSUME NEW s, IsList(s), NEW n \in Nat, n <= Len(s)
  PROVE  IsList(SubSeq(s, n + 1, Len(s))) /\ Len(SubSeq(s, n + 1, Len(s))) = Len(s) - n
<1> DEFINE A == {s[k] : k \in DOMAIN s}
<1>1. s \in Seq(A) /\ Len(s) \in Nat
  BY DEF IsList
<1> HIDE DEF A
<1>2. SubSeq(s, n + 1, Len(s)) \in Seq(A) /\ Len(SubSeq(s, n + 1, Len(s))) = Len(s) - n
  BY <1>1
<1> QED BY <1>2, SeqIsList
=============================================================================
