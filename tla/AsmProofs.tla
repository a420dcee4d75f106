----------------------------- MODULE AsmProofs -----------------------------
(***************************************************************************)
(* Proofs about modules AsmCodegen and AsmMachine, for any functions to    *)
(* compile.  No label is printed twice and, if no jump of the program      *)
(* leaves what could hold it, every jump that was printed has its label.   *)
(* If the program's trees also leave the stack as they find it, cg->depth  *)
(* tells at every label whether rsp is aligned, and rsp is aligned at      *)
(* every call.                                                             *)
(*                                                                         *)
(* What a task will print depends on the counters when its turn comes:     *)
(* every place of `todo' has a context, which changes where a node with    *)
(* labels ends.  The inductive invariant is about the labels that the text *)
(* has or that the tasks will write, each in its context, and about the    *)
(* labels that jumps, printed or to be printed, go to.  A step replaces a  *)
(* task by others; nothing is said of the order the labels come in.        *)
(*                                                                         *)
(* How high the stack is when the text is run is told from the text: every *)
(* place has a height, every label one, and a jump brings no less than its *)
(* label's, by an even number of slots.  So have the tasks still to do,    *)
(* with cg->depth along them; a tree of the program is a task that ends at *)
(* the height it began at.                                                 *)
(***************************************************************************)
EXTENDS AsmMachine, SequenceFacts

\* The counters around a place of todo.
Contexts == [count : Nat, brk : Nat, cnt : Nat]
Now      == [count |-> cur_count, brk |-> cur_brk_id, cnt |-> cur_cnt_id]
Saved(t) == [count |-> t.count, brk |-> t.brk, cnt |-> t.cnt]

ReturnLabel == Lab("return", 0)

\* What the nodes of a task are.
IsTask(t) ==
  /\ t.op \in {"expr", "addr"} => t.e \in Exprs
  /\ t.op = "stmt" => IF t.s.kind = "case" THEN t.s.i \in Nat /\ t.s.body \in Stmts ELSE t.s \in Stmts
  /\ t.op = "cases" => t.s.kind = "match" /\ t.s \in Stmts
  /\ t.op = "restore" => Saved(t) \in Contexts

\* The labels a task prints itself in context c.
Writes(t, c) ==
  IF t.op = "ins" THEN IF t.ins.op = "label" THEN {t.ins.label} ELSE {}
  ELSE IF t.op = "stmt" /\ t.s.kind = "case" THEN {CaseLabel(t.s.i, c.count)}
  ELSE IF t.op = "epilogue" THEN {ReturnLabel}
  ELSE {}

\* The labels the jumps out of a statement go to, given what leaves it.  A stray
\* one has none.
Exits(leaving, c) ==
  (IF "break" \in leaving THEN {Lab("break", c.brk)} ELSE {})
    \cup (IF "continue" \in leaving THEN {Lab("continue", c.cnt)} ELSE {})
    \cup (IF "stray" \in leaving THEN {Lab("stray", 0)} ELSE {})

\* The labels a task goes to that others have to write.
Needs(t, c) ==
  IF t.op = "ins" THEN IF IsJump(t.ins) THEN {t.ins.to} ELSE {}
  ELSE IF t.op = "stmt" THEN IF t.s.kind = "case" THEN Exits(Escapes(t.s.body), c) \cup {Lab("break", c.count)}
                             ELSE Exits(Escapes(t.s), c)
  ELSE IF t.op = "cases" THEN Exits(Escapes(t.s), c)
  ELSE {}

\* Label ids are handed out in order, but for the one of the epilogue.
Known(l, m) == ((l.id \in Nat /\ l.id < m) \/ l = ReturnLabel) /\ l.name # "stray"
Fresh(l, m) == l.id = m /\ l.name \notin {"return", "stray"}

\* The tasks ts in contexts cs, when the labels L and the jumps to J are printed
\* and m ids were handed out.
InContext(ts, cs, now) ==
  /\ cs \in [1 .. Len(ts) -> Contexts]
  /\ ts # <<>> => cs[1] = now
  /\ \A k \in 2 .. Len(ts) : cs[k] = IF ts[k - 1].op = "restore" THEN Saved(ts[k - 1]) ELSE cs[k - 1]

WrittenOnce(ts, cs, L, m) ==
  /\ \A k \in 1 .. Len(ts) : \A l \in Writes(ts[k], cs[k]) :
       /\ l \notin L /\ Known(l, m)
       /\ \A n \in 1 .. Len(ts) : l \in Writes(ts[n], cs[n]) => n = k
  /\ \A l \in L : Known(l, m)

Has(l, ts, cs, L) == l \in L \/ \E k \in 1 .. Len(ts) : l \in Writes(ts[k], cs[k])

Held(ts, cs, L, J) ==
  /\ \A k \in 1 .. Len(ts) : \A l \in Needs(ts[k], cs[k]) : Has(l, ts, cs, L)
  /\ \A l \in J : Has(l, ts, cs, L)

-----------------------------------------------------------------------------
(* How high the stack is: a place of the text has a level, the number of    *)
(* slots on the stack and cg->depth.                                        *)
Even(n) == n % 2 = 0
Levels  == Nat \X Int
Up(p, n) == <<p[1] + n, p[2] + n>>

\* What an instruction does to the stack, and where a task leads on from level p
\* when it is an instruction; what others are replaced by ends where it began.
Effect(i) == CASE i.op \in {"push", "pushcopy"} -> i.slots
               [] i.op = "pop"     -> -1
               [] i.op = "release" -> -i.slots
               [] OTHER            -> 0
Past(t, p) == IF t.op = "ins" THEN <<p[1] + Effect(t.ins), p[2] + t.adds>> ELSE p

\* What a task needs to be true of the level it is at.
Counts(i)   == /\ i.op = "push" => i.slots = 1
               /\ i.op \in {"pushcopy", "release"} => i.slots \in Nat
Tells(t)    == t.op = "ins" => t.ins.op = "label"
Bears(t, p) ==
  /\ t.op = "ins" => Counts(t.ins) /\ (t.ins.op = "call" => Even(p[1]))
  /\ t.op # "restore" /\ Tells(t) => Even(p[1] - p[2])
  /\ t.op \in {"expr", "addr"} => t.e \in LevelExprs
  /\ t.op = "stmt" => (IF t.s.kind = "case" THEN t.s.body ELSE t.s) \in LevelStmts(~Even(p[1]))
  /\ t.op = "cases" => t.s \in LevelStmts(~Even(p[1]))
  /\ t.op = "epilogue" => p = <<0, 0>>

\* How high the stack is at a label: as high as at all others of its id, and
\* empty at the end.
HeightAt(l, H) == IF l = ReturnLabel THEN 0 ELSE H[l.id]

\* A task, in a context, at a level, given how high the labels are: a jump may
\* leave an even number of slots behind.
Sits(t, c, H, p) ==
  /\ Bears(t, p)
  /\ \A l \in Writes(t, c) : HeightAt(l, H) = p[1]
  /\ \A l \in Needs(t, c) : HeightAt(l, H) <= p[1] /\ Even(p[1] - HeightAt(l, H))

Sit(ts, cs, H, p) ==
  \E g \in [1 .. Len(ts) + 1 -> Levels] :
    /\ g[1] = p
    /\ \A k \in 1 .. Len(ts) : Sits(ts[k], cs[k], H, g[k]) /\ g[k + 1] = Past(ts[k], g[k])

\* The same of what is printed.
Stands(c, H, h) ==
  /\ Counts(c.ins) /\ c.depth \in Int
  /\ c.ins.op = "label" => HeightAt(c.ins.label, H) = h /\ Even(h - c.depth)
  /\ IsJump(c.ins) => HeightAt(c.ins.to, H) <= h /\ Even(h - HeightAt(c.ins.to, H))
  /\ c.ins.op = "call" => Even(h)

Stand(hs, H) ==
  /\ hs \in [1 .. Len(code) + 1 -> Nat] /\ hs[1] = 0
  /\ \A i \in 1 .. Len(code) : Stands(code[i], H, hs[i]) /\ hs[i + 1] = hs[i] + Effect(code[i].ins)

\* The text ends with a ret.
Closing(t) == t.op = "epilogue" \/ (t.op = "ins" /\ t.ins.op = "ret")
EndsWell   == IF todo = <<>> THEN Len(code) # 0 /\ code[Len(code)].ins.op = "ret"
              ELSE Closing(todo[Len(todo)])

Printed == {code[i].ins.label : i \in {n \in 1 .. Len(code) : code[n].ins.op = "label"}}
Targets == {code[i].ins.to : i \in {n \in 1 .. Len(code) : IsJump(code[n].ins)}}
Tame    == Escapes(Functions[function].body) = {}

\* No jump leaves a deferred statement, and it finds one slot on the stack.
DeferredIs(s) == s \in Stmts /\ (Tame => Escapes(s) = {}) /\ (Level => s \in OddStmts)

TasksOK ==
  /\ function \in DOMAIN Functions /\ max_count \in Nat
  /\ IsList(todo) /\ \A k \in 1 .. Len(todo) : IsTask(todo[k])
  /\ IsList(deferred) /\ \A k \in 1 .. Len(deferred) : DeferredIs(deferred[k])
  /\ IsList(code)

PrintedOnce == \A i, j \in 1 .. Len(code) :
                 code[i].ins.op = "label" /\ Prints(j, code[i].ins.label) => i = j

IInv == /\ TasksOK
        /\ PrintedOnce
        /\ EndsWell
        /\ \E cs : /\ InContext(todo, cs, Now)
                   /\ WrittenOnce(todo, cs, Printed, max_count)
                   /\ Has(ReturnLabel, todo, cs, Printed)
                   /\ Tame => Held(todo, cs, Printed, Targets)
                   /\ Level => \E H, hs :
                                 H \in [Nat -> Nat] /\ Stand(hs, H) /\ Sit(todo, cs, H, <<hs[Len(code) + 1], depth>>)

\* Which tasks print labels or jumps of their own.
Marks(t) == \/ t.op = "ins" /\ t.ins.op = "label"
            \/ t.op = "stmt" /\ t.s.kind = "case"
            \/ t.op = "epilogue"
Leaves(t) == \/ t.op = "ins" /\ IsJump(t.ins)
             \/ t.op = "stmt" /\ (t.s.kind = "case" \/ Escapes(t.s) # {})
             \/ t.op = "cases" /\ Escapes(t.s) # {}

\* A task leads from level p to q; its labels are at the height b, its jumps not
\* below.
Takes(t, b, p, q) ==
  /\ p \in Levels /\ q \in Levels /\ q = Past(t, p)
  /\ t.op # "restore" /\ Bears(t, p)
  /\ Marks(t) => p[1] = b
  /\ Leaves(t) => b <= p[1] /\ Even(p[1] - b)

\* So do some tasks in a row.
Leads(T, b, p, q) ==
  /\ IsList(T)
  /\ \E g \in [1 .. Len(T) + 1 -> Levels] :
       /\ g[1] = p /\ g[Len(T) + 1] = q
       /\ \A k \in 1 .. Len(T) : Takes(T[k], b, g[k], g[k + 1])

\* Of two numbers that are an even number apart both are even or none.
LEMMA EvenTogether ==
  ASSUME NEW a \in Int, NEW b \in Int, Even(a - b)
  PROVE  Even(a) <=> Even(b)
BY DEF Even

\* What is an even number apart from something is so from what that is so from.
LEMMA EvenThrough ==
  ASSUME NEW a \in Int, NEW b \in Int, NEW c \in Int, Even(a - b), Even(b - c)
  PROVE  Even(a - c)
BY DEF Even

LEMMA LeadsNone ==
  ASSUME NEW b, NEW p \in Levels
  PROVE  Leads(<<>>, b, p, p)
<1>1. IsList(<<>>) /\ Len(<<>>) = 0
  BY EmptyIsList
<1> DEFINE g == [k \in 1 .. 1 |-> p]
<1>2. g \in [1 .. 1 -> Levels] /\ g[1] = p
  <2> HIDE DEF Levels
  <2> QED OBVIOUS
<1>3. 0 + 1 = 1 /\ 1 .. 0 = {}
  OBVIOUS
<1> HIDE DEF g, Levels
<1> QED BY <1>1, <1>2, <1>3 DEF Leads

LEMMA LeadsOne ==
  ASSUME NEW t, NEW b, NEW p, NEW q, Takes(t, b, p, q)
  PROVE  Leads(<<t>>, b, p, q)
<1> DEFINE g == [k \in 1 .. 2 |-> IF k = 1 THEN p ELSE q]
<1>1. <<t>> \in Seq({t}) /\ Len(<<t>>) = 1 /\ <<t>>[1] = t
  OBVIOUS
<1>2. IsList(<<t>>)
  BY ONLY <1>1, SeqIsList
<1>3. g \in [1 .. 2 -> Levels]
  BY DEF Takes
<1>4. g[1] = p /\ g[2] = q
  OBVIOUS
<1> HIDE DEF g
<1>5. 1 + 1 = 2 /\ \A k \in 1 .. 1 : k = 1
  OBVIOUS
<1> QED BY <1>1, <1>2, <1>3, <1>4, <1>5 DEF Leads

LEMMA LeadsJoin ==
  ASSUME NEW T, NEW U, NEW b, NEW p, NEW q, NEW r, Leads(T, b, p, q), Leads(U, b, q, r)
  PROVE  Leads(T \o U, b, p, r)
<1>1. IsList(T) /\ IsList(U)
  BY DEF Leads
<1> DEFINE v == T \o U
           m == Len(T)
           n == Len(U)
<1>2. /\ IsList(v) /\ m \in Nat /\ n \in Nat /\ Len(v) = m + n
      /\ \A k \in 1 .. m : v[k] = T[k]
      /\ \A k \in 1 .. n : v[m + k] = U[k]
  BY <1>1, Joining
<1>3. PICK g \in [1 .. m + 1 -> Levels] :
        g[1] = p /\ g[m + 1] = q /\ \A k \in 1 .. m : Takes(T[k], b, g[k], g[k + 1])
  BY DEF Leads
<1>4. PICK h \in [1 .. n + 1 -> Levels] :
        h[1] = q /\ h[n + 1] = r /\ \A k \in 1 .. n : Takes(U[k], b, h[k], h[k + 1])
  BY DEF Leads
<1> HIDE DEF v, m, n
<1> DEFINE f == [k \in 1 .. m + n + 1 |-> IF k <= m THEN g[k] ELSE h[k - m]]
<1>5. ASSUME NEW k \in 1 .. m + n + 1
      PROVE  (k <= m => k \in 1 .. m + 1) /\ (k > m => k - m \in 1 .. n + 1)
  BY <1>2
<1>6. f \in [1 .. m + n + 1 -> Levels]
  <2>1. ASSUME NEW k \in 1 .. m + n + 1 PROVE f[k] \in Levels
    <3> HIDE DEF Levels
    <3>1. CASE k <= m
      BY <1>5, <3>1
    <3>2. CASE k > m
      <4>1. ~(k <= m) /\ h[k - m] \in Levels
        BY <1>2, <1>5, <3>2
      <4> QED BY <4>1
    <3> QED BY <1>2, <3>1, <3>2
  <2> HIDE DEF Levels
  <2> QED BY <2>1
<1>7. \A k \in 1 .. m + 1 : f[k] = g[k]
  <2>1. SUFFICES ASSUME NEW k \in 1 .. m + 1 PROVE f[k] = g[k]
    OBVIOUS
  <2>2. CASE k <= m
    BY <1>2, <2>2
  <2>3. CASE k = m + 1
    <3>1. k \in 1 .. m + n + 1 /\ ~(k <= m) /\ k - m = 1
      BY <1>2, <2>3
    <3> QED BY <1>3, <1>4, <2>3, <3>1
  <2> QED BY <1>2, <2>2, <2>3
<1>8. \A k \in 1 .. n + 1 : f[m + k] = h[k]
  <2>1. SUFFICES ASSUME NEW k \in 1 .. n + 1 PROVE f[m + k] = h[k]
    OBVIOUS
  <2>2. m + k \in 1 .. m + n + 1 /\ ~(m + k <= m) /\ (m + k) - m = k
    BY <1>2
  <2> QED BY <2>2
<1>9. f[1] = p /\ f[m + n + 1] = r
  <2>1. 1 \in 1 .. m + 1 /\ n + 1 \in 1 .. n + 1 /\ m + (n + 1) = m + n + 1
    BY <1>2
  <2> HIDE DEF f
  <2> QED BY <1>3, <1>4, <1>7, <1>8, <2>1
<1> HIDE DEF f
<1>10. ASSUME NEW k \in 1 .. m + n PROVE Takes(v[k], b, f[k], f[k + 1])
  <2>1. CASE k <= m
    <3>1. k \in 1 .. m /\ k \in 1 .. m + 1 /\ k + 1 \in 1 .. m + 1
      BY <1>2, <2>1
    <3> QED BY <1>2, <1>3, <1>7, <3>1
  <2>2. CASE k > m
    <3> DEFINE j == k - m
    <3>1. j \in 1 .. n /\ j \in 1 .. n + 1 /\ j + 1 \in 1 .. n + 1 /\ m + j = k /\ m + (j + 1) = k + 1
      BY <1>2, <2>2
    <3> HIDE DEF j
    <3>2. Takes(U[j], b, h[j], h[j + 1])
      BY <1>4, <3>1
    <3>3. v[m + j] = U[j] /\ f[m + j] = h[j] /\ f[m + (j + 1)] = h[j + 1]
      BY <1>2, <1>8, <3>1
    <3> QED BY <3>1, <3>2, <3>3
  <2> QED BY <1>2, <2>1, <2>2
<1>11. \E g1 \in [1 .. Len(v) + 1 -> Levels] :
         g1[1] = p /\ g1[Len(v) + 1] = r /\ \A k \in 1 .. Len(v) : Takes(v[k], b, g1[k], g1[k + 1])
  BY <1>2, <1>6, <1>9, <1>10
<1> QED BY <1>2, <1>11 DEF Leads, v

\* Tasks that all end where they began.
LEMMA LeadsOver ==
  ASSUME NEW P, NEW T \in Seq(P), NEW b, NEW p \in Levels, \A t \in P : Takes(t, b, p, p)
  PROVE  Leads(T, b, p, p)
<1>1. IsList(T) /\ Len(T) \in Nat /\ \A k \in 1 .. Len(T) : T[k] \in P
  BY SeqIsList
<1> DEFINE g == [k \in 1 .. Len(T) + 1 |-> p]
<1>2. g \in [1 .. Len(T) + 1 -> Levels] /\ \A k \in 1 .. Len(T) + 1 : g[k] = p
  <2> HIDE DEF Levels
  <2> QED OBVIOUS
<1>3. 1 \in 1 .. Len(T) + 1 /\ Len(T) + 1 \in 1 .. Len(T) + 1
        /\ \A k \in 1 .. Len(T) : k \in 1 .. Len(T) + 1 /\ k + 1 \in 1 .. Len(T) + 1
  BY <1>1
<1> HIDE DEF g, Levels
<1>4. \A k \in 1 .. Len(T) : Takes(T[k], b, g[k], g[k + 1])
  BY <1>1, <1>2, <1>3
<1> QED BY <1>1, <1>2, <1>3, <1>4 DEF Leads

LEMMA LeadsFlat ==
  ASSUME NEW n \in Nat, NEW s, DOMAIN s = 1 .. n, s = [k \in DOMAIN s |-> s[k]],
         NEW b, NEW p \in Levels, \A k \in 1 .. n : Leads(s[k], b, p, p)
  PROVE  Leads(FlattenSeq(s), b, p, p)
<1> DEFINE P == UNION {{s[k][j] : j \in DOMAIN s[k]} : k \in 1 .. n}
<1>1. ASSUME NEW k \in 1 .. n PROVE s[k] \in Seq(P)
  <2> DEFINE Q == {s[k][j] : j \in DOMAIN s[k]}
  <2>1. s[k] \in Seq(Q)
    BY DEF Leads, IsList
  <2>2. Q \subseteq P
    OBVIOUS
  <2> HIDE DEF P, Q
  <2> QED BY <2>1, <2>2
<1> HIDE DEF P
<1>2. s \in [1 .. n -> Seq(P)]
  BY <1>1
<1>3. s \in Seq(Seq(P)) /\ Len(s) = n
  BY <1>2
<1>4. CASE n = 0
  <2>1. FlattenSeq(s) = <<>>
    BY <1>3, <1>4 DEF FlattenSeq
  <2> QED BY <2>1, LeadsNone
<1>5. CASE n # 0
  <2>1. PICK F \in [1 .. n -> Seq(P)] :
          F[1] = s[1] /\ (\A i \in 2 .. n : F[i] = F[i - 1] \o s[i]) /\ FlattenSeq(s) = F[n]
    BY ONLY <1>3, <1>5, FlatIs
  <2> DEFINE S == {i \in Nat : i + 1 <= n => Leads(F[i + 1], b, p, p)}
  <2>2. 0 \in S
    <3>1. 1 \in 1 .. n /\ 0 + 1 = 1
      BY <1>5
    <3> QED BY <2>1, <3>1
  <2>3. ASSUME NEW i \in Nat, i \in S PROVE i + 1 \in S
    <3>1. SUFFICES ASSUME (i + 1) + 1 <= n PROVE Leads(F[(i + 1) + 1], b, p, p)
      OBVIOUS
    <3>2. (i + 1) + 1 \in 2 .. n /\ (i + 1) + 1 \in 1 .. n /\ ((i + 1) + 1) - 1 = i + 1
      BY <3>1
    <3>3. F[(i + 1) + 1] = F[i + 1] \o s[(i + 1) + 1]
      BY <2>1, <3>2
    <3>4. Leads(F[i + 1], b, p, p) /\ Leads(s[(i + 1) + 1], b, p, p)
      BY <2>3, <3>1, <3>2
    <3> QED BY <3>3, <3>4, LeadsJoin
  <2>4. Nat \subseteq S
    <3> HIDE DEF S
    <3> QED BY <2>2, <2>3, NatIsInductive
  <2>5. n - 1 \in S /\ (n - 1) + 1 = n
    <3>1. n - 1 \in Nat
      BY <1>5
    <3> HIDE DEF S
    <3> QED BY <2>4, <3>1
  <2> QED BY <2>1, <2>5
<1> QED BY <1>4, <1>5

-----------------------------------------------------------------------------
\* A stretch of tasks without the end of a node, all in context c: it writes the
\* labels W, each once, and goes to no others than N.
Stretch(T, c, W, N) ==
  /\ IsList(T)
  /\ \A k \in 1 .. Len(T) : /\ IsTask(T[k]) /\ T[k].op # "restore"
                            /\ Needs(T[k], c) \subseteq N
                            /\ \A l \in Writes(T[k], c) :
                                 l \in W /\ \A n \in 1 .. Len(T) : l \in Writes(T[n], c) => n = k
  /\ \A l \in W : \E k \in 1 .. Len(T) : l \in Writes(T[k], c)

\* The end of a node with labels.
IsEnd(R, now) == R = <<>> \/ \E r : R = <<r>> /\ r.op = "restore" /\ Saved(r) = now

\* Where the tasks of two lists and of the rest of a third are in u.
Row(u, T, R, ts) ==
  /\ IsList(u)
  /\ Len(T) \in Nat /\ Len(R) \in Nat /\ Len(ts) \in Nat \ {0}
  /\ Len(u) = Len(T) + Len(R) + Len(ts) - 1
  /\ \A k \in 1 .. Len(T) : u[k] = T[k]
  /\ \A k \in 1 .. Len(R) : u[Len(T) + k] = R[k]
  /\ \A k \in 2 .. Len(ts) : u[Len(T) + Len(R) + k - 1] = ts[k]

\* And in which contexts they are there.
Spread(u, ds, T, R, then, ts, cs) ==
  /\ Row(u, T, R, ts)
  /\ \A k \in 1 .. Len(u) :
       \/ k \in 1 .. Len(T) /\ u[k] = T[k] /\ ds[k] = then
       \/ Len(R) = 1 /\ k = Len(T) + Len(R) /\ u[k].op = "restore"
       \/ /\ k - Len(T) - Len(R) + 1 \in 2 .. Len(ts)
          /\ u[k] = ts[k - Len(T) - Len(R) + 1] /\ ds[k] = cs[k - Len(T) - Len(R) + 1]

\* Two lists in the place of the first of some tasks.
LEMMA Places ==
  ASSUME NEW ts, IsList(ts), ts # <<>>, NEW T, IsList(T), NEW R, IsList(R)
  PROVE  Row((T \o R) \o Tail(ts), T, R, ts)
<1> DEFINE x == Tail(ts)
           v == T \o R
<1>1. /\ IsList(x) /\ Len(ts) \in Nat \ {0} /\ Len(x) = Len(ts) - 1
      /\ \A n \in 1 .. Len(ts) - 1 : x[n] = ts[n + 1]
  BY Shortened
<1>2. /\ IsList(v) /\ Len(T) \in Nat /\ Len(R) \in Nat /\ Len(v) = Len(T) + Len(R)
      /\ \A k \in 1 .. Len(T) : v[k] = T[k]
      /\ \A k \in 1 .. Len(R) : v[Len(T) + k] = R[k]
  BY Joining
<1> HIDE DEF x, v
<1>3. /\ IsList(v \o x) /\ Len(v \o x) = Len(v) + Len(x)
      /\ \A n \in 1 .. Len(v) : (v \o x)[n] = v[n]
      /\ \A n \in 1 .. Len(x) : (v \o x)[Len(v) + n] = x[n]
  <2>1. IsList(v) /\ IsList(x)
    BY <1>1, <1>2
  <2> QED BY ONLY <2>1, Joining
<1> DEFINE u == v \o x
<1>u. u = v \o x
  OBVIOUS
<1> HIDE DEF u
<1>4. \A k \in 1 .. Len(T) : u[k] = T[k]
  BY <1>2, <1>3, <1>u
<1>5. \A k \in 1 .. Len(R) : u[Len(T) + k] = R[k]
  BY <1>2, <1>3, <1>u
<1>6. ASSUME NEW k \in 2 .. Len(ts) PROVE u[Len(T) + Len(R) + k - 1] = ts[k]
  <2>1. k - 1 \in 1 .. Len(x) /\ Len(T) + Len(R) + k - 1 = Len(v) + (k - 1) /\ (k - 1) + 1 = k
    BY <1>1, <1>2
  <2>2. u[Len(v) + (k - 1)] = x[k - 1] /\ x[k - 1] = ts[(k - 1) + 1]
    BY <1>1, <1>3, <2>1, <1>u
  <2> QED BY <2>1, <2>2
<1>7. IsList(u) /\ Len(u) = Len(T) + Len(R) + Len(ts) - 1
  BY <1>1, <1>2, <1>3, <1>u
<1> QED BY <1>1, <1>2, <1>4, <1>5, <1>6, <1>7 DEF Row, u, v, x

\* The first of some tasks makes way for a stretch, behind which the counters get
\* back the values they had.
LEMMA MadeWay ==
  ASSUME NEW ts, IsList(ts), ts # <<>>, ts[1].op # "restore",
         NEW cs, NEW now \in Contexts, InContext(ts, cs, now),
         NEW T, NEW R, NEW then \in Contexts, NEW W, NEW N, Stretch(T, then, W, N),
         IsEnd(R, now), R = <<>> => then = now,
         NEW L, NEW m \in Nat, NEW more \in Nat, m <= more, WrittenOnce(ts, cs, L, m),
         Writes(ts[1], now) \subseteq W,
         \A l \in W : l \in Writes(ts[1], now) \/ (Fresh(l, m) /\ m < more)
  PROVE  LET u == (T \o R) \o Tail(ts)
         IN \E ds : /\ InContext(u, ds, then)
                    /\ Spread(u, ds, T, R, then, ts, cs)
                    /\ WrittenOnce(u, ds, L, more)
                    /\ \A l : Has(l, ts, cs, L) => Has(l, u, ds, L)
                    /\ \A J : /\ \A l \in N : l \in W \/ l \in Needs(ts[1], now) \/ l = ReturnLabel
                              /\ Has(ReturnLabel, ts, cs, L) /\ Held(ts, cs, L, J)
                              => Held(u, ds, L, J)
<1> DEFINE u == (T \o R) \o Tail(ts)
           a == Len(T)
           b == Len(R)
           n == Len(ts)
           ds == [k \in 1 .. Len(u) |-> IF k <= a + b THEN then ELSE cs[k - a - b + 1]]
<1>0. IsList(T) /\ IsList(R) /\ b \in {0, 1} /\ (b = 0 <=> R = <<>>) /\ (b = 1 => R[1].op = "restore" /\ Saved(R[1]) = now)
  <2>1. IsList(T)
    BY DEF Stretch
  <2>2. CASE R = <<>>
    BY <2>1, <2>2, EmptyIsList
  <2>3. CASE R # <<>>
    <3>1. PICK r : R = <<r>> /\ r.op = "restore" /\ Saved(r) = now
      BY <2>3 DEF IsEnd
    <3>2. R \in Seq({r}) /\ Len(R) = 1 /\ R[1] = r
      BY <3>1
    <3>3. IsList(R)
      BY ONLY <3>2, SeqIsList
    <3> QED BY <2>1, <2>3, <3>1, <3>2, <3>3
  <2> QED BY <2>2, <2>3
<1>1. /\ IsList(u)
      /\ a \in Nat /\ b \in Nat /\ n \in Nat \ {0}
      /\ Len(u) = a + b + n - 1
      /\ \A k \in 1 .. a : u[k] = T[k]
      /\ \A k \in 1 .. b : u[a + k] = R[k]
      /\ \A k \in 2 .. n : u[a + b + k - 1] = ts[k]
  <2>1. Row(u, T, R, ts)
    BY <1>0, Places
  <2> HIDE DEF u
  <2> QED BY <2>1 DEF Row
<1> HIDE DEF u, a, b, n
<1>2. /\ cs \in [1 .. n -> Contexts] /\ cs[1] = now
      /\ \A k \in 2 .. n : cs[k] = IF ts[k - 1].op = "restore" THEN Saved(ts[k - 1]) ELSE cs[k - 1]
  BY DEF InContext, n
<1>3. n >= 2 => cs[2] = now
  BY <1>1, <1>2
\* Every place of u is in T, in R, or behind the first one of ts.
<1>4. ASSUME NEW k \in 1 .. Len(u)
      PROVE  \/ k \in 1 .. a /\ u[k] = T[k] /\ ds[k] = then
             \/ b = 1 /\ k = a + b /\ u[k] = R[1] /\ ds[k] = then
             \/ k - a - b + 1 \in 2 .. n /\ u[k] = ts[k - a - b + 1] /\ ds[k] = cs[k - a - b + 1]
  <2>1. CASE k <= a
    BY <1>0, <1>1, <2>1
  <2>2. CASE k > a /\ k <= a + b
    <3>1. b = 1 /\ k = a + 1 /\ 1 \in 1 .. b
      BY <1>0, <1>1, <2>2
    <3> QED BY <1>1, <2>2, <3>1
  <2>3. CASE k > a + b
    <3> DEFINE j == k - a - b + 1
    <3>1. j \in 2 .. n /\ a + b + j - 1 = k
      BY <1>1, <2>3
    <3>2. u[a + b + j - 1] = ts[j]
      BY <1>1, <3>1
    <3> QED BY <1>1, <2>3, <3>1, <3>2
  <2> QED BY <1>1, <2>1, <2>2, <2>3
<1>5. ASSUME NEW k \in 2 .. n
      PROVE  a + b + k - 1 \in 1 .. Len(u) /\ u[a + b + k - 1] = ts[k] /\ ds[a + b + k - 1] = cs[k]
  <2> DEFINE j == a + b + k - 1
  <2>1. j \in 1 .. Len(u) /\ ~(j <= a + b) /\ j - a - b + 1 = k
    BY <1>1
  <2> QED BY <1>1, <2>1
<1>6. ASSUME NEW k \in 1 .. a PROVE k \in 1 .. Len(u) /\ u[k] = T[k] /\ ds[k] = then
  BY <1>1
<1>7. \A r : r.op = "restore" => Writes(r, then) = {} /\ Needs(r, then) = {}
  BY DEF Writes, Needs
<1>8. InContext(u, ds, then)
  <2>1. ds \in [1 .. Len(u) -> Contexts]
    <3>1. ASSUME NEW k \in 1 .. Len(u) PROVE ds[k] \in Contexts
      BY <1>1, <1>2, <1>4
    <3> QED BY <3>1
  <2>2. ASSUME u # <<>> PROVE ds[1] = then
    <3>1. 1 \in 1 .. Len(u)
      BY <1>1, <2>2, ListLength
    <3>2. CASE a + b = 0
      <4>1. 1 - a - b + 1 = 2 /\ n >= 2 /\ R = <<>> /\ ~(1 <= a + b)
        BY <1>0, <1>1, <3>1, <3>2
      <4> QED BY <1>3, <3>1, <4>1
    <3>3. CASE a + b # 0
      BY <1>1, <3>1, <3>3
    <3> QED BY <3>2, <3>3
  <2>3. ASSUME NEW k \in 2 .. Len(u) PROVE ds[k] = IF u[k - 1].op = "restore" THEN Saved(u[k - 1]) ELSE ds[k - 1]
    <3>1. k \in 1 .. Len(u) /\ k - 1 \in 1 .. Len(u)
      BY <1>1
    <3>2. CASE k <= a + b
      <4>1. k - 1 \in 1 .. a
        BY <1>0, <1>1, <3>2
      <4>2. u[k - 1].op # "restore"
        BY <1>1, <4>1 DEF Stretch, a
      <4> QED BY <1>1, <3>1, <3>2, <4>2
    <3>3. CASE k = a + b + 1
      <4>1. k - a - b + 1 = 2 /\ n >= 2 /\ ~(k <= a + b)
        BY <1>1, <3>3
      <4>2. ds[k] = now
        BY <1>3, <3>1, <4>1
      <4>3. CASE b = 1
        <5>1. u[k - 1] = R[1]
          BY <1>1, <3>3, <4>3
        <5> QED BY <1>0, <4>2, <4>3, <5>1
      <4>4. CASE b = 0
        <5>1. k - 1 \in 1 .. a
          BY <1>1, <3>3, <4>4, <3>1
        <5>2. u[k - 1].op # "restore"
          BY <1>1, <5>1 DEF Stretch, a
        <5> QED BY <1>0, <1>6, <4>2, <4>4, <5>1, <5>2
      <4> QED BY <1>0, <4>3, <4>4
    <3>4. CASE k > a + b + 1
      <4> DEFINE j == k - a - b + 1
      <4>1. j \in 2 .. n /\ j - 1 \in 2 .. n /\ a + b + j - 1 = k /\ a + b + (j - 1) - 1 = k - 1
        BY <1>1, <3>4
      <4>2. ds[k] = cs[j] /\ u[k - 1] = ts[j - 1] /\ ds[k - 1] = cs[j - 1]
        <5> HIDE DEF ds, j
        <5> QED BY <1>5, <4>1
      <4> HIDE DEF ds, j
      <4> QED BY <1>2, <4>1, <4>2
    <3> QED BY <1>1, <3>2, <3>3, <3>4
  <2> HIDE DEF ds
  <2> QED BY <2>1, <2>2, <2>3 DEF InContext
<1> HIDE DEF ds
\* The labels behind the first task are not the fresh ones, and not its own.
<1>9. ASSUME NEW k \in 2 .. n, NEW l \in Writes(ts[k], cs[k]) PROVE l \notin W /\ l \notin L /\ Known(l, m)
  <2>1. k \in 1 .. n /\ 1 \in 1 .. n /\ k # 1
    BY <1>1
  <2>2. l \notin L /\ Known(l, m) /\ l \notin Writes(ts[1], now)
    BY <1>2, <2>1 DEF WrittenOnce, n
  <2>3. ~Fresh(l, m)
    BY <2>2 DEF Known, Fresh, ReturnLabel, Lab
  <2> QED BY <2>2, <2>3
<1>10. ASSUME NEW l \in W PROVE l \notin L /\ Known(l, more)
  <2>1. CASE l \in Writes(ts[1], now)
    <3>1. 1 \in 1 .. n
      BY <1>1
    <3>2. l \notin L /\ Known(l, m)
      BY <1>2, <2>1, <3>1 DEF WrittenOnce, n
    <3> QED BY <3>2 DEF Known
  <2>2. CASE Fresh(l, m) /\ m < more
    <3>1. Known(l, more)
      BY <2>2 DEF Known, Fresh
    <3>2. ~Known(l, m)
      BY <2>2 DEF Known, Fresh, ReturnLabel, Lab
    <3> QED BY <3>1, <3>2 DEF WrittenOnce
  <2> QED BY <2>1, <2>2
\* What a place of u writes and needs.
<1>11. ASSUME NEW k \in 1 .. Len(u), NEW l \in Writes(u[k], ds[k])
       PROVE  \/ k \in 1 .. a /\ l \in W /\ l \in Writes(T[k], then)
              \/ k - a - b + 1 \in 2 .. n /\ l \notin W /\ l \notin L /\ Known(l, m)
                   /\ l \in Writes(ts[k - a - b + 1], cs[k - a - b + 1])
  <2>1. CASE k \in 1 .. a /\ u[k] = T[k] /\ ds[k] = then
    BY <2>1 DEF Stretch, a
  <2>2. CASE b = 1 /\ k = a + b /\ u[k] = R[1] /\ ds[k] = then
    BY <1>0, <1>7, <2>2
  <2>3. CASE k - a - b + 1 \in 2 .. n /\ u[k] = ts[k - a - b + 1] /\ ds[k] = cs[k - a - b + 1]
    BY <1>9, <2>3
  <2> QED BY <1>4, <2>1, <2>2, <2>3
<1>12. WrittenOnce(u, ds, L, more)
  <2>1. ASSUME NEW k \in 1 .. Len(u), NEW l \in Writes(u[k], ds[k])
        PROVE  /\ l \notin L /\ Known(l, more)
               /\ \A j \in 1 .. Len(u) : l \in Writes(u[j], ds[j]) => j = k
    <3>1. CASE k \in 1 .. a /\ l \in W /\ l \in Writes(T[k], then)
      <4>1. ASSUME NEW j \in 1 .. Len(u), l \in Writes(u[j], ds[j]) PROVE j = k
        <5>1. j \in 1 .. a /\ l \in Writes(T[j], then)
          BY <1>11, <3>1, <4>1
        <5> QED BY <3>1, <5>1 DEF Stretch, a
      <4> QED BY <1>10, <3>1, <4>1
    <3>2. CASE /\ k - a - b + 1 \in 2 .. n /\ l \notin W /\ l \notin L /\ Known(l, m)
               /\ l \in Writes(ts[k - a - b + 1], cs[k - a - b + 1])
      <4>1. ASSUME NEW j \in 1 .. Len(u), l \in Writes(u[j], ds[j]) PROVE j = k
        <5>1. j - a - b + 1 \in 2 .. n /\ l \in Writes(ts[j - a - b + 1], cs[j - a - b + 1])
          BY <1>11, <3>2, <4>1
        <5>2. j - a - b + 1 = k - a - b + 1
          <6> DEFINE p == j - a - b + 1
                     q == k - a - b + 1
          <6>1. p \in 1 .. n /\ q \in 1 .. n /\ l \in Writes(ts[p], cs[p]) /\ l \in Writes(ts[q], cs[q])
            BY <1>1, <3>2, <5>1
          <6> HIDE DEF p, q
          <6>2. p = q
            BY <6>1 DEF WrittenOnce, n
          <6> QED BY <6>2 DEF p, q
        <5> QED BY <1>1, <5>2
      <4>2. Known(l, more)
        BY <3>2 DEF Known
      <4> QED BY <3>2, <4>1, <4>2
    <3> QED BY <1>11, <2>1, <3>1, <3>2
  <2>2. \A l \in L : Known(l, more)
    BY DEF WrittenOnce, Known
  <2> QED BY <2>1, <2>2 DEF WrittenOnce
<1>13. \A l \in W : Has(l, u, ds, L)
  <2>1. SUFFICES ASSUME NEW l \in W PROVE Has(l, u, ds, L)
    OBVIOUS
  <2>2. PICK k \in 1 .. a : l \in Writes(T[k], then)
    BY DEF Stretch, a
  <2>3. k \in 1 .. Len(u) /\ l \in Writes(u[k], ds[k])
    BY <1>6, <2>2
  <2> QED BY <2>3 DEF Has
<1>14. ASSUME NEW l, Has(l, ts, cs, L) PROVE Has(l, u, ds, L)
  <2>1. CASE l \in L
    BY <2>1 DEF Has
  <2>2. CASE l \notin L
    <3>1. PICK k \in 1 .. n : l \in Writes(ts[k], cs[k])
      BY <1>14, <2>2 DEF Has, n
    <3>2. CASE k = 1
      BY <1>2, <1>13, <3>1, <3>2
    <3>3. CASE k # 1
      <4>1. k \in 2 .. n
        BY <1>1, <3>3
      <4> DEFINE j == a + b + k - 1
      <4>2. j \in 1 .. Len(u) /\ l \in Writes(u[j], ds[j])
        BY <1>5, <3>1, <4>1
      <4> HIDE DEF j
      <4> QED BY <4>2 DEF Has
    <3> QED BY <3>2, <3>3
  <2> QED BY <2>1, <2>2
<1>15. ASSUME NEW J, \A l \in N : l \in W \/ l \in Needs(ts[1], now) \/ l = ReturnLabel,
              Has(ReturnLabel, ts, cs, L), Held(ts, cs, L, J)
       PROVE  Held(u, ds, L, J)
  <2>1. ASSUME NEW k \in 1 .. n, NEW l \in Needs(ts[k], cs[k]) PROVE Has(l, u, ds, L)
    BY <1>14, <1>15 DEF Held, n
  <2>2. ASSUME NEW k \in 1 .. Len(u), NEW l \in Needs(u[k], ds[k]) PROVE Has(l, u, ds, L)
    <3>1. CASE k \in 1 .. a /\ u[k] = T[k] /\ ds[k] = then
      <4>1. l \in N
        BY <3>1 DEF Stretch, a
      <4>2. CASE l \in Needs(ts[1], now)
        <5>1. 1 \in 1 .. n /\ l \in Needs(ts[1], cs[1])
          BY <1>1, <1>2, <4>2
        <5> QED BY <2>1, <5>1
      <4> QED BY <1>13, <1>14, <1>15, <4>1, <4>2
    <3>2. CASE b = 1 /\ k = a + b /\ u[k] = R[1] /\ ds[k] = then
      BY <1>0, <1>7, <3>2
    <3>3. CASE k - a - b + 1 \in 2 .. n /\ u[k] = ts[k - a - b + 1] /\ ds[k] = cs[k - a - b + 1]
      <4> DEFINE j == k - a - b + 1
      <4>1. j \in 1 .. n /\ l \in Needs(ts[j], cs[j])
        BY <1>1, <3>3
      <4> HIDE DEF j
      <4> QED BY <2>1, <4>1
    <3> QED BY <1>4, <3>1, <3>2, <3>3
  <2>3. \A l \in J : Has(l, u, ds, L)
    BY <1>14, <1>15 DEF Held
  <2> QED BY <2>2, <2>3 DEF Held
<1>16. Spread(u, ds, T, R, then, ts, cs)
  <2>1. ASSUME NEW k \in 1 .. Len(u)
        PROVE  \/ k \in 1 .. a /\ u[k] = T[k] /\ ds[k] = then
               \/ b = 1 /\ k = a + b /\ u[k].op = "restore"
               \/ k - a - b + 1 \in 2 .. n /\ u[k] = ts[k - a - b + 1] /\ ds[k] = cs[k - a - b + 1]
    BY <1>0, <1>4
  <2> QED BY <1>1, <2>1 DEF Spread, Row, a, b, n
<1> QED BY <1>8, <1>12, <1>14, <1>15, <1>16 DEF u

\* The tasks that took the place of the first, which lead back to its level, and
\* those behind it are at levels of theirs.
LEMMA Seated ==
  ASSUME NEW ts, NEW cs, NEW u, NEW ds, NEW T, NEW R, NEW then, Spread(u, ds, T, R, then, ts, cs),
         Len(R) \in {0, 1}, ts[1].op # "ins",
         NEW W, NEW N, Stretch(T, then, W, N),
         NEW m \in Nat, NEW L, WrittenOnce(ts, cs, L, m),
         \A l \in W : l \in Writes(ts[1], cs[1]) \/ Fresh(l, m),
         \A l \in N : l \in W \/ l \in Needs(ts[1], cs[1]) \/ l = ReturnLabel,
         NEW J, Held(ts, cs, L, J),
         NEW H \in [Nat -> Nat], NEW p \in Levels, Sit(ts, cs, H, p),
         Leads(T, p[1], p, p), ReturnLabel \in N => Even(p[1])
  PROVE  \E G \in [Nat -> Nat] : Sit(u, ds, G, p) /\ \A l : Known(l, m) => HeightAt(l, G) = HeightAt(l, H)
<1> DEFINE a == Len(T)
           b == Len(R)
           n == Len(ts)
           G == [H EXCEPT ![m] = p[1]]
<1>1. /\ a \in Nat /\ b \in {0, 1} /\ n \in Nat \ {0} /\ Len(u) = a + b + n - 1
      /\ \A k \in 1 .. Len(u) :
           \/ k \in 1 .. a /\ u[k] = T[k] /\ ds[k] = then
           \/ b = 1 /\ k = a + b /\ u[k].op = "restore"
           \/ k - a - b + 1 \in 2 .. n /\ u[k] = ts[k - a - b + 1] /\ ds[k] = cs[k - a - b + 1]
  BY DEF Spread, Row
<1>2. p[1] \in Nat /\ p[2] \in Int /\ p = <<p[1], p[2]>>
  BY DEF Levels
<1>3. G \in [Nat -> Nat]
  BY <1>2
<1>4. ASSUME NEW l, Known(l, m) PROVE HeightAt(l, G) = HeightAt(l, H)
  <2>1. CASE l = ReturnLabel
    BY <2>1 DEF HeightAt
  <2>2. CASE l # ReturnLabel
    <3>1. l.id \in Nat /\ l.id # m
      BY <1>4, <2>2 DEF Known
    <3> QED BY <2>2, <3>1 DEF HeightAt
  <2> QED BY <2>1, <2>2
<1>5. PICK g \in [1 .. n + 1 -> Levels] :
        g[1] = p /\ \A k \in 1 .. n : Sits(ts[k], cs[k], H, g[k]) /\ g[k + 1] = Past(ts[k], g[k])
  BY DEF Sit
<1>6. PICK f \in [1 .. a + 1 -> Levels] :
        f[1] = p /\ f[a + 1] = p /\ \A k \in 1 .. a : Takes(T[k], p[1], f[k], f[k + 1])
  BY DEF Leads
\* What the places of ts write and need is known.
<1>7. ASSUME NEW k \in 1 .. n
      PROVE  /\ \A l \in Writes(ts[k], cs[k]) : Known(l, m)
             /\ \A l \in Needs(ts[k], cs[k]) : Known(l, m)
  <2>1. \A j \in 1 .. n : \A l \in Writes(ts[j], cs[j]) : Known(l, m)
    BY DEF WrittenOnce
  <2>2. \A l \in L : Known(l, m)
    BY DEF WrittenOnce
  <2>3. \A l \in Needs(ts[k], cs[k]) : Has(l, ts, cs, L)
    BY DEF Held
  <2> QED BY <2>1, <2>2, <2>3 DEF Has
<1>8. ASSUME NEW k \in 1 .. n PROVE Sits(ts[k], cs[k], G, g[k])
  <2> HIDE DEF G
  <2> QED BY <1>4, <1>5, <1>7 DEF Sits
<1>9. 1 \in 1 .. n /\ g[1 + 1] = p
  <2>1. 1 \in 1 .. n
    BY <1>1
  <2>2. g[1 + 1] = Past(ts[1], p)
    BY <1>5, <2>1
  <2> QED BY <2>1, <2>2 DEF Past
<1>10. ASSUME NEW l \in W PROVE HeightAt(l, G) = p[1]
  <2>1. CASE l \in Writes(ts[1], cs[1])
    <3>1. HeightAt(l, H) = p[1]
      BY <1>5, <1>9, <2>1 DEF Sits
    <3> QED BY <1>4, <1>7, <1>9, <2>1, <3>1
  <2>2. CASE Fresh(l, m)
    <3>1. l.id = m /\ l # ReturnLabel
      BY <2>2 DEF Fresh, ReturnLabel, Lab
    <3> QED BY <3>1 DEF HeightAt
  <2> QED BY <2>1, <2>2
<1>11. ASSUME NEW l \in N, NEW x \in Nat, p[1] <= x, Even(x - p[1])
       PROVE  HeightAt(l, G) <= x /\ Even(x - HeightAt(l, G))
  <2>1. CASE l \in W
    BY <1>10, <1>11, <2>1
  <2>2. CASE l \in Needs(ts[1], cs[1])
    <3>1. HeightAt(l, H) <= p[1] /\ Even(p[1] - HeightAt(l, H)) /\ Known(l, m)
      BY <1>5, <1>7, <1>9, <2>2 DEF Sits
    <3>2. HeightAt(l, H) \in Nat
      BY <3>1 DEF HeightAt, Known
    <3> DEFINE h == HeightAt(l, H)
    <3>3. HeightAt(l, G) = h
      BY <1>4, <3>1
    <3> HIDE DEF h
    <3> DEFINE y == p[1]
    <3>4. x \in Nat /\ y \in Nat /\ h \in Nat /\ y <= x /\ h <= y /\ Even(x - y) /\ Even(y - h)
      BY <1>2, <1>11, <3>1, <3>2 DEF h
    <3> HIDE DEF y
    <3>5. h <= x
      BY <3>4
    <3>6. x \in Int /\ y \in Int /\ h \in Int
      BY <3>4
    <3>7. Even(x - h)
      BY ONLY <3>4, <3>6, EvenThrough
    <3> QED BY <3>3, <3>5, <3>7
  <2>3. CASE l = ReturnLabel
    <3>1. HeightAt(l, G) = 0
      BY <2>3 DEF HeightAt
    <3> DEFINE y == p[1]
    <3>2. x \in Nat /\ y \in Nat /\ Even(x - y) /\ Even(y)
      BY <1>2, <1>11, <2>3
    <3> HIDE DEF y
    <3>3. 0 <= x /\ Even(x - 0)
      BY ONLY <3>2, EvenTogether
    <3> QED BY <3>1, <3>3
  <2> QED BY <2>1, <2>2, <2>3
<1>12. ASSUME NEW k \in 1 .. a PROVE Sits(T[k], then, G, f[k]) /\ f[k + 1] = Past(T[k], f[k])
  <2>1. Takes(T[k], p[1], f[k], f[k + 1])
    BY <1>6
  <2>2. f[k] \in Levels /\ f[k][1] \in Nat /\ f[k + 1] = Past(T[k], f[k]) /\ Bears(T[k], f[k])
    BY <2>1 DEF Takes, Levels
  <2>3. ASSUME NEW l \in Writes(T[k], then) PROVE HeightAt(l, G) = f[k][1]
    <3>1. l \in W
      BY DEF Stretch
    <3>2. Marks(T[k])
      BY <2>3 DEF Writes, Marks
    <3>3. f[k][1] = p[1]
      BY <2>1, <3>2 DEF Takes
    <3> QED BY <1>10, <3>1, <3>3
  <2>4. ASSUME NEW l \in Needs(T[k], then)
        PROVE  HeightAt(l, G) <= f[k][1] /\ Even(f[k][1] - HeightAt(l, G))
    <3>1. l \in N
      BY DEF Stretch
    <3>2. Leaves(T[k])
      BY <2>4 DEF Needs, Leaves, Exits
    <3>3. p[1] <= f[k][1] /\ Even(f[k][1] - p[1])
      BY <2>1, <3>2 DEF Takes
    <3> QED BY <1>11, <2>2, <3>1, <3>3
  <2> QED BY <2>2, <2>3, <2>4 DEF Sits
<1> HIDE DEF a, b, n, G
<1>13. PICK e \in [1 .. a + b + n -> Levels] :
         /\ \A k \in 1 .. a + 1 : e[k] = f[k]
         /\ \A j \in 2 .. n + 1 : e[a + b + j - 1] = g[j]
  <2>1. b \in Nat /\ (b = 0 \/ b = 1) /\ n \in Nat /\ n # 0 /\ a \in Nat
    BY <1>1
  <2>2. f \in [1 .. a + 1 -> Levels] /\ f[a + 1] = p /\ g \in [1 .. n + 1 -> Levels]
    BY <1>5, <1>6
  <2>3. g[2] = p
    <3>1. 1 + 1 = 2
      OBVIOUS
    <3> QED BY <1>9, <3>1
  <2> DEFINE e == [k \in 1 .. a + b + n |-> IF k <= a + 1 THEN f[k] ELSE g[k - a - b + 1]]
  <2>4. e \in [1 .. a + b + n -> Levels]
    <3>1. ASSUME NEW k \in 1 .. a + b + n PROVE e[k] \in Levels
      <4>1. CASE k <= a + 1
        <5>1. k \in 1 .. a + 1
          BY <2>1, <4>1
        <5>2. f[k] \in Levels /\ e[k] = f[k]
          BY <2>2, <4>1, <5>1
        <5> QED BY ONLY <5>2
      <4>2. CASE ~(k <= a + 1)
        <5>1. k - a - b + 1 \in 1 .. n + 1
          BY <2>1, <4>2
        <5>2. g[k - a - b + 1] \in Levels
          BY <2>2, <5>1
        <5>3. e[k] = g[k - a - b + 1]
          BY <4>2
        <5> QED BY ONLY <5>2, <5>3
      <4> QED BY <4>1, <4>2
    <3> QED BY ONLY <3>1
  <2>5. ASSUME NEW k \in 1 .. a + 1 PROVE e[k] = f[k]
    <3>1. k \in 1 .. a + b + n /\ k <= a + 1
      BY <2>1
    <3> QED BY <3>1
  <2>6. ASSUME NEW j \in 2 .. n + 1 PROVE e[a + b + j - 1] = g[j]
    <3>1. a + b + j - 1 \in 1 .. a + b + n /\ (a + b + j - 1) - a - b + 1 = j
      BY <2>1
    <3>2. CASE ~(a + b + j - 1 <= a + 1)
      BY <3>1, <3>2
    <3>3. CASE a + b + j - 1 <= a + 1
      <4>1. j = 2 /\ a + b + j - 1 = a + 1 /\ a + 1 \in 1 .. a + 1
        BY <2>1, <3>3
      <4>2. e[a + 1] = f[a + 1]
        <5> HIDE DEF e
        <5> QED BY <2>5, <4>1
      <4> HIDE DEF e
      <4> QED BY <2>2, <2>3, <4>1, <4>2
    <3> QED BY <3>2, <3>3
  <2> HIDE DEF e
  <2> QED BY <2>4, <2>5, <2>6
<1>14. Len(u) + 1 = a + b + n /\ 1 \in 1 .. a + 1
  BY <1>1
<1>15. \A k \in 1 .. a + 1 : e[k] = f[k]
  BY <1>13
<1>16. \A j \in 2 .. n + 1 : e[a + b + j - 1] = g[j]
  BY <1>13
<1>17. e \in [1 .. Len(u) + 1 -> Levels] /\ e[1] = p
  BY <1>6, <1>13, <1>14
<1>18. ASSUME NEW k \in 1 .. Len(u) PROVE Sits(u[k], ds[k], G, e[k]) /\ e[k + 1] = Past(u[k], e[k])
  <2>1. CASE k \in 1 .. a /\ u[k] = T[k] /\ ds[k] = then
    <3>1. k \in 1 .. a + 1 /\ k + 1 \in 1 .. a + 1
      BY <1>1, <2>1
    <3> QED BY <1>12, <1>15, <2>1, <3>1
  <2>2. CASE b = 1 /\ k = a + b /\ u[k].op = "restore"
    <3>1. k \in 1 .. a + 1 /\ k = a + 1 /\ 1 + 1 \in 2 .. n + 1 /\ a + b + (1 + 1) - 1 = k + 1
      BY <1>1, <2>2
    <3>2. e[k] = p
      BY <1>6, <1>15, <3>1
    <3>3. e[k + 1] = p
      BY <1>9, <1>16, <3>1
    <3>4. Sits(u[k], ds[k], G, p) /\ Past(u[k], p) = p
      BY <2>2 DEF Sits, Bears, Writes, Needs, Past
    <3> QED BY <3>2, <3>3, <3>4
  <2>3. CASE k - a - b + 1 \in 2 .. n /\ u[k] = ts[k - a - b + 1] /\ ds[k] = cs[k - a - b + 1]
    <3> DEFINE j == k - a - b + 1
    <3>1. j \in 1 .. n /\ j \in 2 .. n + 1 /\ j + 1 \in 2 .. n + 1
          /\ a + b + j - 1 = k /\ a + b + (j + 1) - 1 = k + 1
      BY <1>1, <2>3
    <3>2. u[k] = ts[j] /\ ds[k] = cs[j]
      BY <2>3
    <3> HIDE DEF j
    <3>3. e[k] = g[j] /\ e[k + 1] = g[j + 1]
      BY <1>16, <3>1
    <3> QED BY <1>5, <1>8, <3>1, <3>2, <3>3
  <2> QED BY <1>1, <2>1, <2>2, <2>3
<1>19. Sit(u, ds, G, p)
  BY <1>17, <1>18 DEF Sit
<1> QED BY <1>3, <1>4, <1>19

LEMMA SitsFirst ==
  ASSUME NEW ts, Len(ts) \in Nat, NEW cs, NEW H, NEW p, Sit(ts, cs, H, p)
  PROVE  p \in Levels /\ (Len(ts) # 0 => Sits(ts[1], cs[1], H, p))
<1>1. PICK g \in [1 .. Len(ts) + 1 -> Levels] : g[1] = p /\ \A k \in 1 .. Len(ts) : Sits(ts[k], cs[k], H, g[k])
  BY DEF Sit
<1>2. 1 \in 1 .. Len(ts) + 1 /\ (Len(ts) # 0 => 1 \in 1 .. Len(ts))
  OBVIOUS
<1> HIDE DEF Levels
<1> QED BY <1>1, <1>2

\* The labels that are printed, and those gone to, are known.
LEMMA HeldKnown ==
  ASSUME NEW ts, NEW cs, NEW L, NEW m, WrittenOnce(ts, cs, L, m), NEW J, Held(ts, cs, L, J)
  PROVE  \A l \in L \cup J : Known(l, m)
BY DEF WrittenOnce, Held, Has

\* The text stands whatever the heights at labels that it does not have.
LEMMA StandsAlike ==
  ASSUME NEW hs, NEW H, NEW G, Stand(hs, H), \A l \in Printed \cup Targets : HeightAt(l, G) = HeightAt(l, H)
  PROVE  Stand(hs, G)
<1>1. ASSUME NEW i \in 1 .. Len(code), code[i].ins.op = "label" PROVE code[i].ins.label \in Printed
  BY <1>1 DEF Printed
<1>2. ASSUME NEW i \in 1 .. Len(code), IsJump(code[i].ins) PROVE code[i].ins.to \in Targets
  BY <1>2 DEF Targets
<1>3. ASSUME NEW i \in 1 .. Len(code) PROVE Stands(code[i], G, hs[i])
  <2>1. Stands(code[i], H, hs[i])
    BY DEF Stand
  <2> QED BY <1>1, <1>2, <2>1 DEF Stands
<1> QED BY <1>3 DEF Stand

-----------------------------------------------------------------------------
\* Stretches.
LEMMA NoStretch ==
  ASSUME NEW c
  PROVE  Stretch(<<>>, c, {}, {})
<1>1. IsList(<<>>) /\ Len(<<>>) = 0
  BY EmptyIsList
<1> QED BY <1>1 DEF Stretch

LEMMA OneTask ==
  ASSUME NEW t, IsTask(t), t.op # "restore", NEW c
  PROVE  Stretch(<<t>>, c, Writes(t, c), Needs(t, c))
<1>1. <<t>> \in Seq({t}) /\ Len(<<t>>) = 1 /\ <<t>>[1] = t
  OBVIOUS
<1>2. IsList(<<t>>)
  BY ONLY <1>1, SeqIsList
<1> DEFINE T == <<t>>
<1>3. IsList(T) /\ Len(T) = 1 /\ T[1] = t
  BY <1>1, <1>2
<1> HIDE DEF T
<1> QED BY <1>3 DEF Stretch, T

LEMMA StretchesJoin ==
  ASSUME NEW c, NEW T, NEW W1, NEW N1, Stretch(T, c, W1, N1),
         NEW U, NEW W2, NEW N2, Stretch(U, c, W2, N2), W1 \cap W2 = {}
  PROVE  Stretch(T \o U, c, W1 \cup W2, N1 \cup N2)
<1>0. IsList(T) /\ IsList(U)
  BY DEF Stretch
<1>j. /\ IsList(T \o U)
      /\ Len(T) \in Nat /\ Len(U) \in Nat /\ Len(T \o U) = Len(T) + Len(U)
      /\ \A n \in 1 .. Len(T) : (T \o U)[n] = T[n]
      /\ \A n \in 1 .. Len(U) : (T \o U)[Len(T) + n] = U[n]
  BY ONLY <1>0, Joining
<1> DEFINE v == T \o U
           a == Len(T)
           b == Len(U)
<1>1. /\ IsList(v) /\ a \in Nat /\ b \in Nat /\ Len(v) = a + b
      /\ \A n \in 1 .. a : v[n] = T[n]
      /\ \A n \in 1 .. b : v[a + n] = U[n]
  BY ONLY <1>j
<1> HIDE DEF v, a, b
<1>2. ASSUME NEW k \in 1 .. Len(v)
      PROVE  \/ k \in 1 .. a /\ v[k] = T[k]
             \/ k - a \in 1 .. b /\ v[k] = U[k - a]
  <2>1. CASE k <= a
    BY <1>1, <2>1
  <2>2. CASE k > a
    <3> DEFINE j == k - a
    <3>1. j \in 1 .. b /\ a + j = k
      BY <1>1, <2>2
    <3>2. v[a + j] = U[j]
      BY <1>1, <3>1
    <3> QED BY <3>1, <3>2
  <2> QED BY <1>1, <2>1, <2>2
<1>3. ASSUME NEW k \in 1 .. Len(v), NEW l \in Writes(v[k], c)
      PROVE  \/ k \in 1 .. a /\ l \in Writes(T[k], c) /\ l \in W1 /\ l \notin W2
             \/ k - a \in 1 .. b /\ l \in Writes(U[k - a], c) /\ l \in W2 /\ l \notin W1
  <2>1. CASE k \in 1 .. a /\ v[k] = T[k]
    BY <2>1 DEF Stretch, a
  <2>2. CASE k - a \in 1 .. b /\ v[k] = U[k - a]
    <3> DEFINE j == k - a
    <3>1. j \in 1 .. b /\ l \in Writes(U[j], c)
      BY <2>2
    <3> HIDE DEF j
    <3>2. l \in W2
      BY <3>1 DEF Stretch, b
    <3> QED BY <3>1, <3>2 DEF j
  <2> QED BY <1>2, <2>1, <2>2
<1>4. ASSUME NEW k \in 1 .. Len(v)
      PROVE  /\ IsTask(v[k]) /\ v[k].op # "restore" /\ Needs(v[k], c) \subseteq N1 \cup N2
             /\ \A l \in Writes(v[k], c) :
                  l \in W1 \cup W2 /\ \A n \in 1 .. Len(v) : l \in Writes(v[n], c) => n = k
  <2>1. IsTask(v[k]) /\ v[k].op # "restore" /\ Needs(v[k], c) \subseteq N1 \cup N2
    <3>1. CASE k \in 1 .. a /\ v[k] = T[k]
      BY <3>1 DEF Stretch, a
    <3>2. CASE k - a \in 1 .. b /\ v[k] = U[k - a]
      <4> DEFINE j == k - a
      <4>1. j \in 1 .. b /\ v[k] = U[j]
        BY <3>2
      <4> HIDE DEF j
      <4> QED BY <4>1 DEF Stretch, b
    <3> QED BY <1>2, <3>1, <3>2
  <2>2. ASSUME NEW l \in Writes(v[k], c), NEW n \in 1 .. Len(v), l \in Writes(v[n], c) PROVE n = k
    <3>1. CASE k \in 1 .. a /\ l \in Writes(T[k], c) /\ l \in W1 /\ l \notin W2
      <4>1. n \in 1 .. a /\ l \in Writes(T[n], c)
        BY <1>3, <2>2, <3>1
      <4> QED BY <3>1, <4>1 DEF Stretch, a
    <3>2. CASE k - a \in 1 .. b /\ l \in Writes(U[k - a], c) /\ l \in W2 /\ l \notin W1
      <4>1. n - a \in 1 .. b /\ l \in Writes(U[n - a], c)
        BY <1>3, <2>2, <3>2
      <4> DEFINE i == k - a
                 j == n - a
      <4>2. i \in 1 .. b /\ l \in Writes(U[i], c) /\ j \in 1 .. b /\ l \in Writes(U[j], c)
        BY <3>2, <4>1
      <4> HIDE DEF i, j
      <4>3. i = j
        BY <4>2 DEF Stretch, b
      <4> QED BY <1>1, <4>3 DEF i, j
    <3> QED BY <1>3, <3>1, <3>2
  <2> QED BY <1>3, <2>1, <2>2
<1>5. ASSUME NEW l \in W1 \cup W2 PROVE \E k \in 1 .. Len(v) : l \in Writes(v[k], c)
  <2>1. CASE l \in W1
    <3>1. PICK k \in 1 .. a : l \in Writes(T[k], c)
      BY <2>1 DEF Stretch, a
    <3> QED BY <1>1, <3>1
  <2>2. CASE l \in W2
    <3>1. PICK k \in 1 .. b : l \in Writes(U[k], c)
      BY <2>2 DEF Stretch, b
    <3>2. a + k \in 1 .. Len(v) /\ v[a + k] = U[k]
      BY <1>1
    <3> QED BY <3>1, <3>2
  <2> QED BY <2>1, <2>2
<1> QED BY <1>1, <1>4, <1>5 DEF Stretch, v

-----------------------------------------------------------------------------
\* Tasks that are no labels or jumps and contain none of the statement's.
IsPlain(t) ==
  \/ t.op \in {"expr", "addr"} /\ t.e \in Exprs
  \/ t.op = "ins" /\ t.ins.op # "label" /\ ~IsJump(t.ins)
Plain(T) == IsList(T) /\ \A k \in 1 .. Len(T) : IsPlain(T[k])

LEMMA PlainTask ==
  ASSUME NEW t, IsPlain(t), NEW c
  PROVE  IsTask(t) /\ t.op # "restore" /\ Writes(t, c) = {} /\ Needs(t, c) = {}
BY DEF IsPlain, IsTask, Writes, Needs

LEMMA PlainStretch ==
  ASSUME NEW T, Plain(T), NEW c
  PROVE  Stretch(T, c, {}, {})
BY PlainTask DEF Plain, Stretch

\* A sequence over a set of plain tasks.
LEMMA PlainOver ==
  ASSUME NEW P, \A t \in P : IsPlain(t), NEW T \in Seq(P)
  PROVE  Plain(T)
<1>1. IsList(T)
  BY SeqIsList
<1>2. \A k \in 1 .. Len(T) : T[k] \in P
  OBVIOUS
<1> QED BY <1>1, <1>2 DEF Plain

LEMMA PlainJoin ==
  ASSUME NEW T, Plain(T), NEW U, Plain(U)
  PROVE  Plain(T \o U)
<1> DEFINE P == {T[n] : n \in DOMAIN T} \cup {U[n] : n \in DOMAIN U}
<1>1. T \in Seq(P) /\ U \in Seq(P)
  <2>1. T \in Seq({T[n] : n \in DOMAIN T}) /\ U \in Seq({U[n] : n \in DOMAIN U})
    BY DEF Plain, IsList
  <2> QED BY <2>1
<1>2. \A t \in P : IsPlain(t)
  <2>1. DOMAIN T = 1 .. Len(T) /\ DOMAIN U = 1 .. Len(U)
    BY ListLength DEF Plain
  <2> QED BY <2>1 DEF Plain
<1> HIDE DEF P
<1>3. T \o U \in Seq(P)
  BY <1>1
<1> QED BY <1>2, <1>3, PlainOver

LEMMA PlainFlat ==
  ASSUME NEW n \in Nat, NEW s, DOMAIN s = 1 .. n, s = [k \in DOMAIN s |-> s[k]],
         \A k \in 1 .. n : Plain(s[k])
  PROVE  Plain(FlattenSeq(s))
<1> DEFINE P == UNION {{s[k][j] : j \in DOMAIN s[k]} : k \in 1 .. n}
<1>1. ASSUME NEW k \in 1 .. n PROVE s[k] \in Seq(P)
  <2> DEFINE Q == {s[k][j] : j \in DOMAIN s[k]}
  <2>1. s[k] \in Seq(Q)
    BY DEF Plain, IsList
  <2>2. Q \subseteq P
    OBVIOUS
  <2> HIDE DEF P, Q
  <2> QED BY <2>1, <2>2
<1>2. \A t \in P : IsPlain(t)
  <2>1. \A k \in 1 .. n : DOMAIN s[k] = 1 .. Len(s[k])
    BY ListLength DEF Plain
  <2> QED BY <2>1 DEF Plain
<1> HIDE DEF P
<1>3. s \in [1 .. n -> Seq(P)]
  BY <1>1
<1>4. s \in Seq(Seq(P))
  BY <1>3
<1>5. FlattenSeq(s) \in Seq(P)
  BY ONLY <1>4, Flat
<1> QED BY ONLY <1>2, <1>5, PlainOver

-----------------------------------------------------------------------------
\* Steps.
LEMMA HeadIs ==
  ASSUME TasksOK, todo # <<>>
  PROVE  /\ Head(todo) = todo[1] /\ IsTask(Head(todo))
         /\ Len(todo) \in Nat \ {0} /\ 1 \in 1 .. Len(todo)
<1>1. Len(todo) \in Nat /\ Len(todo) # 0 /\ \A k \in 1 .. Len(todo) : IsTask(todo[k])
  BY ListLength DEF TasksOK
<1> QED BY <1>1

LEMMA NowIsContext ==
  ASSUME TasksOK, todo # <<>>, NEW cs, InContext(todo, cs, Now)
  PROVE  Now \in Contexts
BY HeadIs DEF InContext

LEMMA EndIs ==
  ASSUME NEW R, NEW now \in Contexts, IsEnd(R, now)
  PROVE  IsList(R) /\ \A k \in 1 .. Len(R) : IsTask(R[k])
<1>1. CASE R = <<>>
  BY <1>1, EmptyIsList
<1>2. CASE R # <<>>
  <2>1. PICK r : R = <<r>> /\ r.op = "restore" /\ Saved(r) = now
    BY <1>2 DEF IsEnd
  <2>2. R \in Seq({r}) /\ Len(R) = 1 /\ R[1] = r
    BY <2>1
  <2>3. IsList(R)
    BY ONLY <2>2, SeqIsList
  <2>4. IsTask(r)
    BY <2>1 DEF IsTask
  <2> QED BY <2>2, <2>3, <2>4
<1> QED BY <1>1, <1>2

LEMMA EndLength ==
  ASSUME NEW R, NEW now, IsEnd(R, now)
  PROVE  Len(R) \in {0, 1}
BY EmptyIsList DEF IsEnd

\* What is deferred is a list of statements that no jump leaves.
DeferredOK(d) == IsList(d) /\ \A k \in 1 .. Len(d) : DeferredIs(d[k])

\* Where the stack is level the first task leads back to where it was, and so does
\* what takes its place; one that returns has nothing odd below it.
Keeps(T, N) ==
  Level => \A p \in Levels : p[2] = depth /\ Bears(Head(todo), p) =>
             depth' = depth /\ Leads(T, p[1], p, p) /\ (ReturnLabel \in N => Even(p[1]))

\* The end of the text is in sight.
LEMMA StillEnds ==
  ASSUME TasksOK, EndsWell, todo # <<>>, NEW T, IsList(T), NEW R, IsList(R), Row(todo', T, R, todo),
         Closing(Head(todo)) => R = <<>> /\ T # <<>> /\ Closing(T[Len(T)])
  PROVE  EndsWell'
<1>1. Head(todo) = todo[1] /\ Len(todo) \in Nat \ {0}
  BY HeadIs
<1>2. Closing(todo[Len(todo)])
  BY DEF EndsWell
<1>3. /\ IsList(todo') /\ Len(T) \in Nat /\ Len(R) \in Nat
      /\ Len(todo') = Len(T) + Len(R) + Len(todo) - 1
      /\ \A k \in 1 .. Len(T) : todo'[k] = T[k]
      /\ \A k \in 2 .. Len(todo) : todo'[Len(T) + Len(R) + k - 1] = todo[k]
  BY DEF Row
<1>4. CASE Len(todo) = 1
  <2>1. R = <<>> /\ T # <<>> /\ Closing(T[Len(T)])
    BY <1>1, <1>2, <1>4
  <2>2. Len(R) = 0 /\ Len(T) # 0
    BY <2>1, EmptyIsList, ListLength
  <2>3. Len(todo') = Len(T) /\ Len(T) \in 1 .. Len(T)
    BY <1>3, <1>4, <2>2
  <2>4. Closing(todo'[Len(todo')])
    BY <1>3, <2>1, <2>3
  <2>5. todo' # <<>>
    BY <2>2, <2>3, EmptyIsList
  <2> QED BY <2>4, <2>5 DEF EndsWell
<1>5. CASE Len(todo) # 1
  <2>1. Len(todo) \in 2 .. Len(todo)
    BY <1>1, <1>5
  <2>4. Len(todo') # 0
    <3>1. Len(todo') = Len(T) + Len(R) + Len(todo) - 1 /\ Len(T) \in Nat /\ Len(R) \in Nat
      BY <1>3
    <3> QED BY <1>1, <1>5, <3>1
  <2>2. todo'[Len(todo')] = todo[Len(todo)]
    BY <1>3, <2>1
  <2>3. todo' # <<>>
    BY <2>4, EmptyIsList
  <2> QED BY <1>2, <2>2, <2>3 DEF EndsWell
<1> QED BY <1>4, <1>5

LEMMA Step ==
  ASSUME IInv, todo # <<>>, Head(todo).op \notin {"restore", "ins"},
         NEW T, NEW R, todo' = (T \o R) \o Tail(todo),
         NEW then \in Contexts, Now' = then, IsEnd(R, Now), R = <<>> => then = Now,
         NEW W, NEW N, Stretch(T, then, W, N),
         max_count' \in Nat, max_count <= max_count',
         Writes(Head(todo), Now) \subseteq W,
         \A l \in W : l \in Writes(Head(todo), Now) \/ (Fresh(l, max_count) /\ max_count < max_count'),
         Tame => \A l \in N : l \in W \/ l \in Needs(Head(todo), Now) \/ l = ReturnLabel,
         function' = function, code' = code, DeferredOK(deferred'),
         Keeps(T, N), Closing(Head(todo)) => R = <<>> /\ T # <<>> /\ Closing(T[Len(T)])
  PROVE  IInv'
<1>1. TasksOK /\ EndsWell
  BY DEF IInv
<1>2. PICK cs : /\ InContext(todo, cs, Now)
                /\ WrittenOnce(todo, cs, Printed, max_count)
                /\ Has(ReturnLabel, todo, cs, Printed)
                /\ Tame => Held(todo, cs, Printed, Targets)
                /\ Level => \E H, hs :
                              H \in [Nat -> Nat] /\ Stand(hs, H) /\ Sit(todo, cs, H, <<hs[Len(code) + 1], depth>>)
  BY DEF IInv
<1>3. Now \in Contexts
  BY <1>1, <1>2, NowIsContext
<1>4. /\ IsList(todo) /\ Head(todo) = todo[1] /\ max_count \in Nat
      /\ \A k \in 1 .. Len(todo) : IsTask(todo[k])
  BY <1>1, HeadIs DEF TasksOK
<1>5. \E ds : /\ InContext(todo', ds, then)
              /\ Spread(todo', ds, T, R, then, todo, cs)
              /\ WrittenOnce(todo', ds, Printed, max_count')
              /\ \A l : Has(l, todo, cs, Printed) => Has(l, todo', ds, Printed)
              /\ \A J : /\ \A l \in N : l \in W \/ l \in Needs(todo[1], Now) \/ l = ReturnLabel
                        /\ Has(ReturnLabel, todo, cs, Printed) /\ Held(todo, cs, Printed, J)
                        => Held(todo', ds, Printed, J)
  <2>1. todo[1].op # "restore" /\ Writes(todo[1], Now) = Writes(Head(todo), Now)
          /\ Needs(todo[1], Now) = Needs(Head(todo), Now)
    BY <1>4
  <2> DEFINE now == Now
             L == Printed
             m == max_count
             more == max_count'
             ts == todo
             us == todo'
             w == Writes(Head(todo), Now)
  <2>2. /\ IsList(ts) /\ ts # <<>> /\ ts[1].op # "restore" /\ now \in Contexts /\ InContext(ts, cs, now)
        /\ Stretch(T, then, W, N) /\ IsEnd(R, now) /\ (R = <<>> => then = now)
        /\ m \in Nat /\ more \in Nat /\ m <= more /\ WrittenOnce(ts, cs, L, m)
        /\ Writes(ts[1], now) \subseteq W
        /\ \A l \in W : l \in Writes(ts[1], now) \/ (Fresh(l, m) /\ m < more)
        /\ us = (T \o R) \o Tail(ts) /\ then \in Contexts
    BY <1>2, <1>3, <1>4, <2>1
  <2>3. \E ds : /\ InContext(us, ds, then)
                /\ Spread(us, ds, T, R, then, ts, cs)
                /\ WrittenOnce(us, ds, L, more)
                /\ \A l : Has(l, ts, cs, L) => Has(l, us, ds, L)
                /\ \A J : /\ \A l \in N : l \in W \/ l \in Needs(ts[1], now) \/ l = ReturnLabel
                          /\ Has(ReturnLabel, ts, cs, L) /\ Held(ts, cs, L, J)
                          => Held(us, ds, L, J)
    <3> HIDE DEF now, L, m, more, ts, us
    <3> QED BY ONLY <2>2, MadeWay
  <2> QED BY <2>3
<1>6. PICK ds : /\ InContext(todo', ds, then)
                /\ Spread(todo', ds, T, R, then, todo, cs)
                /\ WrittenOnce(todo', ds, Printed, max_count')
                /\ \A l : Has(l, todo, cs, Printed) => Has(l, todo', ds, Printed)
                /\ \A J : /\ \A l \in N : l \in W \/ l \in Needs(todo[1], Now) \/ l = ReturnLabel
                          /\ Has(ReturnLabel, todo, cs, Printed) /\ Held(todo, cs, Printed, J)
                          => Held(todo', ds, Printed, J)
  BY <1>5
<1>7. Printed' = Printed /\ Targets' = Targets /\ Tame' = Tame /\ Level' = Level
  BY DEF Printed, Targets, Tame, Level
<1>8. TasksOK'
  <2>1. IsList(T) /\ IsList(R) /\ (\A k \in 1 .. Len(T) : IsTask(T[k])) /\ (\A k \in 1 .. Len(R) : IsTask(R[k]))
    BY <1>3, EndIs DEF Stretch
  <2>2. Row(todo', T, R, todo)
    BY <1>4, <2>1, Places
  <2>3. IsList(todo') /\ \A k \in 1 .. Len(todo') : IsTask(todo'[k])
    <3>1. SUFFICES ASSUME NEW k \in 1 .. Len(todo') PROVE IsTask(todo'[k])
      BY <2>2 DEF Row
    <3>2. CASE k <= Len(T)
      BY <2>1, <2>2, <3>2 DEF Row
    <3>3. CASE k > Len(T) /\ k <= Len(T) + Len(R)
      <4> DEFINE j == k - Len(T)
      <4>1. j \in 1 .. Len(R) /\ Len(T) + j = k
        BY <2>2, <3>3 DEF Row
      <4>2. todo'[Len(T) + j] = R[j]
        BY <2>2, <4>1 DEF Row
      <4> QED BY <2>1, <4>1, <4>2
    <3>4. CASE k > Len(T) + Len(R)
      <4> DEFINE j == k - Len(T) - Len(R) + 1
      <4>1. j \in 2 .. Len(todo) /\ j \in 1 .. Len(todo) /\ Len(T) + Len(R) + j - 1 = k
        BY <2>2, <3>4 DEF Row
      <4>2. todo'[Len(T) + Len(R) + j - 1] = todo[j]
        <5> HIDE DEF j
        <5> QED BY <2>2, <4>1 DEF Row
      <4> HIDE DEF j
      <4> QED BY <1>4, <4>1, <4>2
    <3> QED BY <2>2, <3>2, <3>3, <3>4 DEF Row
  <2>4. \A x : DeferredIs(x)' <=> DeferredIs(x)
    BY <1>7 DEF DeferredIs
  <2> QED BY <1>1, <1>7, <2>3, <2>4 DEF TasksOK, DeferredOK
<1>9. PrintedOnce'
  BY DEF IInv, PrintedOnce, Prints
<1>10. /\ InContext(todo', ds, Now')
       /\ WrittenOnce(todo', ds, Printed', max_count')
       /\ Has(ReturnLabel, todo', ds, Printed')
       /\ Tame' => Held(todo', ds, Printed', Targets')
  BY <1>2, <1>4, <1>6, <1>7
<1>11. ASSUME Level
       PROVE  \E H, hs : H \in [Nat -> Nat] /\ Stand(hs, H)' /\ Sit(todo', ds, H, <<hs[Len(code') + 1], depth'>>)
  <2>1. PICK H, hs : H \in [Nat -> Nat] /\ Stand(hs, H) /\ Sit(todo, cs, H, <<hs[Len(code) + 1], depth>>)
    BY <1>2, <1>11
  <2> DEFINE p == <<hs[Len(code) + 1], depth>>
  <2>2. p \in Levels /\ p[2] = depth
    BY <1>1, <2>1, HeadIs, SitsFirst
  <2>3. Bears(Head(todo), p)
    BY <1>1, <1>4, <2>1, HeadIs, SitsFirst DEF Sits
  <2>4. depth' = depth /\ Leads(T, p[1], p, p) /\ (ReturnLabel \in N => Even(p[1]))
    BY <1>11, <2>2, <2>3 DEF Keeps
  <2>5. Held(todo, cs, Printed, Targets)
    BY <1>2, <1>11 DEF Level, Tame
  <2>6. cs[1] = Now
    BY <1>2 DEF InContext
  <2>7. Len(R) \in {0, 1}
    BY <1>3, EndLength
  <2>8. \A l \in W : l \in Writes(todo[1], cs[1]) \/ Fresh(l, max_count)
    BY <1>4, <2>6
  <2>9. \A l \in N : l \in W \/ l \in Needs(todo[1], cs[1]) \/ l = ReturnLabel
    BY <1>4, <1>11, <2>6 DEF Level, Tame
  <2> DEFINE ts == todo
             us == todo'
             m == max_count
             L == Printed
             J == Targets
  <2>10. /\ Spread(us, ds, T, R, then, ts, cs) /\ Len(R) \in {0, 1} /\ ts[1].op # "ins"
         /\ Stretch(T, then, W, N) /\ m \in Nat /\ WrittenOnce(ts, cs, L, m)
         /\ \A l \in W : l \in Writes(ts[1], cs[1]) \/ Fresh(l, m)
         /\ \A l \in N : l \in W \/ l \in Needs(ts[1], cs[1]) \/ l = ReturnLabel
         /\ Held(ts, cs, L, J) /\ H \in [Nat -> Nat] /\ p \in Levels /\ Sit(ts, cs, H, p)
         /\ Leads(T, p[1], p, p) /\ (ReturnLabel \in N => Even(p[1]))
    BY <1>2, <1>4, <1>6, <2>1, <2>2, <2>4, <2>5, <2>7, <2>8, <2>9
  <2>11. \E F \in [Nat -> Nat] : Sit(us, ds, F, p) /\ \A l : Known(l, m) => HeightAt(l, F) = HeightAt(l, H)
    <3> HIDE DEF p, ts, us, m, L, J
    <3> QED BY ONLY <2>10, Seated, SMTT(60)
  <2>12. PICK F \in [Nat -> Nat] :
           Sit(todo', ds, F, p) /\ \A l : Known(l, max_count) => HeightAt(l, F) = HeightAt(l, H)
    BY <2>11
  <2>13. \A l \in Printed \cup Targets : Known(l, max_count)
    BY <1>2, <2>5, HeldKnown
  <2>14. Stand(hs, F)
    BY <2>1, <2>12, <2>13, StandsAlike
  <2>15. Stand(hs, F)'
    BY <2>14 DEF Stand
  <2>16. p = <<hs[Len(code') + 1], depth'>>
    BY <2>4
  <2> HIDE DEF p
  <2> QED BY <2>12, <2>15, <2>16
<1>12. EndsWell'
  <2>1. IsList(T) /\ IsList(R) /\ Row(todo', T, R, todo)
    BY <1>3, <1>6, EndIs DEF Stretch, Spread
  <2> QED BY <1>1, <2>1, StillEnds
<1> QED BY <1>7, <1>8, <1>9, <1>10, <1>11, <1>12 DEF IInv

\* Without a change of the counters.
LEMMA SteadyStep ==
  ASSUME IInv, todo # <<>>, Head(todo).op \notin {"restore", "ins"},
         NEW T, Becomes(T), UNCHANGED <<function, code, counters>>, DeferredOK(deferred'),
         NEW W, NEW N, Stretch(T, Now, W, N),
         W = Writes(Head(todo), Now),
         Tame => \A l \in N : l \in W \/ l \in Needs(Head(todo), Now) \/ l = ReturnLabel,
         Keeps(T, N), Closing(Head(todo)) => T # <<>> /\ Closing(T[Len(T)])
  PROVE  IInv'
<1> DEFINE R == <<>>
           then == Now
<1>1. todo' = (T \o R) \o Tail(todo)
  <2>1. IsList(T)
    BY DEF Stretch
  <2>2. T \o R = T
    BY <2>1 DEF IsList
  <2> QED BY <2>2 DEF Becomes
<1>2. IsEnd(R, Now)
  BY DEF IsEnd
<1>3. then \in Contexts
  BY NowIsContext DEF IInv
<1>4. Now' = then /\ max_count' = max_count
  BY DEF Now, counters
<1>5. max_count \in Nat
  BY DEF IInv, TasksOK
<1>6. max_count' \in Nat /\ max_count <= max_count'
  BY <1>4, <1>5
<1>7. R = <<>> => then = Now
  OBVIOUS
<1>9. Closing(Head(todo)) => R = <<>> /\ T # <<>> /\ Closing(T[Len(T)])
  OBVIOUS
<1> HIDE DEF R, then
<1>8. Stretch(T, then, W, N)
  BY DEF then
<1> QED BY <1>1, <1>2, <1>3, <1>4, <1>6, <1>7, <1>8, <1>9, Step

LEMMA SameDeferred ==
  ASSUME IInv, deferred' = deferred
  PROVE  DeferredOK(deferred')
BY DEF IInv, TasksOK, DeferredOK

LEMMA PlainStep ==
  ASSUME IInv, todo # <<>>, Head(todo).op \notin {"restore", "ins"}, Writes(Head(todo), Now) = {},
         NEW T, Plain(T), Becomes(T), Steady, Keeps(T, {}), ~Closing(Head(todo))
  PROVE  IInv'
<1>1. Stretch(T, Now, {}, {})
  BY PlainStretch
<1>2. DeferredOK(deferred') /\ UNCHANGED <<function, code, counters>>
  BY SameDeferred DEF Steady
<1> QED BY <1>1, <1>2, SteadyStep

\* A node with labels of its own: all of them have the id that is taken here.
LEMMA NodeStep ==
  ASSUME IInv, todo # <<>>, Head(todo).op \notin {"restore", "ins"},
         NEW T, Becomes(Append(T, Restore)), FreshCount, UNCHANGED <<function, code, deferred>>,
         cur_brk_id' \in Nat, cur_cnt_id' \in Nat,
         NEW W, NEW N, Stretch(T, [count |-> max_count, brk |-> cur_brk_id', cnt |-> cur_cnt_id'], W, N),
         Writes(Head(todo), Now) = {},
         \A l \in W : Fresh(l, max_count),
         \A l \in N : l \in W \/ l \in Needs(Head(todo), Now) \/ l = ReturnLabel,
         Keeps(T, N), ~Closing(Head(todo))
  PROVE  IInv'
<1> DEFINE R == <<Restore>>
           then == [count |-> max_count, brk |-> cur_brk_id', cnt |-> cur_cnt_id']
<1>1. todo' = (T \o R) \o Tail(todo)
  <2>1. IsList(T)
    BY DEF Stretch
  <2>2. T \o <<Restore>> = Append(T, Restore)
    BY <2>1 DEF IsList
  <2> QED BY <2>2 DEF Becomes
<1>2. IsEnd(R, Now) /\ R # <<>>
  BY DEF IsEnd, Restore, Saved, Now
<1>3. max_count \in Nat
  BY DEF IInv, TasksOK
<1>4. then \in Contexts
  BY <1>3 DEF Contexts
<1>5. Now' = then /\ max_count' \in Nat /\ max_count <= max_count' /\ max_count < max_count'
  BY <1>3 DEF Now, FreshCount
<1>6. function' = function /\ code' = code /\ DeferredOK(deferred')
  BY SameDeferred
<1> HIDE DEF R, then
<1>7. Stretch(T, then, W, N)
  BY DEF then
<1> QED BY <1>1, <1>2, <1>4, <1>5, <1>6, <1>7, Step

-----------------------------------------------------------------------------
\* The tasks behind the first, in their contexts.
Remain(u, ds, ts, cs) ==
  /\ Len(ts) \in Nat \ {0} /\ Len(u) = Len(ts) - 1
  /\ \A k \in 1 .. Len(u) : u[k] = ts[k + 1] /\ ds[k] = cs[k + 1]

\* The first of some tasks is done: what it wrote is printed.
LEMMA Dropped ==
  ASSUME NEW ts, IsList(ts), ts # <<>>,
         NEW cs, NEW now, InContext(ts, cs, now), NEW L, NEW m, WrittenOnce(ts, cs, L, m)
  PROVE  LET u == Tail(ts)
             M == L \cup Writes(ts[1], now)
         IN \E ds : /\ InContext(u, ds, IF ts[1].op = "restore" THEN Saved(ts[1]) ELSE now)
                    /\ Remain(u, ds, ts, cs)
                    /\ WrittenOnce(u, ds, M, m)
                    /\ \A l : Has(l, ts, cs, L) => Has(l, u, ds, M)
                    /\ \A J : Held(ts, cs, L, J) => Held(u, ds, M, J \cup Needs(ts[1], now))
<1> DEFINE u == Tail(ts)
           M == L \cup Writes(ts[1], now)
           n == Len(ts)
           ds == [k \in 1 .. n - 1 |-> cs[k + 1]]
<1>1. /\ IsList(u) /\ n \in Nat \ {0} /\ Len(u) = n - 1
      /\ \A k \in 1 .. n - 1 : u[k] = ts[k + 1]
  BY Shortened
<1> HIDE DEF u, n
<1>2. /\ cs \in [1 .. n -> Contexts] /\ cs[1] = now
      /\ \A k \in 2 .. n : cs[k] = IF ts[k - 1].op = "restore" THEN Saved(ts[k - 1]) ELSE cs[k - 1]
  BY DEF InContext, n
<1>3. ASSUME NEW k \in 1 .. Len(u)
      PROVE  k + 1 \in 2 .. n /\ k + 1 \in 1 .. n /\ u[k] = ts[k + 1] /\ ds[k] = cs[k + 1]
  BY <1>1
<1>4. ASSUME NEW k \in 2 .. n PROVE k - 1 \in 1 .. Len(u) /\ u[k - 1] = ts[k] /\ ds[k - 1] = cs[k]
  <2>1. k - 1 \in 1 .. n - 1 /\ (k - 1) + 1 = k
    BY <1>1
  <2> QED BY <1>1, <2>1
<1>5. InContext(u, ds, IF ts[1].op = "restore" THEN Saved(ts[1]) ELSE now)
  <2>1. ds \in [1 .. Len(u) -> Contexts]
    BY <1>1, <1>2
  <2>2. ASSUME u # <<>> PROVE ds[1] = IF ts[1].op = "restore" THEN Saved(ts[1]) ELSE now
    <3>1. 1 \in 1 .. Len(u) /\ 1 + 1 = 2 /\ 2 - 1 = 1
      BY <1>1, <2>2, ListLength
    <3>2. ds[1] = cs[2] /\ 2 \in 2 .. n
      BY <1>3, <3>1
    <3> HIDE DEF ds
    <3> QED BY <1>2, <3>1, <3>2
  <2>3. ASSUME NEW k \in 2 .. Len(u) PROVE ds[k] = IF u[k - 1].op = "restore" THEN Saved(u[k - 1]) ELSE ds[k - 1]
    <3>1. k \in 1 .. Len(u) /\ k - 1 \in 1 .. Len(u) /\ k + 1 \in 2 .. n /\ (k - 1) + 1 = k /\ (k + 1) - 1 = k
      BY <1>1
    <3>2. ds[k] = cs[k + 1] /\ u[k - 1] = ts[k] /\ ds[k - 1] = cs[k]
      <4>1. u[k - 1] = ts[(k - 1) + 1] /\ ds[k - 1] = cs[(k - 1) + 1]
        <5> HIDE DEF ds
        <5> QED BY <1>3, <3>1
      <4> QED BY <1>3, <3>1, <4>1
    <3> HIDE DEF ds
    <3> QED BY <1>2, <3>1, <3>2
  <2> HIDE DEF ds
  <2> QED BY <2>1, <2>2, <2>3 DEF InContext
<1> HIDE DEF ds
<1>6. 1 \in 1 .. n
  BY <1>1
<1>7. ASSUME NEW k \in 2 .. n, NEW l \in Writes(ts[k], cs[k]) PROVE l \notin M /\ Known(l, m)
  <2>1. k \in 1 .. n /\ k # 1
    BY <1>1
  <2> QED BY <1>2, <1>6, <2>1 DEF WrittenOnce, n
<1>8. \A l \in M : Known(l, m)
  BY <1>2, <1>6 DEF WrittenOnce, n
<1>9. WrittenOnce(u, ds, M, m)
  <2>1. ASSUME NEW k \in 1 .. Len(u), NEW l \in Writes(u[k], ds[k]) PROVE l \notin M /\ Known(l, m)
    <3> DEFINE p == k + 1
    <3>1. p \in 2 .. n /\ l \in Writes(ts[p], cs[p])
      BY <1>3
    <3> HIDE DEF p
    <3> QED BY <1>7, <3>1
  <2>2. ASSUME NEW k \in 1 .. Len(u), NEW l \in Writes(u[k], ds[k]),
               NEW j \in 1 .. Len(u), l \in Writes(u[j], ds[j])
        PROVE  j = k
    <3> DEFINE p == k + 1
               q == j + 1
    <3>1. p \in 1 .. n /\ l \in Writes(ts[p], cs[p]) /\ q \in 1 .. n /\ l \in Writes(ts[q], cs[q])
      BY <1>3, <2>2
    <3> HIDE DEF p, q
    <3>2. q = p
      BY <3>1 DEF WrittenOnce, n
    <3> QED BY <1>1, <3>2 DEF p, q
  <2> QED BY <1>8, <2>1, <2>2 DEF WrittenOnce
<1>10. ASSUME NEW l, Has(l, ts, cs, L) PROVE Has(l, u, ds, M)
  <2>1. CASE l \in L
    BY <2>1 DEF Has
  <2>2. CASE l \notin L
    <3>1. PICK k \in 1 .. n : l \in Writes(ts[k], cs[k])
      BY <1>10, <2>2 DEF Has, n
    <3>2. CASE k = 1
      BY <1>2, <3>1, <3>2 DEF Has
    <3>3. CASE k # 1
      <4>1. k \in 2 .. n
        BY <1>1, <3>3
      <4> DEFINE j == k - 1
      <4>2. j \in 1 .. Len(u) /\ l \in Writes(u[j], ds[j])
        BY <1>4, <3>1, <4>1
      <4> HIDE DEF j
      <4> QED BY <4>2 DEF Has
    <3> QED BY <3>2, <3>3
  <2> QED BY <2>1, <2>2
<1>11. ASSUME NEW J, Held(ts, cs, L, J) PROVE Held(u, ds, M, J \cup Needs(ts[1], now))
  <2>1. ASSUME NEW k \in 1 .. n, NEW l \in Needs(ts[k], cs[k]) PROVE Has(l, u, ds, M)
    BY <1>10, <1>11 DEF Held, n
  <2>2. ASSUME NEW k \in 1 .. Len(u), NEW l \in Needs(u[k], ds[k]) PROVE Has(l, u, ds, M)
    <3> DEFINE p == k + 1
    <3>1. p \in 1 .. n /\ l \in Needs(ts[p], cs[p])
      BY <1>3
    <3> HIDE DEF p
    <3> QED BY <2>1, <3>1
  <2>3. \A l \in J : Has(l, u, ds, M)
    BY <1>10, <1>11 DEF Held
  <2>4. \A l \in Needs(ts[1], now) : Has(l, u, ds, M)
    BY <1>2, <1>6, <2>1
  <2> HIDE DEF M
  <2> QED BY <2>2, <2>3, <2>4 DEF Held
<1>12. Remain(u, ds, ts, cs)
  BY <1>1, <1>3 DEF Remain, n
<1> QED BY <1>5, <1>9, <1>10, <1>11, <1>12 DEF u

\* Those behind it stay at their levels.
LEMMA SitsNext ==
  ASSUME NEW ts, NEW cs, NEW H, NEW p, Sit(ts, cs, H, p), NEW u, NEW ds, Remain(u, ds, ts, cs)
  PROVE  Past(ts[1], p) \in Levels /\ Sit(u, ds, H, Past(ts[1], p))
<1> DEFINE n == Len(ts)
<1>1. PICK g \in [1 .. n + 1 -> Levels] :
        g[1] = p /\ \A k \in 1 .. n : Sits(ts[k], cs[k], H, g[k]) /\ g[k + 1] = Past(ts[k], g[k])
  BY DEF Sit
<1>2. n \in Nat \ {0} /\ Len(u) = n - 1 /\ \A k \in 1 .. n - 1 : u[k] = ts[k + 1] /\ ds[k] = cs[k + 1]
  BY DEF Remain
<1> HIDE DEF n
<1> DEFINE f == [k \in 1 .. n |-> g[k + 1]]
<1>3. \A k \in 1 .. n : k + 1 \in 1 .. n + 1
  BY <1>2
<1>4. f \in [1 .. n -> Levels]
  <2> HIDE DEF Levels
  <2> QED BY <1>1, <1>3
<1>5. \A k \in 1 .. n : f[k] = g[k + 1]
  OBVIOUS
<1> HIDE DEF f
<1>6. 1 \in 1 .. n /\ 1 + 1 = 2
  BY <1>2
<1>7. f[1] = Past(ts[1], p)
  BY <1>1, <1>5, <1>6
<1>8. ASSUME NEW k \in 1 .. n - 1 PROVE Sits(u[k], ds[k], H, f[k]) /\ f[k + 1] = Past(u[k], f[k])
  <2> DEFINE j == k + 1
  <2>1. j \in 1 .. n /\ k \in 1 .. n /\ u[k] = ts[j] /\ ds[k] = cs[j]
    BY <1>2
  <2>2. f[k] = g[j] /\ f[j] = g[j + 1]
    BY <1>5, <2>1
  <2>3. Sits(ts[j], cs[j], H, g[j]) /\ g[j + 1] = Past(ts[j], g[j])
    BY <1>1, <2>1
  <2> QED BY <2>1, <2>2, <2>3
<1>9. (n - 1) + 1 = n
  BY <1>2
<1>10. f \in [1 .. Len(u) + 1 -> Levels] /\ Len(u) = n - 1
  BY <1>2, <1>4, <1>9
<1>11. Past(ts[1], p) \in Levels
  BY <1>4, <1>6, <1>7
<1> QED BY <1>7, <1>8, <1>10, <1>11 DEF Sit

LEMMA DropStep ==
  ASSUME IInv, todo # <<>>, todo' = Tail(todo),
         Now' = (IF Head(todo).op = "restore" THEN Saved(Head(todo)) ELSE Now),
         Printed' = Printed \cup Writes(Head(todo), Now),
         Targets' = Targets \cup Needs(Head(todo), Now),
         UNCHANGED <<function, max_count, deferred>>, IsList(code'), PrintedOnce',
         Closing(Head(todo)) => Len(code') # 0 /\ code'[Len(code')].ins.op = "ret",
         \A H, hs : LET p == <<hs[Len(code) + 1], depth>>
                        q == Past(Head(todo), p)
                    IN Stand(hs, H) /\ p \in Levels /\ q \in Levels /\ Sits(Head(todo), Now, H, p)
                         => \E gs : Stand(gs, H)' /\ <<gs[Len(code') + 1], depth'>> = q
  PROVE  IInv'
<1>1. TasksOK /\ EndsWell
  BY DEF IInv
<1>2. PICK cs : /\ InContext(todo, cs, Now)
                /\ WrittenOnce(todo, cs, Printed, max_count)
                /\ Has(ReturnLabel, todo, cs, Printed)
                /\ Tame => Held(todo, cs, Printed, Targets)
                /\ Level => \E H, hs :
                              H \in [Nat -> Nat] /\ Stand(hs, H) /\ Sit(todo, cs, H, <<hs[Len(code) + 1], depth>>)
  BY DEF IInv
<1>3. /\ IsList(todo) /\ Head(todo) = todo[1]
      /\ \A k \in 1 .. Len(todo) : IsTask(todo[k])
  BY <1>1, HeadIs DEF TasksOK
<1> DEFINE now == Now
           L == Printed
           m == max_count
           ts == todo
           us == Tail(todo)
           then == IF ts[1].op = "restore" THEN Saved(ts[1]) ELSE now
           M == L \cup Writes(ts[1], now)
<1>4. \E ds : /\ InContext(us, ds, then)
              /\ Remain(us, ds, ts, cs)
              /\ WrittenOnce(us, ds, M, m)
              /\ \A l : Has(l, ts, cs, L) => Has(l, us, ds, M)
              /\ \A J : Held(ts, cs, L, J) => Held(us, ds, M, J \cup Needs(ts[1], now))
  BY <1>2, <1>3, Dropped
<1>5. PICK ds : /\ InContext(us, ds, then)
                /\ Remain(us, ds, ts, cs)
                /\ WrittenOnce(us, ds, M, m)
                /\ \A l : Has(l, ts, cs, L) => Has(l, us, ds, M)
                /\ \A J : Held(ts, cs, L, J) => Held(us, ds, M, J \cup Needs(ts[1], now))
  BY <1>4
<1>6. then = Now' /\ M = Printed' /\ us = todo' /\ m = max_count' /\ Targets' = Targets \cup Needs(ts[1], now)
        /\ Tame' = Tame /\ Level' = Level
  BY <1>3 DEF Tame, Level
<1> HIDE DEF now, L, m, us, then, M
<1>7. /\ InContext(todo', ds, Now')
      /\ WrittenOnce(todo', ds, Printed', max_count')
      /\ Has(ReturnLabel, todo', ds, Printed')
      /\ Tame' => Held(todo', ds, Printed', Targets')
  BY <1>2, <1>5, <1>6 DEF L, m
<1>8. TasksOK'
  <2>1. IsList(todo') /\ \A k \in 1 .. Len(todo') : IsTask(todo'[k])
    <3>1. /\ IsList(todo') /\ Len(todo) \in Nat \ {0} /\ Len(todo') = Len(todo) - 1
          /\ \A n \in 1 .. Len(todo) - 1 : todo'[n] = todo[n + 1]
      BY <1>3, Shortened
    <3>2. \A n \in 1 .. Len(todo) - 1 : n + 1 \in 1 .. Len(todo)
      BY <3>1
    <3> QED BY <1>3, <3>1, <3>2
  <2>2. \A x : DeferredIs(x)' <=> DeferredIs(x)
    BY <1>6 DEF DeferredIs
  <2> QED BY <1>1, <1>6, <2>1, <2>2 DEF TasksOK
<1>9. EndsWell'
  <2>1. /\ IsList(todo') /\ Len(todo) \in Nat \ {0} /\ Len(todo') = Len(todo) - 1
        /\ \A n \in 1 .. Len(todo) - 1 : todo'[n] = todo[n + 1]
    BY <1>3, Shortened
  <2>2. Closing(todo[Len(todo)])
    BY <1>1 DEF EndsWell
  <2>3. CASE Len(todo) = 1
    <3>1. todo' = <<>>
      <4>1. IsList(todo') /\ Len(todo') = 0
        BY <2>1, <2>3
      <4> QED BY <4>1, ListLength
    <3>2. Len(code') # 0 /\ code'[Len(code')].ins.op = "ret"
      BY <1>3, <2>2, <2>3
    <3> QED BY <3>1, <3>2 DEF EndsWell
  <2>4. CASE Len(todo) # 1
    <3>1. Len(todo) - 1 \in 1 .. Len(todo) - 1 /\ (Len(todo) - 1) + 1 = Len(todo) /\ Len(todo') # 0
      BY <2>1, <2>4
    <3>2. todo'[Len(todo) - 1] = todo[(Len(todo) - 1) + 1]
      BY <2>1, <3>1
    <3>3. todo'[Len(todo')] = todo[Len(todo)]
      BY <2>1, <3>1, <3>2
    <3>4. todo' # <<>>
      BY <3>1, EmptyIsList
    <3> QED BY <2>2, <3>3, <3>4 DEF EndsWell
  <2> QED BY <2>3, <2>4
<1>10. ASSUME Level
       PROVE  \E H, hs : H \in [Nat -> Nat] /\ Stand(hs, H)' /\ Sit(todo', ds, H, <<hs[Len(code') + 1], depth'>>)
  <2>1. PICK H, hs : H \in [Nat -> Nat] /\ Stand(hs, H) /\ Sit(todo, cs, H, <<hs[Len(code) + 1], depth>>)
    BY <1>2, <1>10
  <2> DEFINE p == <<hs[Len(code) + 1], depth>>
             q == Past(Head(todo), p)
  <2>2. Len(todo) \in Nat /\ Len(todo) # 0 /\ cs[1] = Now
    BY <1>1, <1>2, HeadIs DEF InContext
  <2>3. Sit(todo, cs, H, p)
    BY <2>1
  <2>4. p \in Levels /\ Sits(Head(todo), Now, H, p)
    <3> HIDE DEF p
    <3> QED BY <1>3, <2>2, <2>3, SitsFirst
  <2>5. Remain(todo', ds, todo, cs)
    BY <1>5, <1>6
  <2>6. q \in Levels /\ Sit(todo', ds, H, q)
    <3> HIDE DEF p
    <3> QED BY <1>3, <2>3, <2>5, SitsNext
  <2>7. PICK gs : Stand(gs, H)' /\ <<gs[Len(code') + 1], depth'>> = q
    BY <2>1, <2>4, <2>6
  <2> QED BY <2>1, <2>6, <2>7
<1> QED BY <1>6, <1>7, <1>8, <1>9, <1>10 DEF IInv

\* The end of a node with labels.
LEMMA NodeDoneStep == IInv /\ NodeDone => IInv'
<1> SUFFICES ASSUME IInv, NodeDone PROVE IInv'
  OBVIOUS
<1>1. Writes(Head(todo), Now) = {} /\ Needs(Head(todo), Now) = {}
  BY DEF NodeDone, Writes, Needs
<1>2. Printed' = Printed /\ Targets' = Targets
  BY DEF NodeDone, Printed, Targets
<1>3. IsList(code') /\ PrintedOnce'
  BY DEF NodeDone, IInv, TasksOK, PrintedOnce, Prints
<1>4. Now' = Saved(Head(todo))
  BY DEF NodeDone, Now, Saved
<1>5. ~Closing(Head(todo))
  BY DEF NodeDone, Closing
<1>6. ASSUME NEW H, NEW hs, Stand(hs, H)
      PROVE  Stand(hs, H)' /\ <<hs[Len(code') + 1], depth'>> = Past(Head(todo), <<hs[Len(code) + 1], depth>>)
  BY <1>6 DEF NodeDone, Stand, Past
<1> QED BY <1>1, <1>2, <1>3, <1>4, <1>5, <1>6, DropStep DEF NodeDone

\* An instruction is printed: its label is a new one.
LEMMA EmitStep == IInv /\ Emit => IInv'
<1> SUFFICES ASSUME IInv, Emit PROVE IInv'
  OBVIOUS
<1> DEFINE t == Head(todo)
           p == [ins |-> t.ins, depth |-> depth]
           n == Len(code)
<1>1. /\ todo # <<>> /\ t.op = "ins" /\ code' = Append(code, p) /\ todo' = Tail(todo)
      /\ UNCHANGED <<function, counters, deferred>>
  BY DEF Emit
<1>2. /\ IsList(code') /\ n \in Nat /\ Len(code') = n + 1
      /\ \A k \in 1 .. n : code'[k] = code[k]
      /\ code'[n + 1] = p
  BY <1>1, Grown DEF IInv, TasksOK
<1>3. \A k \in 1 .. n + 1 : k \in 1 .. n \/ k = n + 1
  BY <1>2
<1> HIDE DEF n
<1>4. Writes(t, Now) = (IF t.ins.op = "label" THEN {t.ins.label} ELSE {})
        /\ Needs(t, Now) = (IF IsJump(t.ins) THEN {t.ins.to} ELSE {})
  BY <1>1 DEF Writes, Needs
<1>5. Printed' = Printed \cup Writes(t, Now)
  <2>1. Printed' = {code'[i].ins.label : i \in {k \in 1 .. n + 1 : code'[k].ins.op = "label"}}
    BY <1>2 DEF Printed
  <2>2. Printed = {code[i].ins.label : i \in {k \in 1 .. n : code[k].ins.op = "label"}}
    BY DEF Printed, n
  <2>3. ASSUME NEW l \in Printed' PROVE l \in Printed \cup Writes(t, Now)
    <3>1. PICK k \in 1 .. n + 1 : code'[k].ins.op = "label" /\ l = code'[k].ins.label
      BY <2>1
    <3> QED BY <1>2, <1>3, <1>4, <2>2, <3>1
  <2>4. ASSUME NEW l \in Printed PROVE l \in Printed'
    <3>1. PICK k \in 1 .. n : code[k].ins.op = "label" /\ l = code[k].ins.label
      BY <2>2
    <3>2. k \in 1 .. n + 1 /\ code'[k] = code[k]
      BY <1>2
    <3> QED BY <2>1, <3>1, <3>2
  <2>5. ASSUME NEW l \in Writes(t, Now) PROVE l \in Printed'
    <3>1. t.ins.op = "label" /\ l = t.ins.label
      BY <1>4
    <3>2. n + 1 \in 1 .. n + 1 /\ code'[n + 1].ins = t.ins
      BY <1>2
    <3> QED BY <2>1, <3>1, <3>2
  <2> QED BY <2>3, <2>4, <2>5
<1>6. Targets' = Targets \cup Needs(t, Now)
  <2>1. Targets' = {code'[i].ins.to : i \in {k \in 1 .. n + 1 : IsJump(code'[k].ins)}}
    BY <1>2 DEF Targets
  <2>2. Targets = {code[i].ins.to : i \in {k \in 1 .. n : IsJump(code[k].ins)}}
    BY DEF Targets, n
  <2>3. ASSUME NEW l \in Targets' PROVE l \in Targets \cup Needs(t, Now)
    <3>1. PICK k \in 1 .. n + 1 : IsJump(code'[k].ins) /\ l = code'[k].ins.to
      BY <2>1
    <3> QED BY <1>2, <1>3, <1>4, <2>2, <3>1
  <2>4. ASSUME NEW l \in Targets PROVE l \in Targets'
    <3>1. PICK k \in 1 .. n : IsJump(code[k].ins) /\ l = code[k].ins.to
      BY <2>2
    <3>2. k \in 1 .. n + 1 /\ code'[k] = code[k]
      BY <1>2
    <3> QED BY <2>1, <3>1, <3>2
  <2>5. ASSUME NEW l \in Needs(t, Now) PROVE l \in Targets'
    <3>1. IsJump(t.ins) /\ l = t.ins.to
      BY <1>4
    <3>2. n + 1 \in 1 .. n + 1 /\ code'[n + 1].ins = t.ins
      BY <1>2
    <3> QED BY <2>1, <3>1, <3>2
  <2> QED BY <2>3, <2>4, <2>5
<1>7. PrintedOnce'
  <2>1. \A l \in Writes(t, Now) : l \notin Printed
    <3>1. PICK cs : InContext(todo, cs, Now) /\ WrittenOnce(todo, cs, Printed, max_count)
      BY DEF IInv
    <3>2. 1 \in 1 .. Len(todo) /\ t = todo[1]
      BY <1>1, HeadIs DEF IInv
    <3>3. cs[1] = Now
      BY <1>1, <3>1 DEF InContext
    <3> QED BY <3>1, <3>2, <3>3 DEF WrittenOnce
  <2>2. ASSUME NEW i \in 1 .. n + 1, NEW j \in 1 .. n + 1, code'[i].ins.op = "label",
               code'[j].ins.op = "label", code'[j].ins.label = code'[i].ins.label
        PROVE  i = j
    <3>1. CASE i \in 1 .. n /\ j \in 1 .. n
      <4>1. code[i].ins.op = "label" /\ code[j].ins.op = "label" /\ code[j].ins.label = code[i].ins.label
        BY <1>2, <2>2, <3>1
      <4> QED BY <3>1, <4>1 DEF IInv, PrintedOnce, Prints, n
    <3>2. CASE i \in 1 .. n /\ j = n + 1
      <4>1. code[i].ins.op = "label" /\ code[i].ins.label = t.ins.label /\ t.ins.op = "label"
        BY <1>2, <2>2, <3>2
      <4>2. t.ins.label \in Printed
        BY <3>2, <4>1 DEF Printed, n
      <4> QED BY <1>4, <2>1, <4>1, <4>2
    <3>3. CASE j \in 1 .. n /\ i = n + 1
      <4>1. code[j].ins.op = "label" /\ code[j].ins.label = t.ins.label /\ t.ins.op = "label"
        BY <1>2, <2>2, <3>3
      <4>2. t.ins.label \in Printed
        BY <3>3, <4>1 DEF Printed, n
      <4> QED BY <1>4, <2>1, <4>1, <4>2
    <3> QED BY <1>3, <3>1, <3>2, <3>3
  <2>3. Len(code') = n + 1
    BY <1>2
  <2> QED BY <2>2, <2>3 DEF PrintedOnce, Prints
<1>8. Now' = Now /\ UNCHANGED <<function, max_count, deferred>>
  BY <1>1 DEF Now, counters
<1>9. t.op # "restore"
  BY <1>1
<1>10. Closing(t) => Len(code') # 0 /\ code'[Len(code')].ins.op = "ret"
  BY <1>1, <1>2 DEF Closing
<1>11. ASSUME NEW H, NEW hs, NEW a, a = <<hs[Len(code) + 1], depth>>, NEW b, b = Past(t, a),
              Stand(hs, H), a \in Levels, b \in Levels, Sits(t, Now, H, a)
       PROVE  \E gs : Stand(gs, H)' /\ <<gs[Len(code') + 1], depth'>> = b
  <2>1. hs \in [1 .. n + 1 -> Nat] /\ hs[1] = 0
          /\ \A i \in 1 .. n : Stands(code[i], H, hs[i]) /\ hs[i + 1] = hs[i] + Effect(code[i].ins)
    BY <1>11 DEF Stand, n
  <2>2. b = <<hs[n + 1] + Effect(t.ins), depth + t.adds>> /\ a[1] = hs[n + 1] /\ a[2] = depth
    BY <1>1, <1>11 DEF Past, n
  <2>3. hs[n + 1] + Effect(t.ins) \in Nat /\ depth \in Int
    BY <1>11, <2>2 DEF Levels
  <2> DEFINE e == hs[n + 1] + Effect(t.ins)
  <2>4. PICK gs \in [1 .. n + 2 -> Nat] : (\A i \in 1 .. n + 1 : gs[i] = hs[i]) /\ gs[n + 2] = e
    <3> DEFINE f == [i \in 1 .. n + 2 |-> IF i <= n + 1 THEN hs[i] ELSE e]
    <3>1. e \in Nat
      BY <2>3
    <3> HIDE DEF e
    <3>2. f \in [1 .. n + 2 -> Nat]
      BY <1>2, <2>1, <3>1
    <3>3. (\A i \in 1 .. n + 1 : f[i] = hs[i]) /\ f[n + 2] = e
      BY <1>2
    <3> HIDE DEF f
    <3> QED BY <3>2, <3>3
  <2>5. (\A i \in 1 .. n + 1 : gs[i] = hs[i]) /\ gs[n + 2] = e
    BY <2>4
  <2>6. Stands(p, H, hs[n + 1])
    <3> DEFINE h == hs[n + 1]
    <3>1. Bears(t, a) /\ a[1] = h /\ a[2] = depth
      BY <1>11, <2>2 DEF Sits
    <3> HIDE DEF h
    <3>2. Counts(t.ins) /\ (t.ins.op = "call" => Even(h)) /\ (t.ins.op = "label" => Even(h - depth))
      BY <1>1, <3>1 DEF Bears, Tells
    <3>3. (t.ins.op = "label" => HeightAt(t.ins.label, H) = h)
          /\ (IsJump(t.ins) => HeightAt(t.ins.to, H) <= h /\ Even(h - HeightAt(t.ins.to, H)))
      BY <1>4, <1>11, <3>1 DEF Sits
    <3>4. p.ins = t.ins /\ p.depth = depth
      OBVIOUS
    <3> HIDE DEF p
    <3> QED BY <2>3, <3>2, <3>3, <3>4 DEF Stands, h
  <2> DEFINE d == code'
  <2>7. IsList(d) /\ Len(d) = n + 1 /\ (\A k \in 1 .. n : d[k] = code[k]) /\ d[n + 1] = p
    BY <1>2
  <2> HIDE DEF d, p, e
  <2>8. ASSUME NEW i \in 1 .. n + 1 PROVE Stands(d[i], H, gs[i]) /\ gs[i + 1] = gs[i] + Effect(d[i].ins)
    <3>1. CASE i \in 1 .. n
      <4>1. i \in 1 .. n + 1 /\ i + 1 \in 1 .. n + 1
        BY <1>2, <3>1
      <4> QED BY <2>1, <2>5, <2>7, <3>1, <4>1
    <3>2. CASE i = n + 1
      <4>1. n + 1 \in 1 .. n + 1 /\ i + 1 = n + 2
        BY <1>2, <3>2
      <4>2. gs[i] = hs[n + 1] /\ gs[i + 1] = e /\ d[i] = p /\ p.ins = t.ins
        BY <2>5, <2>7, <3>2, <4>1 DEF p
      <4> QED BY <2>6, <4>2 DEF e
    <3> QED BY <1>3, <3>1, <3>2
  <2>9. gs[1] = 0 /\ (n + 1) + 1 = n + 2
    <3>1. 1 \in 1 .. n + 1
      BY <1>2
    <3> QED BY <1>2, <2>1, <2>5, <3>1
  <2>10. gs \in [1 .. Len(d) + 1 -> Nat]
    BY <2>4, <2>7, <2>9
  <2>11. Stand(gs, H)'
    BY <2>7, <2>8, <2>9, <2>10 DEF Stand, Stands, d
  <2>12. depth' = depth + t.adds /\ gs[Len(d) + 1] = e
    BY <2>5, <2>7, <2>9 DEF Emit
  <2> QED BY <2>2, <2>11, <2>12 DEF d, e
<1>12. \A H, hs : LET a == <<hs[Len(code) + 1], depth>>
                      b == Past(t, a)
                  IN Stand(hs, H) /\ a \in Levels /\ b \in Levels /\ Sits(t, Now, H, a)
                       => \E gs : Stand(gs, H)' /\ <<gs[Len(code') + 1], depth'>> = b
  <2> HIDE DEF t
  <2> QED BY <1>11
<1> QED BY <1>1, <1>2, <1>5, <1>6, <1>7, <1>8, <1>9, <1>10, <1>12, DropStep

-----------------------------------------------------------------------------
\* Instructions but labels and jumps are plain, and so are expressions.
LEMMA PlainIns ==
  ASSUME NEW i, i.op \notin {"label", "jmp", "je", "jne", "jge"}, NEW n
  PROVE  IsPlain(Counting(i, n)) /\ IsPlain(Ins(i))
BY DEF IsPlain, IsJump, Counting, Ins

LEMMA PlainMoves ==
  /\ \A t : IsPlain(Set(t))
  /\ \A from, to : IsPlain(Mov(from, to))
  /\ \A f, swapped : IsPlain(Operate(f, swapped))
  /\ \A n : IsPlain(Shift(n))
  /\ IsPlain(Load) /\ IsPlain(CmpZero)
<1>1. \A t : IsPlain(Set(t))
  BY PlainIns DEF Set
<1>2. \A from, to : IsPlain(Mov(from, to))
  BY PlainIns DEF Mov
<1>3. \A f, swapped : IsPlain(Operate(f, swapped))
  BY PlainIns DEF Operate
<1>4. \A n : IsPlain(Shift(n))
  BY PlainIns DEF Shift
<1>5. IsPlain(Load) /\ IsPlain(CmpZero)
  BY PlainIns DEF Load, CmpZero
<1> QED BY <1>1, <1>2, <1>3, <1>4, <1>5

LEMMA PlainStack ==
  /\ \A r : IsPlain(Pop(r)) /\ IsPlain(RawPop(r)) /\ IsPlain(RawPush(r))
  /\ IsPlain(Push) /\ IsPlain(PushF) /\ IsPlain(Pad)
  /\ \A t : IsPlain(PushValue(t))
  /\ \A n : IsPlain(Release(n))
<1>1. \A r : IsPlain(Pop(r)) /\ IsPlain(RawPop(r)) /\ IsPlain(RawPush(r))
  BY PlainIns DEF Pop, RawPop, RawPush
<1>2. IsPlain(Push) /\ IsPlain(PushF) /\ IsPlain(Pad)
  BY PlainIns DEF Push, PushF, Pad
<1>3. \A r, n : IsPlain(PushCopy(r, n))
  BY PlainIns DEF PushCopy
<1>4. \A t : IsPlain(PushValue(t))
  BY <1>2, <1>3 DEF PushValue
<1>5. \A n : IsPlain(Release(n))
  BY PlainIns DEF Release
<1> QED BY <1>1, <1>2, <1>4, <1>5

LEMMA PlainExprs == \A e \in Exprs : IsPlain(Expr(e)) /\ IsPlain(Address(e))
BY DEF IsPlain, Expr, Address

\* Short lists of them.
LEMMA PlainNone == Plain(<<>>)
<1>1. IsList(<<>>) /\ Len(<<>>) = 0
  BY EmptyIsList
<1> QED BY <1>1 DEF Plain

LEMMA Plain1 == ASSUME NEW a, IsPlain(a) PROVE Plain(<<a>>)
<1>1. <<a>> \in Seq({a}) /\ \A t \in {a} : IsPlain(t)
  OBVIOUS
<1> QED BY ONLY <1>1, PlainOver

LEMMA Plain2 == ASSUME NEW a, IsPlain(a), NEW b, IsPlain(b) PROVE Plain(<<a, b>>)
<1>1. <<a, b>> \in Seq({a, b}) /\ \A t \in {a, b} : IsPlain(t)
  OBVIOUS
<1> QED BY ONLY <1>1, PlainOver

LEMMA Plain3 ==
  ASSUME NEW a, IsPlain(a), NEW b, IsPlain(b), NEW c, IsPlain(c)
  PROVE  Plain(<<a, b, c>>)
<1>1. <<a, b, c>> \in Seq({a, b, c}) /\ \A t \in {a, b, c} : IsPlain(t)
  OBVIOUS
<1> QED BY ONLY <1>1, PlainOver

\* One for each of a list.
LEMMA PlainMap ==
  ASSUME NEW n \in Nat, NEW f, DOMAIN f = 1 .. n, f = [k \in DOMAIN f |-> f[k]],
         \A k \in 1 .. n : IsPlain(f[k])
  PROVE  Plain(f)
<1> DEFINE P == {f[k] : k \in 1 .. n}
<1>1. f \in Seq(P)
  OBVIOUS
<1>2. \A t \in P : IsPlain(t)
  OBVIOUS
<1> HIDE DEF P
<1> QED BY ONLY <1>1, <1>2, PlainOver

-----------------------------------------------------------------------------
\* The expressions a function may hold: when its code leaves the stack as it
\* finds it, those that do.
Own == IF Level THEN LevelExprs ELSE Exprs

\* Plain tasks that lead from i to j slots above any aligned place, if this is so.
IsCalm(t, i, j) ==
  /\ IsPlain(t)
  /\ Level => \A b \in Nat, p \in Levels : Even(p[1] - p[2]) => Takes(t, b, Up(p, i), Up(p, j))
Calm(T, i, j) ==
  /\ Plain(T)
  /\ Level => \A b \in Nat, p \in Levels : Even(p[1] - p[2]) => Leads(T, b, Up(p, i), Up(p, j))

LEMMA UpIs ==
  ASSUME NEW p \in Levels, NEW n \in Nat
  PROVE  Up(p, n) \in Levels /\ Up(p, n)[1] = p[1] + n /\ Up(p, n)[2] = p[2] + n
           /\ Up(p, n)[1] - Up(p, n)[2] = p[1] - p[2]
BY DEF Up, Levels

LEMMA UpBy ==
  ASSUME NEW p \in Levels, NEW m \in Nat, NEW n \in Nat, NEW d \in Int, n = m + d
  PROVE  Up(p, n) = <<Up(p, m)[1] + d, Up(p, m)[2] + d>>
BY DEF Up, Levels

\* Instructions that are no labels, jumps or calls, and count what they do.
LEMMA CalmCounting ==
  ASSUME NEW i, i.op \notin {"label", "jmp", "je", "jne", "jge", "call"}, Counts(i),
         NEW d \in Int, Effect(i) = d, NEW m \in Nat, NEW n \in Nat, n = m + d
  PROVE  IsCalm(Counting(i, d), m, n)
<1> DEFINE t == Counting(i, d)
<1>1. IsPlain(t)
  BY DEF IsPlain, IsJump, Counting
<1>2. t.op = "ins" /\ t.ins = i /\ t.adds = d
  BY DEF Counting
<1> HIDE DEF t
<1>3. ASSUME NEW b \in Nat, NEW p \in Levels PROVE Takes(t, b, Up(p, m), Up(p, n))
  <2>1. Up(p, m) \in Levels /\ Up(p, n) \in Levels
    BY UpIs
  <2>2. Up(p, n) = Past(t, Up(p, m))
    BY <1>2, UpBy DEF Past
  <2>3. Bears(t, Up(p, m))
    BY <1>2 DEF Bears, Tells
  <2>4. ~Marks(t) /\ ~Leaves(t)
    BY <1>2 DEF Marks, Leaves, IsJump
  <2> QED BY <1>2, <2>1, <2>2, <2>3, <2>4 DEF Takes
<1> QED BY <1>1, <1>3 DEF IsCalm, t

LEMMA CalmIns ==
  ASSUME NEW i, i.op \notin {"label", "jmp", "je", "jne", "jge", "call", "push", "pushcopy", "pop", "release"},
         NEW n \in Nat
  PROVE  IsCalm(Ins(i), n, n)
<1>1. Counts(i) /\ Effect(i) = 0 /\ n = n + 0 /\ 0 \in Int
  BY DEF Counts, Effect
<1>2. IsCalm(Counting(i, 0), n, n)
  BY <1>1, CalmCounting
<1> QED BY <1>2 DEF Counting, Ins

LEMMA CalmMoves ==
  ASSUME NEW n \in Nat
  PROVE  /\ \A t : IsCalm(Set(t), n, n)
         /\ \A from, to : IsCalm(Mov(from, to), n, n)
         /\ \A f, swapped : IsCalm(Operate(f, swapped), n, n)
         /\ \A k : IsCalm(Shift(k), n, n)
         /\ IsCalm(Load, n, n) /\ IsCalm(CmpZero, n, n)
<1>1. \A t : IsCalm(Set(t), n, n)
  BY CalmIns DEF Set
<1>2. \A from, to : IsCalm(Mov(from, to), n, n)
  BY CalmIns DEF Mov
<1>3. \A f, swapped : IsCalm(Operate(f, swapped), n, n)
  BY CalmIns DEF Operate
<1>4. \A k : IsCalm(Shift(k), n, n)
  BY CalmIns DEF Shift
<1>5. IsCalm(Load, n, n) /\ IsCalm(CmpZero, n, n)
  BY CalmIns DEF Load, CmpZero
<1> QED BY <1>1, <1>2, <1>3, <1>4, <1>5

LEMMA CalmPushes ==
  ASSUME NEW n \in Nat
  PROVE  IsCalm(Push, n, n + 1) /\ IsCalm(PushF, n, n + 1) /\ IsCalm(Pad, n, n + 1)
<1>1. ASSUME NEW r PROVE IsCalm(Counting([op |-> "push", from |-> r, slots |-> 1], 1), n, n + 1)
  <2> DEFINE i == [op |-> "push", from |-> r, slots |-> 1]
  <2>1. i.op = "push" /\ i.slots = 1
    OBVIOUS
  <2> HIDE DEF i
  <2>2. Counts(i) /\ Effect(i) = 1 /\ n + 1 \in Nat
    BY <2>1 DEF Counts, Effect
  <2>3. IsCalm(Counting(i, 1), n, n + 1)
    BY <2>1, <2>2, CalmCounting
  <2> QED BY <2>3 DEF i
<1> QED BY <1>1 DEF Push, PushF, Pad

LEMMA CalmPop ==
  ASSUME NEW n \in Nat, NEW r
  PROVE  IsCalm(Pop(r), n + 1, n)
<1> DEFINE i == [op |-> "pop", to |-> r]
<1>1. i.op = "pop"
  OBVIOUS
<1> HIDE DEF i
<1>2. Counts(i) /\ Effect(i) = -1 /\ n + 1 \in Nat /\ n = (n + 1) + (-1) /\ -1 \in Int
  BY <1>1 DEF Counts, Effect
<1>3. IsCalm(Counting(i, -1), n + 1, n)
  BY ONLY <1>1, <1>2, CalmCounting, n \in Nat
<1> QED BY <1>3 DEF Pop, i

\* What is counted of a value that is pushed is a number of slots.
LEMMA CalmPushValue ==
  ASSUME NEW n \in Nat, NEW t, Level => Width(t) \in Nat
  PROVE  IsCalm(PushValue(t), n, n + Width(t))
<1>1. IsPlain(PushValue(t))
  BY PlainStack
<1>2. ASSUME Level PROVE IsCalm(PushValue(t), n, n + Width(t))
  <2>1. Width(t) \in Nat
    BY <1>2
  <2>2. ASSUME NEW r, NEW k \in Nat PROVE IsCalm(PushCopy(r, k), n, n + k)
    <3> DEFINE i == [op |-> "pushcopy", from |-> r, slots |-> k]
    <3>1. i.op = "pushcopy" /\ i.slots = k
      OBVIOUS
    <3> HIDE DEF i
    <3>2. Counts(i) /\ Effect(i) = k /\ n + k \in Nat
      BY <3>1 DEF Counts, Effect
    <3>3. IsCalm(Counting(i, k), n, n + k)
      BY <3>1, <3>2, CalmCounting
    <3> QED BY <3>3 DEF PushCopy, i
  <2>3. \A r, k : PushCopy(r, k).adds = k
    BY DEF PushCopy, Counting
  <2>4. Push.adds = 1 /\ PushF.adds = 1
    BY DEF Push, PushF, Counting
  <2>5. CASE t.kind \in {"dyn", "struct"}
    <3>1. PushValue(t) = PushCopy("rax", Slots(t))
      BY <2>5 DEF PushValue
    <3>2. Width(t) = Slots(t)
      BY <2>3, <3>1 DEF Width
    <3> QED BY <2>1, <2>2, <3>1, <3>2
  <2>6. CASE t.kind = "float"
    <3>1. PushValue(t) = PushF
      BY <2>6 DEF PushValue
    <3>2. Width(t) = 1
      BY <2>4, <3>1 DEF Width
    <3> QED BY <3>1, <3>2, CalmPushes
  <2>7. CASE t.kind = "f80"
    <3>1. PushValue(t) = PushCopy("st0", 2)
      BY <2>7 DEF PushValue
    <3>2. Width(t) = 2
      BY <2>3, <3>1 DEF Width
    <3> QED BY <2>2, <3>1, <3>2
  <2>8. CASE t.kind \notin {"dyn", "struct", "float", "f80"}
    <3>1. PushValue(t) = Push
      BY <2>8 DEF PushValue
    <3>2. Width(t) = 1
      BY <2>4, <3>1 DEF Width
    <3> QED BY <3>1, <3>2, CalmPushes
  <2> QED BY <2>5, <2>6, <2>7, <2>8
<1> QED BY <1>1, <1>2 DEF IsCalm

LEMMA CalmExprs ==
  ASSUME NEW e \in Own, NEW n \in Nat
  PROVE  IsCalm(Expr(e), n, n) /\ IsCalm(Address(e), n, n)
<1>1. e \in Exprs
  BY DEF Own, LevelExprs
<1>2. ASSUME NEW t, t.op \in {"expr", "addr"}, t.e = e PROVE IsCalm(t, n, n)
  <2>1. IsPlain(t)
    BY <1>1, <1>2 DEF IsPlain
  <2>2. ASSUME Level, NEW b \in Nat, NEW p \in Levels, Even(p[1] - p[2])
        PROVE  Takes(t, b, Up(p, n), Up(p, n))
    <3>1. e \in LevelExprs
      BY <2>2 DEF Own
    <3>2. Up(p, n) \in Levels /\ Even(Up(p, n)[1] - Up(p, n)[2])
      BY <2>2, UpIs
    <3>3. Bears(t, Up(p, n)) /\ Up(p, n) = Past(t, Up(p, n)) /\ ~Marks(t) /\ ~Leaves(t)
      BY <1>2, <3>1, <3>2 DEF Bears, Past, Marks, Leaves
    <3> QED BY <1>2, <3>2, <3>3 DEF Takes
  <2> QED BY <2>1, <2>2 DEF IsCalm
<1>3. Expr(e).op = "expr" /\ Expr(e).e = e /\ Address(e).op = "addr" /\ Address(e).e = e
  BY DEF Expr, Address
<1> QED BY <1>2, <1>3

\* Short lists of them.
LEMMA CalmNone == ASSUME NEW n \in Nat PROVE Calm(<<>>, n, n)
BY PlainNone, UpIs, LeadsNone DEF Calm

LEMMA CalmJoin ==
  ASSUME NEW T, NEW U, NEW i, NEW j, NEW k, Calm(T, i, j), Calm(U, j, k)
  PROVE  Calm(T \o U, i, k)
<1>1. Plain(T \o U)
  BY PlainJoin DEF Calm
<1>2. ASSUME Level, NEW b \in Nat, NEW p \in Levels, Even(p[1] - p[2])
      PROVE  Leads(T \o U, b, Up(p, i), Up(p, k))
  BY <1>2, LeadsJoin DEF Calm
<1> QED BY <1>1, <1>2 DEF Calm

LEMMA Calm1 == ASSUME NEW a, NEW i, NEW j, IsCalm(a, i, j) PROVE Calm(<<a>>, i, j)
BY Plain1, LeadsOne DEF Calm, IsCalm

LEMMA TwoInARow == ASSUME NEW a, NEW b PROVE <<a, b>> = <<a>> \o <<b>>
<1> DEFINE X == {a, b}
<1>1. <<a>> \in Seq(X) /\ <<b>> \in Seq(X) /\ <<a, b>> \in Seq(X)
  OBVIOUS
<1>2. Len(<<a>>) = 1 /\ Len(<<b>>) = 1 /\ Len(<<a, b>>) = 2
        /\ <<a>>[1] = a /\ <<b>>[1] = b /\ <<a, b>>[1] = a /\ <<a, b>>[2] = b
  OBVIOUS
<1>3. \A k \in 1 .. 2 : k = 1 \/ k = 2
  OBVIOUS
<1> DEFINE u == <<a>> \o <<b>>
           v == <<a, b>>
<1>4. u \in Seq(X) /\ Len(u) = 2 /\ u[1] = a /\ u[2] = b
  <2>1. 1 \in 1 .. 1 + 1 /\ 2 \in 1 .. 1 + 1 /\ 2 - 1 = 1 /\ 1 + 1 = 2 /\ 1 <= 1 /\ ~(2 <= 1)
    OBVIOUS
  <2> HIDE DEF X
  <2> QED BY <1>1, <1>2, <2>1, ConcatProperties
<1>5. v \in Seq(X) /\ Len(v) = 2 /\ v[1] = a /\ v[2] = b
  BY <1>1, <1>2
<1> HIDE DEF u, v, X
<1>6. u = v
  BY <1>3, <1>4, <1>5, SeqEqual
<1> QED BY <1>6 DEF u, v

LEMMA Calm2 ==
  ASSUME NEW a, NEW b, NEW i, NEW j, NEW k, IsCalm(a, i, j), IsCalm(b, j, k)
  PROVE  Calm(<<a, b>>, i, k)
<1>1. Calm(<<a>>, i, j) /\ Calm(<<b>>, j, k)
  BY Calm1
<1>2. <<a, b>> = <<a>> \o <<b>>
  BY TwoInARow
<1> QED BY <1>1, <1>2, CalmJoin

LEMMA Calm3 ==
  ASSUME NEW a, NEW b, NEW c, NEW i, NEW j, NEW k, NEW l, IsCalm(a, i, j), IsCalm(b, j, k), IsCalm(c, k, l)
  PROVE  Calm(<<a, b, c>>, i, l)
<1>1. Calm(<<a, b>>, i, k) /\ Calm(<<c>>, k, l)
  BY Calm1, Calm2
<1>2. <<a, b, c>> = <<a, b>> \o <<c>>
  OBVIOUS
<1> QED BY <1>1, <1>2, CalmJoin

LEMMA CalmFlat ==
  ASSUME NEW n \in Nat, NEW s, DOMAIN s = 1 .. n, s = [k \in DOMAIN s |-> s[k]],
         NEW i \in Nat, \A k \in 1 .. n : Calm(s[k], i, i)
  PROVE  Calm(FlattenSeq(s), i, i)
<1>1. Plain(FlattenSeq(s))
  BY PlainFlat DEF Calm
<1>2. ASSUME Level, NEW b \in Nat, NEW p \in Levels, Even(p[1] - p[2])
      PROVE  Leads(FlattenSeq(s), b, Up(p, i), Up(p, i))
  <2>1. Up(p, i) \in Levels
    BY UpIs
  <2>2. \A k \in 1 .. n : Leads(s[k], b, Up(p, i), Up(p, i))
    BY <1>2 DEF Calm
  <2> QED BY <2>1, <2>2, LeadsFlat
<1> QED BY <1>1, <1>2 DEF Calm

\* One for each of a list.
LEMMA CalmMap ==
  ASSUME NEW n \in Nat, NEW f, DOMAIN f = 1 .. n, f = [k \in DOMAIN f |-> f[k]],
         NEW i \in Nat, \A k \in 1 .. n : IsCalm(f[k], i, i)
  PROVE  Calm(f, i, i)
<1>1. Plain(f)
  BY PlainMap DEF IsCalm
<1>2. ASSUME Level, NEW b \in Nat, NEW p \in Levels, Even(p[1] - p[2])
      PROVE  Leads(f, b, Up(p, i), Up(p, i))
  <2> DEFINE P == {f[k] : k \in 1 .. n}
  <2>1. f \in Seq(P)
    OBVIOUS
  <2>2. \A t \in P : Takes(t, b, Up(p, i), Up(p, i))
    BY <1>2 DEF IsCalm
  <2>3. Up(p, i) \in Levels
    BY UpIs
  <2> HIDE DEF P
  <2> QED BY <2>1, <2>2, <2>3, LeadsOver
<1> QED BY <1>1, <1>2 DEF Calm

LEMMA Calm5 ==
  ASSUME NEW a, NEW b, NEW c, NEW d, NEW e, NEW i, NEW j, NEW k, NEW l, NEW m, NEW n,
         IsCalm(a, i, j), IsCalm(b, j, k), IsCalm(c, k, l), IsCalm(d, l, m), IsCalm(e, m, n)
  PROVE  Calm(<<a, b, c, d, e>>, i, n)
<1>1. Calm(<<a, b, c>>, i, l) /\ Calm(<<d, e>>, l, n)
  BY Calm2, Calm3
<1>2. <<a, b, c, d, e>> = <<a, b, c>> \o <<d, e>>
  OBVIOUS
<1> QED BY <1>1, <1>2, CalmJoin

LEMMA Calm6 ==
  ASSUME NEW a, NEW b, NEW c, NEW d, NEW e, NEW f,
         NEW i, NEW j, NEW k, NEW l, NEW m, NEW n, NEW o,
         IsCalm(a, i, j), IsCalm(b, j, k), IsCalm(c, k, l), IsCalm(d, l, m), IsCalm(e, m, n), IsCalm(f, n, o)
  PROVE  Calm(<<a, b, c, d, e, f>>, i, o)
<1>1. Calm(<<a, b, c>>, i, l) /\ Calm(<<d, e, f>>, l, o)
  BY Calm3
<1>2. <<a, b, c, d, e, f>> = <<a, b, c>> \o <<d, e, f>>
  OBVIOUS
<1> QED BY <1>1, <1>2, CalmJoin

\* At the heights at which the generators push and pop.
LEMMA CalmStack ==
  /\ IsCalm(Push, 0, 1) /\ IsCalm(Push, 1, 2) /\ IsCalm(PushF, 0, 1)
  /\ \A r : IsCalm(Pop(r), 1, 0) /\ IsCalm(Pop(r), 2, 1)
<1>1. 0 + 1 = 1 /\ 1 + 1 = 2 /\ 0 \in Nat /\ 1 \in Nat
  OBVIOUS
<1>2. IsCalm(Push, 0, 0 + 1) /\ IsCalm(Push, 1, 1 + 1) /\ IsCalm(PushF, 0, 0 + 1)
  BY ONLY <1>1, CalmPushes
<1>3. \A r : IsCalm(Pop(r), 0 + 1, 0) /\ IsCalm(Pop(r), 1 + 1, 1)
  BY ONLY <1>1, CalmPop
<1> QED BY <1>1, <1>2, <1>3

-----------------------------------------------------------------------------
\* What the first task is when a generator is called.
LEMMA Borne ==
  ASSUME IInv, todo # <<>>, Level
  PROVE  \E p \in Levels : p[2] = depth /\ Bears(Head(todo), p)
<1>1. PICK cs : InContext(todo, cs, Now)
                /\ \E H, hs : H \in [Nat -> Nat] /\ Stand(hs, H) /\ Sit(todo, cs, H, <<hs[Len(code) + 1], depth>>)
  BY DEF IInv
<1>2. PICK H, hs : H \in [Nat -> Nat] /\ Sit(todo, cs, H, <<hs[Len(code) + 1], depth>>)
  BY <1>1
<1> DEFINE p == <<hs[Len(code) + 1], depth>>
<1>3. Head(todo) = todo[1] /\ Len(todo) \in Nat /\ Len(todo) # 0
  BY HeadIs DEF IInv
<1>4. p[2] = depth
  OBVIOUS
<1>5. p \in Levels /\ Sits(todo[1], cs[1], H, p)
  BY <1>2, <1>3, SitsFirst
<1> HIDE DEF p
<1> QED BY <1>3, <1>4, <1>5 DEF Sits

LEMMA OwnIs ==
  ASSUME NEW e \in Own
  PROVE  /\ e \in Exprs /\ IsExpr(e, Own)
         /\ Level => e.kind # "else" /\ (e.kind = "call" => Agrees(e))
<1>1. CASE Level
  BY <1>1, LevelAssumption DEF Own, LevelExprs
<1>2. CASE ~Level
  BY <1>2, TreesAssumption DEF Own
<1> QED BY <1>1, <1>2

LEMMA AtExprIs ==
  ASSUME IInv, NEW kinds, AtExpr(kinds) \/ AtAddr(kinds)
  PROVE  /\ todo # <<>> /\ Head(todo).op \in {"expr", "addr"}
         /\ Head(todo).op \notin {"restore", "ins"} /\ ~Closing(Head(todo)) /\ Writes(Head(todo), Now) = {}
         /\ Head(todo).e \in Own /\ IsExpr(Head(todo).e, Own) /\ Head(todo).e.kind \in kinds
         /\ Level => Head(todo).e.kind # "else" /\ (Head(todo).e.kind = "call" => Agrees(Head(todo).e))
<1>1. todo # <<>> /\ Head(todo).op \in {"expr", "addr"} /\ Head(todo).e.kind \in kinds
  BY DEF AtExpr, AtAddr
<1>2. Head(todo).e \in Exprs
  BY <1>1, HeadIs DEF IInv, IsTask
<1>3. Head(todo).e \in Own
  <2>1. ASSUME Level PROVE Head(todo).e \in LevelExprs
    BY <1>1, <2>1, Borne DEF Bears
  <2> QED BY <1>2, <2>1 DEF Own
<1> QED BY <1>1, <1>3, OwnIs DEF Writes, Closing

\* The statements it may hold where the generator is, and those it may defer.
Below    == IF Level THEN LevelStmts(~Even(depth)) ELSE Stmts
Deferred == IF Level THEN OddStmts ELSE Stmts

LEMMA BelowIs ==
  ASSUME NEW s \in Below
  PROVE  /\ s \in Stmts /\ IsStmt(s, Own, Below, Deferred) /\ Escapes(s) = EscapesFrom(s)
         /\ s.kind = "return" /\ Level => Even(depth)
<1>1. CASE Level
  <2>1. (~Even(depth)) \in BOOLEAN
    BY DEF Even
  <2> DEFINE odd == ~Even(depth)
             S == LevelStmts(odd)
  <2>2. odd \in BOOLEAN /\ s \in S /\ S \subseteq Stmts
    BY <1>1, <2>1 DEF Below, LevelStmts, EvenStmts, OddStmts
  <2> HIDE DEF odd, S
  <2>3. IsStmt(s, LevelExprs, LevelStmts(odd), OddStmts) /\ (s.kind = "return" => ~odd)
    BY <2>2, LevelAssumption DEF S
  <2> QED BY <1>1, <2>2, <2>3, TreesAssumption DEF Own, Below, Deferred, odd
<1>2. CASE ~Level
  BY <1>2, TreesAssumption DEF Own, Below, Deferred
<1> QED BY <1>1, <1>2

LEMMA HeadIsBelow ==
  ASSUME IInv, todo # <<>>, Head(todo).op \in {"stmt", "cases"}
  PROVE  IF Head(todo).op = "stmt" /\ Head(todo).s.kind = "case" THEN Head(todo).s.body \in Below
         ELSE Head(todo).s \in Below
<1> DEFINE s == IF Head(todo).op = "stmt" /\ Head(todo).s.kind = "case" THEN Head(todo).s.body ELSE Head(todo).s
<1>1. s \in Stmts
  BY HeadIs DEF IInv, IsTask
<1>2. ASSUME Level PROVE s \in LevelStmts(~Even(depth))
  <2>1. PICK p \in Levels : p[2] = depth /\ Bears(Head(todo), p)
    BY <1>2, Borne
  <2>2. s \in LevelStmts(~Even(p[1])) /\ Even(p[1] - p[2])
    BY <2>1 DEF Bears, Tells
  <2>3. p[1] \in Int /\ p[2] \in Int
    BY DEF Levels
  <2>4. Even(p[1]) <=> Even(p[2])
    BY <2>2, <2>3, EvenTogether
  <2> QED BY <2>1, <2>2, <2>4 DEF LevelStmts
<1> QED BY <1>1, <1>2 DEF Below

LEMMA AtStmtIs ==
  ASSUME IInv, NEW kinds, AtStmt(kinds), "case" \notin kinds
  PROVE  /\ todo # <<>> /\ Head(todo).op = "stmt"
         /\ Head(todo).op \notin {"restore", "ins"} /\ ~Closing(Head(todo)) /\ Writes(Head(todo), Now) = {}
         /\ Head(todo).s \in Below /\ Head(todo).s \in Stmts /\ Head(todo).s.kind \in kinds
         /\ IsStmt(Head(todo).s, Own, Below, Deferred)
         /\ Needs(Head(todo), Now) = Exits(EscapesFrom(Head(todo).s), Now)
         /\ Level /\ Head(todo).s.kind = "return" => Even(depth)
<1>1. todo # <<>> /\ Head(todo).op = "stmt" /\ Head(todo).s.kind \in kinds /\ Head(todo).s.kind # "case"
  BY DEF AtStmt
<1>2. Head(todo).s \in Below
  BY <1>1, HeadIsBelow
<1>3. /\ Head(todo).s \in Stmts /\ Escapes(Head(todo).s) = EscapesFrom(Head(todo).s)
      /\ IsStmt(Head(todo).s, Own, Below, Deferred)
      /\ Level /\ Head(todo).s.kind = "return" => Even(depth)
  BY <1>2, BelowIs
<1> QED BY <1>1, <1>2, <1>3 DEF Writes, Needs, Closing

\* Calm tasks in the place of one that leaves the stack as it is.
LEMMA CalmKeeps ==
  ASSUME NEW T, Calm(T, 0, 0), depth' = depth, Head(todo).op \in {"expr", "addr", "stmt", "cases"}
  PROVE  Keeps(T, {})
<1>1. SUFFICES ASSUME Level, NEW p \in Levels, p[2] = depth, Bears(Head(todo), p) PROVE Leads(T, p[1], p, p)
  BY DEF Keeps
<1>2. Even(p[1] - p[2])
  BY <1>1 DEF Bears, Tells
<1>3. p[1] \in Nat /\ Up(p, 0) = p
  BY DEF Levels, Up
<1> HIDE DEF Levels
<1> QED BY <1>1, <1>2, <1>3 DEF Calm

\* An action that replaces an expression by such tasks.
LEMMA ExprStep ==
  ASSUME IInv, NEW kinds, AtExpr(kinds) \/ AtAddr(kinds), NEW T, Calm(T, 0, 0), Becomes(T), Steady
  PROVE  IInv'
<1>1. Keeps(T, {})
  BY AtExprIs, CalmKeeps DEF Steady
<1> QED BY <1>1, AtExprIs, PlainStep DEF Calm

-----------------------------------------------------------------------------
\* asm_gen_addr and asm_gen_expr, but for the nodes with labels.
LEMMA ElementIsCalm ==
  ASSUME NEW e, e.kind = "index", IsExpr(e, Own)
  PROVE  Calm(Element(e), 0, 0)
<1>1. e.left \in Own /\ e.index \in Own
  BY DEF IsExpr
<1>2. IsCalm(Ins([op |-> "fromback"]), 0, 0) /\ IsCalm(Ins([op |-> "add"]), 0, 0)
  BY CalmIns
<1>3. Calm(<<Expr(e.left), Push>>, 0, 1) /\ Calm(<<Ins([op |-> "add"])>>, 0, 0)
  BY <1>1, <1>2, CalmExprs, CalmStack, Calm1, Calm2
<1>4. Calm(<<Load, Push, Expr(e.index), Pop("rcx"), Pop("rdi"), Ins([op |-> "fromback"])>>, 1, 0)
  <2>1. IsCalm(Load, 1, 1) /\ IsCalm(Expr(e.index), 2, 2)
    BY <1>1, CalmExprs, CalmMoves
  <2> QED BY <1>2, <2>1, CalmStack, Calm6
<1>5. Calm(<<Expr(e.index), Pop("rdi")>>, 1, 0)
  BY <1>1, CalmExprs, CalmStack, Calm2
<1>6. Calm(IF e.back THEN <<Load, Push, Expr(e.index), Pop("rcx"), Pop("rdi"), Ins([op |-> "fromback"])>>
                     ELSE <<Expr(e.index), Pop("rdi")>>, 1, 0)
  BY <1>4, <1>5
<1> QED BY <1>3, <1>6, CalmJoin DEF Element

LEMMA AddrSteps ==
  ASSUME IInv, AddrVariable \/ AddrDeref \/ AddrValue \/ AddrIndex
  PROVE  IInv'
<1>1. CASE AddrVariable
  <2>1. Calm(<<Set(AddressOf(Head(todo).e.obj, 0))>>, 0, 0)
    BY CalmMoves, Calm1
  <2> QED BY <1>1, <2>1, ExprStep DEF AddrVariable
<1>2. CASE AddrDeref
  <2>1. Head(todo).e.e \in Own
    BY <1>2, AtExprIs DEF AddrDeref, IsExpr
  <2>2. Calm(<<Expr(Head(todo).e.e)>>, 0, 0)
    BY <2>1, CalmExprs, Calm1
  <2> QED BY <1>2, <2>2, ExprStep DEF AddrDeref
<1>3. CASE AddrValue
  <2>1. Head(todo).e \in Own
    BY <1>3, AtExprIs DEF AddrValue
  <2>2. Calm(<<Expr(Head(todo).e)>>, 0, 0)
    BY <2>1, CalmExprs, Calm1
  <2> QED BY <1>3, <2>2, ExprStep DEF AddrValue
<1>4. CASE AddrIndex
  <2>1. Head(todo).e.kind = "index" /\ IsExpr(Head(todo).e, Own)
    BY <1>4, AtExprIs DEF AddrIndex
  <2>2. Calm(Element(Head(todo).e), 0, 0)
    BY <2>1, ElementIsCalm
  <2> QED BY <1>4, <2>2, ExprStep DEF AddrIndex
<1> QED BY <1>1, <1>2, <1>3, <1>4

LEMMA LeafSteps ==
  ASSUME IInv, Number \/ LoadedFloat \/ Loaded \/ Reference \/ Not \/ Hole
  PROVE  IInv'
<1>1. CASE Number
  <2>1. Calm(<<Set(Const(Head(todo).e.n))>>, 0, 0)
    BY CalmMoves, Calm1
  <2> QED BY <1>1, <2>1, ExprStep DEF Number
<1>2. CASE LoadedFloat
  <2>1. Calm(<<Set(AddressOf(Head(todo).e.obj, 0)), Load,
               Mov("rax", IF Head(todo).e.type = F80 THEN "st0" ELSE "xmm0")>>, 0, 0)
    BY CalmMoves, Calm3
  <2> QED BY <1>2, <2>1, ExprStep DEF LoadedFloat
<1>3. CASE Loaded
  <2>1. Head(todo).e \in Own
    BY <1>3, AtExprIs DEF Loaded
  <2>2. Calm(<<Address(Head(todo).e), Load>>, 0, 0)
    BY <2>1, CalmExprs, CalmMoves, Calm2
  <2> QED BY <1>3, <2>2, ExprStep DEF Loaded
<1>4. CASE Reference
  <2>1. Head(todo).e.e \in Own
    BY <1>4, AtExprIs DEF Reference, IsExpr
  <2>2. Calm(<<Address(Head(todo).e.e)>>, 0, 0)
    BY <2>1, CalmExprs, Calm1
  <2> QED BY <1>4, <2>2, ExprStep DEF Reference
<1>5. CASE Not
  <2>1. Head(todo).e.e \in Own
    BY <1>5, AtExprIs DEF Not, IsExpr
  <2>2. IsCalm(Ins([op |-> "sete"]), 0, 0)
    BY CalmIns
  <2>3. Calm(<<Expr(Head(todo).e.e), CmpZero, Ins([op |-> "sete"])>>, 0, 0)
    BY <2>1, <2>2, CalmExprs, CalmMoves, Calm3
  <2> QED BY <1>5, <2>3, ExprStep DEF Not
<1>6. CASE Hole
  <2>1. Calm(<<Mov("r15", "rax")>>, 0, 0)
    BY CalmMoves, Calm1
  <2> QED BY <1>6, <2>1, ExprStep DEF Hole
<1> QED BY <1>1, <1>2, <1>3, <1>4, <1>5, <1>6

LEMMA OperatorSteps ==
  ASSUME IInv, Binary \/ FloatBinary \/ Increment \/ Pipe
  PROVE  IInv'
<1> DEFINE e == Head(todo).e
           swapped == e.f \in {">", ">="}
           first == e.args[IF swapped THEN 1 ELSE 2]
           second == e.args[IF swapped THEN 2 ELSE 1]
<1>1. ASSUME e.args \in Seq(Own), Len(e.args) = 2
      PROVE  IsCalm(Expr(first), 0, 0) /\ IsCalm(Expr(second), 1, 1)
  <2>1. e.args[1] \in Own /\ e.args[2] \in Own
    BY <1>1
  <2>2. first \in Own /\ second \in Own
    BY <2>1
  <2> HIDE DEF first, second
  <2> QED BY <2>2, CalmExprs
<1>2. CASE Binary
  <2>1. e.args \in Seq(Own) /\ Len(e.args) = 2
    BY <1>2, AtExprIs DEF Binary, IsExpr
  <2> DEFINE T == <<Expr(first), Push, Expr(second), Pop("rdi"), Operate(e.f, swapped)>>
  <2>2. IsCalm(Expr(first), 0, 0) /\ IsCalm(Expr(second), 1, 1) /\ IsCalm(Operate(e.f, swapped), 0, 0)
    BY <1>1, <2>1, CalmMoves
  <2>3. Calm(T, 0, 0)
    <3> HIDE DEF first, second
    <3> QED BY <2>2, CalmStack, Calm5
  <2>4. Becomes(T) /\ Steady /\ AtExpr({"op"})
    BY <1>2 DEF Binary
  <2> HIDE DEF T
  <2> QED BY <2>3, <2>4, ExprStep
<1>3. CASE FloatBinary
  <2>1. e.args \in Seq(Own) /\ Len(e.args) = 2
    BY <1>3, AtExprIs DEF FloatBinary, IsExpr
  <2> DEFINE ins == [op |-> "operatef", f |-> e.f, swapped |-> swapped]
             T == <<Expr(first), PushF, Expr(second), Pop("xmm1"), Ins(ins)>>
  <2>2. IsCalm(Expr(first), 0, 0) /\ IsCalm(Expr(second), 1, 1)
    BY <1>1, <2>1
  <2>3. IsCalm(Ins(ins), 0, 0)
    <3>1. ins.op \notin {"label", "jmp", "je", "jne", "jge", "call", "push", "pushcopy", "pop", "release"}
      OBVIOUS
    <3> HIDE DEF ins
    <3> QED BY <3>1, CalmIns
  <2>4. Calm(T, 0, 0)
    <3> HIDE DEF first, second, ins
    <3> QED BY <2>2, <2>3, CalmStack, Calm5
  <2>5. Becomes(T) /\ Steady /\ AtExpr({"fop"})
    BY <1>3 DEF FloatBinary
  <2> HIDE DEF T
  <2> QED BY <2>4, <2>5, ExprStep
<1>4. CASE Increment
  <2>1. Incremented(e) \in Own
    BY <1>4, AtExprIs DEF Increment, IsExpr
  <2>2. Calm(<<Expr(Incremented(e))>>, 0, 0)
    BY <2>1, CalmExprs, Calm1
  <2> QED BY <1>4, <2>2, ExprStep DEF Increment
<1>5. CASE Pipe
  <2>1. e.left \in Own /\ e.right \in Own
    BY <1>5, AtExprIs DEF Pipe, IsExpr
  <2>2. Calm(<<Expr(e.left), Mov("rax", "r15"), Expr(e.right)>>, 0, 0)
    BY <2>1, CalmExprs, CalmMoves, Calm3
  <2> QED BY <1>5, <2>2, ExprStep DEF Pipe
<1> QED BY <1>2, <1>3, <1>4, <1>5

LEMMA StoreIsCalm == Calm(Store, 1, 0) /\ Calm(Store, 2, 1)
<1>1. IsCalm(Ins([op |-> "store"]), 0, 0) /\ IsCalm(Ins([op |-> "store"]), 1, 1)
  BY CalmIns
<1> QED BY <1>1, CalmStack, Calm2 DEF Store

LEMMA MembersAreCalm ==
  ASSUME NEW args \in Seq(Own)
  PROVE  Calm(Members(args), 1, 1)
<1> DEFINE s == [i \in DOMAIN args |->
                   (IF i > 1 THEN <<Shift(1)>> ELSE <<>>) \o <<Push, Expr(args[i])>> \o Store \o <<Mov("rdi", "rax")>>]
<1>1. Len(args) \in Nat /\ DOMAIN args = 1 .. Len(args)
  OBVIOUS
<1>2. ASSUME NEW i \in 1 .. Len(args) PROVE Calm(s[i], 1, 1)
  <2> DEFINE x == IF i > 1 THEN <<Shift(1)>> ELSE <<>>
             y == <<Push, Expr(args[i])>>
             z == <<Mov("rdi", "rax")>>
  <2>1. Calm(x, 1, 1)
    BY CalmMoves, Calm1, CalmNone
  <2>2. Calm(y, 1, 2)
    <3>1. args[i] \in Own
      OBVIOUS
    <3> QED BY <3>1, CalmExprs, CalmStack, Calm2
  <2>3. Calm(z, 1, 1)
    BY CalmMoves, Calm1
  <2>4. s[i] = x \o y \o Store \o z
    BY <1>1
  <2> HIDE DEF x, y, z, s
  <2> QED BY <2>1, <2>2, <2>3, <2>4, StoreIsCalm, CalmJoin
<1>3. DOMAIN s = 1 .. Len(args) /\ s = [k \in DOMAIN s |-> s[k]]
  BY <1>1
<1>4. Members(args) = FlattenSeq(s)
  BY DEF Members
<1> HIDE DEF s
<1>5. Calm(FlattenSeq(s), 1, 1)
  BY <1>1, <1>2, <1>3, CalmFlat
<1> QED BY <1>4, <1>5

LEMMA LiteralSteps ==
  ASSUME IInv, StructLiteral \/ ArrayLiteral \/ Closure
  PROVE  IInv'
<1> DEFINE e == Head(todo).e
<1>1. CASE StructLiteral
  <2>1. e.args \in Seq(Own)
    BY <1>1, AtExprIs DEF StructLiteral, IsExpr
  <2> DEFINE x == <<Set(AddressOf(e.buffer, 0)), Push>>
             y == Members(e.args)
             z == <<Pop("rax")>>
  <2>2. Calm(x, 0, 1) /\ Calm(y, 1, 1) /\ Calm(z, 1, 0)
    BY <2>1, CalmMoves, CalmStack, Calm1, Calm2, MembersAreCalm
  <2>3. Becomes(x \o y \o z) /\ Steady /\ AtExpr({"struct"})
    BY <1>1 DEF StructLiteral
  <2> HIDE DEF x, y, z
  <2>4. Calm(x \o y \o z, 0, 0)
    BY <2>2, CalmJoin
  <2> QED BY <2>3, <2>4, ExprStep
<1>2. CASE ArrayLiteral
  <2>1. e.args \in Seq(Own)
    BY <1>2, AtExprIs DEF ArrayLiteral, IsExpr
  <2> DEFINE n == Len(e.args)
             s == [i \in DOMAIN e.args |-> <<Set(AddressOf(e.buffer, i)), Push, Expr(e.args[i])>> \o Store]
             z == <<Set(AddressOf(e.buffer, 0))>>
  <2>2. n \in Nat /\ DOMAIN e.args = 1 .. n /\ \A i \in 1 .. n : e.args[i] \in Own
    BY <2>1
  <2>3. ASSUME NEW i \in 1 .. n PROVE Calm(s[i], 0, 0)
    <3>1. Calm(<<Set(AddressOf(e.buffer, i)), Push, Expr(e.args[i])>>, 0, 1)
      BY <2>2, CalmMoves, CalmStack, CalmExprs, Calm3
    <3> QED BY <2>2, <3>1, StoreIsCalm, CalmJoin
  <2>4. DOMAIN s = 1 .. n /\ s = [k \in DOMAIN s |-> s[k]]
    BY <2>2
  <2>5. Becomes(FlattenSeq(s) \o z) /\ Steady /\ AtExpr({"array"})
    BY <1>2 DEF ArrayLiteral
  <2>6. Calm(z, 0, 0)
    BY CalmMoves, Calm1
  <2> HIDE DEF n, s, z
  <2>7. Calm(FlattenSeq(s), 0, 0)
    BY <2>2, <2>3, <2>4, CalmFlat
  <2>8. Calm(FlattenSeq(s) \o z, 0, 0)
    BY <2>6, <2>7, CalmJoin
  <2> QED BY <2>5, <2>8, ExprStep
<1>3. CASE Closure
  <2>1. e.exprs \in Seq(Own)
    BY <1>3, AtExprIs DEF Closure, IsExpr
  <2> DEFINE n == Len(e.exprs)
             s == [i \in DOMAIN e.exprs |-> Expr(e.exprs[i])]
  <2>2. n \in Nat /\ DOMAIN e.exprs = 1 .. n /\ \A i \in 1 .. n : e.exprs[i] \in Own
    BY <2>1
  <2>3. \A i \in 1 .. n : IsCalm(s[i], 0, 0)
    BY <2>2, CalmExprs
  <2>4. DOMAIN s = 1 .. n /\ s = [k \in DOMAIN s |-> s[k]]
    BY <2>2
  <2>5. Becomes(s) /\ Steady /\ AtExpr({"closure"})
    BY <1>3 DEF Closure
  <2> HIDE DEF n, s
  <2>6. Calm(s, 0, 0)
    BY <2>2, <2>3, <2>4, CalmMap
  <2> QED BY <2>5, <2>6, ExprStep
<1> QED BY <1>1, <1>2, <1>3

LEMMA AssignStep == IInv /\ Assign => IInv'
<1> SUFFICES ASSUME IInv, Assign PROVE IInv'
  OBVIOUS
<1> DEFINE e == Head(todo).e
           r == e.right
           start == <<Address(e.left), Push>>
           end == <<Pop("rax")>>
           U == start \o Members(r.args) \o end
           s == [i \in DOMAIN r.args |-> <<Push, Expr(r.args[i])>> \o Store \o <<Mov("rdi", "rax"), Shift(1)>>]
           A == <<Address(e.left), Push, Shift(1)>> \o FlattenSeq(s) \o end
           O == <<Address(e.left), Push, Expr(r)>> \o Store
           T == CASE r.kind = "struct" -> U [] r.kind = "array" -> A [] OTHER -> O
<1>1. Becomes(T) /\ Steady /\ AtExpr({"assign"})
  BY DEF Assign
<1>2. e.left \in Own /\ r \in Own /\ IsExpr(r, Own)
  <2>1. AtExpr({"assign"})
    BY DEF Assign
  <2>2. IsExpr(e, Own) /\ e.kind = "assign"
    BY <2>1, AtExprIs
  <2>3. e.left \in Own /\ r \in Own
    BY <2>2 DEF IsExpr
  <2> QED BY <2>3, OwnIs
<1>3. IsCalm(Address(e.left), 0, 0) /\ IsCalm(Expr(r), 1, 1) /\ IsCalm(Shift(1), 1, 1)
        /\ IsCalm(Mov("rdi", "rax"), 1, 1)
  BY <1>2, CalmExprs, CalmMoves
<1>4. Calm(start, 0, 1) /\ Calm(end, 1, 0) /\ Calm(<<Address(e.left), Push, Shift(1)>>, 0, 1)
        /\ Calm(<<Address(e.left), Push, Expr(r)>>, 0, 1) /\ Calm(<<Mov("rdi", "rax"), Shift(1)>>, 1, 1)
  BY <1>3, CalmStack, Calm1, Calm2, Calm3
<1>5. ASSUME r.kind = "struct" PROVE Calm(U, 0, 0)
  <2>1. Calm(Members(r.args), 1, 1)
    BY <1>2, <1>5, MembersAreCalm DEF IsExpr
  <2> HIDE DEF start, end
  <2> QED BY <1>4, <2>1, CalmJoin
<1>6. ASSUME r.kind = "array" PROVE Calm(A, 0, 0)
  <2>1. r.args \in Seq(Own)
    BY <1>2, <1>6 DEF IsExpr
  <2> DEFINE n == Len(r.args)
  <2>2. n \in Nat /\ DOMAIN r.args = 1 .. n /\ \A i \in 1 .. n : r.args[i] \in Own
    BY <2>1
  <2>3. ASSUME NEW i \in 1 .. n PROVE Calm(s[i], 1, 1)
    <3> DEFINE x == <<Push, Expr(r.args[i])>>
               y == <<Mov("rdi", "rax"), Shift(1)>>
    <3>1. Calm(x, 1, 2)
      BY <2>2, CalmStack, CalmExprs, Calm2
    <3>2. s[i] = x \o Store \o y
      BY <2>2
    <3>3. Calm(y, 1, 1)
      BY <1>4
    <3> HIDE DEF x, y, s
    <3> QED BY <3>1, <3>2, <3>3, StoreIsCalm, CalmJoin
  <2>4. DOMAIN s = 1 .. n /\ s = [k \in DOMAIN s |-> s[k]]
    BY <2>2
  <2> HIDE DEF n, s, end
  <2>5. Calm(FlattenSeq(s), 1, 1)
    BY <2>2, <2>3, <2>4, CalmFlat
  <2> QED BY <1>4, <2>5, CalmJoin
<1>7. Calm(O, 0, 0)
  BY <1>4, StoreIsCalm, CalmJoin
<1> HIDE DEF U, A, O
<1>8. Calm(T, 0, 0)
  BY <1>5, <1>6, <1>7
<1> HIDE DEF T
<1> QED BY <1>1, <1>8, ExprStep


-----------------------------------------------------------------------------
\* asm_gen_call: the arguments are pushed one after the other.
LEMMA PushArgsAre ==
  ASSUME NEW e, NEW S, NEW n \in Nat
  PROVE  \E F : /\ F[0] = <<>>
                /\ \A i \in 1 .. n : F[i] = IF i \in S THEN <<Expr(Pushed(e, i)), PushValue(e.types[i])>> \o F[i - 1]
                                            ELSE F[i - 1]
                /\ PushArgs(e, S, n) = F[n]
<1> DEFINE X == {Expr(Pushed(e, i)) : i \in 1 .. n}
           Y == {PushValue(e.types[i]) : i \in 1 .. n}
           B == Seq(X \cup Y)
           z == <<>>
           x(i) == Expr(Pushed(e, i))
           y(i) == PushValue(e.types[i])
           Next1(i, b) == IF i \in S THEN <<x(i), y(i)>> \o b ELSE b
           h == [i \in 1 .. n |-> [b \in B |-> Next1(i, b)]]
           Is(f) == f = [i \in 0 .. n |-> IF i = 0 THEN z ELSE Next1(i, f[i - 1])]
           F == CHOOSE f : Is(f)
<1>1. z \in B /\ \A i \in 1 .. n, b \in B : Next1(i, b) \in B
  <2> DEFINE D == X \cup Y
  <2>1. \A i \in 1 .. n : x(i) \in D /\ y(i) \in D
    OBVIOUS
  <2>2. B = Seq(D) /\ z = <<>>
    OBVIOUS
  <2>3. \A i, b : Next1(i, b) = <<x(i), y(i)>> \o b \/ Next1(i, b) = b
    OBVIOUS
  <2> HIDE DEF D, x, y, z, Next1, B
  <2>4. <<>> \in Seq(D) /\ \A a \in D, c \in D, b \in Seq(D) : <<a, c>> \o b \in Seq(D)
    OBVIOUS
  <2> QED BY <2>1, <2>2, <2>3, <2>4
<1>2. PushArgs(e, S, n) = F[n]
  BY DEF PushArgs
<1>u. \A i \in 1 .. n : \A b : Next1(i, b) = IF i \in S THEN <<Expr(Pushed(e, i)), PushValue(e.types[i])>> \o b ELSE b
  OBVIOUS
<1>z. z = <<>>
  OBVIOUS
<1> HIDE DEF B, z, Next1
<1>3. h \in [1 .. n -> [B -> B]]
  BY <1>1
<1>4. PICK f \in [0 .. n -> B] : f[0] = z /\ \A i \in 1 .. n : f[i] = h[i][f[i - 1]]
  <2> HIDE DEF h
  <2> QED BY ONLY n \in Nat, <1>1, <1>3, IterationExists
<1>5. \A i \in 1 .. n : f[i - 1] \in B
  BY <1>4
<1>6. \A i \in 1 .. n : f[i] = Next1(i, f[i - 1])
  BY <1>4, <1>5
<1>7. f = [i \in 0 .. n |-> f[i]]
  BY <1>4
<1>8. Is(f)
  BY <1>4, <1>6, <1>7
<1>9. Is(F)
  <2> HIDE DEF Is
  <2> QED BY <1>8
<1> HIDE DEF F
<1>10. F[0] = z /\ \A i \in 1 .. n : F[i] = Next1(i, F[i - 1])
  BY <1>9
<1> QED BY <1>2, <1>10, <1>u, <1>z

\* What the first arguments push, one after the other.
Sums(G, e, S, n) ==
  /\ G \in [0 .. n -> Nat] /\ G[0] = 0
  /\ \A i \in 1 .. n : G[i] = G[i - 1] + IF i \in S THEN Width(e.types[i]) ELSE 0
  /\ Pushes(e, S, n) = G[n]

LEMMA PushesAre ==
  ASSUME NEW e, NEW S, NEW n \in Nat, \A i \in 1 .. n : Width(e.types[i]) \in Nat
  PROVE  \E G : Sums(G, e, S, n)
<1> DEFINE w(i) == IF i \in S THEN Width(e.types[i]) ELSE 0
           B == Nat
           z == 0
           Next1(i, b) == b + w(i)
           h == [i \in 1 .. n |-> [b \in B |-> Next1(i, b)]]
           Is(f) == f = [i \in 0 .. n |-> IF i = 0 THEN z ELSE Next1(i, f[i - 1])]
           F == CHOOSE f : Is(f)
<1>1. z \in B /\ \A i \in 1 .. n, b \in B : Next1(i, b) \in B
  <2>1. \A i \in 1 .. n : w(i) \in Nat
    OBVIOUS
  <2> HIDE DEF w
  <2> QED BY <2>1
<1>2. Pushes(e, S, n) = F[n]
  BY DEF Pushes
<1>u. \A i \in 1 .. n : \A b : Next1(i, b) = b + IF i \in S THEN Width(e.types[i]) ELSE 0
  OBVIOUS
<1>z. z = 0 /\ B = Nat
  OBVIOUS
<1> HIDE DEF B, z, Next1
<1>3. h \in [1 .. n -> [B -> B]]
  BY <1>1
<1>4. PICK f \in [0 .. n -> B] : f[0] = z /\ \A i \in 1 .. n : f[i] = h[i][f[i - 1]]
  <2> HIDE DEF h
  <2> QED BY ONLY n \in Nat, <1>1, <1>3, IterationExists
<1>5. \A i \in 1 .. n : f[i - 1] \in B
  BY <1>4
<1>6. \A i \in 1 .. n : f[i] = Next1(i, f[i - 1])
  BY <1>4, <1>5
<1>7. f = [i \in 0 .. n |-> f[i]]
  BY <1>4
<1>8. Is(f)
  BY <1>4, <1>6, <1>7
<1>9. Is(F)
  <2> HIDE DEF Is
  <2> QED BY <1>8
<1> HIDE DEF F
<1>10. F[0] = z /\ \A i \in 1 .. n : F[i] = Next1(i, F[i - 1])
  BY <1>9
<1>11. \A i \in 0 .. n : F[i] = f[i]
  <2>1. \A i \in 1 .. n : F[i - 1] = f[i - 1] => F[i] = f[i]
    BY <1>6, <1>10
  <2>2. F[0] = f[0]
    BY <1>4, <1>10
  <2> QED BY ONLY n \in Nat, <2>1, <2>2, IterationsAgree, ZenonT(40)
<1>12. n \in 0 .. n
  OBVIOUS
<1>13. Pushes(e, S, n) = f[n]
  BY <1>2, <1>11, <1>12
<1> QED BY <1>4, <1>6, <1>13, <1>u, <1>z DEF Sums

\* Each argument is pushed once.
LEMMA PushesAdd ==
  ASSUME NEW e, NEW n \in Nat, \A i \in 1 .. n : Width(e.types[i]) \in Nat, NEW S
  PROVE  /\ Pushes(e, S, n) \in Nat /\ Pushes(e, (1 .. n) \ S, n) \in Nat
         /\ Pushes(e, S, n) + Pushes(e, (1 .. n) \ S, n) = Pushes(e, 1 .. n, n)
<1> DEFINE w(i) == Width(e.types[i])
           D == 1 .. n
           R == D \ S
<1>1. PICK A : Sums(A, e, S, n)
  BY PushesAre
<1>2. PICK B : Sums(B, e, R, n)
  <2> HIDE DEF R
  <2> QED BY PushesAre
<1>3. PICK C : Sums(C, e, D, n)
  <2> HIDE DEF D
  <2> QED BY PushesAre
<1>4. \A i \in 1 .. n : w(i) \in Nat /\ i \in D /\ (i \in R <=> i \notin S)
  OBVIOUS
<1> HIDE DEF w
<1> DEFINE Z == {i \in Nat : i <= n => A[i] + B[i] = C[i]}
<1>5. 0 \in Z
  BY <1>1, <1>2, <1>3 DEF Sums
<1>6. ASSUME NEW i \in Nat, i \in Z PROVE i + 1 \in Z
  <2>1. SUFFICES ASSUME i + 1 <= n PROVE A[i + 1] + B[i + 1] = C[i + 1]
    OBVIOUS
  <2>2. i + 1 \in 1 .. n /\ (i + 1) - 1 = i /\ i \in 0 .. n
    BY <2>1
  <2>3. A[i] + B[i] = C[i] /\ A[i] \in Nat /\ B[i] \in Nat /\ C[i] \in Nat
    BY <1>1, <1>2, <1>3, <1>6, <2>2 DEF Sums
  <2>4. A[i + 1] = A[i] + (IF i + 1 \in S THEN w(i + 1) ELSE 0) /\ B[i + 1] = B[i] + (IF i + 1 \in S THEN 0 ELSE w(i + 1))
          /\ C[i + 1] = C[i] + w(i + 1) /\ w(i + 1) \in Nat
    <3> HIDE DEF D, R
    <3>1. A[i + 1] = A[(i + 1) - 1] + IF i + 1 \in S THEN w(i + 1) ELSE 0
      BY <1>1, <2>2 DEF Sums, w
    <3>2. B[i + 1] = B[(i + 1) - 1] + IF i + 1 \in R THEN w(i + 1) ELSE 0
      BY <1>2, <2>2 DEF Sums, w
    <3>3. C[i + 1] = C[(i + 1) - 1] + IF i + 1 \in D THEN w(i + 1) ELSE 0
      BY <1>3, <2>2 DEF Sums, w
    <3> QED BY <1>4, <2>2, <3>1, <3>2, <3>3
  <2> HIDE DEF Z
  <2> QED BY <2>3, <2>4
<1>7. Nat \subseteq Z
  <2> HIDE DEF Z
  <2> QED BY <1>5, <1>6, NatIsInductive
<1>8. A[n] + B[n] = C[n] /\ n \in 0 .. n
  <2>1. n \in Z
    <3> HIDE DEF Z
    <3> QED BY <1>7
  <2> QED BY <2>1
<1> QED BY <1>1, <1>2, <1>3, <1>8 DEF Sums

LEMMA PushArgsAreCalm ==
  ASSUME NEW e, NEW n \in Nat, \A i \in 1 .. n : Pushed(e, i) \in Own,
         NEW S, NEW j, Level => j \in Nat /\ \A i \in 1 .. n : Width(e.types[i]) \in Nat
  PROVE  /\ Plain(PushArgs(e, S, n))
         /\ Level => Calm(PushArgs(e, S, n), j, j + Pushes(e, S, n))
<1>1. PICK F : /\ F[0] = <<>>
               /\ \A i \in 1 .. n : F[i] = IF i \in S THEN <<Expr(Pushed(e, i)), PushValue(e.types[i])>> \o F[i - 1]
                                           ELSE F[i - 1]
               /\ PushArgs(e, S, n) = F[n]
  BY PushArgsAre
<1>2. Plain(PushArgs(e, S, n))
  <2> DEFINE Z == {i \in Nat : i <= n => Plain(F[i])}
  <2>1. 0 \in Z
    BY <1>1, PlainNone
  <2>2. ASSUME NEW i \in Nat, i \in Z PROVE i + 1 \in Z
    <3>1. SUFFICES ASSUME i + 1 <= n PROVE Plain(F[i + 1])
      OBVIOUS
    <3>2. i + 1 \in 1 .. n /\ (i + 1) - 1 = i
      BY <3>1
    <3>3. Plain(F[i])
      BY <2>2, <3>1
    <3>4. Plain(<<Expr(Pushed(e, i + 1)), PushValue(e.types[i + 1])>>)
      <4>1. Pushed(e, i + 1) \in Exprs
        BY <3>2, OwnIs
      <4> QED BY <4>1, PlainExprs, PlainStack, Plain2
    <3>5. F[i + 1] = <<Expr(Pushed(e, i + 1)), PushValue(e.types[i + 1])>> \o F[i] \/ F[i + 1] = F[i]
      BY <1>1, <3>2
    <3> QED BY <3>3, <3>4, <3>5, PlainJoin
  <2>3. Nat \subseteq Z
    <3> HIDE DEF Z
    <3> QED BY <2>1, <2>2, NatIsInductive
  <2>4. n \in Z
    <3> HIDE DEF Z
    <3> QED BY <2>3
  <2> QED BY <1>1, <2>4
<1>3. ASSUME Level PROVE Calm(PushArgs(e, S, n), j, j + Pushes(e, S, n))
  <2>1. j \in Nat /\ \A i \in 1 .. n : Width(e.types[i]) \in Nat
    BY <1>3
  <2>x. PICK G : Sums(G, e, S, n)
    BY <2>1, PushesAre
  <2>2. /\ G \in [0 .. n -> Nat] /\ G[0] = 0
        /\ \A i \in 1 .. n : G[i] = G[i - 1] + IF i \in S THEN Width(e.types[i]) ELSE 0
        /\ Pushes(e, S, n) = G[n]
    BY <2>x DEF Sums
  \* The last argument comes first.
  <2> DEFINE Z == {i \in Nat : i <= n => \A k \in Nat : Calm(F[i], k, k + G[i])}
  <2>3. 0 \in Z
    <3>1. SUFFICES ASSUME NEW k \in Nat PROVE Calm(F[0], k, k + G[0])
      OBVIOUS
    <3>2. k + G[0] = k
      BY <2>2
    <3> QED BY <1>1, <3>2, CalmNone
  <2>4. ASSUME NEW i \in Nat, i \in Z PROVE i + 1 \in Z
    <3>1. SUFFICES ASSUME i + 1 <= n, NEW k \in Nat PROVE Calm(F[i + 1], k, k + G[i + 1])
      OBVIOUS
    <3>2. i + 1 \in 1 .. n /\ (i + 1) - 1 = i /\ i \in 0 .. n
      BY <3>1
    <3>3. \A q \in Nat : Calm(F[i], q, q + G[i])
      BY <2>4, <3>1
    <3>4. G[i] \in Nat
      BY <2>2, <3>2
    <3>5. CASE i + 1 \in S
      <4> DEFINE w == Width(e.types[i + 1])
                 x == Expr(Pushed(e, i + 1))
                 y == PushValue(e.types[i + 1])
      <4>1. F[i + 1] = <<x, y>> \o F[i] /\ G[i + 1] = G[i] + w
        <5>1. F[i + 1] = <<x, y>> \o F[(i + 1) - 1]
          BY <1>1, <3>2, <3>5
        <5>2. G[i + 1] = G[(i + 1) - 1] + w
          BY <2>2, <3>2, <3>5
        <5> QED BY <3>2, <5>1, <5>2
      <4>2. w \in Nat
        BY <2>1, <3>2
      <4>3. IsCalm(x, k, k) /\ IsCalm(y, k, k + w)
        BY <3>2, <4>2, CalmExprs, CalmPushValue
      <4> HIDE DEF w, x, y
      <4>4. Calm(<<x, y>>, k, k + w)
        BY <4>3, Calm2
      <4>5. k + w \in Nat /\ (k + w) + G[i] = k + G[i + 1]
        BY <3>4, <4>1, <4>2
      <4>6. Calm(F[i], k + w, (k + w) + G[i])
        BY <3>3, <4>5
      <4>7. Calm(<<x, y>> \o F[i], k, (k + w) + G[i])
        BY <4>4, <4>6, CalmJoin
      <4> QED BY <4>1, <4>5, <4>7
    <3>6. CASE i + 1 \notin S
      <4>1. F[i + 1] = F[i]
        BY <1>1, <3>2, <3>6
      <4>2. G[i + 1] = G[i] + 0
        BY <2>2, <3>2, <3>6
      <4>3. G[i + 1] = G[i]
        BY <3>4, <4>2
      <4> QED BY <3>3, <4>1, <4>3
    <3> QED BY <3>5, <3>6
  <2>5. Nat \subseteq Z
    <3> HIDE DEF Z
    <3> QED BY <2>3, <2>4, NatIsInductive
  <2>6. n \in Z
    <3> HIDE DEF Z
    <3> QED BY <2>5
  <2>7. Calm(F[n], j, j + G[n])
    BY <2>1, <2>6
  <2> QED BY <1>1, <2>2, <2>7
<1> QED BY <1>2, <1>3

\* asm_pop_args pops as many slots as it prints instructions.
LEMMA CalmPops ==
  ASSUME NEW P, \A t \in P : \E r : t = Pop(r), NEW T \in Seq(P), NEW n \in Nat
  PROVE  Calm(T, n + Len(T), n)
<1> DEFINE m == Len(T)
<1>1. IsList(T) /\ m \in Nat /\ \A k \in 1 .. m : T[k] \in P
  BY SeqIsList
<1> HIDE DEF m
<1>2. Plain(T)
  <2>1. \A t \in P : IsPlain(t)
    BY PlainStack
  <2> QED BY ONLY <2>1, T \in Seq(P), PlainOver
<1>3. ASSUME Level, NEW b \in Nat, NEW p \in Levels, Even(p[1] - p[2])
      PROVE  Leads(T, b, Up(p, n + m), Up(p, n))
  <2> DEFINE g == [k \in 1 .. m + 1 |-> Up(p, n + m - k + 1)]
  <2>1. ASSUME NEW k \in 1 .. m + 1 PROVE g[k] = Up(p, n + m - k + 1) /\ g[k] \in Levels
    <3>1. n + m - k + 1 \in Nat
      BY <1>1
    <3>2. Up(p, n + m - k + 1) \in Levels
      BY <3>1, UpIs
    <3> QED BY <3>2
  <2>2. g \in [1 .. m + 1 -> Levels]
    <3> HIDE DEF Levels
    <3> QED BY <2>1
  <2> HIDE DEF g
  <2>3. 1 \in 1 .. m + 1 /\ m + 1 \in 1 .. m + 1 /\ n + m - 1 + 1 = n + m /\ n + m - (m + 1) + 1 = n
    BY <1>1
  <2>4. g[1] = Up(p, n + m) /\ g[m + 1] = Up(p, n)
    BY <2>1, <2>3
  <2>5. ASSUME NEW k \in 1 .. m PROVE Takes(T[k], b, g[k], g[k + 1])
    <3> DEFINE j == n + m - k
    <3>1. j \in Nat /\ k \in 1 .. m + 1 /\ k + 1 \in 1 .. m + 1
          /\ n + m - k + 1 = j + 1 /\ n + m - (k + 1) + 1 = j
      BY <1>1
    <3>2. g[k] = Up(p, n + m - k + 1) /\ g[k + 1] = Up(p, n + m - (k + 1) + 1)
      BY ONLY <2>1, <3>1
    <3> HIDE DEF j
    <3>3. PICK r : T[k] = Pop(r)
      BY <1>1
    <3>4. IsCalm(T[k], j + 1, j)
      BY <3>1, <3>3, CalmPop
    <3>5. Takes(T[k], b, Up(p, j + 1), Up(p, j))
      BY <1>3, <3>4 DEF IsCalm
    <3> QED BY <3>1, <3>2, <3>5
  <2> QED BY <1>1, <2>2, <2>4, <2>5 DEF Leads, m
<1> QED BY <1>2, <1>3 DEF Calm, m

LEMMA PopArgsAreCalm ==
  ASSUME NEW e, NEW X, e.args \in Seq(X), NEW j \in Nat
  PROVE  Len(PopArgs(e)) \in Nat /\ Calm(PopArgs(e), j + Len(PopArgs(e)), j)
<1> DEFINE n == Len(e.args)
           x(i) == PopSlot(Before(e, i), HasFlonum1(e.types[i]))
           y(i) == PopSlot(SlotCounted(Before(e, i), HasFlonum1(e.types[i])), HasFlonum2(e.types[i]))
           s == [i \in DOMAIN e.args |-> Pops(Before(e, i), e.types[i])]
           P == {Pop("rdi")} \cup {x(i) : i \in 1 .. n} \cup {y(i) : i \in 1 .. n}
<1>1. n \in Nat /\ DOMAIN e.args = 1 .. n
  OBVIOUS
<1>2. \A t \in P : \E r : t = Pop(r)
  <2>1. \A c, float : \E r : PopSlot(c, float) = Pop(r)
    BY DEF PopSlot
  <2> QED BY <2>1
<1>3. ASSUME NEW i \in 1 .. n PROVE s[i] \in Seq(P)
  <2>1. x(i) \in P /\ y(i) \in P
    OBVIOUS
  <2>2. s[i] \in {<<>>, <<x(i)>>, <<x(i), y(i)>>}
    BY <1>1 DEF Pops
  <2> DEFINE X1 == x(i)
             Y1 == y(i)
  <2>3. s[i] \in {<<>>, <<X1>>, <<X1, Y1>>}
    BY <2>2
  <2>4. X1 \in P /\ Y1 \in P
    BY <2>1
  <2> HIDE DEF X1, Y1, x, y, s, P
  <2>5. <<>> \in Seq(P) /\ <<X1>> \in Seq(P) /\ <<X1, Y1>> \in Seq(P)
    BY <2>4
  <2> QED BY <2>3, <2>5
<1>4. PopArgs(e) = (IF Big(e) THEN <<Pop("rdi")>> ELSE <<>>) \o FlattenSeq(s)
  BY DEF PopArgs
<1>5. Pop("rdi") \in P
  OBVIOUS
<1>6. DOMAIN s = 1 .. n /\ s = [i \in DOMAIN s |-> s[i]]
  BY <1>1
<1> HIDE DEF P, s, n
<1>7. s \in [1 .. n -> Seq(P)]
  BY <1>3, <1>6
<1>8. s \in Seq(Seq(P))
  BY <1>1, <1>7
<1>9. FlattenSeq(s) \in Seq(P)
  BY ONLY <1>8, Flat
<1>10. PopArgs(e) \in Seq(P)
  BY <1>4, <1>5, <1>9
<1>11. Len(PopArgs(e)) \in Nat
  BY <1>10
<1> QED BY <1>2, <1>10, <1>11, CalmPops

LEMMA KeepIsCalm ==
  ASSUME NEW t, Slots(t) \in Nat
  PROVE  Calm(Keep(t), 0, 0)
<1> DEFINE n == Slots(t)
           i(k) == [op |-> "keep", from |-> ResultRegs(t)[k], at |-> AddressOf("buffer", k - 1)]
           s == [k \in 1 .. n |-> Ins(i(k))]
           z == <<Set(AddressOf("buffer", 0))>>
<1>1. \A k \in 1 .. n : IsCalm(s[k], 0, 0)
  <2>1. \A k : i(k).op = "keep"
    OBVIOUS
  <2> HIDE DEF i
  <2>2. \A k : IsCalm(Ins(i(k)), 0, 0)
    BY <2>1, CalmIns
  <2> QED BY <2>2
<1>2. Keep(t) = IF t.kind # "struct" \/ Wide(t) THEN <<>> ELSE s \o z
  BY DEF Keep
<1>3. Calm(z, 0, 0)
  BY CalmMoves, Calm1
<1>4. DOMAIN s = 1 .. n /\ s = [k \in DOMAIN s |-> s[k]] /\ n \in Nat
  OBVIOUS
<1> HIDE DEF s, z, n
<1>5. Calm(s, 0, 0)
  BY <1>1, <1>4, CalmMap
<1>6. Calm(s \o z, 0, 0)
  BY <1>3, <1>5, CalmJoin
<1> QED BY <1>2, <1>6, CalmNone

\* The call itself, between an instruction before it and one behind it.
LEMMA CallTakes ==
  ASSUME NEW i, i.op = "call", NEW k \in Nat, NEW b \in Nat, NEW p \in Levels, Even(p[1] - p[2]),
         Even(p[1] + k)
  PROVE  /\ Leads(<<Mov("rax", "r10"), Ins(i), Release(k)>>, b, Up(p, k), p)
         /\ Plain(<<Mov("rax", "r10"), Ins(i), Release(k)>>)
<1> DEFINE q == Up(p, k)
<1>1. q \in Levels /\ q[1] = p[1] + k /\ q[1] - q[2] = p[1] - p[2] /\ p[1] \in Nat /\ p[2] \in Int
  BY UpIs DEF Levels
<1>2. Takes(Mov("rax", "r10"), b, q, q)
  <2> DEFINE m == [op |-> "mov", from |-> "rax", to |-> "r10"]
             t == Mov("rax", "r10")
  <2>1. t.op = "ins" /\ t.ins.op = "mov" /\ t.adds = 0
    BY DEF Mov, Ins
  <2> HIDE DEF t
  <2>2. q = <<q[1] + 0, q[2] + 0>>
    BY DEF Up, Levels
  <2>3. q = Past(t, q)
    BY <2>1, <2>2 DEF Past, Effect
  <2> HIDE DEF q
  <2> QED BY <1>1, <2>1, <2>3 DEF Takes, Bears, Counts, Tells, Marks, Leaves, IsJump, t
<1>3. Takes(Ins(i), b, q, q)
  <2> DEFINE t == Ins(i)
  <2>1. t.op = "ins" /\ t.ins = i /\ t.adds = 0
    BY DEF Ins
  <2> HIDE DEF t
  <2>2. q = <<q[1] + 0, q[2] + 0>>
    BY DEF Up, Levels
  <2>3. q = Past(t, q)
    BY <2>1, <2>2 DEF Past, Effect
  <2>4. Even(q[1])
    BY <1>1
  <2> HIDE DEF q
  <2> QED BY <1>1, <2>1, <2>3, <2>4 DEF Takes, Bears, Counts, Tells, Marks, Leaves, IsJump, t
<1>4. Takes(Release(k), b, q, p)
  <2> DEFINE t == Release(k)
  <2>1. t.op = "ins" /\ t.ins.op = "release" /\ t.ins.slots = k /\ t.adds = -k
    BY DEF Release, Counting
  <2> HIDE DEF t
  <2>2. p = <<q[1] + (-k), q[2] + (-k)>>
    BY DEF Up, Levels
  <2>3. p = Past(t, q)
    BY <2>1, <2>2 DEF Past, Effect
  <2> HIDE DEF q
  <2> QED BY <1>1, <2>1, <2>3 DEF Takes, Bears, Counts, Tells, Marks, Leaves, IsJump, t
<1> HIDE DEF q
<1> DEFINE x == Mov("rax", "r10")
           y == Ins(i)
           z == Release(k)
<1>5. Leads(<<x>>, b, q, q) /\ Leads(<<y>>, b, q, q) /\ Leads(<<z>>, b, q, p)
  BY <1>2, <1>3, <1>4, LeadsOne
<1>6. IsPlain(x) /\ IsPlain(y) /\ IsPlain(z)
  BY PlainMoves, PlainStack, PlainIns
<1> HIDE DEF x, y, z
<1>7. <<x, y, z>> = (<<x>> \o <<y>>) \o <<z>>
  <2>1. <<x, y>> = <<x>> \o <<y>>
    BY TwoInARow
  <2>2. <<x, y, z>> = <<x, y>> \o <<z>>
    OBVIOUS
  <2> QED BY <2>1, <2>2
<1>8. Leads(<<x, y, z>>, b, q, p)
  BY <1>5, <1>7, LeadsJoin
<1>9. Plain(<<x, y, z>>)
  BY <1>6, Plain3
<1> QED BY <1>8, <1>9 DEF x, y, z, q

LEMMA CallStep == IInv /\ Call => IInv'
<1> SUFFICES ASSUME IInv, Call PROVE IInv'
  OBVIOUS
<1> DEFINE e     == Head(todo).e
           n     == Len(e.args)
           pad   == IF NeedsPad(StackSlots(e)) THEN <<Pad>> ELSE <<>>
           first == {i \in DOMAIN e.args : PushedFirst(e, i)}
           rest  == DOMAIN e.args \ first
           args  == PushArgs(e, first, n)
           more  == PushArgs(e, rest, n)
           big   == IF Big(e) THEN <<Set(AddressOf("buffer", 0)), Push>> ELSE <<>>
           fn    == <<Address(e.fn)>>
           load  == IF e.fn.kind = "function" THEN <<>> ELSE <<Load>>
           i     == [op |-> "call", signature |-> [types |-> e.types, result |-> e.result]]
           end   == <<Mov("rax", "r10"), Ins(i), Release(StackSlots(e) + Len(pad))>>
           T     == pad \o args \o more \o big \o fn \o load \o PopArgs(e) \o end \o Keep(e.result)
<1>1. Becomes(T) /\ Steady
  BY DEF Call
<1>2. AtExpr({"call"})
  BY DEF Call
<1> HIDE DEF T
<1>3. /\ todo # <<>> /\ Head(todo).op \in {"expr", "addr"} /\ IsExpr(e, Own) /\ e.kind = "call"
      /\ Level => Agrees(e)
  BY <1>2, AtExprIs
<1>4. e.args \in Seq(Own) /\ e.fn \in Own /\ Slots(e.result) \in Nat
  BY <1>3 DEF IsExpr
<1>5. n \in Nat /\ DOMAIN e.args = 1 .. n /\ \A k \in 1 .. n : e.args[k] \in Own
  BY <1>4
<1>6. ASSUME NEW k \in 1 .. n PROVE Pushed(e, k) \in Own
  <2>1. e.args[k] \in Own
    BY <1>5
  <2>2. CASE e.args[k].kind = "index"
    <3>1. From(e.args[k], TRUE) \in Own /\ From(e.args[k], FALSE) \in Own
      BY <2>1, <2>2, OwnIs DEF IsExpr
    <3>2. CASE PushedFirst(e, k)
      <4>1. PushedFirst(e, k) = TRUE
        BY <3>2 DEF PushedFirst
      <4> QED BY <2>2, <3>1, <4>1 DEF Pushed
    <3>3. CASE ~PushedFirst(e, k)
      <4>1. PushedFirst(e, k) = FALSE
        BY <3>3 DEF PushedFirst
      <4> QED BY <2>2, <3>1, <4>1 DEF Pushed
    <3> QED BY <3>2, <3>3
  <2>3. CASE e.args[k].kind # "index"
    BY <2>1, <2>3 DEF Pushed
  <2> QED BY <2>2, <2>3
<1> DEFINE x == Len(pad)
           st == StackSlots(e)
           g == One(Big(e))
<1>7. x = (IF NeedsPad(st) THEN 1 ELSE 0) /\ x \in Nat /\ Calm(pad, 0, x)
  <2>1. Calm(<<Pad>>, 0, 1)
    <3>1. 0 + 1 = 1 /\ 0 \in Nat
      OBVIOUS
    <3>2. IsCalm(Pad, 0, 0 + 1)
      BY ONLY <3>1, CalmPushes
    <3> QED BY <3>1, <3>2, Calm1
  <2>2. Len(<<Pad>>) = 1 /\ Len(<<>>) = 0 /\ Calm(<<>>, 0, 0)
    BY CalmNone
  <2> QED BY <2>1, <2>2
<1>8. g \in Nat /\ \A k \in Nat : Calm(big, k, k + g)
  <2>1. SUFFICES ASSUME NEW k \in Nat PROVE Calm(big, k, k + g)
    BY DEF One
  <2>2. Calm(<<Set(AddressOf("buffer", 0)), Push>>, k, k + 1)
    BY CalmMoves, CalmPushes, Calm2
  <2>3. Calm(<<>>, k, k + 0)
    BY CalmNone
  <2> QED BY <2>2, <2>3 DEF One
<1>9. \A k \in Nat : Calm(fn, k, k) /\ Calm(load, k, k)
  <2>1. SUFFICES ASSUME NEW k \in Nat PROVE Calm(fn, k, k) /\ Calm(load, k, k)
    OBVIOUS
  <2>2. Calm(<<Load>>, k, k) /\ Calm(<<Address(e.fn)>>, k, k)
    BY <1>4, CalmExprs, CalmMoves, Calm1
  <2> QED BY <2>2, CalmNone
<1>10. Len(PopArgs(e)) \in Nat /\ \A k \in Nat : Calm(PopArgs(e), k + Len(PopArgs(e)), k)
  BY <1>4, PopArgsAreCalm
<1>11. Calm(Keep(e.result), 0, 0)
  BY <1>4, KeepIsCalm
<1>12. Plain(args) /\ Plain(more)
  <2>1. ASSUME NEW S PROVE Plain(PushArgs(e, S, n))
    <3> DEFINE j == 0
    <3>1. Level => j \in Nat /\ \A k \in 1 .. n : Width(e.types[k]) \in Nat
      BY <1>3, <1>5 DEF Agrees
    <3> HIDE DEF n, e, j
    <3> QED BY <1>5, <1>6, <3>1, PushArgsAreCalm
  <2> QED BY <2>1
<1>13. Plain(end)
  <2>1. i.op = "call"
    OBVIOUS
  <2>2. IsPlain(Mov("rax", "r10")) /\ IsPlain(Release(st + x)) /\ IsPlain(Ins(i))
    <3> HIDE DEF i
    <3> QED BY <2>1, PlainMoves, PlainStack, PlainIns
  <2> HIDE DEF i, pad, e
  <2> QED BY <2>2, Plain3
<1>14. T = pad \o args \o more \o big \o fn \o load \o PopArgs(e) \o end \o Keep(e.result)
  BY DEF T
<1>15. Plain(T)
  <2> DEFINE p == PopArgs(e)
             k == Keep(e.result)
  <2>1. T = pad \o args \o more \o big \o fn \o load \o p \o end \o k
    BY <1>14
  <2>2. Plain(pad) /\ Plain(args) /\ Plain(more) /\ Plain(big) /\ Plain(fn) /\ Plain(load)
        /\ Plain(p) /\ Plain(end) /\ Plain(k)
    <3>1. 0 \in Nat
      OBVIOUS
    <3> QED BY <1>7, <1>8, <1>9, <1>10, <1>11, <1>12, <1>13, <3>1 DEF Calm
  <2> HIDE DEF pad, args, more, big, fn, load, p, end, k
  <2>3. Plain(pad \o args \o more \o big)
    BY <2>2, PlainJoin
  <2>4. Plain(pad \o args \o more \o big \o fn \o load \o p)
    BY <2>2, <2>3, PlainJoin
  <2> QED BY <2>1, <2>2, <2>4, PlainJoin
<1>16. Keeps(T, {})
  <2>1. SUFFICES ASSUME Level, NEW p \in Levels, p[2] = depth, Bears(Head(todo), p)
                 PROVE  depth' = depth /\ Leads(T, p[1], p, p)
    BY DEF Keeps
  <2>2. depth' = depth
    BY <1>1 DEF Steady
  <2>3. p[1] \in Nat /\ p[2] \in Int /\ Even(p[1] - p[2])
    BY <1>3, <2>1 DEF Levels, Bears, Tells
  <2> DEFINE a == Pushes(e, first, n)
             b == Pushes(e, rest, n)
             w == Pushes(e, 1 .. n, n)
             y == Len(PopArgs(e))
  <2>4. (\A k \in 1 .. n : Width(e.types[k]) \in Nat) /\ st \in Nat /\ w + g = y + st
    BY <1>3, <1>5, <2>1 DEF Agrees
  <2>5. a \in Nat /\ b \in Nat /\ a + b = w
    <3>1. rest = (1 .. n) \ first
      BY <1>5
    <3> HIDE DEF n, first, rest, e
    <3> QED BY <1>5, <2>4, <3>1, PushesAdd
  <2>6. Calm(args, x, x + a) /\ Calm(more, x + a, (x + a) + b)
    <3>1. ASSUME NEW S, NEW j \in Nat PROVE Calm(PushArgs(e, S, n), j, j + Pushes(e, S, n))
      <4> HIDE DEF n, e
      <4> QED BY <1>5, <1>6, <2>1, <2>4, PushArgsAreCalm
    <3>2. x \in Nat /\ x + a \in Nat
      BY <1>7, <2>5
    <3> HIDE DEF x, n, e, first, rest
    <3> QED BY <3>1, <3>2
  <2> DEFINE h == (x + a) + b
             q == PopArgs(e)
             r == Keep(e.result)
  <2>7. h \in Nat /\ h + g \in Nat /\ st + x \in Nat /\ h + g = (st + x) + y
    <3>1. x \in Nat /\ g \in Nat /\ y \in Nat
      BY <1>7, <1>8, <1>10
    <3> HIDE DEF x, st, g, a, b, w, y
    <3> QED BY <2>4, <2>5, <3>1
  <2>8. Calm(big, h, h + g) /\ Calm(fn, h + g, h + g) /\ Calm(load, h + g, h + g) /\ Calm(q, h + g, st + x)
    <3> HIDE DEF big, fn, load, x, st, g, a, b, h
    <3> QED BY <1>8, <1>9, <1>10, <2>7
  <2> DEFINE A == pad \o args \o more \o big \o fn \o load \o q
  <2>9. Calm(pad, 0, x) /\ Calm(args, x, x + a) /\ Calm(more, x + a, h) /\ Calm(r, 0, 0)
    BY <1>7, <1>11, <2>6
  <2>10. Calm(A, 0, st + x)
    <3> HIDE DEF pad, args, more, big, fn, load, q, h, x, st, g, a, b
    <3>1. Calm(pad \o args \o more, 0, h)
      BY <2>9, CalmJoin
    <3>2. Calm(pad \o args \o more \o big \o fn, 0, h + g)
      BY <2>8, <3>1, CalmJoin
    <3> QED BY <2>8, <3>2, CalmJoin
  <2>11. Even(p[1] + (st + x))
    <3> DEFINE u == p[1]
               v == p[2]
    <3>1. u \in Nat /\ v \in Int /\ Even(u - v) /\ v = depth
      BY <2>1, <2>3
    <3>2. x = IF (v + st) % 2 = 1 THEN 1 ELSE 0
      BY <1>7, <3>1 DEF NeedsPad
    <3>3. st \in Nat
      BY <2>4
    <3> HIDE DEF u, v, x, st
    <3>4. Even(u + (st + x))
      BY <3>1, <3>2, <3>3 DEF Even
    <3> QED BY <3>4 DEF u
  <2>12. Up(p, 0) = p
    BY DEF Up, Levels
  <2>13. i.op = "call"
    OBVIOUS
  <2>14. Leads(end, p[1], Up(p, st + x), p)
    <3> DEFINE k == st + x
    <3>1. k \in Nat /\ Even(p[1] + k)
      BY <2>7, <2>11
    <3>2. end = <<Mov("rax", "r10"), Ins(i), Release(k)>> /\ Up(p, st + x) = Up(p, k)
      OBVIOUS
    <3> HIDE DEF i, k
    <3>3. Leads(<<Mov("rax", "r10"), Ins(i), Release(k)>>, p[1], Up(p, k), p)
      BY ONLY <2>1, <2>3, <2>13, <3>1, CallTakes
    <3> QED BY ONLY <3>2, <3>3
  <2>15. Leads(A, p[1], p, Up(p, st + x)) /\ Leads(r, p[1], p, p)
    <3> HIDE DEF A, r, x, st
    <3> QED BY <2>1, <2>3, <2>9, <2>10, <2>12 DEF Calm
  <2>16. T = A \o end \o r
    BY <1>14
  <2> HIDE DEF A, end, r, x, st
  <2> QED BY <2>2, <2>14, <2>15, <2>16, LeadsJoin
<1>17. Head(todo).op \notin {"restore", "ins"} /\ Writes(Head(todo), Now) = {} /\ ~Closing(Head(todo))
  BY <1>2, AtExprIs
<1> QED BY <1>1, <1>3, <1>15, <1>16, <1>17, PlainStep

-----------------------------------------------------------------------------
\* Nodes with labels.  What single tasks write and need.
Does(t, c, w, n) == IsTask(t) /\ t.op # "restore" /\ Writes(t, c) = w /\ Needs(t, c) = n

LEMMA PlainDoes == ASSUME NEW t, IsPlain(t), NEW c PROVE Does(t, c, {}, {})
BY PlainTask DEF Does

LEMMA LabelDoes == ASSUME NEW l, NEW c PROVE Does(Label(l), c, {l}, {})
BY DEF Does, Label, Ins, IsTask, Writes, Needs, IsJump

LEMMA JumpsDo ==
  ASSUME NEW l, NEW c
  PROVE  /\ Does(Jmp(l), c, {}, {l}) /\ Does(Je(l), c, {}, {l}) /\ Does(Jne(l), c, {}, {l})
         /\ Does(Ins([op |-> "jge", to |-> l]), c, {}, {l})
BY DEF Does, Jmp, Je, Jne, Ins, IsTask, Writes, Needs, IsJump

LEMMA StmtDoes ==
  ASSUME NEW s \in Stmts, NEW c
  PROVE  Does(Stmt(s), c, {}, Exits(Escapes(s), c))
<1>1. s.kind # "case"
  BY TreesAssumption DEF IsStmt
<1> QED BY <1>1 DEF Does, Stmt, IsTask, Writes, Needs

LEMMA OneDoes ==
  ASSUME NEW t, NEW c, NEW w, NEW n, Does(t, c, w, n)
  PROVE  Stretch(<<t>>, c, w, n)
BY OneTask DEF Does

LEMMA WiderStretch ==
  ASSUME NEW T, NEW c, NEW W, NEW N, Stretch(T, c, W, N), NEW M, N \subseteq M
  PROVE  Stretch(T, c, W, M)
BY DEF Stretch

LEMMA OwnDoes ==
  ASSUME NEW e \in Own, NEW c
  PROVE  Does(Expr(e), c, {}, {}) /\ Does(Address(e), c, {}, {})
BY OwnIs, PlainExprs, PlainDoes

LEMMA OwnExprs == Own \subseteq Exprs
BY OwnIs

\* What leads back to where the node begins.
Rests(t) == Level => \A p \in Levels : p[2] = depth /\ Bears(Head(todo), p) => Takes(t, p[1], p, p)
Stays(T) == Level => \A p \in Levels : p[2] = depth /\ Bears(Head(todo), p) => Leads(T, p[1], p, p)
Node(t)  == t.op \notin {"restore", "ins"}

LEMMA NodeIsAligned ==
  ASSUME NEW t, Node(t), NEW p, Bears(t, p)
  PROVE  Even(p[1] - p[2])
BY DEF Node, Bears, Tells

LEMMA StaysNone == Stays(<<>>)
BY LeadsNone DEF Stays

LEMMA StaysOne == ASSUME NEW t, Rests(t) PROVE Stays(<<t>>)
BY LeadsOne DEF Rests, Stays

LEMMA StaysJoin == ASSUME NEW T, NEW U, Stays(T), Stays(U) PROVE Stays(T \o U)
BY LeadsJoin DEF Stays

LEMMA StaysOver == ASSUME NEW P, NEW T \in Seq(P), \A t \in P : Rests(t) PROVE Stays(T)
BY LeadsOver DEF Rests, Stays

LEMMA StaysMap ==
  ASSUME NEW n \in Nat, NEW f, DOMAIN f = 1 .. n, f = [k \in DOMAIN f |-> f[k]],
         \A k \in 1 .. n : Rests(f[k])
  PROVE  Stays(f)
<1> DEFINE P == {f[k] : k \in 1 .. n}
<1>1. f \in Seq(P) /\ \A t \in P : Rests(t)
  OBVIOUS
<1> HIDE DEF P
<1> QED BY ONLY <1>1, StaysOver

LEMMA StaysFlat ==
  ASSUME NEW n \in Nat, NEW s, DOMAIN s = 1 .. n, s = [k \in DOMAIN s |-> s[k]],
         \A k \in 1 .. n : Stays(s[k])
  PROVE  Stays(FlattenSeq(s))
<1>1. SUFFICES ASSUME Level, NEW p \in Levels, p[2] = depth, Bears(Head(todo), p)
               PROVE  Leads(FlattenSeq(s), p[1], p, p)
  BY DEF Stays
<1>2. \A k \in 1 .. n : Leads(s[k], p[1], p, p)
  BY <1>1 DEF Stays
<1> QED BY <1>2, LeadsFlat

LEMMA StaysTwo == ASSUME NEW a, NEW b, Rests(a), Rests(b) PROVE Stays(<<a, b>>)
<1>1. Stays(<<a>>) /\ Stays(<<b>>)
  BY StaysOne
<1> QED BY <1>1, StaysJoin, TwoInARow

LEMMA StaysCalm == ASSUME Node(Head(todo)), NEW T, Calm(T, 0, 0) PROVE Stays(T)
<1>1. SUFFICES ASSUME Level, NEW p \in Levels, Bears(Head(todo), p) PROVE Leads(T, p[1], p, p)
  BY DEF Stays
<1>2. Even(p[1] - p[2])
  BY <1>1, NodeIsAligned
<1>3. p[1] \in Nat /\ Up(p, 0) = p
  BY DEF Levels, Up
<1> HIDE DEF Levels
<1> QED BY <1>1, <1>2, <1>3 DEF Calm

LEMMA RestsCalm == ASSUME Node(Head(todo)), NEW t, IsCalm(t, 0, 0) PROVE Rests(t)
<1>1. SUFFICES ASSUME Level, NEW p \in Levels, Bears(Head(todo), p) PROVE Takes(t, p[1], p, p)
  BY DEF Rests
<1>2. Even(p[1] - p[2])
  BY <1>1, NodeIsAligned
<1>3. p[1] \in Nat /\ Up(p, 0) = p
  BY DEF Levels, Up
<1> HIDE DEF Levels
<1> QED BY <1>1, <1>2, <1>3 DEF IsCalm

LEMMA RestsOwn ==
  ASSUME Node(Head(todo))
  PROVE  /\ \A e \in Own : Rests(Expr(e))
         /\ \A t : Rests(Set(t))
         /\ Rests(CmpZero)
         /\ \A from, to : Rests(Mov(from, to))
<1>1. 0 \in Nat
  OBVIOUS
<1>2. /\ \A e \in Own : IsCalm(Expr(e), 0, 0)
      /\ \A t : IsCalm(Set(t), 0, 0)
      /\ \A from, to : IsCalm(Mov(from, to), 0, 0)
      /\ IsCalm(CmpZero, 0, 0)
  BY <1>1, CalmExprs, CalmMoves
<1> QED BY <1>2, RestsCalm

LEMMA RestsLabels ==
  ASSUME Node(Head(todo)), NEW l
  PROVE  /\ Rests(Label(l)) /\ Rests(Jmp(l)) /\ Rests(Je(l)) /\ Rests(Jne(l))
         /\ Rests(Ins([op |-> "jge", to |-> l]))
<1>1. ASSUME NEW i, i.op \in {"label", "jmp", "je", "jne", "jge"} PROVE Rests(Ins(i))
  <2>1. SUFFICES ASSUME NEW p \in Levels, Bears(Head(todo), p) PROVE Takes(Ins(i), p[1], p, p)
    BY DEF Rests
  <2> DEFINE t == Ins(i)
  <2>2. t.op = "ins" /\ t.ins = i /\ t.adds = 0
    BY DEF Ins
  <2> HIDE DEF t
  <2>3. p = <<p[1] + 0, p[2] + 0>> /\ p[1] \in Nat /\ p[1] - p[1] = 0
    BY DEF Levels
  <2>4. Even(p[1] - p[2]) /\ Even(p[1] - p[1])
    BY <2>1, <2>3, NodeIsAligned DEF Even
  <2>5. p = Past(t, p)
    BY <1>1, <2>2, <2>3 DEF Past, Effect
  <2>6. p[1] <= p[1]
    BY <2>3
  <2> HIDE DEF Levels
  <2> QED BY <1>1, <2>2, <2>4, <2>5, <2>6 DEF Takes, Bears, Counts, Tells, Marks, Leaves, t
<1> DEFINE a == [op |-> "label", label |-> l]
           b == [op |-> "jmp", to |-> l]
           c == [op |-> "je", to |-> l]
           d == [op |-> "jne", to |-> l]
           g == [op |-> "jge", to |-> l]
<1>2. a.op = "label" /\ b.op = "jmp" /\ c.op = "je" /\ d.op = "jne" /\ g.op = "jge"
  OBVIOUS
<1> HIDE DEF a, b, c, d, g
<1>3. Rests(Ins(a)) /\ Rests(Ins(b)) /\ Rests(Ins(c)) /\ Rests(Ins(d)) /\ Rests(Ins(g))
  BY <1>1, <1>2
<1> QED BY <1>3 DEF Label, Jmp, Je, Jne, a, b, c, d, g

\* What is below the first task is as level as that, there and two slots further.
LEMMA BelowTakes ==
  ASSUME Node(Head(todo)), NEW s \in Below, Level, NEW p \in Levels, p[2] = depth, Bears(Head(todo), p)
  PROVE  LET q == <<p[1] + 2, p[2]>>
         IN Takes(Stmt(s), p[1], p, p) /\ Takes(Stmt(s), p[1], q, q)
<1>1. p[1] \in Nat /\ p[2] \in Int /\ Even(p[1] - p[2])
  BY NodeIsAligned DEF Levels
<1>2. Even(p[1]) <=> Even(depth)
  BY <1>1, EvenTogether
<1>3. s.kind # "case"
  BY BelowIs DEF IsStmt
<1>4. ASSUME NEW q \in Levels, q[2] = p[2], p[1] <= q[1], Even(q[1] - p[1])
      PROVE  Takes(Stmt(s), p[1], q, q)
  <2>1. q[1] \in Nat /\ q[2] \in Int
    BY DEF Levels
  <2>2. (Even(q[1]) <=> Even(p[1])) /\ Even(q[1] - q[2])
    BY <1>1, <1>4, <2>1, EvenTogether, EvenThrough
  <2>3. s \in LevelStmts(~Even(q[1]))
    BY <1>2, <2>2 DEF Below, LevelStmts
  <2> DEFINE t == Stmt(s)
  <2>4. t.op = "stmt" /\ t.s = s
    BY DEF Stmt
  <2> HIDE DEF t
  <2> QED BY <1>3, <1>4, <2>2, <2>3, <2>4 DEF Takes, Bears, Tells, Marks, Leaves, Past, t
<1> DEFINE q == <<p[1] + 2, p[2]>>
<1>5. q \in Levels /\ q[1] = p[1] + 2 /\ q[2] = p[2]
  BY <1>1 DEF Levels
<1>6. Even(p[1] - p[1]) /\ p[1] <= p[1] /\ Even(q[1] - p[1]) /\ p[1] <= q[1]
  BY <1>1, <1>5 DEF Even
<1> HIDE DEF q
<1>7. Takes(Stmt(s), p[1], p, p) /\ Takes(Stmt(s), p[1], q, q)
  BY <1>4, <1>5, <1>6
<1> QED BY <1>7 DEF q

LEMMA RestsBelow == ASSUME Node(Head(todo)), NEW s \in Below PROVE Rests(Stmt(s)) /\ Stays(Maybe(s))
<1>1. Rests(Stmt(s))
  BY BelowTakes DEF Rests
<1>2. Stays(<<Stmt(s)>>)
  BY <1>1, StaysOne
<1> QED BY <1>1, <1>2, StaysNone DEF Maybe

\* So are the cases of a match.
LEMMA RestsCases ==
  ASSUME Node(Head(todo)), NEW t,
         \/ t.op = "cases" /\ t.s \in Below
         \/ t.op = "stmt" /\ t.s.kind = "case" /\ t.s.body \in Below
  PROVE  Rests(t)
<1>1. SUFFICES ASSUME Level, NEW p \in Levels, p[2] = depth, Bears(Head(todo), p) PROVE Takes(t, p[1], p, p)
  BY DEF Rests
<1>2. p[1] \in Nat /\ p[2] \in Int /\ Even(p[1] - p[2])
  BY <1>1, NodeIsAligned DEF Levels
<1>3. Even(p[1]) <=> Even(depth)
  BY <1>1, <1>2, EvenTogether
<1>4. \A s \in Below : s \in LevelStmts(~Even(p[1]))
  BY <1>1, <1>3 DEF Below, LevelStmts
<1>5. Even(p[1] - p[1]) /\ p[1] <= p[1]
  BY <1>2 DEF Even
<1> QED BY <1>2, <1>4, <1>5 DEF Takes, Bears, Tells, Marks, Leaves, Past

LEMMA BelowDoes ==
  ASSUME NEW s \in Below, NEW c
  PROVE  /\ Does(Stmt(s), c, {}, Exits(Escapes(s), c))
         /\ Stretch(<<Stmt(s)>>, c, {}, Exits(Escapes(s), c))
<1>1. s \in Stmts
  BY BelowIs
<1> QED BY <1>1, StmtDoes, OneDoes

\* The contexts inside of a node with labels, and inside of a loop.
Inside == [count |-> max_count, brk |-> cur_brk_id, cnt |-> cur_cnt_id]
InLoop == [count |-> max_count, brk |-> max_count, cnt |-> max_count]

LEMMA LabelledStep ==
  ASSUME IInv, todo # <<>>, Head(todo).op \notin {"restore", "ins"}, NEW T, Labelled(T),
         NEW W, NEW N, Stretch(T, Inside, W, N), Writes(Head(todo), Now) = {},
         \A l \in W : Fresh(l, max_count),
         \A l \in N : l \in W \/ l \in Needs(Head(todo), Now) \/ l = ReturnLabel,
         Stays(T), ReturnLabel \notin N, ~Closing(Head(todo))
  PROVE  IInv'
<1>1. Now \in Contexts
  BY NowIsContext DEF IInv
<1>2. cur_brk_id' = cur_brk_id /\ cur_cnt_id' = cur_cnt_id /\ cur_brk_id \in Nat /\ cur_cnt_id \in Nat
  BY <1>1 DEF Labelled, Now, Contexts
<1>3. Stretch(T, [count |-> max_count, brk |-> cur_brk_id', cnt |-> cur_cnt_id'], W, N)
  BY <1>2 DEF Inside
<1>4. Keeps(T, N)
  BY DEF Labelled, Stays, Keeps
<1> QED BY <1>2, <1>3, <1>4, NodeStep DEF Labelled

LEMMA LoopStep ==
  ASSUME IInv, todo # <<>>, Head(todo).op \notin {"restore", "ins"}, NEW T, LoopBegins(T),
         NEW W, NEW N, Stretch(T, InLoop, W, N), Writes(Head(todo), Now) = {},
         \A l \in W : Fresh(l, max_count),
         \A l \in N : l \in W \/ l \in Needs(Head(todo), Now) \/ l = ReturnLabel,
         Stays(T), ReturnLabel \notin N, ~Closing(Head(todo))
  PROVE  IInv'
<1>1. cur_brk_id' = max_count /\ cur_cnt_id' = max_count /\ max_count \in Nat
  BY DEF LoopBegins, IInv, TasksOK
<1>2. Stretch(T, [count |-> max_count, brk |-> cur_brk_id', cnt |-> cur_cnt_id'], W, N)
  BY <1>1 DEF InLoop
<1>3. Keeps(T, N)
  BY DEF LoopBegins, Stays, Keeps
<1> QED BY <1>1, <1>2, <1>3, NodeStep DEF LoopBegins

LEMMA AndOrStep == IInv /\ AndOr => IInv'
<1> SUFFICES ASSUME IInv, AndOr PROVE IInv'
  OBVIOUS
<1> DEFINE e     == Head(todo).e
           isAnd == e.kind = "and"
           short == Lab(IF isAnd THEN "false" ELSE "true", max_count)
           leave == IF isAnd THEN Je(short) ELSE Jne(short)
           end   == Lab("end", max_count)
           yes   == Set(Const(IF isAnd THEN 1 ELSE 0))
           no    == Set(Const(IF isAnd THEN 0 ELSE 1))
           T     == <<Expr(e.left), CmpZero, leave, Expr(e.right), CmpZero, leave, yes, Jmp(end),
                      Label(short), no, Label(end)>>
           c     == Inside
<1>1. Labelled(T)
  BY DEF AndOr
<1>2. AtExpr({"and", "or"})
  BY DEF AndOr
<1>3. e.left \in Own /\ e.right \in Own
  BY <1>2, AtExprIs DEF IsExpr
<1>4. short # end /\ Fresh(short, max_count) /\ Fresh(end, max_count)
  BY DEF Lab, Fresh
<1>5. Does(leave, c, {}, {short})
  BY JumpsDo
<1>6. /\ Does(Expr(e.left), c, {}, {}) /\ Does(Expr(e.right), c, {}, {}) /\ Does(CmpZero, c, {}, {})
      /\ Does(yes, c, {}, {}) /\ Does(no, c, {}, {})
  BY <1>3, OwnDoes, PlainMoves, PlainDoes
<1>7. Does(Jmp(end), c, {}, {end}) /\ Does(Label(short), c, {short}, {}) /\ Does(Label(end), c, {end}, {})
  BY JumpsDo, LabelDoes
<1> DEFINE t1 == Expr(e.left)
           t2 == CmpZero
           t4 == Expr(e.right)
           t8 == Jmp(end)
           t9 == Label(short)
           t11 == Label(end)
           P == {t1, t2, leave, t4, yes, t8, t9, no, t11}
<1>r. \A t \in P : Rests(t)
  <2>1. Node(Head(todo))
    BY <1>2, AtExprIs DEF Node
  <2> QED BY <1>3, <2>1, RestsOwn, RestsLabels
<1> HIDE DEF short, leave, end, yes, no, t1, t2, t4, t8, t9, t11, c
<1>8. /\ T \in Seq(P) /\ IsList(T) /\ Len(T) = 11 /\ T[1] = t1 /\ T[2] = t2 /\ T[3] = leave /\ T[4] = t4 /\ T[5] = t2
      /\ T[6] = leave /\ T[7] = yes /\ T[8] = t8 /\ T[9] = t9 /\ T[10] = no /\ T[11] = t11
  <2>1. T = <<t1, t2, leave, t4, t2, leave, yes, t8, t9, no, t11>>
    BY DEF t1, t2, t4, t8, t9, t11
  <2> HIDE DEF T
  <2>2. T \in Seq(P)
    BY <2>1
  <2>3. IsList(T)
    BY ONLY <2>2, SeqIsList
  <2> QED BY <2>1, <2>2, <2>3
<1> HIDE DEF T, P
<1>9. Stretch(T, c, {short, end}, {short, end})
  BY <1>4, <1>5, <1>6, <1>7, <1>8 DEF Stretch, Does, t1, t2, t4, t8, t9, t11
<1>10. Stays(T)
  BY <1>r, <1>8, StaysOver
<1>11. ReturnLabel \notin {short, end}
  BY DEF short, end, Lab, ReturnLabel
<1> QED BY <1>1, <1>2, <1>4, <1>9, <1>10, <1>11, AtExprIs, LabelledStep DEF c

LEMMA TernaryStep == IInv /\ Ternary => IInv'
<1> SUFFICES ASSUME IInv, Ternary PROVE IInv'
  OBVIOUS
<1> DEFINE e    == Head(todo).e
           else == Lab("else", max_count)
           end  == Lab("end", max_count)
           T    == <<Expr(e.cond), CmpZero, Je(else), Expr(e.yes), Jmp(end),
                     Label(else), Expr(e.no), Label(end)>>
           c    == Inside
<1>1. Labelled(T)
  BY DEF Ternary
<1>2. AtExpr({"ternary"})
  BY DEF Ternary
<1>3. e.cond \in Own /\ e.yes \in Own /\ e.no \in Own
  BY <1>2, AtExprIs DEF IsExpr
<1>4. else # end /\ Fresh(else, max_count) /\ Fresh(end, max_count)
  BY DEF Lab, Fresh
<1>5. /\ Does(Expr(e.cond), c, {}, {}) /\ Does(Expr(e.yes), c, {}, {}) /\ Does(Expr(e.no), c, {}, {})
      /\ Does(CmpZero, c, {}, {})
  BY <1>3, OwnDoes, PlainMoves, PlainDoes
<1>6. /\ Does(Je(else), c, {}, {else}) /\ Does(Jmp(end), c, {}, {end})
      /\ Does(Label(else), c, {else}, {}) /\ Does(Label(end), c, {end}, {})
  BY JumpsDo, LabelDoes
<1> DEFINE t1 == Expr(e.cond)
           t2 == CmpZero
           t3 == Je(else)
           t4 == Expr(e.yes)
           t5 == Jmp(end)
           t6 == Label(else)
           t7 == Expr(e.no)
           t8 == Label(end)
           P == {t1, t2, t3, t4, t5, t6, t7, t8}
<1>r. \A t \in P : Rests(t)
  <2>1. Node(Head(todo))
    BY <1>2, AtExprIs DEF Node
  <2> QED BY <1>3, <2>1, RestsOwn, RestsLabels
<1> HIDE DEF else, end, t1, t2, t3, t4, t5, t6, t7, t8, c
<1>7. /\ T \in Seq(P) /\ IsList(T) /\ Len(T) = 8 /\ T[1] = t1 /\ T[2] = t2 /\ T[3] = t3 /\ T[4] = t4
      /\ T[5] = t5 /\ T[6] = t6 /\ T[7] = t7 /\ T[8] = t8
  <2>1. T = <<t1, t2, t3, t4, t5, t6, t7, t8>>
    BY DEF t1, t2, t3, t4, t5, t6, t7, t8
  <2> HIDE DEF T
  <2>2. T \in Seq(P)
    BY <2>1
  <2>3. IsList(T)
    BY ONLY <2>2, SeqIsList
  <2> QED BY <2>1, <2>2, <2>3
<1> HIDE DEF T, P
<1>8. Stretch(T, c, {else, end}, {else, end})
  BY <1>4, <1>5, <1>6, <1>7 DEF Stretch, Does, t1, t2, t3, t4, t5, t6, t7, t8
<1>9. Stays(T)
  BY <1>r, <1>7, StaysOver
<1>10. ReturnLabel \notin {else, end}
  BY DEF else, end, Lab, ReturnLabel
<1> QED BY <1>1, <1>2, <1>4, <1>8, <1>9, <1>10, AtExprIs, LabelledStep DEF c

LEMMA ElseExprStep == IInv /\ ElseExpr => IInv'
<1> SUFFICES ASSUME IInv, ElseExpr PROVE IInv'
  OBVIOUS
<1> DEFINE e    == Head(todo).e
           else == Lab("else", max_count)
           end  == Lab("end", max_count)
           T    == <<Expr(e.left), Push, Push, CmpZero, Je(else), Pop("rax"), Jmp(end),
                     Label(else), Pop("rax"), Expr(e.right), Label(end)>>
           c    == Inside
<1>1. Labelled(T)
  BY DEF ElseExpr
<1>2. AtExpr({"else"})
  BY DEF ElseExpr
<1>3. e.left \in Own /\ e.right \in Own
  BY <1>2, AtExprIs DEF IsExpr
<1>4. else # end /\ Fresh(else, max_count) /\ Fresh(end, max_count)
  BY DEF Lab, Fresh
<1>5. /\ Does(Expr(e.left), c, {}, {}) /\ Does(Expr(e.right), c, {}, {})
      /\ Does(CmpZero, c, {}, {}) /\ Does(Push, c, {}, {}) /\ Does(Pop("rax"), c, {}, {})
  BY <1>3, OwnDoes, PlainMoves, PlainStack, PlainDoes
<1>6. /\ Does(Je(else), c, {}, {else}) /\ Does(Jmp(end), c, {}, {end})
      /\ Does(Label(else), c, {else}, {}) /\ Does(Label(end), c, {end}, {})
  BY JumpsDo, LabelDoes
<1> DEFINE t1 == Expr(e.left)
           t2 == Push
           t4 == CmpZero
           t5 == Je(else)
           t6 == Pop("rax")
           t7 == Jmp(end)
           t8 == Label(else)
           t10 == Expr(e.right)
           t11 == Label(end)
<1> HIDE DEF else, end, t1, t2, t4, t5, t6, t7, t8, t10, t11, c
<1>7. /\ IsList(T) /\ Len(T) = 11 /\ T[1] = t1 /\ T[2] = t2 /\ T[3] = t2 /\ T[4] = t4
      /\ T[5] = t5 /\ T[6] = t6 /\ T[7] = t7 /\ T[8] = t8 /\ T[9] = t6 /\ T[10] = t10 /\ T[11] = t11
  <2>1. T = <<t1, t2, t2, t4, t5, t6, t7, t8, t6, t10, t11>>
    BY DEF t1, t2, t4, t5, t6, t7, t8, t10, t11
  <2> HIDE DEF T
  <2>2. T \in Seq({t1, t2, t4, t5, t6, t7, t8, t10, t11})
    BY <2>1
  <2>3. IsList(T)
    BY ONLY <2>2, SeqIsList
  <2> QED BY <2>1, <2>3
<1> HIDE DEF T
<1>8. Stretch(T, c, {else, end}, {else, end})
  BY <1>4, <1>5, <1>6, <1>7 DEF Stretch, Does, t1, t2, t4, t5, t6, t7, t8, t10, t11
\* Not in code that is level: one of the two ways is a pop short.
<1>9. Stays(T)
  BY <1>2, AtExprIs DEF Stays
<1>10. ReturnLabel \notin {else, end}
  BY DEF else, end, Lab, ReturnLabel
<1> QED BY <1>1, <1>2, <1>4, <1>8, <1>9, <1>10, AtExprIs, LabelledStep DEF c

-----------------------------------------------------------------------------
\* Statements.  What leaves one goes to labels of the node around it.
LEMMA ExitsJoin ==
  /\ \A A, B, c : Exits(A \cup B, c) = Exits(A, c) \cup Exits(B, c)
  /\ \A A, B, c : A \subseteq B => Exits(A, c) \subseteq Exits(B, c)
  /\ \A c : Exits({}, c) = {}
  /\ \A A : Exits(A, Inside) = Exits(A, Now)
BY DEF Exits, Inside, Now

\* The label of the epilogue is not among them.
LEMMA ExitsAreInside == \A E, c : ReturnLabel \notin Exits(E, c)
BY DEF Exits, ReturnLabel, Lab

\* Out of a loop go those that neither break nor continue it.
LEMMA ExitsOfLoop ==
  ASSUME NEW E
  PROVE  Exits(E, InLoop) \subseteq {Lab("break", max_count), Lab("continue", max_count)}
                                      \cup Exits(E \ {"break", "continue"}, Now)
BY DEF Exits, InLoop

\* An absent statement is passed over.
LEMMA MaybeStretch ==
  ASSUME NEW s \in Below, NEW c
  PROVE  Stretch(Maybe(s), c, {}, Exits(Escapes(s), c))
<1>1. CASE s = Absent
  BY <1>1, NoStretch, WiderStretch DEF Maybe
<1>2. CASE s # Absent
  <2>1. Stretch(<<Stmt(s)>>, c, {}, Exits(Escapes(s), c))
    BY BelowDoes
  <2> QED BY <1>2, <2>1 DEF Maybe
<1> QED BY <1>1, <1>2

LEMMA TwoDo ==
  ASSUME NEW c, NEW t1, NEW w1, NEW n1, Does(t1, c, w1, n1),
         NEW t2, NEW w2, NEW n2, Does(t2, c, w2, n2), w1 \cap w2 = {}
  PROVE  Stretch(<<t1, t2>>, c, w1 \cup w2, n1 \cup n2)
<1>1. Stretch(<<t1>>, c, w1, n1) /\ Stretch(<<t2>>, c, w2, n2)
  BY OneDoes
<1>2. <<t1, t2>> = <<t1>> \o <<t2>>
  BY TwoInARow
<1>3. Stretch(<<t1>> \o <<t2>>, c, w1 \cup w2, n1 \cup n2)
  BY <1>1, StretchesJoin
<1> QED BY <1>2, <1>3

\* The two sides of a decision and its labels.
LEMMA BranchesStretch ==
  ASSUME NEW c, NEW yes, NEW N1, Stretch(yes, c, {}, N1), NEW no, NEW N2, Stretch(no, c, {}, N2)
  PROVE  LET W == {Lab("else", max_count), Lab("end", max_count)}
         IN Stretch(Branches(yes, no), c, W, W \cup N1 \cup N2)
<1> DEFINE else == Lab("else", max_count)
           end  == Lab("end", max_count)
           x    == <<CmpZero, Je(else)>>
           y    == <<Jmp(end), Label(else)>>
           z    == <<Label(end)>>
<1>1. else # end
  BY DEF Lab
<1>2. Branches(yes, no) = x \o yes \o y \o no \o z
  BY DEF Branches
<1> HIDE DEF else, end
<1>3. Does(CmpZero, c, {}, {}) /\ Does(Je(else), c, {}, {else}) /\ Does(Jmp(end), c, {}, {end})
      /\ Does(Label(else), c, {else}, {}) /\ Does(Label(end), c, {end}, {})
  BY PlainMoves, PlainDoes, JumpsDo, LabelDoes
<1>4. Stretch(x, c, {}, {else})
  <2>1. Stretch(x, c, {} \cup {}, {} \cup {else})
    BY <1>3, TwoDo
  <2> QED BY <2>1
<1>5. Stretch(y, c, {else}, {end})
  <2>1. Stretch(y, c, {} \cup {else}, {end} \cup {})
    BY <1>3, TwoDo
  <2> QED BY <2>1
<1>6. Stretch(z, c, {end}, {})
  BY <1>3, OneDoes
<1> HIDE DEF x, y, z
<1>7. Stretch(x \o yes, c, {} \cup {}, {else} \cup N1)
  BY <1>4, StretchesJoin
<1>8. Stretch(x \o yes, c, {}, {else} \cup N1)
  BY <1>7
<1>9. Stretch(x \o yes \o y, c, {} \cup {else}, ({else} \cup N1) \cup {end})
  BY <1>5, <1>8, StretchesJoin
<1>10. Stretch(x \o yes \o y, c, {else}, {else, end} \cup N1)
  <2>1. {} \cup {else} = {else} /\ ({else} \cup N1) \cup {end} = {else, end} \cup N1
    OBVIOUS
  <2> QED BY <1>9, <2>1
<1>11. Stretch(x \o yes \o y \o no, c, {else} \cup {}, ({else, end} \cup N1) \cup N2)
  BY <1>10, StretchesJoin
<1>12. Stretch(x \o yes \o y \o no \o z, c, ({else} \cup {}) \cup {end}, (({else, end} \cup N1) \cup N2) \cup {})
  <2>1. ({else} \cup {}) \cap {end} = {}
    BY <1>1
  <2> QED BY <1>6, <1>11, <2>1, StretchesJoin
<1>13. ({else} \cup {}) \cup {end} = {else, end}
       /\ (({else, end} \cup N1) \cup N2) \cup {} = {else, end} \cup N1 \cup N2
  OBVIOUS
<1>14. Stretch(Branches(yes, no), c, {else, end}, {else, end} \cup N1 \cup N2)
  BY <1>2, <1>12, <1>13
<1> QED BY <1>14 DEF else, end

LEMMA BranchesStay ==
  ASSUME Node(Head(todo)), NEW yes, Stays(yes), NEW no, Stays(no)
  PROVE  Stays(Branches(yes, no))
<1> DEFINE else == Lab("else", max_count)
           end  == Lab("end", max_count)
           x    == <<CmpZero, Je(else)>>
           y    == <<Jmp(end), Label(else)>>
           z    == <<Label(end)>>
<1>1. Branches(yes, no) = x \o yes \o y \o no \o z
  BY DEF Branches
<1> HIDE DEF else, end
<1>2. Stays(x) /\ Stays(y) /\ Stays(z)
  <2>1. \A a, b : Rests(a) /\ Rests(b) => Stays(<<a, b>>)
    BY StaysTwo
  <2> QED BY <2>1, RestsOwn, RestsLabels, StaysOne
<1> HIDE DEF x, y, z
<1>3. Stays(x \o yes \o y)
  BY <1>2, StaysJoin
<1>4. Stays(x \o yes \o y \o no)
  BY <1>3, StaysJoin
<1> QED BY <1>1, <1>2, <1>4, StaysJoin

LEMMA BranchLabels ==
  \A l \in {Lab("else", max_count), Lab("end", max_count)} : Fresh(l, max_count) /\ l # ReturnLabel
BY DEF Lab, Fresh, ReturnLabel

LEMMA IfStep == IInv /\ If => IInv'
<1> SUFFICES ASSUME IInv, If PROVE IInv'
  OBVIOUS
<1> DEFINE s  == Head(todo).s
           x  == <<Expr(s.cond)>>
           B  == Branches(<<Stmt(s.yes)>>, Maybe(s.no))
           T  == x \o B
           c  == Inside
           W  == {Lab("else", max_count), Lab("end", max_count)}
           N1 == Exits(Escapes(s.yes), c)
           N2 == Exits(Escapes(s.no), c)
<1>1. Labelled(T) /\ AtStmt({"if"})
  BY DEF If
<1>2. /\ s.cond \in Own /\ s.yes \in Below /\ s.no \in Below
      /\ Needs(Head(todo), Now) = Exits(Escapes(s.yes) \cup Escapes(s.no), Now)
  <2>1. s.kind = "if" /\ IsStmt(s, Own, Below, Deferred) /\ Needs(Head(todo), Now) = Exits(EscapesFrom(s), Now)
    BY <1>1, AtStmtIs
  <2>2. EscapesFrom(s) = Escapes(s.yes) \cup Escapes(s.no)
    BY <2>1 DEF EscapesFrom
  <2> QED BY <2>1, <2>2 DEF IsStmt
<1>3. Stretch(<<Stmt(s.yes)>>, c, {}, N1) /\ Stretch(Maybe(s.no), c, {}, N2)
  BY <1>2, BelowDoes, MaybeStretch
<1>4. Stretch(B, c, W, W \cup N1 \cup N2)
  <2> HIDE DEF c, N1, N2
  <2> QED BY <1>3, BranchesStretch
<1>5. Stretch(x, c, {}, {})
  BY <1>2, OwnDoes, OneDoes
<1>6. \A l \in W \cup N1 \cup N2 : l \in W \/ l \in Needs(Head(todo), Now) \/ l = ReturnLabel
  BY <1>2, ExitsJoin
<1>7. \A l \in W : Fresh(l, max_count)
  BY BranchLabels
<1>s. Stays(T) /\ ReturnLabel \notin W \cup N1 \cup N2
  <2>1. Node(Head(todo))
    BY <1>1, AtStmtIs DEF Node
  <2>2. Stays(x) /\ Stays(<<Stmt(s.yes)>>) /\ Stays(Maybe(s.no))
    BY <1>2, <2>1, RestsOwn, RestsBelow, StaysOne
  <2>3. Stays(B)
    BY <2>1, <2>2, BranchesStay
  <2>4. ReturnLabel \notin W \cup N1 \cup N2
    BY BranchLabels, ExitsAreInside
  <2> HIDE DEF x, B
  <2> QED BY <2>2, <2>3, <2>4, StaysJoin
<1> HIDE DEF x, B, N1, N2, W, c
<1>8. Stretch(T, c, {} \cup W, {} \cup (W \cup N1 \cup N2))
  BY <1>4, <1>5, StretchesJoin
<1>9. Stretch(T, c, W, W \cup N1 \cup N2)
  <2>1. {} \cup W = W /\ {} \cup (W \cup N1 \cup N2) = W \cup N1 \cup N2
    OBVIOUS
  <2> HIDE DEF T
  <2> QED BY <1>8, <2>1
<1> HIDE DEF T
<1>10. /\ todo # <<>> /\ Head(todo).op \notin {"restore", "ins"} /\ Writes(Head(todo), Now) = {}
       /\ ~Closing(Head(todo))
  BY <1>1, AtStmtIs
<1> QED BY <1>1, <1>6, <1>7, <1>s, <1>9, <1>10, LabelledStep DEF c

LEMMA WithStep == IInv /\ With => IInv'
<1> SUFFICES ASSUME IInv, With PROVE IInv'
  OBVIOUS
<1> DEFINE s  == Head(todo).s
           x  == <<Expr(s.cond), Expr(s.cond.left)>>
           y  == <<Stmt(s.yes), Expr(ExitCall(s))>>
           B  == Branches(y, Maybe(s.no))
           T  == x \o B
           c  == Inside
           W  == {Lab("else", max_count), Lab("end", max_count)}
           N1 == Exits(Escapes(s.yes), c)
           N2 == Exits(Escapes(s.no), c)
<1>1. Labelled(T) /\ AtStmt({"with"})
  BY DEF With
<1>2. /\ s.cond \in Own /\ s.cond.left \in Own /\ ExitCall(s) \in Own /\ s.yes \in Below /\ s.no \in Below
      /\ Needs(Head(todo), Now) = Exits(Escapes(s.yes) \cup Escapes(s.no), Now)
  <2>1. s.kind = "with" /\ IsStmt(s, Own, Below, Deferred) /\ Needs(Head(todo), Now) = Exits(EscapesFrom(s), Now)
    BY <1>1, AtStmtIs
  <2>2. EscapesFrom(s) = Escapes(s.yes) \cup Escapes(s.no)
    BY <2>1 DEF EscapesFrom
  <2> QED BY <2>1, <2>2 DEF IsStmt
<1>3. Stretch(y, c, {}, N1)
  <2>1. Does(Stmt(s.yes), c, {}, N1) /\ Does(Expr(ExitCall(s)), c, {}, {})
    BY <1>2, BelowDoes, OwnDoes
  <2> HIDE DEF N1, c
  <2>2. Stretch(y, c, {} \cup {}, N1 \cup {})
    BY <2>1, TwoDo
  <2>3. {} \cup {} = {} /\ N1 \cup {} = N1
    OBVIOUS
  <2> HIDE DEF y
  <2> QED BY <2>2, <2>3
<1>4. Stretch(Maybe(s.no), c, {}, N2)
  BY <1>2, MaybeStretch
<1>5. Stretch(B, c, W, W \cup N1 \cup N2)
  <2> HIDE DEF c, y, N1, N2
  <2> QED BY <1>3, <1>4, BranchesStretch
<1>6. Stretch(x, c, {}, {})
  BY <1>2, OwnExprs, PlainExprs, Plain2, PlainStretch
<1>7. \A l \in W \cup N1 \cup N2 : l \in W \/ l \in Needs(Head(todo), Now) \/ l = ReturnLabel
  BY <1>2, ExitsJoin
<1>8. \A l \in W : Fresh(l, max_count)
  BY BranchLabels
<1>s. Stays(T) /\ ReturnLabel \notin W \cup N1 \cup N2
  <2>1. Node(Head(todo))
    BY <1>1, AtStmtIs DEF Node
  <2>2. Stays(x) /\ Stays(y) /\ Stays(Maybe(s.no))
    BY <1>2, <2>1, RestsOwn, RestsBelow, StaysTwo
  <2>3. Stays(B)
    <3> HIDE DEF y
    <3> QED BY <2>1, <2>2, BranchesStay
  <2>4. ReturnLabel \notin W \cup N1 \cup N2
    BY BranchLabels, ExitsAreInside
  <2> HIDE DEF x, B
  <2> QED BY <2>2, <2>3, <2>4, StaysJoin
<1> HIDE DEF x, B, N1, N2, W, c
<1>9. Stretch(T, c, {} \cup W, {} \cup (W \cup N1 \cup N2))
  BY <1>5, <1>6, StretchesJoin
<1>10. Stretch(T, c, W, W \cup N1 \cup N2)
  <2>1. {} \cup W = W /\ {} \cup (W \cup N1 \cup N2) = W \cup N1 \cup N2
    OBVIOUS
  <2> HIDE DEF T
  <2> QED BY <1>9, <2>1
<1> HIDE DEF T
<1>11. /\ todo # <<>> /\ Head(todo).op \notin {"restore", "ins"} /\ Writes(Head(todo), Now) = {}
       /\ ~Closing(Head(todo))
  BY <1>1, AtStmtIs
<1> QED BY <1>1, <1>7, <1>8, <1>s, <1>10, <1>11, LabelledStep DEF c

LEMMA DoUnlessStep == IInv /\ DoUnless => IInv'
<1> SUFFICES ASSUME IInv, DoUnless PROVE IInv'
  OBVIOUS
<1> DEFINE s    == Head(todo).s
           skip == Lab("skip_unless", max_count)
           T    == <<Expr(s.cond), CmpZero, Jne(skip), Stmt(s.body), Label(skip)>>
           c    == Inside
           N    == Exits(Escapes(s.body), c)
<1>1. Labelled(T) /\ AtStmt({"unless"})
  BY DEF DoUnless
<1>2. s.cond \in Own /\ s.body \in Below /\ Needs(Head(todo), Now) = Exits(Escapes(s.body), Now)
  <2>1. s.kind = "unless" /\ IsStmt(s, Own, Below, Deferred) /\ Needs(Head(todo), Now) = Exits(EscapesFrom(s), Now)
    BY <1>1, AtStmtIs
  <2>2. EscapesFrom(s) = Escapes(s.body)
    BY <2>1 DEF EscapesFrom
  <2> QED BY <2>1, <2>2 DEF IsStmt
<1>3. Fresh(skip, max_count)
  BY DEF Lab, Fresh
<1>4. Does(Expr(s.cond), c, {}, {}) /\ Does(CmpZero, c, {}, {})
  BY <1>2, OwnDoes, PlainMoves, PlainDoes
<1>5. Does(Jne(skip), c, {}, {skip}) /\ Does(Label(skip), c, {skip}, {}) /\ Does(Stmt(s.body), c, {}, N)
  BY <1>2, JumpsDo, LabelDoes, BelowDoes
<1>6. \A l \in {skip} \cup N : l \in {skip} \/ l \in Needs(Head(todo), Now) \/ l = ReturnLabel
  BY <1>2, ExitsJoin
<1> DEFINE t1 == Expr(s.cond)
           t2 == CmpZero
           t3 == Jne(skip)
           t4 == Stmt(s.body)
           t5 == Label(skip)
           P == {t1, t2, t3, t4, t5}
<1>r. \A t \in P : Rests(t)
  <2>1. Node(Head(todo))
    BY <1>1, AtStmtIs DEF Node
  <2> QED BY <1>2, <2>1, RestsOwn, RestsLabels, RestsBelow
<1>n. ReturnLabel \notin {skip} \cup N
  BY ExitsAreInside DEF Lab, ReturnLabel
<1> HIDE DEF skip, N, c, t1, t2, t3, t4, t5
<1>7. T \in Seq(P) /\ IsList(T) /\ Len(T) = 5 /\ T[1] = t1 /\ T[2] = t2 /\ T[3] = t3 /\ T[4] = t4 /\ T[5] = t5
  <2>1. T = <<t1, t2, t3, t4, t5>>
    BY DEF t1, t2, t3, t4, t5
  <2> HIDE DEF T
  <2>2. T \in Seq(P)
    BY <2>1
  <2>3. IsList(T)
    BY ONLY <2>2, SeqIsList
  <2> QED BY <2>1, <2>2, <2>3
<1> HIDE DEF T, P
<1>s. Stays(T)
  BY <1>r, <1>7, StaysOver
<1>8. Stretch(T, c, {skip}, {skip} \cup N)
  BY <1>4, <1>5, <1>7 DEF Stretch, Does, t1, t2, t3, t4, t5
<1>9. /\ todo # <<>> /\ Head(todo).op \notin {"restore", "ins"} /\ Writes(Head(todo), Now) = {}
      /\ ~Closing(Head(todo))
  BY <1>1, AtStmtIs
<1> QED BY <1>1, <1>3, <1>6, <1>8, <1>9, <1>n, <1>s, LabelledStep DEF c

\* The same for labels and needs under other names.
LEMMA JoinTo ==
  ASSUME NEW c, NEW T, NEW W1, NEW N1, Stretch(T, c, W1, N1), NEW U, NEW W2, NEW N2, Stretch(U, c, W2, N2),
         W1 \cap W2 = {}, NEW W, W = W1 \cup W2, NEW N, N1 \cup N2 \subseteq N
  PROVE  Stretch(T \o U, c, W, N)
BY StretchesJoin, WiderStretch

-----------------------------------------------------------------------------
\* Loops hold what breaks or continues them.
LoopLabels == {Lab("begin", max_count), Lab("break", max_count), Lab("continue", max_count)}

LEMMA LoopHolds ==
  ASSUME IInv, NEW kinds, AtStmt(kinds), "case" \notin kinds, NEW T, LoopBegins(T),
         NEW E, EscapesFrom(Head(todo).s) = E \ {"break", "continue"},
         Stretch(T, InLoop, LoopLabels, LoopLabels \cup Exits(E, InLoop)), Stays(T)
  PROVE  IInv'
<1> DEFINE N == LoopLabels \cup Exits(E, InLoop)
<1>1. /\ todo # <<>> /\ Head(todo).op \notin {"restore", "ins"} /\ Writes(Head(todo), Now) = {}
      /\ ~Closing(Head(todo))
      /\ Needs(Head(todo), Now) = Exits(E \ {"break", "continue"}, Now)
  BY AtStmtIs
<1>2. \A l \in LoopLabels : Fresh(l, max_count)
  BY DEF LoopLabels, Lab, Fresh
<1>3. \A l \in N : l \in LoopLabels \/ l \in Needs(Head(todo), Now) \/ l = ReturnLabel
  <2>1. N \subseteq LoopLabels \cup Exits(E \ {"break", "continue"}, Now)
    BY ExitsOfLoop DEF LoopLabels
  <2> QED BY <1>1, <2>1
<1>4. Stretch(T, InLoop, LoopLabels, N)
  OBVIOUS
<1>5. ReturnLabel \notin N
  BY ExitsAreInside DEF LoopLabels, Lab, ReturnLabel
<1> HIDE DEF N
<1> QED BY <1>1, <1>2, <1>3, <1>4, <1>5, LoopStep

\* What the parts of loops do.
LEMMA LoopParts ==
  ASSUME NEW c
  PROVE  LET begin    == Lab("begin", max_count)
             break    == Lab("break", max_count)
             continue == Lab("continue", max_count)
         IN /\ LoopLabels = {begin, break, continue} /\ begin # break /\ begin # continue /\ break # continue
            /\ Does(Begin, c, {begin}, {}) /\ Does(BeginAgain, c, {}, {begin})
            /\ Does(ContinueHere, c, {continue}, {}) /\ Does(BreakHere, c, {break}, {})
            /\ Does(Jne(begin), c, {}, {begin}) /\ Does(Ins([op |-> "jge", to |-> break]), c, {}, {break})
            /\ Stretch(LeaveIfZero, c, {}, {break})
<1> DEFINE begin    == Lab("begin", max_count)
           break    == Lab("break", max_count)
           continue == Lab("continue", max_count)
<1>1. LoopLabels = {begin, break, continue} /\ begin # break /\ begin # continue /\ break # continue
  BY DEF LoopLabels, Lab
<1> HIDE DEF begin, break, continue
<1>2. /\ Does(Label(begin), c, {begin}, {}) /\ Does(Jmp(begin), c, {}, {begin})
      /\ Does(Label(continue), c, {continue}, {}) /\ Does(Label(break), c, {break}, {})
      /\ Does(Jne(begin), c, {}, {begin}) /\ Does(Ins([op |-> "jge", to |-> break]), c, {}, {break})
  BY LabelDoes, JumpsDo
<1>3. Stretch(<<CmpZero, Je(break)>>, c, {}, {break})
  <2>1. Does(CmpZero, c, {}, {}) /\ Does(Je(break), c, {}, {break})
    BY PlainMoves, PlainDoes, JumpsDo
  <2>2. Stretch(<<CmpZero, Je(break)>>, c, {} \cup {}, {} \cup {break})
    BY <2>1, TwoDo
  <2> QED BY <2>2
<1> QED BY <1>1, <1>2, <1>3 DEF Begin, BeginAgain, ContinueHere, BreakHere, LeaveIfZero, begin, break, continue

LEMMA LoopRests ==
  ASSUME Node(Head(todo))
  PROVE  /\ Rests(Begin) /\ Rests(BeginAgain) /\ Rests(ContinueHere) /\ Rests(BreakHere)
         /\ Rests(Jne(Lab("begin", max_count))) /\ Stays(LeaveIfZero)
<1>1. Rests(CmpZero) /\ Rests(Je(Lab("break", max_count)))
  BY RestsOwn, RestsLabels
<1>2. Stays(LeaveIfZero)
  BY <1>1, StaysTwo DEF LeaveIfZero
<1> QED BY <1>2, RestsLabels DEF Begin, BeginAgain, ContinueHere, BreakHere

LEMMA ForeverStep == IInv /\ Forever => IInv'
<1> SUFFICES ASSUME IInv, Forever PROVE IInv'
  OBVIOUS
<1> DEFINE s        == Head(todo).s
           T        == <<Begin, Stmt(s.body), ContinueHere, BeginAgain, BreakHere>>
           c        == InLoop
           N        == Exits(Escapes(s.body), c)
           begin    == Lab("begin", max_count)
           break    == Lab("break", max_count)
           continue == Lab("continue", max_count)
<1>1. LoopBegins(T) /\ AtStmt({"loop"})
  BY DEF Forever
<1>2. s.body \in Below /\ EscapesFrom(s) = Escapes(s.body) \ {"break", "continue"}
  BY <1>1, AtStmtIs DEF IsStmt, EscapesFrom
<1>3. /\ LoopLabels = {begin, break, continue} /\ begin # break /\ begin # continue /\ break # continue
      /\ Does(Begin, c, {begin}, {}) /\ Does(BeginAgain, c, {}, {begin})
      /\ Does(ContinueHere, c, {continue}, {}) /\ Does(BreakHere, c, {break}, {})
  BY LoopParts
<1>4. Does(Stmt(s.body), c, {}, N)
  BY <1>2, BelowDoes
<1> DEFINE t1 == Begin
           t2 == Stmt(s.body)
           t3 == ContinueHere
           t4 == BeginAgain
           t5 == BreakHere
           P == {t1, t2, t3, t4, t5}
<1>r. \A t \in P : Rests(t)
  <2>1. Node(Head(todo))
    BY <1>1, AtStmtIs DEF Node
  <2> QED BY <1>2, <2>1, LoopRests, RestsBelow
<1> HIDE DEF begin, break, continue, N, c, t1, t2, t3, t4, t5
<1>5. T \in Seq(P) /\ IsList(T) /\ Len(T) = 5 /\ T[1] = t1 /\ T[2] = t2 /\ T[3] = t3 /\ T[4] = t4 /\ T[5] = t5
  <2>1. T = <<t1, t2, t3, t4, t5>>
    BY DEF t1, t2, t3, t4, t5
  <2> HIDE DEF T
  <2>2. T \in Seq(P)
    BY <2>1
  <2>3. IsList(T)
    BY ONLY <2>2, SeqIsList
  <2> QED BY <2>1, <2>2, <2>3
<1> HIDE DEF T, P
<1>s. Stays(T)
  BY <1>r, <1>5, StaysOver
<1>6. Stretch(T, c, LoopLabels, LoopLabels \cup N)
  BY <1>3, <1>4, <1>5 DEF Stretch, Does, t1, t2, t3, t4, t5
<1> QED BY <1>1, <1>2, <1>6, <1>s, LoopHolds DEF c, N

LEMMA DoWhileStep == IInv /\ DoWhile => IInv'
<1> SUFFICES ASSUME IInv, DoWhile PROVE IInv'
  OBVIOUS
<1> DEFINE s        == Head(todo).s
           c        == InLoop
           N        == Exits(Escapes(s.body), c)
           begin    == Lab("begin", max_count)
           break    == Lab("break", max_count)
           continue == Lab("continue", max_count)
           T        == <<Begin, Stmt(s.body), ContinueHere, Expr(s.cond), CmpZero, Jne(begin), BreakHere>>
<1>1. LoopBegins(T) /\ AtStmt({"dowhile"})
  BY DEF DoWhile
<1>2. s.cond \in Own /\ s.body \in Below /\ EscapesFrom(s) = Escapes(s.body) \ {"break", "continue"}
  BY <1>1, AtStmtIs DEF IsStmt, EscapesFrom
<1>3. /\ LoopLabels = {begin, break, continue} /\ begin # break /\ begin # continue /\ break # continue
      /\ Does(Begin, c, {begin}, {}) /\ Does(Jne(begin), c, {}, {begin})
      /\ Does(ContinueHere, c, {continue}, {}) /\ Does(BreakHere, c, {break}, {})
  BY LoopParts
<1>4. Does(Stmt(s.body), c, {}, N) /\ Does(Expr(s.cond), c, {}, {}) /\ Does(CmpZero, c, {}, {})
  BY <1>2, BelowDoes, OwnDoes, PlainMoves, PlainDoes
<1> DEFINE t1 == Begin
           t2 == Stmt(s.body)
           t3 == ContinueHere
           t4 == Expr(s.cond)
           t5 == CmpZero
           t6 == Jne(begin)
           t7 == BreakHere
           P == {t1, t2, t3, t4, t5, t6, t7}
<1>r. \A t \in P : Rests(t)
  <2>1. Node(Head(todo))
    BY <1>1, AtStmtIs DEF Node
  <2> QED BY <1>2, <2>1, LoopRests, RestsBelow, RestsOwn
<1> HIDE DEF begin, break, continue, N, c, t1, t2, t3, t4, t5, t6, t7
<1>5. /\ T \in Seq(P) /\ IsList(T) /\ Len(T) = 7
      /\ T[1] = t1 /\ T[2] = t2 /\ T[3] = t3 /\ T[4] = t4 /\ T[5] = t5 /\ T[6] = t6 /\ T[7] = t7
  <2>1. T = <<t1, t2, t3, t4, t5, t6, t7>>
    BY DEF t1, t2, t3, t4, t5, t6, t7
  <2> HIDE DEF T
  <2>2. T \in Seq(P)
    BY <2>1
  <2>3. IsList(T)
    BY ONLY <2>2, SeqIsList
  <2> QED BY <2>1, <2>2, <2>3
<1> HIDE DEF T, P
<1>s. Stays(T)
  BY <1>r, <1>5, StaysOver
<1>6. Stretch(T, c, LoopLabels, LoopLabels \cup N)
  BY <1>3, <1>4, <1>5 DEF Stretch, Does, t1, t2, t3, t4, t5, t6, t7
<1> QED BY <1>1, <1>2, <1>6, <1>s, LoopHolds DEF c, N

LEMMA WhileStep == IInv /\ While => IInv'
<1> SUFFICES ASSUME IInv, While PROVE IInv'
  OBVIOUS
<1> DEFINE s        == Head(todo).s
           c        == InLoop
           N        == Exits(Escapes(s.body), c)
           begin    == Lab("begin", max_count)
           break    == Lab("break", max_count)
           continue == Lab("continue", max_count)
           x        == <<Begin, Expr(s.cond)>>
           y        == <<Stmt(s.body), ContinueHere, BeginAgain, BreakHere>>
           T        == x \o LeaveIfZero \o y
<1>1. LoopBegins(T) /\ AtStmt({"while"})
  BY DEF While
<1>2. s.cond \in Own /\ s.body \in Below /\ EscapesFrom(s) = Escapes(s.body) \ {"break", "continue"}
  BY <1>1, AtStmtIs DEF IsStmt, EscapesFrom
<1>3. /\ LoopLabels = {begin, break, continue} /\ begin # break /\ begin # continue /\ break # continue
      /\ Does(Begin, c, {begin}, {}) /\ Does(BeginAgain, c, {}, {begin})
      /\ Does(ContinueHere, c, {continue}, {}) /\ Does(BreakHere, c, {break}, {})
      /\ Stretch(LeaveIfZero, c, {}, {break})
  BY LoopParts
<1>4. Does(Stmt(s.body), c, {}, N) /\ Does(Expr(s.cond), c, {}, {})
  BY <1>2, BelowDoes, OwnDoes
<1> DEFINE t1 == Stmt(s.body)
           t2 == ContinueHere
           t3 == BeginAgain
           t4 == BreakHere
           l  == LeaveIfZero
           P == {t1, t2, t3, t4}
<1>r. (\A t \in P : Rests(t)) /\ Stays(x) /\ Stays(l)
  <2>1. Node(Head(todo))
    BY <1>1, AtStmtIs DEF Node
  <2> QED BY <1>2, <2>1, LoopRests, RestsBelow, RestsOwn, StaysTwo
<1> HIDE DEF begin, break, continue, N, c
<1>5. Stretch(x, c, {begin}, {})
  <2>1. Stretch(x, c, {begin} \cup {}, {} \cup {})
    BY <1>3, <1>4, TwoDo
  <2> QED BY <2>1
<1>6. y \in Seq(P) /\ IsList(y) /\ Len(y) = 4 /\ y[1] = t1 /\ y[2] = t2 /\ y[3] = t3 /\ y[4] = t4
  <2>1. y = <<t1, t2, t3, t4>>
    OBVIOUS
  <2> HIDE DEF y, t1, t2, t3, t4
  <2>2. y \in Seq(P)
    BY <2>1
  <2>3. IsList(y)
    BY ONLY <2>2, SeqIsList
  <2> QED BY <2>1, <2>2, <2>3
<1>7. Stretch(y, c, {continue, break}, {begin} \cup N)
  <2> HIDE DEF y
  <2> QED BY <1>3, <1>4, <1>6 DEF Stretch, Does
<1>8. Stretch(l, c, {}, {break})
  BY <1>3
<1>9. T = x \o l \o y
  OBVIOUS
<1> HIDE DEF x, y, l, T, P
<1>s. Stays(T)
  <2>1. Stays(y)
    BY <1>r, <1>6, StaysOver
  <2>2. Stays(x \o l)
    BY <1>r, StaysJoin
  <2> QED BY <1>9, <2>1, <2>2, StaysJoin
<1>10. Stretch(x \o l, c, {begin}, {break})
  <2>1. {begin} \cap {} = {} /\ {begin} = {begin} \cup {} /\ {} \cup {break} \subseteq {break}
    OBVIOUS
  <2> QED BY <1>5, <1>8, <2>1, JoinTo
<1>11. Stretch(T, c, LoopLabels, LoopLabels \cup N)
  <2>1. /\ {begin} \cap {continue, break} = {} /\ LoopLabels = {begin} \cup {continue, break}
        /\ {break} \cup ({begin} \cup N) \subseteq LoopLabels \cup N
    BY <1>3
  <2> QED BY <1>7, <1>9, <1>10, <2>1, JoinTo
<1> QED BY <1>1, <1>2, <1>11, <1>s, LoopHolds DEF c, N

\* The counter and its bound are pushed and popped without being counted: below
\* the body the stack is two slots higher than cg->depth knows.
LEMMA RangeBody ==
  ASSUME Node(Head(todo)), NEW s \in Below
  PROVE  Stays(<<RawPush("rdi"), RawPush("rdx"), Stmt(s), RawPop("rdx"), RawPop("rdi")>>)
<1> DEFINE a == RawPush("rdi")
           b == RawPush("rdx")
           c == RawPop("rdx")
           d == RawPop("rdi")
           t == Stmt(s)
<1>1. SUFFICES ASSUME Level, NEW p \in Levels, p[2] = depth, Bears(Head(todo), p)
               PROVE  Leads(<<a, b, t, c, d>>, p[1], p, p)
  BY DEF Stays
<1> DEFINE q == <<p[1] + 1, p[2]>>
           r == <<p[1] + 2, p[2]>>
<1>2. p[1] \in Nat /\ p[2] \in Int /\ p = <<p[1], p[2]>>
  BY DEF Levels
<1>3. q \in Levels /\ r \in Levels
  BY <1>2 DEF Levels
<1>4. ASSUME NEW x, NEW y \in Levels, NEW z \in Levels, z = <<y[1] + 1, y[2]>>
      PROVE  Takes(RawPush(x), p[1], y, z)
  <2> DEFINE i == [op |-> "push", from |-> x, slots |-> 1]
             k == RawPush(x)
  <2>1. k.op = "ins" /\ k.ins.op = "push" /\ k.ins.slots = 1 /\ k.adds = 0
    BY DEF RawPush, Ins
  <2> HIDE DEF k
  <2>2. y[2] \in Int /\ y[2] + 0 = y[2] /\ 1 \in Nat
    BY DEF Levels
  <2>3. z = Past(k, y)
    BY <1>4, <2>1, <2>2 DEF Past, Effect
  <2> QED BY <2>1, <2>2, <2>3 DEF Takes, Bears, Counts, Tells, Marks, Leaves, IsJump, k
<1>5. ASSUME NEW x, NEW y \in Levels, NEW z \in Levels, y = <<z[1] + 1, z[2]>>
      PROVE  Takes(RawPop(x), p[1], y, z)
  <2> DEFINE k == RawPop(x)
  <2>1. k.op = "ins" /\ k.ins.op = "pop" /\ k.adds = 0
    BY DEF RawPop, Ins
  <2> HIDE DEF k
  <2>2. y[2] \in Int /\ y[2] + 0 = z[2] /\ y[1] + (-1) = z[1] /\ z = <<z[1], z[2]>>
    BY <1>5 DEF Levels
  <2>3. z = Past(k, y)
    BY <2>1, <2>2 DEF Past, Effect
  <2> QED BY <2>1, <2>3 DEF Takes, Bears, Counts, Tells, Marks, Leaves, IsJump, k
<1>6. q = <<p[1] + 1, p[2]>> /\ r = <<q[1] + 1, q[2]>>
  BY <1>2
<1>7. Takes(t, p[1], r, r)
  BY <1>1, BelowTakes
<1> HIDE DEF q, r
<1>8. Takes(a, p[1], p, q) /\ Takes(b, p[1], q, r) /\ Takes(c, p[1], r, q) /\ Takes(d, p[1], q, p)
  BY <1>3, <1>4, <1>5, <1>6
<1> HIDE DEF a, b, c, d, t
<1>9. Leads(<<a>>, p[1], p, q) /\ Leads(<<b>>, p[1], q, r) /\ Leads(<<t>>, p[1], r, r)
      /\ Leads(<<c>>, p[1], r, q) /\ Leads(<<d>>, p[1], q, p)
  BY <1>7, <1>8, LeadsOne
<1>10. <<a, b, t, c, d>> = <<a>> \o <<b>> \o <<t>> \o <<c>> \o <<d>>
  <2>1. <<a, b>> = <<a>> \o <<b>>
    BY TwoInARow
  <2>2. <<a, b, t>> = <<a, b>> \o <<t>>
    OBVIOUS
  <2>3. <<a, b, t, c>> = <<a, b, t>> \o <<c>>
    OBVIOUS
  <2>4. <<a, b, t, c, d>> = <<a, b, t, c>> \o <<d>>
    OBVIOUS
  <2> QED BY ONLY <2>1, <2>2, <2>3, <2>4
<1>11. Leads(<<a>> \o <<b>> \o <<t>>, p[1], p, r)
  BY <1>9, LeadsJoin
<1>12. Leads(<<a>> \o <<b>> \o <<t>> \o <<c>>, p[1], p, q)
  BY <1>9, <1>11, LeadsJoin
<1> QED BY <1>9, <1>10, <1>12, LeadsJoin

LEMMA ForRangeStep == IInv /\ ForRange => IInv'
<1> SUFFICES ASSUME IInv, ForRange PROVE IInv'
  OBVIOUS
<1> DEFINE s        == Head(todo).s
           c        == InLoop
           N        == Exits(Escapes(s.body), c)
           begin    == Lab("begin", max_count)
           break    == Lab("break", max_count)
           continue == Lab("continue", max_count)
           jge      == Ins([op |-> "jge", to |-> break])
           T        == <<Expr(s.low), Push, Expr(s.high), Mov("rax", "rdx"), Pop("rdi"), Begin, jge,
                         RawPush("rdi"), RawPush("rdx"), Stmt(s.body), RawPop("rdx"), RawPop("rdi"),
                         ContinueHere, Ins([op |-> "inc"]), BeginAgain, BreakHere>>
<1>1. LoopBegins(T) /\ AtStmt({"range"})
  BY DEF ForRange
<1>2. /\ s.low \in Own /\ s.high \in Own /\ s.body \in Below
      /\ EscapesFrom(s) = Escapes(s.body) \ {"break", "continue"}
  BY <1>1, AtStmtIs DEF IsStmt, EscapesFrom
<1>3. /\ LoopLabels = {begin, break, continue} /\ begin # break /\ begin # continue /\ break # continue
      /\ Does(Begin, c, {begin}, {}) /\ Does(BeginAgain, c, {}, {begin}) /\ Does(jge, c, {}, {break})
      /\ Does(ContinueHere, c, {continue}, {}) /\ Does(BreakHere, c, {break}, {})
  BY LoopParts
<1>4. /\ Does(Stmt(s.body), c, {}, N) /\ Does(Expr(s.low), c, {}, {}) /\ Does(Expr(s.high), c, {}, {})
      /\ Does(Push, c, {}, {}) /\ Does(Pop("rdi"), c, {}, {}) /\ Does(Mov("rax", "rdx"), c, {}, {})
      /\ Does(RawPush("rdi"), c, {}, {}) /\ Does(RawPush("rdx"), c, {}, {})
      /\ Does(RawPop("rdi"), c, {}, {}) /\ Does(RawPop("rdx"), c, {}, {}) /\ Does(Ins([op |-> "inc"]), c, {}, {})
  <2>1. IsPlain(Ins([op |-> "inc"]))
    BY PlainIns
  <2> QED BY <1>2, <2>1, BelowDoes, OwnDoes, PlainMoves, PlainStack, PlainDoes
<1> DEFINE t1 == Expr(s.low)
           t2 == Push
           t3 == Expr(s.high)
           t4 == Mov("rax", "rdx")
           t5 == Pop("rdi")
           t6 == Begin
           t8 == RawPush("rdi")
           t9 == RawPush("rdx")
           t10 == Stmt(s.body)
           t11 == RawPop("rdx")
           t12 == RawPop("rdi")
           t13 == ContinueHere
           t14 == Ins([op |-> "inc"])
           t15 == BeginAgain
           t16 == BreakHere
<1>s. Stays(T)
  <2> DEFINE x == <<t1, t2, t3, t4, t5>>
             y == <<t6, jge>>
             z == <<t8, t9, t10, t11, t12>>
             P == {t13, t14, t15, t16}
             u == <<t13, t14, t15, t16>>
  <2>1. Node(Head(todo))
    BY <1>1, AtStmtIs DEF Node
  <2>2. Stays(x)
    <3>1. Calm(x, 0, 0)
      <4>1. IsCalm(t1, 0, 0) /\ IsCalm(t2, 0, 1) /\ IsCalm(t3, 1, 1) /\ IsCalm(t4, 1, 1) /\ IsCalm(t5, 1, 0)
        BY <1>2, CalmExprs, CalmStack, CalmMoves
      <4> HIDE DEF t1, t2, t3, t4, t5
      <4> QED BY <4>1, Calm5
    <3> HIDE DEF x
    <3> QED BY <2>1, <3>1, StaysCalm
  <2>3. Stays(y)
    BY <2>1, LoopRests, RestsLabels, StaysTwo
  <2>4. Stays(z)
    BY <1>2, <2>1, RangeBody
  <2>5. \A t \in P : Rests(t)
    <3>1. IsCalm(t14, 0, 0)
      BY CalmIns
    <3> QED BY <2>1, <3>1, LoopRests, RestsCalm
  <2> HIDE DEF t1, t2, t3, t4, t5, t6, jge, t8, t9, t10, t11, t12, t13, t14, t15, t16
  <2>6. u \in Seq(P)
    OBVIOUS
  <2>7. Stays(u)
    <3> HIDE DEF u, P
    <3> QED BY <2>5, <2>6, StaysOver
  <2>8. <<t1, t2, t3, t4, t5, t6, jge, t8, t9, t10, t11, t12, t13, t14, t15, t16>> = x \o y \o z \o u
    OBVIOUS
  <2>9. T = x \o y \o z \o u
    BY <2>8 DEF t1, t2, t3, t4, t5, t6, jge, t8, t9, t10, t11, t12, t13, t14, t15, t16
  <2> HIDE DEF x, y, z, u, T
  <2>10. Stays(x \o y \o z)
    BY <2>2, <2>3, <2>4, StaysJoin
  <2> QED BY <2>7, <2>9, <2>10, StaysJoin
<1> HIDE DEF begin, break, continue, jge, N, c, t1, t2, t3, t4, t5, t6, t8, t9, t10, t11, t12, t13, t14, t15, t16
<1>5. /\ IsList(T) /\ Len(T) = 16
      /\ T[1] = t1 /\ T[2] = t2 /\ T[3] = t3 /\ T[4] = t4 /\ T[5] = t5 /\ T[6] = t6 /\ T[7] = jge /\ T[8] = t8
      /\ T[9] = t9 /\ T[10] = t10 /\ T[11] = t11 /\ T[12] = t12 /\ T[13] = t13 /\ T[14] = t14 /\ T[15] = t15
      /\ T[16] = t16
  <2>1. T = <<t1, t2, t3, t4, t5, t6, jge, t8, t9, t10, t11, t12, t13, t14, t15, t16>>
    BY DEF t1, t2, t3, t4, t5, t6, t8, t9, t10, t11, t12, t13, t14, t15, t16
  <2> HIDE DEF T
  <2>2. T \in Seq({t1, t2, t3, t4, t5, t6, jge, t8, t9, t10, t11, t12, t13, t14, t15, t16})
    BY <2>1
  <2>3. IsList(T)
    BY ONLY <2>2, SeqIsList
  <2> QED BY <2>1, <2>3
<1> HIDE DEF T
<1>6. Stretch(T, c, LoopLabels, LoopLabels \cup N)
  BY <1>3, <1>4, <1>5 DEF Stretch, Does, t1, t2, t3, t4, t5, t6, t8, t9, t10, t11, t12, t13, t14, t15, t16
<1> QED BY <1>1, <1>2, <1>6, <1>s, LoopHolds DEF c, N

LEMMA ForStep == IInv /\ For => IInv'
<1> SUFFICES ASSUME IInv, For PROVE IInv'
  OBVIOUS
<1> DEFINE s        == Head(todo).s
           c        == InLoop
           E        == Escapes(s.init) \cup Escapes(s.body)
           N1       == Exits(Escapes(s.init), c)
           N2       == Exits(Escapes(s.body), c)
           begin    == Lab("begin", max_count)
           break    == Lab("break", max_count)
           continue == Lab("continue", max_count)
           p        == Maybe(s.init)
           q        == <<Begin>>
           r        == IF s.cond = Absent THEN <<>> ELSE <<Expr(s.cond)>> \o LeaveIfZero
           u        == <<Stmt(s.body), ContinueHere>>
           v        == IF s.step = Absent THEN <<>> ELSE <<Expr(s.step)>>
           w        == <<BeginAgain, BreakHere>>
           T        == p \o q \o r \o u \o v \o w
<1>1. LoopBegins(T) /\ AtStmt({"for"})
  BY DEF For
<1>2. /\ s.init \in Below /\ s.body \in Below /\ s.cond \in Own \cup {Absent} /\ s.step \in Own \cup {Absent}
      /\ EscapesFrom(s) = E \ {"break", "continue"}
  <2>1. s.kind = "for" /\ IsStmt(s, Own, Below, Deferred)
    BY <1>1, AtStmtIs
  <2>2. EscapesFrom(s) = E \ {"break", "continue"}
    BY <2>1 DEF EscapesFrom
  <2> HIDE DEF s, E
  <2> QED BY <2>1, <2>2 DEF IsStmt
<1>3. /\ LoopLabels = {begin, break, continue} /\ begin # break /\ begin # continue /\ break # continue
      /\ Does(Begin, c, {begin}, {}) /\ Does(BeginAgain, c, {}, {begin})
      /\ Does(ContinueHere, c, {continue}, {}) /\ Does(BreakHere, c, {break}, {})
      /\ Stretch(LeaveIfZero, c, {}, {break})
  BY LoopParts
<1>4. Exits(E, c) = N1 \cup N2
  BY ExitsJoin
<1>5. Does(Stmt(s.body), c, {}, N2)
  BY <1>2, BelowDoes
<1>6. Stretch(p, c, {}, N1)
  BY <1>2, MaybeStretch
<1>s. Stays(p) /\ Stays(q) /\ Stays(r) /\ Stays(u) /\ Stays(v) /\ Stays(w)
  <2>1. Node(Head(todo))
    BY <1>1, AtStmtIs DEF Node
  <2>2. Rests(Begin) /\ Rests(BeginAgain) /\ Rests(ContinueHere) /\ Rests(BreakHere) /\ Stays(LeaveIfZero)
        /\ Rests(Stmt(s.body)) /\ Stays(p)
    BY <1>2, <2>1, LoopRests, RestsBelow
  <2>3. Stays(r)
    <3>1. CASE s.cond = Absent
      BY <3>1, StaysNone
    <3>2. CASE s.cond # Absent
      <4>1. Stays(<<Expr(s.cond)>>)
        BY <1>2, <2>1, <3>2, RestsOwn, StaysOne
      <4> QED BY <2>2, <3>2, <4>1, StaysJoin
    <3> QED BY <3>1, <3>2
  <2>4. Stays(v)
    <3>1. CASE s.step = Absent
      BY <3>1, StaysNone
    <3>2. CASE s.step # Absent
      <4>1. Stays(<<Expr(s.step)>>)
        BY <1>2, <2>1, <3>2, RestsOwn, StaysOne
      <4> QED BY <3>2, <4>1
    <3> QED BY <3>1, <3>2
  <2> QED BY <2>2, <2>3, <2>4, StaysOne, StaysTwo
<1> HIDE DEF begin, break, continue, N1, N2, E, c, p
<1>7. Stretch(q, c, {begin}, {})
  BY <1>3, OneDoes
<1>8. Stretch(r, c, {}, {break})
  <2>1. CASE s.cond = Absent
    BY <2>1, NoStretch, WiderStretch
  <2>2. CASE s.cond # Absent
    <3> DEFINE a == <<Expr(s.cond)>>
               l == LeaveIfZero
    <3>1. Stretch(a, c, {}, {})
      BY <1>2, <2>2, OwnDoes, OneDoes
    <3>2. Stretch(l, c, {}, {break}) /\ r = a \o l
      BY <1>3, <2>2
    <3>3. {} \cap {} = {} /\ {} = {} \cup {} /\ {} \cup {break} \subseteq {break}
      OBVIOUS
    <3> HIDE DEF a, l, r
    <3> QED BY <3>1, <3>2, <3>3, JoinTo
  <2> QED BY <2>1, <2>2
<1>9. Stretch(u, c, {continue}, N2)
  <2>1. Stretch(u, c, {} \cup {continue}, N2 \cup {})
    BY <1>3, <1>5, TwoDo
  <2>2. {} \cup {continue} = {continue} /\ N2 \cup {} = N2
    OBVIOUS
  <2> HIDE DEF u
  <2> QED BY <2>1, <2>2
<1>10. Stretch(v, c, {}, {})
  <2>1. CASE s.step = Absent
    BY <2>1, NoStretch
  <2>2. CASE s.step # Absent
    <3>1. Stretch(<<Expr(s.step)>>, c, {}, {})
      BY <1>2, <2>2, OwnDoes, OneDoes
    <3> QED BY <2>2, <3>1
  <2> QED BY <2>1, <2>2
<1>11. Stretch(w, c, {break}, {begin})
  <2>1. Stretch(w, c, {} \cup {break}, {begin} \cup {})
    BY <1>3, TwoDo
  <2> QED BY <2>1
<1>12. T = p \o q \o r \o u \o v \o w
  OBVIOUS
<1> HIDE DEF q, r, u, v, w, T
<1>t. Stays(T)
  <2>1. Stays(p \o q \o r)
    BY <1>s, StaysJoin
  <2>2. Stays(p \o q \o r \o u \o v)
    BY <1>s, <2>1, StaysJoin
  <2> QED BY <1>12, <1>s, <2>2, StaysJoin
<1>13. Stretch(p \o q, c, {begin}, N1)
  <2>1. {} \cap {begin} = {} /\ {begin} = {} \cup {begin} /\ N1 \cup {} \subseteq N1
    OBVIOUS
  <2> QED BY <1>6, <1>7, <2>1, JoinTo
<1>14. Stretch(p \o q \o r, c, {begin}, {break} \cup N1)
  <2>1. {begin} \cap {} = {} /\ {begin} = {begin} \cup {} /\ N1 \cup {break} \subseteq {break} \cup N1
    OBVIOUS
  <2> QED BY <1>8, <1>13, <2>1, JoinTo
<1>15. Stretch(p \o q \o r \o u, c, {begin, continue}, {break} \cup N1 \cup N2)
  <2>1. /\ {begin} \cap {continue} = {} /\ {begin, continue} = {begin} \cup {continue}
        /\ ({break} \cup N1) \cup N2 \subseteq {break} \cup N1 \cup N2
    BY <1>3
  <2> QED BY ONLY <1>9, <1>14, <2>1, JoinTo, ZenonT(40)
<1>16. Stretch(p \o q \o r \o u \o v, c, {begin, continue}, {break} \cup N1 \cup N2)
  <2>1. /\ {begin, continue} \cap {} = {} /\ {begin, continue} = {begin, continue} \cup {}
        /\ ({break} \cup N1 \cup N2) \cup {} \subseteq {break} \cup N1 \cup N2
    OBVIOUS
  <2> QED BY <1>10, <1>15, <2>1, JoinTo
<1>17. Stretch(T, c, LoopLabels, LoopLabels \cup Exits(E, c))
  <2>1. /\ {begin, continue} \cap {break} = {} /\ LoopLabels = {begin, continue} \cup {break}
        /\ ({break} \cup N1 \cup N2) \cup {begin} \subseteq LoopLabels \cup Exits(E, c)
    BY <1>3, <1>4
  <2> DEFINE g == p \o q \o r \o u \o v
             M == LoopLabels \cup Exits(E, c)
             N == {break} \cup N1 \cup N2
  <2>2. T = g \o w /\ Stretch(g, c, {begin, continue}, N) /\ N \cup {begin} \subseteq M
    BY <1>12, <1>16, <2>1
  <2> HIDE DEF g, M, N
  <2>3. Stretch(g \o w, c, LoopLabels, M)
    BY <1>11, <2>1, <2>2, JoinTo
  <2> QED BY <2>2, <2>3 DEF M
<1> QED BY <1>1, <1>2, <1>17, <1>t, LoopHolds DEF c

-----------------------------------------------------------------------------
\* The other statements.
LEMMA JumpStep ==
  ASSUME IInv, NEW kinds, AtStmt(kinds), "case" \notin kinds, NEW T, Becomes(T), Steady,
         NEW N, Stretch(T, Now, {}, N),
         \A l \in N : l \in Exits(EscapesFrom(Head(todo).s), Now) \/ l = ReturnLabel,
         Stays(T), ReturnLabel \in N => Head(todo).s.kind = "return"
  PROVE  IInv'
<1>1. /\ todo # <<>> /\ Head(todo).op \notin {"restore", "ins"} /\ Writes(Head(todo), Now) = {} /\ ~Closing(Head(todo))
      /\ Needs(Head(todo), Now) = Exits(EscapesFrom(Head(todo).s), Now)
  BY AtStmtIs
<1>2. DeferredOK(deferred') /\ UNCHANGED <<function, code, counters>>
  BY SameDeferred DEF Steady
<1>3. Keeps(T, N)
  <2>1. SUFFICES ASSUME Level, NEW p \in Levels, p[2] = depth, Bears(Head(todo), p), ReturnLabel \in N
                 PROVE  Even(p[1])
    BY DEF Stays, Keeps, Steady
  <2>2. Even(depth)
    BY <2>1, AtStmtIs
  <2>3. p[1] \in Int /\ p[2] \in Int /\ Even(p[1] - p[2])
    BY <1>1, <2>1, NodeIsAligned DEF Levels, Node
  <2> QED BY <2>1, <2>2, <2>3, EvenTogether
<1> QED BY <1>1, <1>2, <1>3, SteadyStep

LEMMA SimpleSteps ==
  ASSUME IInv, Noop \/ ExprStmt \/ Continue \/ Break
  PROVE  IInv'
<1> DEFINE s == Head(todo).s
<1>u. Node(Head(todo))
  BY AtStmtIs DEF Node, Noop, ExprStmt, Continue, Break
<1>1. CASE Noop
  BY <1>1, NoStretch, StaysNone, JumpStep DEF Noop
<1>2. CASE ExprStmt
  <2>1. s.e \in Own
    BY <1>2, AtStmtIs DEF ExprStmt, IsStmt
  <2>2. Stretch(<<Expr(s.e)>>, Now, {}, {}) /\ Stays(<<Expr(s.e)>>)
    BY <1>u, <2>1, OwnDoes, OneDoes, RestsOwn, StaysOne
  <2> QED BY <1>2, <2>2, JumpStep DEF ExprStmt
<1>3. CASE Continue
  <2> DEFINE l == Lab("continue", cur_cnt_id)
  <2>1. s.kind = "continue"
    BY <1>3, AtStmtIs DEF Continue
  <2>2. l \in Exits(EscapesFrom(s), Now)
    BY <2>1 DEF EscapesFrom, Exits, Now
  <2>3. Stretch(<<Jmp(l)>>, Now, {}, {l}) /\ Stays(<<Jmp(l)>>) /\ ReturnLabel \notin {l}
    BY <1>u, JumpsDo, OneDoes, RestsLabels, StaysOne DEF Lab, ReturnLabel
  <2>4. Becomes(<<Jmp(l)>>) /\ Steady /\ AtStmt({"continue"})
    BY <1>3 DEF Continue
  <2> HIDE DEF l
  <2> QED BY <2>2, <2>3, <2>4, JumpStep
<1>4. CASE Break
  <2> DEFINE l == Lab("break", cur_brk_id)
  <2>1. s.kind = "break"
    BY <1>4, AtStmtIs DEF Break
  <2>2. l \in Exits(EscapesFrom(s), Now)
    BY <2>1 DEF EscapesFrom, Exits, Now
  <2>3. Stretch(<<Jmp(l)>>, Now, {}, {l}) /\ Stays(<<Jmp(l)>>) /\ ReturnLabel \notin {l}
    BY <1>u, JumpsDo, OneDoes, RestsLabels, StaysOne DEF Lab, ReturnLabel
  <2>4. Becomes(<<Jmp(l)>>) /\ Steady /\ AtStmt({"break"})
    BY <1>4 DEF Break
  <2> HIDE DEF l
  <2> QED BY <2>2, <2>3, <2>4, JumpStep
<1> QED BY <1>1, <1>2, <1>3, <1>4

LEMMA CopyOutIsCalm == \A t : Calm(CopyOut(t), 0, 0)
<1> SUFFICES ASSUME NEW t PROVE Calm(CopyOut(t), 0, 0)
  OBVIOUS
<1>1. Calm(<<Ins([op |-> "copy", slots |-> Slots(t)])>>, 0, 0)
  <2> DEFINE i == [op |-> "copy", slots |-> Slots(t)]
  <2>1. i.op = "copy"
    OBVIOUS
  <2> HIDE DEF i
  <2>2. Calm(<<Ins(i)>>, 0, 0)
    BY <2>1, CalmIns, Calm1
  <2> QED BY <2>2 DEF i
<1>2. \A i, r : IsCalm(CopySlot(i, r), 0, 0)
  BY CalmIns DEF CopySlot
<1> DEFINE a == CopySlot(0, IF HasFlonum1(t) THEN "xmm0" ELSE "rax")
           b == CopySlot(1, IF HasFlonum1(t) THEN "rax" ELSE "rdx")
           x == <<Mov("rax", "rdi"), a>>
           y == IF Slots(t) = 1 THEN <<>> ELSE <<b>>
<1>3. Calm(x, 0, 0) /\ Calm(<<b>>, 0, 0)
  BY <1>2, CalmMoves, Calm1, Calm2
<1>4. Calm(y, 0, 0)
  BY <1>3, CalmNone
<1>5. CopyOut(t) = IF t.kind \notin {"struct", "dyn"} THEN <<>>
                   ELSE IF Wide(t) THEN <<Ins([op |-> "copy", slots |-> Slots(t)])>> ELSE x \o y
  BY DEF CopyOut
<1> HIDE DEF x, y
<1>6. Calm(x \o y, 0, 0)
  BY <1>3, <1>4, CalmJoin
<1> QED BY <1>1, <1>5, <1>6, CalmNone

LEMMA ReturnStmtStep == IInv /\ ReturnStmt => IInv'
<1> SUFFICES ASSUME IInv, ReturnStmt PROVE IInv'
  OBVIOUS
<1> DEFINE s == Head(todo).s
           o == CopyOut(Functions[function].result)
           x == IF s.e = Absent THEN <<>> ELSE <<Expr(s.e)>> \o o
           y == <<Jmp(Lab("return", 0))>>
           T == x \o y
<1>1. Becomes(T) /\ Steady /\ AtStmt({"return"})
  BY DEF ReturnStmt
<1>2. s.e \in Own \cup {Absent} /\ s.kind = "return"
  BY <1>1, AtStmtIs DEF IsStmt
<1>3. Calm(x, 0, 0)
  <2>1. CASE s.e = Absent
    BY <2>1, CalmNone
  <2>2. CASE s.e # Absent
    <3> DEFINE a == <<Expr(s.e)>>
    <3>1. Calm(a, 0, 0) /\ Calm(o, 0, 0)
      BY <1>2, <2>2, CalmExprs, Calm1, CopyOutIsCalm
    <3>2. x = a \o o
      BY <2>2
    <3> HIDE DEF a, o, x
    <3> QED BY <3>1, <3>2, CalmJoin
  <2> QED BY <2>1, <2>2
<1> HIDE DEF x
<1>4. Stretch(x, Now, {}, {})
  BY <1>3, PlainStretch DEF Calm
<1>5. Stretch(y, Now, {}, {ReturnLabel})
  BY JumpsDo, OneDoes DEF ReturnLabel
<1>s. Stays(x) /\ Stays(y)
  <2>1. Node(Head(todo))
    BY <1>1, AtStmtIs DEF Node
  <2> QED BY <1>3, <2>1, StaysCalm, RestsLabels, StaysOne
<1> HIDE DEF y
<1>6. Stretch(T, Now, {}, {ReturnLabel})
  <2>1. {} \cap {} = {} /\ {} = {} \cup {} /\ {} \cup {ReturnLabel} \subseteq {ReturnLabel}
    OBVIOUS
  <2> QED BY <1>4, <1>5, <2>1, JoinTo
<1>7. Stays(T)
  BY <1>s, StaysJoin
<1> HIDE DEF T
<1> QED BY <1>1, <1>2, <1>6, <1>7, JumpStep

\* Tasks that write no label and need none but N.
Quiet(t, c, N) == IsTask(t) /\ t.op # "restore" /\ Writes(t, c) = {} /\ Needs(t, c) \subseteq N

LEMMA QuietOver ==
  ASSUME NEW c, NEW N, NEW P, \A t \in P : Quiet(t, c, N), NEW T \in Seq(P)
  PROVE  Stretch(T, c, {}, N)
<1>1. IsList(T)
  BY SeqIsList
<1>2. \A k \in 1 .. Len(T) : T[k] \in P
  OBVIOUS
<1> QED BY <1>1, <1>2 DEF Stretch, Quiet

LEMMA QuietMap ==
  ASSUME NEW c, NEW N, NEW n \in Nat, NEW f, DOMAIN f = 1 .. n, f = [k \in DOMAIN f |-> f[k]],
         \A k \in 1 .. n : Quiet(f[k], c, N)
  PROVE  Stretch(f, c, {}, N)
<1> DEFINE P == {f[k] : k \in 1 .. n}
<1>1. f \in Seq(P)
  OBVIOUS
<1>2. \A t \in P : Quiet(t, c, N)
  OBVIOUS
<1> HIDE DEF P
<1> QED BY ONLY <1>1, <1>2, QuietOver

LEMMA QuietFlat ==
  ASSUME NEW c, NEW N, NEW n \in Nat, NEW s, DOMAIN s = 1 .. n, s = [k \in DOMAIN s |-> s[k]],
         \A k \in 1 .. n : Stretch(s[k], c, {}, N)
  PROVE  Stretch(FlattenSeq(s), c, {}, N)
<1> DEFINE P == UNION {{s[k][j] : j \in DOMAIN s[k]} : k \in 1 .. n}
<1>0. ASSUME NEW k \in 1 .. n PROVE IsList(s[k])
  BY <1>0 DEF Stretch
<1>1. ASSUME NEW k \in 1 .. n PROVE s[k] \in Seq(P)
  <2> DEFINE Q == {s[k][j] : j \in DOMAIN s[k]}
  <2>1. s[k] \in Seq(Q)
    BY <1>0 DEF IsList
  <2>2. Q \subseteq P
    OBVIOUS
  <2> HIDE DEF P, Q
  <2> QED BY <2>1, <2>2
<1>2. \A t \in P : Quiet(t, c, N)
  <2>1. SUFFICES ASSUME NEW k \in 1 .. n, NEW j \in DOMAIN s[k] PROVE Quiet(s[k][j], c, N)
    OBVIOUS
  <2> DEFINE T == s[k]
  <2>2. Stretch(T, c, {}, N) /\ j \in 1 .. Len(T)
    BY <1>0, <2>1, ListLength
  <2> HIDE DEF T
  <2>3. Quiet(T[j], c, N)
    BY <2>2 DEF Stretch, Quiet
  <2> QED BY <2>3 DEF T
<1> HIDE DEF P
<1>3. s \in [1 .. n -> Seq(P)]
  BY <1>1
<1>4. s \in Seq(Seq(P))
  BY <1>3
<1>5. FlattenSeq(s) \in Seq(P)
  BY ONLY <1>4, Flat
<1> QED BY ONLY <1>2, <1>5, QuietOver

LEMMA BlockStep == IInv /\ Block => IInv'
<1> SUFFICES ASSUME IInv, Block PROVE IInv'
  OBVIOUS
<1> DEFINE s == Head(todo).s
           x == [i \in DOMAIN s.locals |-> Ins([op |-> "clear", x |-> s.locals[i]])]
           y == [i \in DOMAIN s.stmts |-> Stmt(s.stmts[i])]
           T == x \o y
           N == Exits(EscapesFrom(s), Now)
<1>1. Becomes(T) /\ Steady /\ AtStmt({"block"})
  BY DEF Block
<1>2. s.kind = "block" /\ IsStmt(s, Own, Below, Deferred)
  BY <1>1, AtStmtIs
<1>3. /\ s.stmts \in Seq(Below) /\ Len(s.locals) \in Nat /\ DOMAIN s.locals = 1 .. Len(s.locals)
      /\ EscapesFrom(s) = UNION {Escapes(s.stmts[i]) : i \in DOMAIN s.stmts}
  BY <1>2 DEF IsStmt, EscapesFrom
<1>u. Node(Head(todo))
  BY <1>1, AtStmtIs DEF Node
<1>4. Stretch(x, Now, {}, {}) /\ Stays(x)
  <2> DEFINE m == Len(s.locals)
             i(k) == [op |-> "clear", x |-> s.locals[k]]
  <2>1. m \in Nat /\ DOMAIN x = 1 .. m /\ x = [k \in DOMAIN x |-> x[k]] /\ \A k \in 1 .. m : x[k] = Ins(i(k))
    BY <1>3
  <2>2. \A k : IsCalm(Ins(i(k)), 0, 0)
    <3>1. \A k : i(k).op = "clear"
      OBVIOUS
    <3> HIDE DEF i
    <3> QED BY <3>1, CalmIns
  <2> HIDE DEF x, i, m
  <2>3. Calm(x, 0, 0)
    BY <2>1, <2>2, CalmMap
  <2> QED BY <1>u, <2>3, PlainStretch, StaysCalm DEF Calm
<1>5. Stretch(y, Now, {}, N) /\ Stays(y)
  <2> DEFINE m == Len(s.stmts)
  <2>1. m \in Nat /\ DOMAIN s.stmts = 1 .. m /\ \A k \in 1 .. m : s.stmts[k] \in Below
    BY <1>3
  <2>2. DOMAIN y = 1 .. m /\ y = [k \in DOMAIN y |-> y[k]] /\ \A k \in 1 .. m : y[k] = Stmt(s.stmts[k])
    BY <2>1
  <2>3. ASSUME NEW k \in 1 .. m PROVE Quiet(y[k], Now, N)
    <3>1. Does(y[k], Now, {}, Exits(Escapes(s.stmts[k]), Now))
      BY <2>1, <2>2, BelowDoes
    <3>2. Escapes(s.stmts[k]) \subseteq EscapesFrom(s)
      BY <1>3, <2>1
    <3>3. Exits(Escapes(s.stmts[k]), Now) \subseteq N
      BY <3>2, ExitsJoin
    <3> QED BY <3>1, <3>3 DEF Does, Quiet
  <2>4. \A k \in 1 .. m : Rests(y[k])
    BY <1>u, <2>1, <2>2, RestsBelow
  <2> HIDE DEF y, m, N
  <2>5. Stays(y)
    BY <2>1, <2>2, <2>4, StaysMap
  <2> QED BY <2>1, <2>2, <2>3, <2>5, QuietMap
<1>r. ReturnLabel \notin N
  BY ExitsAreInside
<1>6. \A l \in N : l \in Exits(EscapesFrom(s), Now) \/ l = ReturnLabel
  OBVIOUS
<1> HIDE DEF x, y, N
<1>7. Stretch(T, Now, {}, N)
  <2>1. {} \cap {} = {} /\ {} = {} \cup {} /\ {} \cup N \subseteq N
    OBVIOUS
  <2> QED BY <1>4, <1>5, <2>1, JoinTo
<1>8. Stays(T)
  BY <1>4, <1>5, StaysJoin
<1> HIDE DEF T
<1> QED BY <1>1, <1>6, <1>7, <1>8, <1>r, JumpStep

LEMMA DeferStep == IInv /\ Defer => IInv'
<1> SUFFICES ASSUME IInv, Defer PROVE IInv'
  OBVIOUS
<1> DEFINE s == Head(todo).s
           T == <<>>
<1>1. /\ Becomes(T) /\ UNCHANGED <<function, code, depth, counters>> /\ AtStmt({"defer"})
      /\ deferred' = Append(deferred, s.body)
  BY DEF Defer
<1>2. /\ todo # <<>> /\ Head(todo).op \notin {"restore", "ins"} /\ Writes(Head(todo), Now) = {} /\ ~Closing(Head(todo))
      /\ s.kind = "defer" /\ IsStmt(s, Own, Below, Deferred) /\ Needs(Head(todo), Now) = Exits(EscapesFrom(s), Now)
  BY <1>1, AtStmtIs
<1>3. s.body \in Stmts /\ (Level => s.body \in OddStmts)
  BY <1>2 DEF IsStmt, Deferred, OddStmts
\* A deferred statement that is left by a jump needs a label nobody writes.
<1>4. ASSUME Tame PROVE Escapes(s.body) = {}
  <2>1. SUFFICES ASSUME Escapes(s.body) # {} PROVE FALSE
    OBVIOUS
  <2> DEFINE l == Lab("stray", 0)
  <2>2. l \in Needs(Head(todo), Now)
    BY <1>2, <2>1 DEF EscapesFrom, Exits
  <2>3. PICK cs : /\ InContext(todo, cs, Now) /\ WrittenOnce(todo, cs, Printed, max_count)
                  /\ Held(todo, cs, Printed, Targets)
    BY <1>4 DEF IInv
  <2>4. 1 \in 1 .. Len(todo) /\ Head(todo) = todo[1] /\ cs[1] = Now
    BY <1>2, <2>3, HeadIs DEF IInv, InContext
  <2>5. Has(l, todo, cs, Printed)
    <3> HIDE DEF l
    <3> QED BY <2>2, <2>3, <2>4 DEF Held
  <2>6. Known(l, max_count)
    BY <2>3, <2>5 DEF Has, WrittenOnce
  <2>7. l.name = "stray"
    BY DEF Lab
  <2> QED BY <2>6, <2>7 DEF Known
<1>5. DeferredOK(deferred')
  <2>1. IsList(deferred) /\ \A k \in 1 .. Len(deferred) : DeferredIs(deferred[k])
    BY DEF IInv, TasksOK
  <2> DEFINE n == Len(deferred)
  <2>2. /\ IsList(deferred') /\ n \in Nat /\ Len(deferred') = n + 1
        /\ (\A k \in 1 .. n : deferred'[k] = deferred[k]) /\ deferred'[n + 1] = s.body
    BY <1>1, <2>1, Grown
  <2> HIDE DEF n
  <2>3. \A k \in 1 .. n + 1 : k \in 1 .. n \/ k = n + 1
    BY <2>2
  <2>4. DeferredIs(s.body)
    BY <1>3, <1>4 DEF DeferredIs
  <2>5. \A k \in 1 .. n + 1 : DeferredIs(deferred'[k])
    BY <2>1, <2>2, <2>3, <2>4 DEF n
  <2>6. Tame' = Tame /\ Level' = Level
    BY <1>1 DEF Tame, Level
  <2> QED BY <2>2, <2>5, <2>6 DEF DeferredOK, DeferredIs
<1>6. Stretch(T, Now, {}, {})
  BY NoStretch
<1>7. Keeps(T, {})
  BY <1>1, StaysNone DEF Stays, Keeps
<1> QED BY <1>1, <1>2, <1>5, <1>6, <1>7, SteadyStep

\* Below the deferred statements is the value that the function returns.
LEMMA DeferredLead ==
  ASSUME Level, NEW b, b = 0, NEW d, NEW P, d \in Seq(P),
         \A t \in P : \E s \in OddStmts : t = Stmt(s) /\ Escapes(s) = {}
  PROVE  Leads(<<Push>> \o d \o <<Pop("rax")>>, b, <<0, 0>>, <<0, 0>>)
<1> DEFINE p == <<0, 0>>
           q == <<1, 1>>
<1>1. p \in Levels /\ q \in Levels /\ b \in Nat /\ Even(p[1] - p[2]) /\ p = Up(p, 0) /\ q = Up(p, 1)
  BY DEF Levels, Even, Up
<1>2. IsCalm(Push, 0, 1) /\ IsCalm(Pop("rax"), 1, 0)
  BY CalmStack
<1>3. ASSUME NEW t \in P PROVE Takes(t, b, q, q)
  <2>1. PICK s \in OddStmts : t = Stmt(s) /\ Escapes(s) = {}
    OBVIOUS
  <2>2. t.op = "stmt" /\ t.s = s
    BY <2>1 DEF Stmt
  <2>3. ~Even(q[1]) /\ Even(q[1] - q[2])
    BY DEF Even
  <2>4. s \in LevelStmts(~Even(q[1]))
    BY <2>3 DEF LevelStmts
  <2>5. s.kind # "case"
    BY TreesAssumption DEF IsStmt, OddStmts
  <2> HIDE DEF q
  <2> QED BY <1>1, <2>1, <2>2, <2>3, <2>4, <2>5 DEF Takes, Bears, Tells, Marks, Leaves, Past
<1> HIDE DEF p, q
<1>4. Leads(d, b, q, q)
  BY <1>1, <1>3, LeadsOver
<1>5. Leads(<<Push>>, b, p, q) /\ Leads(<<Pop("rax")>>, b, q, p)
  <2>1. Takes(Push, b, p, q) /\ Takes(Pop("rax"), b, q, p)
    BY <1>1, <1>2 DEF IsCalm
  <2> QED BY <2>1, LeadsOne
<1>6. Leads(<<Push>> \o d, b, p, q)
  BY <1>4, <1>5, LeadsJoin
<1> QED BY <1>5, <1>6, LeadsJoin DEF p

\* The deferred statements behind the label of the epilogue.
LEMMA EpilogueStep == IInv /\ Epilogue => IInv'
<1> SUFFICES ASSUME IInv, Epilogue PROVE IInv'
  OBVIOUS
<1> DEFINE n == Len(deferred)
           d == [i \in DOMAIN deferred |-> Stmt(deferred[i])]
           N == UNION {Exits(Escapes(deferred[k]), Now) : k \in 1 .. n}
           x == <<Label(ReturnLabel)>>
           p == <<Push>>
           q == <<Pop("rax")>>
           y == IF deferred = <<>> THEN <<>> ELSE p \o d \o q
           z == <<Ins([op |-> "ret"])>>
           T == x \o y \o z
<1>1. /\ Becomes(T) /\ UNCHANGED <<function, code, counters, deferred>>
      /\ todo # <<>> /\ Head(todo).op = "epilogue"
  BY DEF Epilogue, ReturnLabel
<1>2. IsList(deferred) /\ \A k \in 1 .. n : DeferredIs(deferred[k])
  BY DEF IInv, TasksOK
<1>3. n \in Nat /\ DOMAIN deferred = 1 .. n
  BY <1>2, ListLength
<1>4. Stretch(d, Now, {}, N)
  <2>1. DOMAIN d = 1 .. n /\ d = [k \in DOMAIN d |-> d[k]] /\ \A k \in 1 .. n : d[k] = Stmt(deferred[k])
    BY <1>3
  <2>2. ASSUME NEW k \in 1 .. n PROVE Quiet(d[k], Now, N)
    <3>1. Does(d[k], Now, {}, Exits(Escapes(deferred[k]), Now))
      BY <1>2, <2>1, StmtDoes DEF DeferredIs
    <3>2. Exits(Escapes(deferred[k]), Now) \subseteq N
      OBVIOUS
    <3> QED BY <3>1, <3>2 DEF Does, Quiet
  <2> HIDE DEF d, n, N
  <2> QED BY <1>3, <2>1, <2>2, QuietMap
<1>5. Stretch(p, Now, {}, {}) /\ Stretch(q, Now, {}, {})
  BY PlainStack, Plain1, PlainStretch
<1>6. Stretch(z, Now, {}, {})
  <2>1. IsPlain(Ins([op |-> "ret"]))
    BY PlainIns
  <2> QED BY <2>1, Plain1, PlainStretch
<1>7. Stretch(x, Now, {ReturnLabel}, {})
  BY LabelDoes, OneDoes
<1>8. Tame => N = {}
  <2>1. SUFFICES ASSUME Tame PROVE N = {}
    OBVIOUS
  <2>2. \A k \in 1 .. n : Exits(Escapes(deferred[k]), Now) = {}
    BY <1>2, <2>1, ExitsJoin DEF DeferredIs
  <2> QED BY <2>2
<1>r. ReturnLabel \notin N
  BY ExitsAreInside
<1>u. Node(Head(todo))
  BY <1>1 DEF Node
<1>v. ASSUME Level, depth = 0 PROVE Leads(y, 0, <<0, 0>>, <<0, 0>>)
  <2> DEFINE P == {d[k] : k \in 1 .. n}
  <2>1. d \in Seq(P) /\ DOMAIN d = 1 .. n
    BY <1>3
  <2>2. \A t \in P : \E s \in OddStmts : t = Stmt(s) /\ Escapes(s) = {}
    <3>1. Tame
      BY <1>v DEF Level, Tame
    <3> QED BY <1>2, <1>3, <1>v, <3>1 DEF DeferredIs
  <2> HIDE DEF P, d
  <2>3. Leads(p \o d \o q, 0, <<0, 0>>, <<0, 0>>)
    BY <1>v, <2>1, <2>2, DeferredLead
  <2>4. Leads(<<>>, 0, <<0, 0>>, <<0, 0>>)
    <3>1. <<0, 0>> \in Levels
      BY DEF Levels
    <3> QED BY <3>1, LeadsNone
  <2> QED BY <2>3, <2>4
<1>w. Stays(x) /\ Stays(z)
  <2>1. IsCalm(Ins([op |-> "ret"]), 0, 0)
    BY CalmIns
  <2> QED BY <1>u, <2>1, RestsLabels, RestsCalm, StaysOne
<1>e. z = <<Ins([op |-> "ret"])>> /\ Ins([op |-> "ret"]).op = "ins" /\ Ins([op |-> "ret"]).ins.op = "ret"
  BY DEF Ins
<1> HIDE DEF n, d, N, x, p, q, z
<1>9. Stretch(y, Now, {}, N)
  <2>1. {} \cap {} = {} /\ {} = {} \cup {} /\ {} \cup N \subseteq N /\ N \cup {} \subseteq N
    OBVIOUS
  <2>2. Stretch(p \o d, Now, {}, N)
    BY <1>4, <1>5, <2>1, JoinTo
  <2>3. Stretch(p \o d \o q, Now, {}, N)
    BY <1>5, <2>1, <2>2, JoinTo
  <2>4. Stretch(<<>>, Now, {}, N)
    BY NoStretch, WiderStretch
  <2> QED BY <2>3, <2>4
<1> HIDE DEF y
<1>10. Stretch(T, Now, {ReturnLabel}, N)
  <2> DEFINE W == {ReturnLabel}
  <2>1. W \cap {} = {} /\ W = W \cup {} /\ {} \cup N \subseteq N /\ N \cup {} \subseteq N
    OBVIOUS
  <2>2. Stretch(x \o y, Now, W, N)
    BY <1>7, <1>9, <2>1, JoinTo
  <2> HIDE DEF W
  <2>3. Stretch(x \o y \o z, Now, W, N)
    BY <1>6, <2>1, <2>2, JoinTo
  <2> QED BY <2>3 DEF W
<1>s. Keeps(T, N)
  <2>1. SUFFICES ASSUME Level, NEW l \in Levels, l[2] = depth, Bears(Head(todo), l)
                 PROVE  depth' = depth /\ Leads(T, l[1], l, l)
    BY <1>r DEF Keeps
  <2>2. l = <<0, 0>>
    BY <1>1, <2>1 DEF Bears
  <2>3. l[1] = 0 /\ depth = 0 /\ depth' = depth
    BY <2>1, <2>2 DEF Epilogue
  <2>4. Leads(x, l[1], l, l) /\ Leads(z, l[1], l, l)
    BY <1>w, <2>1 DEF Stays
  <2>5. Leads(y, l[1], l, l)
    BY <1>v, <2>1, <2>2, <2>3
  <2>6. Leads(x \o y, l[1], l, l)
    BY <2>4, <2>5, LeadsJoin
  <2> QED BY <2>3, <2>4, <2>6, LeadsJoin
<1>f. T # <<>> /\ Closing(T[Len(T)])
  <2> DEFINE X == x \o y
             t == Ins([op |-> "ret"])
  <2>1. IsList(T) /\ IsList(X)
    <3>1. Stretch(X, Now, {ReturnLabel}, N)
      BY <1>7, <1>9, JoinTo
    <3> QED BY <1>10, <3>1 DEF Stretch
  <2>2. Len(X) \in Nat /\ IsList(<<t>>) /\ Len(<<t>>) = 1 /\ <<t>>[1] = t
    <3>1. <<t>> \in Seq({t}) /\ Len(<<t>>) = 1 /\ <<t>>[1] = t
      OBVIOUS
    <3> QED BY <2>1, <3>1, SeqIsList, ListLength
  <2>3. T = X \o <<t>>
    BY <1>e
  <2> HIDE DEF T, X, t
  <2>4. Len(T) = Len(X) + 1 /\ T[Len(X) + 1] = t
    BY <2>1, <2>2, <2>3, Joining
  <2>5. T # <<>>
    BY <2>2, <2>4, EmptyIsList
  <2> QED BY <1>e, <2>4, <2>5 DEF Closing, t
<1> HIDE DEF T
<1>11. DeferredOK(deferred')
  BY <1>1, SameDeferred
<1>12. {ReturnLabel} = Writes(Head(todo), Now) /\ Head(todo).op \notin {"restore", "ins"}
  BY <1>1 DEF Writes
<1> QED BY <1>1, <1>8, <1>10, <1>11, <1>12, <1>f, <1>s, SteadyStep

-----------------------------------------------------------------------------
\* A match: its condition, then the tests of the cases, then the cases.
LEMMA MatchStep == IInv /\ Match => IInv'
<1> SUFFICES ASSUME IInv, Match PROVE IInv'
  OBVIOUS
<1> DEFINE s == Head(todo).s
           t == [op |-> "cases", s |-> s]
           T == <<Expr(s.cond), t>>
           N == Exits(EscapesFrom(s), Now)
<1>1. Becomes(T) /\ Steady /\ AtStmt({"match"})
  BY DEF Match
<1>2. s.kind = "match" /\ IsStmt(s, Own, Below, Deferred) /\ s \in Stmts /\ s \in Below
  BY <1>1, AtStmtIs
<1>3. s.cond \in Own /\ Escapes(s) = EscapesFrom(s)
  BY <1>2, TreesAssumption DEF IsStmt
<1>4. Does(Expr(s.cond), Now, {}, {})
  BY <1>3, OwnDoes
<1>5. Does(t, Now, {}, N)
  BY <1>2, <1>3 DEF Does, IsTask, Writes, Needs
<1>6. \A l \in N : l \in Exits(EscapesFrom(s), Now) \/ l = ReturnLabel
  OBVIOUS
<1>s. Rests(Expr(s.cond)) /\ Rests(t) /\ ReturnLabel \notin N
  <2>1. Node(Head(todo))
    BY <1>1, AtStmtIs DEF Node
  <2>2. t.op = "cases" /\ t.s \in Below
    BY <1>2
  <2> HIDE DEF t
  <2> QED BY <1>3, <2>1, <2>2, RestsOwn, RestsCases, ExitsAreInside
<1> HIDE DEF t, N
<1>7. Stretch(T, Now, {} \cup {}, {} \cup N)
  BY <1>4, <1>5, TwoDo
<1>8. Stretch(T, Now, {}, N)
  <2>1. {} \cup {} = {} /\ {} \cup N = N
    OBVIOUS
  <2> HIDE DEF T
  <2> QED BY <1>7, <2>1
<1>9. Stays(T)
  BY <1>s, StaysTwo
<1> HIDE DEF T
<1> QED BY <1>1, <1>6, <1>8, <1>9, <1>s, JumpStep

LEMMA CaseStep == IInv /\ Case => IInv'
<1> SUFFICES ASSUME IInv, Case PROVE IInv'
  OBVIOUS
<1> DEFINE s     == Head(todo).s
           here  == CaseLabel(s.i, cur_count)
           break == Lab("break", cur_count)
           E     == Exits(Escapes(s.body), Now)
           T     == <<Label(here), Stmt(s.body), Jmp(break)>>
           c     == Now
<1>1. /\ Becomes(T) /\ Steady
      /\ todo # <<>> /\ Head(todo).op = "stmt" /\ s.kind = "case"
  BY DEF Case, AtStmt
<1>2. s.body \in Stmts /\ s.body \in Below
  BY <1>1, HeadIsBelow, BelowIs
<1>3. Writes(Head(todo), Now) = {here} /\ Needs(Head(todo), Now) = E \cup {break}
  BY <1>1 DEF Writes, Needs, Now
<1>4. Does(Label(here), c, {here}, {}) /\ Does(Stmt(s.body), c, {}, E) /\ Does(Jmp(break), c, {}, {break})
  BY <1>2, LabelDoes, StmtDoes, JumpsDo
<1> DEFINE t1 == Label(here)
           t2 == Stmt(s.body)
           t3 == Jmp(break)
           P == {t1, t2, t3}
<1>r. \A t \in P : Rests(t)
  <2>1. Node(Head(todo))
    BY <1>1 DEF Node
  <2> QED BY <1>2, <2>1, RestsLabels, RestsBelow
<1>n. ReturnLabel \notin E \cup {break}
  BY ExitsAreInside DEF Lab, ReturnLabel
<1> HIDE DEF here, break, E, c, t1, t2, t3
<1>5. T \in Seq(P) /\ IsList(T) /\ Len(T) = 3 /\ T[1] = t1 /\ T[2] = t2 /\ T[3] = t3
  <2>1. T = <<t1, t2, t3>>
    BY DEF t1, t2, t3
  <2> HIDE DEF T
  <2>2. T \in Seq(P)
    BY <2>1
  <2>3. IsList(T)
    BY ONLY <2>2, SeqIsList
  <2> QED BY <2>1, <2>2, <2>3
<1> HIDE DEF T, P
<1>s. Keeps(T, E \cup {break})
  <2>1. Stays(T)
    BY <1>r, <1>5, StaysOver
  <2> QED BY <1>1, <1>n, <2>1 DEF Steady, Stays, Keeps
<1>6. Stretch(T, c, {here}, E \cup {break})
  BY <1>4, <1>5 DEF Stretch, Does, t1, t2, t3
<1>7. DeferredOK(deferred') /\ UNCHANGED <<function, code, counters>> /\ Head(todo).op \notin {"restore", "ins"}
         /\ ~Closing(Head(todo))
  BY <1>1, SameDeferred DEF Steady, Closing
<1> QED BY <1>1, <1>3, <1>6, <1>7, <1>s, SteadyStep DEF c

\* The labels of the cases are told apart by their numbers.
LEMMA CasesStretch ==
  ASSUME NEW n \in Nat, NEW bodies, \A k \in 1 .. n : bodies[k] \in Stmts, NEW c \in Contexts,
         NEW f, f = [i \in 1 .. n |-> Stmt([kind |-> "case", i |-> i, body |-> bodies[i]])],
         NEW N, \A k \in 1 .. n : Exits(Escapes(bodies[k]), c) \subseteq N, Lab("break", c.count) \in N
  PROVE  Stretch(f, c, {CaseLabel(k, c.count) : k \in 1 .. n}, N)
<1>1. IsList(f) /\ Len(f) = n
  <2> DEFINE X == {f[k] : k \in 1 .. n}
  <2>1. f \in [1 .. n -> X]
    OBVIOUS
  <2> HIDE DEF X
  <2> QED BY ONLY <2>1, n \in Nat, FunIsList
<1>2. ASSUME NEW k \in 1 .. n
      PROVE  Does(f[k], c, {CaseLabel(k, c.count)}, Exits(Escapes(bodies[k]), c) \cup {Lab("break", c.count)})
  <2>1. f[k] = Stmt([kind |-> "case", i |-> k, body |-> bodies[k]])
    OBVIOUS
  <2> DEFINE s == [kind |-> "case", i |-> k, body |-> bodies[k]]
  <2>2. s.kind = "case" /\ s.i = k /\ s.body = bodies[k] /\ bodies[k] \in Stmts /\ k \in Nat
    OBVIOUS
  <2> HIDE DEF s
  <2>3. Does(Stmt(s), c, {CaseLabel(s.i, c.count)}, Exits(Escapes(s.body), c) \cup {Lab("break", c.count)})
    BY <2>2 DEF Does, Stmt, IsTask, Writes, Needs
  <2> QED BY <2>1, <2>2, <2>3 DEF s
<1>3. \A j, k \in 1 .. n : CaseLabel(j, c.count) = CaseLabel(k, c.count) => j = k
  BY DEF CaseLabel
<1> DEFINE L(k) == CaseLabel(k, c.count)
<1>4. \A k \in 1 .. n : /\ IsTask(f[k]) /\ f[k].op # "restore" /\ Needs(f[k], c) \subseteq N
                        /\ Writes(f[k], c) = {L(k)}
  BY <1>2 DEF Does
<1>5. \A j, k \in 1 .. n : L(j) = L(k) => j = k
  BY <1>3
<1>6. Stretch(f, c, {L(k) : k \in 1 .. n}, N)
  <2> HIDE DEF L
  <2> QED BY <1>1, <1>4, <1>5 DEF Stretch
<1> QED BY <1>6

\* Its label and the end of the node are two tasks behind the others.
LEMMA TwoBehind ==
  ASSUME NEW x, IsList(x), NEW a, NEW b
  PROVE  x \o <<a, b>> = Append(x \o <<a>>, b)
<1> DEFINE P == {x[k] : k \in DOMAIN x} \cup {a, b}
<1>1. x \in Seq(P) /\ a \in P /\ b \in P
  <2>1. x \in Seq({x[k] : k \in DOMAIN x})
    BY DEF IsList
  <2> QED BY <2>1
<1> HIDE DEF P
<1> QED BY <1>1

\* The bodies of a match, and what leaves one of them.
Bodies(s) == [i \in DOMAIN s.cases |-> s.cases[i].body]
               \o (IF s.default = Absent THEN <<>> ELSE <<s.default>>)
LeavesCases(s) == (UNION {Escapes(s.cases[i].body) : i \in DOMAIN s.cases}) \cup Escapes(s.default)
BodyCount(s) == IF s.default = Absent THEN Len(s.cases) ELSE Len(s.cases) + 1

LEMMA BodiesAre ==
  ASSUME NEW s, s.kind = "match", IsStmt(s, Own, Below, Deferred)
  PROVE  /\ Len(s.cases) \in Nat /\ BodyCount(s) \in Nat /\ DOMAIN Bodies(s) = 1 .. BodyCount(s)
         /\ \A k \in 1 .. BodyCount(s) : Bodies(s)[k] \in Below /\ Escapes(Bodies(s)[k]) \subseteq LeavesCases(s)
<1> DEFINE n == Len(s.cases)
           m == BodyCount(s)
           E == LeavesCases(s)
           P == {b \in Below : Escapes(b) \subseteq E}
           x == [i \in DOMAIN s.cases |-> s.cases[i].body]
           y == IF s.default = Absent THEN <<>> ELSE <<s.default>>
<1>1. n \in Nat /\ DOMAIN s.cases = 1 .. n /\ s.default \in Below /\ \A i \in 1 .. n : s.cases[i].body \in Below
  BY DEF IsStmt
<1>2. x \in [1 .. n -> P]
  <2>1. \A i \in 1 .. n : Escapes(s.cases[i].body) \subseteq E
    BY <1>1 DEF LeavesCases
  <2> HIDE DEF E
  <2> QED BY <1>1, <2>1
<1>3. s.default \in P
  <2>1. Escapes(s.default) \subseteq E
    BY DEF LeavesCases
  <2> HIDE DEF E
  <2> QED BY <1>1, <2>1
<1> HIDE DEF P, x, n
<1>4. x \in Seq(P) /\ Len(x) = n
  BY <1>1, <1>2
<1>5. y \in Seq(P) /\ Len(y) = m - n /\ m \in Nat
  <2>1. CASE s.default = Absent
    <3>1. m = n /\ y = <<>>
      BY <2>1 DEF BodyCount, n
    <3> HIDE DEF y, m
    <3> QED BY <1>1, <3>1 DEF n
  <2>2. CASE s.default # Absent
    <3>1. m = n + 1 /\ y = <<s.default>>
      BY <2>2 DEF BodyCount, n
    <3>2. n \in Nat
      BY <1>1 DEF n
    <3> HIDE DEF y, m
    <3> QED BY <1>3, <3>1, <3>2
  <2> QED BY <2>1, <2>2
<1> HIDE DEF y, m
<1>6. x \o y \in Seq(P) /\ Len(x \o y) = m
  BY <1>1, <1>4, <1>5
<1>7. DOMAIN (x \o y) = 1 .. m /\ \A k \in 1 .. m : (x \o y)[k] \in P
  BY <1>6
<1> QED BY <1>1, <1>5, <1>7 DEF P, x, y, n, m, Bodies

LEMMA MatchCasesStep == IInv /\ MatchCases => IInv'
<1> SUFFICES ASSUME IInv, MatchCases PROVE IInv'
  OBVIOUS
<1> DEFINE s      == Head(todo).s
           n      == Len(s.cases)
           m      == BodyCount(s)
           bodies == Bodies(s)
           L(i)   == CaseLabel(i, max_count)
           tests  == [i \in 1 .. n |->
                       <<Push, Push, Expr(s.cases[i].cond), Pop("rdi"), Ins([op |-> "cmp2"]), Pop("rax"),
                         Ins([op |-> "je", to |-> L(i)])>>]
           x      == FlattenSeq(tests)
           y      == IF s.default = Absent THEN <<>> ELSE <<Jmp(L(n + 1))>>
           z      == [i \in DOMAIN bodies |-> Stmt([kind |-> "case", i |-> i, body |-> bodies[i]])]
           break  == Lab("break", max_count)
           u      == x \o y \o z
           T      == u \o <<BreakHere>>
           c      == [count |-> max_count, brk |-> max_count, cnt |-> cur_cnt_id]
           E      == LeavesCases(s)
           X      == Exits(E, c)
           C      == {L(k) : k \in 1 .. m}
           W      == C \cup {break}
           N      == W \cup X
<1>1. /\ todo # <<>> /\ Head(todo).op = "cases" /\ Becomes(u \o <<BreakHere, Restore>>)
      /\ FreshCount /\ cur_brk_id' = max_count
      /\ UNCHANGED <<function, code, depth, cur_cnt_id, deferred>>
  BY DEF MatchCases, Bodies
<1>2. s \in Stmts /\ s.kind = "match" /\ IsStmt(s, Own, Below, Deferred) /\ Escapes(s) = E \ {"break"}
  <2>1. s \in Below /\ s.kind = "match"
    BY <1>1, HeadIs, HeadIsBelow DEF IInv, IsTask
  <2> QED BY <2>1, BelowIs DEF EscapesFrom, LeavesCases
<1>3. Writes(Head(todo), Now) = {} /\ Needs(Head(todo), Now) = Exits(E \ {"break"}, Now)
  BY <1>1, <1>2 DEF Writes, Needs
<1>4. max_count \in Nat /\ Now \in Contexts /\ c \in Contexts
  <2>1. max_count \in Nat /\ Now \in Contexts
    BY <1>1, NowIsContext DEF IInv, TasksOK
  <2> QED BY <2>1 DEF Now, Contexts
<1>5. /\ n \in Nat /\ m \in Nat /\ m >= n /\ DOMAIN bodies = 1 .. m
      /\ \A k \in 1 .. m : bodies[k] \in Below /\ bodies[k] \in Stmts /\ Escapes(bodies[k]) \subseteq E
  <2>1. m >= n
    BY <1>2, BodiesAre DEF BodyCount
  <2> QED BY <1>2, <2>1, BodiesAre, BelowIs
<1>u. Node(Head(todo))
  BY <1>1 DEF Node
<1>6. \A i \in 1 .. n : s.cases[i].cond \in Own
  BY <1>2 DEF IsStmt
<1>7. \A k \in 1 .. m : Exits(Escapes(bodies[k]), c) \subseteq N
  <2>1. SUFFICES ASSUME NEW k \in 1 .. m PROVE Exits(Escapes(bodies[k]), c) \subseteq N
    OBVIOUS
  <2>2. Escapes(bodies[k]) \subseteq E
    BY <1>5
  <2> HIDE DEF E, c, bodies
  <2>3. Exits(Escapes(bodies[k]), c) \subseteq Exits(E, c)
    BY <2>2, ExitsJoin
  <2> HIDE DEF W
  <2> QED BY <2>3
<1>8. Lab("break", c.count) \in N
  OBVIOUS
<1>9. z = [i \in 1 .. m |-> Stmt([kind |-> "case", i |-> i, body |-> bodies[i]])]
  BY <1>5
<1>z. Stays(z)
  <2>1. ASSUME NEW k \in 1 .. m PROVE Rests(z[k])
    <3> DEFINE b == [kind |-> "case", i |-> k, body |-> bodies[k]]
    <3>1. z[k] = Stmt(b) /\ b.kind = "case" /\ b.body \in Below
      BY <1>5, <1>9
    <3> HIDE DEF b, z
    <3>2. z[k].op = "stmt" /\ z[k].s = b
      BY <3>1 DEF Stmt
    <3> QED BY <1>u, <3>1, <3>2, RestsCases
  <2>2. DOMAIN z = 1 .. m /\ z = [k \in DOMAIN z |-> z[k]]
    BY <1>5
  <2> HIDE DEF z, m
  <2> QED BY <1>5, <2>1, <2>2, StaysMap
<1> HIDE DEF bodies
<1>10. Stretch(z, c, C, N)
  <2>1. Stretch(z, c, {CaseLabel(k, c.count) : k \in 1 .. m}, N)
    <3> HIDE DEF m, c, N, z
    <3> QED BY <1>4, <1>5, <1>7, <1>8, <1>9, CasesStretch
  <2>2. {CaseLabel(k, c.count) : k \in 1 .. m} = C
    OBVIOUS
  <2> HIDE DEF z, c, C, N, m
  <2> QED BY <2>1, <2>2
<1>11. \A k \in 1 .. m : L(k) \in N
  OBVIOUS
<1>12. Stretch(x, c, {}, N) /\ Stays(x)
  <2>1. ASSUME NEW k \in 1 .. n PROVE Stretch(tests[k], c, {}, N) /\ Stays(tests[k])
    <3> DEFINE t1 == Push
               t3 == Expr(s.cases[k].cond)
               t4 == Pop("rdi")
               t5 == Ins([op |-> "cmp2"])
               t6 == Pop("rax")
               t7 == Ins([op |-> "je", to |-> L(k)])
               V  == <<t1, t1, t3, t4, t5, t6, t7>>
               P  == {t1, t3, t4, t5, t6, t7}
    <3>1. tests[k] = V
      OBVIOUS
    <3>2. IsPlain(t1) /\ IsPlain(t3) /\ IsPlain(t4) /\ IsPlain(t5) /\ IsPlain(t6)
      <4>1. IsPlain(t5)
        BY PlainIns
      <4> QED BY <1>6, <4>1, PlainStack, PlainExprs, OwnExprs
    <3>s. Stays(V)
      <4> DEFINE V1 == <<t1, t1, t3, t4, t5, t6>>
                 V2 == <<t7>>
      <4>1. IsCalm(t1, 0, 1) /\ IsCalm(t1, 1, 2) /\ IsCalm(t3, 2, 2) /\ IsCalm(t4, 2, 1) /\ IsCalm(t5, 1, 1)
            /\ IsCalm(t6, 1, 0)
        BY <1>6, CalmStack, CalmExprs, CalmIns
      <4>2. Rests(t7)
        BY <1>u, RestsLabels DEF Je
      <4> HIDE DEF t1, t3, t4, t5, t6, t7
      <4>3. V = V1 \o V2
        OBVIOUS
      <4>4. Calm(V1, 0, 0)
        BY <4>1, Calm6
      <4>5. Stays(V2)
        BY <4>2, StaysOne
      <4> HIDE DEF V1, V2, V
      <4>6. Stays(V1)
        BY <1>u, <4>4, StaysCalm
      <4> QED BY <4>3, <4>5, <4>6, StaysJoin
    <3>3. Does(t7, c, {}, {L(k)})
      <4> HIDE DEF L
      <4> QED BY DEF Does, Ins, IsTask, Writes, Needs, IsJump
    <3>4. L(k) \in N
      BY <1>5, <1>11
    <3> HIDE DEF t1, t3, t4, t5, t6, t7, N, c, L, tests
    <3>5. \A t \in P : Quiet(t, c, N)
      <4>1. \A t : IsPlain(t) => Quiet(t, c, N)
        BY PlainTask DEF Quiet
      <4>2. Quiet(t7, c, N)
        BY <3>3, <3>4 DEF Does, Quiet
      <4> QED BY <3>2, <4>1, <4>2
    <3>6. V \in Seq(P)
      OBVIOUS
    <3> HIDE DEF V, P
    <3>7. Stretch(V, c, {}, N)
      BY ONLY <3>5, <3>6, QuietOver
    <3> QED BY <3>1, <3>7, <3>s
  <2>2. DOMAIN tests = 1 .. n /\ tests = [k \in DOMAIN tests |-> tests[k]]
    OBVIOUS
  <2> HIDE DEF tests, n, N, c
  <2>3. Stays(x)
    BY <1>5, <2>1, <2>2, StaysFlat
  <2> QED BY <1>5, <2>1, <2>2, <2>3, QuietFlat
<1>13. Stretch(y, c, {}, N) /\ Stays(y)
  <2>1. CASE s.default = Absent
    <3>1. Stretch(<<>>, c, {}, N)
      BY NoStretch, WiderStretch
    <3> QED BY <2>1, <3>1, StaysNone
  <2>2. CASE s.default # Absent
    <3>1. n + 1 \in 1 .. m
      BY <1>5, <2>2 DEF BodyCount
    <3>2. Stretch(<<Jmp(L(n + 1))>>, c, {}, {L(n + 1)})
      BY JumpsDo, OneDoes
    <3>3. {L(n + 1)} \subseteq N
      BY <1>11, <3>1
    <3>4. Stretch(<<Jmp(L(n + 1))>>, c, {}, N)
      <4> HIDE DEF L, N, c, n
      <4> QED BY <3>2, <3>3, WiderStretch
    <3>5. Stays(<<Jmp(L(n + 1))>>)
      BY <1>u, RestsLabels, StaysOne
    <3> QED BY <2>2, <3>4, <3>5
  <2> QED BY <2>1, <2>2
<1>14. Stretch(<<BreakHere>>, c, {break}, {}) /\ Stays(<<BreakHere>>)
  BY <1>u, LabelDoes, OneDoes, RestsLabels, StaysOne DEF BreakHere
<1>15. C \cap {break} = {} /\ \A l \in W : Fresh(l, max_count)
  BY DEF CaseLabel, Lab, Fresh
<1>16. \A l \in N : l \in W \/ l \in Needs(Head(todo), Now) \/ l = ReturnLabel
  <2>1. X \subseteq {break} \cup Exits(E \ {"break"}, Now)
    BY DEF Exits, Now
  <2> HIDE DEF X, W
  <2> QED BY <1>3, <2>1 DEF W
<1>r. ReturnLabel \notin N
  BY ExitsAreInside DEF CaseLabel, Lab, ReturnLabel
<1>17. W = C \cup {break} /\ u = x \o y \o z /\ T = u \o <<BreakHere>>
  OBVIOUS
<1> HIDE DEF x, y, z, C, N, W, u, T
<1>18. Stretch(u, c, C, N)
  <2>1. {} \cap {} = {} /\ {} = {} \cup {} /\ N \cup N \subseteq N /\ {} \cap C = {} /\ C = {} \cup C
    OBVIOUS
  <2> HIDE DEF c
  <2>2. Stretch(x \o y, c, {}, N)
    BY <1>12, <1>13, <2>1, JoinTo
  <2> DEFINE v == x \o y
  <2>3. Stretch(v, c, {}, N) /\ u = v \o z
    BY <1>17, <2>2
  <2> HIDE DEF v
  <2>4. Stretch(v \o z, c, C, N)
    BY <1>10, <2>1, <2>3, JoinTo
  <2> QED BY <2>3, <2>4
<1>19. Stretch(T, c, W, N)
  <2>1. N \cup {} \subseteq N
    OBVIOUS
  <2> HIDE DEF c, break
  <2>2. Stretch(u \o <<BreakHere>>, c, W, N)
    BY <1>14, <1>15, <1>17, <1>18, <2>1, JoinTo
  <2> QED BY <1>17, <2>2
<1>s. Keeps(T, N)
  <2>1. Stays(x \o y \o z)
    BY <1>12, <1>13, <1>z, StaysJoin
  <2>2. Stays(T)
    BY <1>14, <1>17, <2>1, StaysJoin
  <2> QED BY <1>1, <1>r, <2>2 DEF Stays, Keeps
<1>20. Becomes(Append(T, Restore))
  <2>1. IsList(u)
    BY <1>18 DEF Stretch
  <2>2. u \o <<BreakHere, Restore>> = Append(u \o <<BreakHere>>, Restore)
    BY <2>1, TwoBehind
  <2>3. u \o <<BreakHere, Restore>> = Append(T, Restore)
    BY <1>17, <2>2
  <2> QED BY <1>1, <2>3
<1>21. Stretch(T, [count |-> max_count, brk |-> cur_brk_id', cnt |-> cur_cnt_id'], W, N)
  BY <1>1, <1>19
<1>22. cur_brk_id' \in Nat /\ cur_cnt_id' \in Nat /\ Head(todo).op \notin {"restore", "ins"}
         /\ UNCHANGED <<function, code, deferred>> /\ ~Closing(Head(todo))
  BY <1>1, <1>4 DEF Now, Contexts, Closing
<1> QED BY <1>1, <1>3, <1>15, <1>16, <1>20, <1>21, <1>22, <1>s, NodeStep

-----------------------------------------------------------------------------
LEMMA StartOK == Start => IInv
<1> SUFFICES ASSUME Start PROVE IInv
  OBVIOUS
<1> DEFINE b == Functions[function].body
           t1 == Stmt(b)
           t2 == [op |-> "epilogue"]
           T == todo
           c == Now
           cs == [k \in 1 .. 2 |-> c]
           P == Printed
           J == Targets
           m == max_count
<1>1. /\ function \in DOMAIN Functions /\ todo = <<t1, t2>> /\ code = <<>> /\ deferred = <<>>
      /\ depth = 0 /\ max_count = 0 /\ cur_count = 0 /\ cur_brk_id = 0 /\ cur_cnt_id = 0
  BY DEF Start, Init
<1>2. b \in Stmts /\ b.kind # "case"
  BY <1>1, TreesAssumption DEF IsStmt
<1>3. /\ IsTask(t1) /\ t1.op # "restore" /\ Writes(t1, c) = {} /\ Needs(t1, c) = Exits(Escapes(b), c)
      /\ IsTask(t2) /\ t2.op # "restore" /\ Writes(t2, c) = {ReturnLabel} /\ Needs(t2, c) = {}
  <2>1. /\ IsTask(t1) /\ t1.op # "restore" /\ Writes(t1, c) = {} /\ Needs(t1, c) = Exits(Escapes(b), c)
    BY <1>2, StmtDoes DEF Does
  <2>2. IsTask(t2) /\ t2.op # "restore" /\ Writes(t2, c) = {ReturnLabel} /\ Needs(t2, c) = {}
    BY DEF IsTask, Writes, Needs
  <2> QED BY <2>1, <2>2
<1>4. c \in Contexts
  BY <1>1 DEF Now, Contexts
<1>5. IsList(T) /\ Len(T) = 2 /\ T[1] = t1 /\ T[2] = t2
  <2> HIDE DEF t1, t2
  <2>1. T = <<t1, t2>>
    BY <1>1
  <2> HIDE DEF T
  <2>2. T \in Seq({t1, t2})
    BY <2>1
  <2>3. IsList(T)
    BY ONLY <2>2, SeqIsList
  <2> QED BY <2>1, <2>3
<1>6. IsList(code) /\ IsList(deferred) /\ Len(code) = 0 /\ Len(deferred) = 0
  BY <1>1, EmptyIsList
<1>7. P = {} /\ J = {} /\ PrintedOnce
  BY <1>6 DEF Printed, Targets, PrintedOnce
<1>8. \A k \in 1 .. 2 : k = 1 \/ k = 2
  OBVIOUS
<1>9. TasksOK
  BY <1>1, <1>3, <1>5, <1>6, <1>8 DEF TasksOK
<1>10. Known(ReturnLabel, m) /\ (Tame => Needs(t1, c) = {})
  <2>1. Known(ReturnLabel, m)
    BY DEF Known, ReturnLabel, Lab
  <2>2. Tame => Escapes(b) = {}
    BY DEF Tame
  <2> QED BY <1>3, <2>1, <2>2, ExitsJoin
<1>11. cs[1] = c /\ cs[2] = c /\ cs \in [1 .. 2 -> Contexts]
  BY <1>4
<1> HIDE DEF t1, t2, T, c, cs, P, J, m
<1>12. InContext(T, cs, c)
  <2>1. \A k \in 2 .. 2 : k = 2 /\ k - 1 = 1
    OBVIOUS
  <2> QED BY <1>3, <1>5, <1>11, <2>1 DEF InContext
<1>13. WrittenOnce(T, cs, P, m)
  BY <1>3, <1>5, <1>7, <1>8, <1>10, <1>11 DEF WrittenOnce
<1>14. Has(ReturnLabel, T, cs, P)
  <2>1. 2 \in 1 .. Len(T) /\ ReturnLabel \in Writes(T[2], cs[2])
    BY <1>3, <1>5, <1>11
  <2> QED BY <2>1 DEF Has
<1>15. Tame => Held(T, cs, P, J)
  BY <1>3, <1>5, <1>7, <1>8, <1>10, <1>11 DEF Held
\* The stack is empty wherever a label of no node would be.
<1>16. ASSUME Level PROVE \E H, hs : H \in [Nat -> Nat] /\ Stand(hs, H) /\ Sit(T, cs, H, <<hs[Len(code) + 1], depth>>)
  <2> DEFINE H == [n \in Nat |-> 0]
             hs == [k \in 1 .. 1 |-> 0]
             p == <<0, 0>>
             g == [k \in 1 .. 3 |-> p]
  <2>1. hs \in [1 .. 1 -> Nat] /\ hs[1] = 0 /\ H \in [Nat -> Nat]
    OBVIOUS
  <2>2. p \in Levels /\ p[1] = 0 /\ p[2] = 0 /\ Even(p[1]) /\ Even(p[1] - p[2])
    BY DEF Levels, Even
  <2>3. g \in [1 .. 3 -> Levels] /\ \A k \in 1 .. 3 : g[k] = p
    <3> HIDE DEF p, Levels
    <3> QED BY <2>2
  <2> HIDE DEF g, H, hs
  <2>4. Stand(hs, H)
    <3>1. 0 + 1 = 1 /\ 1 .. 0 = {}
      OBVIOUS
    <3> QED BY <1>6, <2>1, <3>1 DEF Stand
  <2>5. b \in LevelStmts(~Even(p[1])) /\ Escapes(b) = {}
    BY <1>16, <2>2 DEF Level, LevelStmts
  <2>6. Sits(t1, c, H, p) /\ p = Past(t1, p)
    <3>1. t1.op = "stmt" /\ t1.s = b
      BY DEF t1, Stmt
    <3>2. Needs(t1, c) = {}
      BY <1>3, <2>5, ExitsJoin
    <3> HIDE DEF p, b
    <3> QED BY <1>2, <1>3, <2>2, <2>5, <3>1, <3>2 DEF Sits, Bears, Tells, Past, b
  <2>7. Sits(t2, c, H, p) /\ p = Past(t2, p)
    <3>1. t2.op = "epilogue"
      BY DEF t2
    <3> QED BY <1>3, <2>2, <3>1 DEF Sits, Bears, Tells, Past, HeightAt
  <2>8. <<hs[Len(code) + 1], depth>> = p
    BY <1>1, <1>6, <2>1
  <2>9. Sit(T, cs, H, p)
    <3>1. 2 + 1 = 3 /\ 1 + 1 = 2 /\ 1 \in 1 .. 3 /\ 2 \in 1 .. 3 /\ 3 \in 1 .. 3
      OBVIOUS
    <3> HIDE DEF p
    <3>2. g[1] = p /\ g[2] = p /\ g[3] = p
      BY <2>3, <3>1
    <3> QED BY <1>5, <1>8, <1>11, <2>3, <2>6, <2>7, <3>1, <3>2 DEF Sit
  <2> QED BY <2>1, <2>4, <2>8, <2>9
<1>17. EndsWell
  <2>1. T # <<>>
    BY <1>5, EmptyIsList
  <2>2. Closing(t2)
    BY DEF Closing, t2
  <2> QED BY <1>5, <2>1, <2>2 DEF EndsWell, T
<1> QED BY <1>7, <1>9, <1>12, <1>13, <1>14, <1>15, <1>16, <1>17 DEF IInv, T, c, P, J, m

LEMMA GenerateStep == IInv /\ Generate => IInv'
<1> SUFFICES ASSUME IInv, Generate PROVE IInv'
  OBVIOUS
<1>1. CASE Emit \/ NodeDone \/ Epilogue
  BY <1>1, EmitStep, NodeDoneStep, EpilogueStep
<1>2. CASE AddrVariable \/ AddrDeref \/ AddrValue \/ AddrIndex
  BY <1>2, AddrSteps
<1>3. CASE Number \/ LoadedFloat \/ Loaded \/ Reference \/ Not \/ Hole
  BY <1>3, LeafSteps
<1>4. CASE Binary \/ FloatBinary \/ Increment \/ Pipe
  BY <1>4, OperatorSteps
<1>5. CASE StructLiteral \/ ArrayLiteral \/ Closure
  BY <1>5, LiteralSteps
<1>6. CASE Assign \/ AndOr \/ Ternary \/ ElseExpr \/ Call
  BY <1>6, AssignStep, AndOrStep, TernaryStep, ElseExprStep, CallStep
<1>7. CASE Noop \/ ExprStmt \/ Continue \/ Break
  BY <1>7, SimpleSteps
<1>8. CASE Block \/ If \/ With \/ DoUnless \/ ReturnStmt \/ Defer
  BY <1>8, BlockStep, IfStep, WithStep, DoUnlessStep, ReturnStmtStep, DeferStep
<1>9. CASE For \/ ForRange \/ While \/ DoWhile \/ Forever
  BY <1>9, ForStep, ForRangeStep, WhileStep, DoWhileStep, ForeverStep
<1>10. CASE Match \/ MatchCases \/ Case
  BY <1>10, MatchStep, MatchCasesStep, CaseStep
<1> QED BY <1>1, <1>2, <1>3, <1>4, <1>5, <1>6, <1>7, <1>8, <1>9, <1>10 DEF Generate

\* The processor does not touch what the generator keeps.
LEMMA NextStep == IInv /\ [Next]_vars => IInv'
<1>1. ASSUME IInv, Generate PROVE IInv'
  BY <1>1, GenerateStep
<1>2. ASSUME IInv, UNCHANGED gvars PROVE IInv'
  <2>1. UNCHANGED <<function, todo, code, depth, max_count, cur_count, cur_brk_id, cur_cnt_id, deferred>>
    BY <1>2 DEF gvars, counters
  <2>2. Printed' = Printed /\ Targets' = Targets /\ Tame' = Tame /\ Level' = Level /\ Now' = Now
    BY <2>1 DEF Printed, Targets, Tame, Level, Now
  <2>3. TasksOK' /\ PrintedOnce' /\ EndsWell'
    BY <1>2, <2>1, <2>2 DEF IInv, TasksOK, DeferredIs, PrintedOnce, Prints, EndsWell
  <2>4. PICK cs : /\ InContext(todo, cs, Now)
                  /\ WrittenOnce(todo, cs, Printed, max_count)
                  /\ Has(ReturnLabel, todo, cs, Printed)
                  /\ Tame => Held(todo, cs, Printed, Targets)
                  /\ Level => \E H, hs :
                                H \in [Nat -> Nat] /\ Stand(hs, H) /\ Sit(todo, cs, H, <<hs[Len(code) + 1], depth>>)
    BY <1>2 DEF IInv
  <2>5. /\ InContext(todo', cs, Now')
        /\ WrittenOnce(todo', cs, Printed', max_count')
        /\ Has(ReturnLabel, todo', cs, Printed')
        /\ Tame' => Held(todo', cs, Printed', Targets')
    BY <2>1, <2>2, <2>4
  <2>6. Level' => \E H, hs :
                    H \in [Nat -> Nat] /\ Stand(hs, H)' /\ Sit(todo', cs, H, <<hs[Len(code') + 1], depth'>>)
    <3>1. SUFFICES ASSUME Level PROVE \E H, hs :
                    H \in [Nat -> Nat] /\ Stand(hs, H)' /\ Sit(todo', cs, H, <<hs[Len(code') + 1], depth'>>)
      BY <2>2
    <3>2. PICK H, hs : H \in [Nat -> Nat] /\ Stand(hs, H) /\ Sit(todo, cs, H, <<hs[Len(code) + 1], depth>>)
      BY <2>4, <3>1
    <3>3. Stand(hs, H)' /\ Sit(todo', cs, H, <<hs[Len(code') + 1], depth'>>)
      BY <2>1, <3>2 DEF Stand
    <3> QED BY <3>2, <3>3
  <2> QED BY <2>3, <2>5, <2>6 DEF IInv
<1> QED BY <1>1, <1>2 DEF Next, vars

\* Whatever functions are compiled, every label the tree walk has printed or is
\* still to print is written by one place of the code only, and every jump has
\* or will have its label if none of the program's jumps is left without one.
THEOREM AsmInvariant == Spec => []IInv
<1> QED BY StartOK, NextStep, PTL DEF Spec

\* The labels of the finished code are all different, and its jumps go to one of
\* them each (asm_gen_expr, asm_gen_stmt and asm_gen_function number the labels
\* from one counter, and jumps remember the numbers of the node around them).
THEOREM JumpsLandOnLabels == Spec => []JumpsHaveTargets
<1>1. IInv => JumpsHaveTargets
  <2> SUFFICES ASSUME IInv, todo = <<>> PROVE JumpsHaveTargets
    BY DEF JumpsHaveTargets
  <2>1. \A i, j \in 1 .. Len(code) : Prints(i, code[i].ins.label) /\ Prints(j, code[i].ins.label) => i = j
    BY DEF IInv, PrintedOnce, Prints
  <2>2. ASSUME Tame, NEW i \in 1 .. Len(code), IsJump(code[i].ins)
        PROVE  \E j \in 1 .. Len(code) : Prints(j, code[i].ins.to)
    <3>1. PICK cs : Held(todo, cs, Printed, Targets)
      BY <2>2 DEF IInv
    <3>2. Len(todo) = 0
      BY EmptyIsList
    <3>3. code[i].ins.to \in Targets
      BY <2>2 DEF Targets
    <3>4. code[i].ins.to \in Printed
      BY <3>1, <3>2, <3>3 DEF Held, Has
    <3> QED BY <3>4 DEF Printed, Prints
  <2> QED BY <2>1, <2>2 DEF JumpsHaveTargets, Tame
<1> QED BY <1>1, AsmInvariant, PTL

-----------------------------------------------------------------------------
(* The processor runs the finished text.  The stack of the function is as   *)
(* high as the place of the text it is at, or higher by what even jumps     *)
(* left on it.                                                              *)
SeatedAt(i, s, hs) == /\ i \in 1 .. Len(code) /\ IsList(s)
                      /\ hs[i] <= Len(s) /\ Even(Len(s) - hs[i])
InPlace == \E H, hs : H \in [Nat -> Nat] /\ Stand(hs, H) /\ SeatedAt(pc, stack, hs)

RunInv == /\ todo # <<>> => status = "ready"
          /\ status = "ready" => stack = <<>>
          /\ Level /\ status = "running" => InPlace

\* An instruction moves the stack by a number of slots.
LEMMA EffectIsInt ==
  ASSUME NEW i, Counts(i)
  PROVE  Effect(i) \in Int
<1>1. CASE i.op \in {"push", "pushcopy"}
  BY <1>1 DEF Counts, Effect
<1>2. CASE i.op = "pop"
  BY <1>2 DEF Effect
<1>3. CASE i.op = "release"
  <2>1. i.slots \in Nat
    BY <1>3 DEF Counts
  <2>2. Effect(i) = -i.slots
    BY <1>3 DEF Effect
  <2> QED BY ONLY <2>1, <2>2
<1>4. CASE i.op \notin {"push", "pushcopy", "pop", "release"}
  BY <1>4 DEF Effect
<1> QED BY ONLY <1>1, <1>2, <1>3, <1>4

\* What an instruction leaves on the stack is what the next one expects there.
LEMMA OnwardSeated ==
  ASSUME NEW H \in [Nat -> Nat], NEW hs, Stand(hs, H), SeatedAt(pc, stack, hs),
         todo = <<>>, TasksOK, EndsWell, Here.op # "ret",
         NEW s, IsList(s), Len(s) = Len(stack) + Effect(Here)
  PROVE  SeatedAt(pc + 1, s, hs)
<1>1. pc \in 1 .. Len(code) /\ hs[pc] <= Len(stack) /\ Even(Len(stack) - hs[pc])
  BY DEF SeatedAt
<1>0. Len(code) \in Nat
  BY ListLength DEF TasksOK
<1>2. pc + 1 \in 1 .. Len(code)
  <2>1. pc # Len(code)
    BY DEF EndsWell, Here
  <2> QED BY <1>0, <1>1, <2>1
<1>3. Len(stack) \in Nat /\ Len(s) \in Nat
  BY ListLength DEF SeatedAt
<1>4. hs[pc] \in Nat /\ hs[pc + 1] \in Nat /\ hs[pc + 1] = hs[pc] + Effect(Here)
  <2>1. hs \in [1 .. Len(code) + 1 -> Nat] /\ hs[pc + 1] = hs[pc] + Effect(code[pc].ins)
    BY <1>1 DEF Stand
  <2>2. pc \in 1 .. Len(code) + 1 /\ pc + 1 \in 1 .. Len(code) + 1
    BY <1>0, <1>1
  <2> QED BY <2>1, <2>2 DEF Here
<1>5. Effect(Here) \in Int
  <2>1. Counts(Here)
    BY <1>1 DEF Stand, Stands, Here
  <2> QED BY ONLY <2>1, EffectIsInt
<1> HIDE DEF Effect, Here
<1>6. hs[pc + 1] <= Len(s) /\ Len(s) - hs[pc + 1] = Len(stack) - hs[pc]
  <2> DEFINE a == hs[pc]
             b == hs[pc + 1]
             e == Effect(Here)
             m == Len(stack)
             n == Len(s)
  <2>1. /\ a \in Nat /\ b \in Nat /\ m \in Nat /\ n \in Nat /\ e \in Int
        /\ b = a + e /\ n = m + e /\ a <= m
    BY <1>1, <1>3, <1>4, <1>5
  <2> HIDE DEF a, b, e, m, n
  <2>2. b <= n /\ n - b = m - a
    BY <2>1
  <2> QED BY <2>2 DEF a, b, m, n
<1> QED BY <1>1, <1>2, <1>6 DEF SeatedAt

\* A jump lands where the text expects no more than it brings.
LEMMA GoneSeated ==
  ASSUME NEW H \in [Nat -> Nat], NEW hs, Stand(hs, H), SeatedAt(pc, stack, hs),
         todo = <<>>, IInv, Level, IsJump(Here)
  PROVE  SeatedAt(Goes(Here.to), stack, hs)
<1> DEFINE l == Here.to
           h == HeightAt(l, H)
<1>1. pc \in 1 .. Len(code) /\ hs[pc] <= Len(stack) /\ Even(Len(stack) - hs[pc]) /\ IsList(stack)
  BY DEF SeatedAt
<1>0. Len(code) \in Nat /\ \A i \in 1 .. Len(code) : i \in 1 .. Len(code) + 1
  BY ListLength DEF IInv, TasksOK
<1>2. hs[pc] \in Nat /\ Len(stack) \in Nat
  <2>1. pc \in 1 .. Len(code) + 1
    BY <1>0, <1>1
  <2> QED BY <1>1, <2>1, ListLength DEF Stand
<1>3. h <= hs[pc] /\ Even(hs[pc] - h)
  BY <1>1 DEF Stand, Stands, Here
<1>4. l \in Printed
  <2>1. Tame
    BY DEF Level, Tame
  <2>2. PICK cs : Held(todo, cs, Printed, Targets)
    BY <2>1 DEF IInv
  <2>3. Len(todo) = 0
    BY EmptyIsList
  <2>4. l \in Targets
    BY <1>1 DEF Targets, Here
  <2> QED BY <2>2, <2>3, <2>4 DEF Held, Has
<1>5. Goes(l) \in DOMAIN code /\ code[Goes(l)].ins.op = "label" /\ code[Goes(l)].ins.label = l
  <2>1. DOMAIN code = 1 .. Len(code)
    BY ListLength DEF IInv, TasksOK
  <2>2. \E i \in DOMAIN code : code[i].ins.op = "label" /\ code[i].ins.label = l
    BY <1>4, <2>1 DEF Printed
  <2> HIDE DEF l
  <2> QED BY <2>2 DEF Goes
<1>6. Goes(l) \in 1 .. Len(code)
  BY <1>5, ListLength DEF IInv, TasksOK
<1> HIDE DEF l, h
<1>7. hs[Goes(l)] = h /\ hs[Goes(l)] \in Nat
  <2> DEFINE i == Goes(l)
  <2>1. i \in 1 .. Len(code) /\ i \in 1 .. Len(code) + 1
    BY <1>0, <1>6
  <2>2. code[i].ins.op = "label" /\ code[i].ins.label = l
    BY <1>5
  <2> HIDE DEF i
  <2>3. hs[i] \in Nat /\ hs[i] = HeightAt(l, H)
    BY <2>1, <2>2 DEF Stand, Stands
  <2> QED BY <2>3 DEF i, h
<1> DEFINE k == hs[Goes(l)]
           m == hs[pc]
           n == Len(stack)
<1>8. k \in Nat /\ m \in Nat /\ n \in Nat /\ k <= m /\ m <= n /\ Even(n - m) /\ Even(m - k)
  BY <1>1, <1>2, <1>3, <1>7
<1> HIDE DEF k, m, n
<1>9. k <= n /\ Even(n - k)
  BY <1>8, EvenThrough
<1> QED BY <1>1, <1>6, <1>9 DEF SeatedAt, k, n, l

\* Where the processor is, for the steps below.
LEMMA IsSeated ==
  ASSUME IInv, RunInv, Level, status = "running"
  PROVE  /\ todo = <<>> /\ TasksOK /\ EndsWell
         /\ \E H, hs :
              /\ H \in [Nat -> Nat]
              /\ Stand(hs, H) /\ SeatedAt(pc, stack, hs) /\ Counts(Here)
              /\ pc + 1 \in 1 .. Len(code) + 1 /\ hs[pc + 1] = hs[pc] + Effect(Here)
              /\ hs[pc] \in Nat /\ hs[pc + 1] \in Nat
<1>1. todo = <<>> /\ TasksOK /\ EndsWell
  BY DEF RunInv, IInv
<1>2. PICK H, hs : H \in [Nat -> Nat] /\ Stand(hs, H) /\ SeatedAt(pc, stack, hs)
  BY DEF RunInv, InPlace
<1>3. Len(code) \in Nat /\ pc \in 1 .. Len(code)
  BY <1>1, <1>2, ListLength DEF TasksOK, SeatedAt
<1>4. pc + 1 \in 1 .. Len(code) + 1 /\ pc \in 1 .. Len(code) + 1
  BY <1>3
<1>5. Counts(Here) /\ hs[pc + 1] = hs[pc] + Effect(Here)
  BY <1>2, <1>3 DEF Stand, Stands, Here
<1>6. hs[pc] \in Nat /\ hs[pc + 1] \in Nat
  BY <1>2, <1>4 DEF Stand
<1> QED BY <1>1, <1>2, <1>4, <1>5, <1>6

\* What RunInv is after a step of a running function.
LEMMA StaysSeated ==
  ASSUME IInv, RunInv, status = "running", UNCHANGED gvars, status' # "ready",
         (Level /\ status' = "running") =>
           \E H, hs : H \in [Nat -> Nat] /\ Stand(hs, H) /\ SeatedAt(pc', stack', hs)
  PROVE  RunInv'
<1>1. UNCHANGED <<function, todo, code>>
  BY DEF gvars
<1>2. Level' = Level /\ todo = <<>>
  BY <1>1 DEF Level, RunInv
<1>3. ASSUME NEW H \in [Nat -> Nat], NEW hs, Stand(hs, H), SeatedAt(pc', stack', hs)
      PROVE  InPlace'
  <2>1. Stand(hs, H)' /\ SeatedAt(pc, stack, hs)'
    BY <1>1, <1>3 DEF Stand, SeatedAt
  <2> QED BY <2>1 DEF InPlace
<1> QED BY <1>1, <1>2, <1>3 DEF RunInv

\* An instruction that leaves the stack alone, or changes it by what it says.
LEMMA StepsOn ==
  ASSUME IInv, RunInv, status = "running", UNCHANGED gvars, status' # "ready", Here.op # "ret", Onward,
         Level => IsList(stack') /\ Len(stack') = Len(stack) + Effect(Here)
  PROVE  RunInv'
<1>1. SUFFICES ASSUME Level
               PROVE  \E H, hs : H \in [Nat -> Nat] /\ Stand(hs, H) /\ SeatedAt(pc', stack', hs)
  BY StaysSeated
<1>2. PICK H, hs : H \in [Nat -> Nat] /\ Stand(hs, H) /\ SeatedAt(pc, stack, hs)
  BY <1>1, IsSeated
<1>3. todo = <<>> /\ TasksOK /\ EndsWell
  BY <1>1, IsSeated
<1>4. SeatedAt(pc + 1, stack', hs)
  BY <1>1, <1>2, <1>3, OnwardSeated
<1> QED BY <1>2, <1>4 DEF Onward

LEMMA StaysLevel ==
  ASSUME IInv, RunInv, status = "running", UNCHANGED gvars, status' # "ready",
         Here.op \notin {"ret", "push", "pushcopy", "pop", "release"}, Onward, stack' = stack
  PROVE  RunInv'
<1>1. ASSUME Level PROVE IsList(stack) /\ Len(stack) = Len(stack) + Effect(Here)
  <2>1. IsList(stack)
    BY <1>1, IsSeated DEF SeatedAt
  <2>2. Effect(Here) = 0
    BY DEF Effect
  <2>3. Len(stack) \in Nat
    BY <2>1, ListLength
  <2> QED BY <2>1, <2>2, <2>3
<1> QED BY <1>1, StepsOn

\* Or jumps.
LEMMA StepsTo ==
  ASSUME IInv, RunInv, status = "running", UNCHANGED gvars, status' # "ready",
         IsJump(Here), pc' = Goes(Here.to), stack' = stack
  PROVE  RunInv'
<1>1. SUFFICES ASSUME Level
               PROVE  \E H, hs : H \in [Nat -> Nat] /\ Stand(hs, H) /\ SeatedAt(pc', stack', hs)
  BY StaysSeated
<1>2. PICK H, hs : H \in [Nat -> Nat] /\ Stand(hs, H) /\ SeatedAt(pc, stack, hs)
  BY <1>1, IsSeated
<1>3. todo = <<>>
  BY <1>1, IsSeated
<1>4. SeatedAt(Goes(Here.to), stack, hs)
  BY <1>1, <1>2, <1>3, GoneSeated
<1> QED BY <1>2, <1>4

\* Events happen while the function runs.
LEMMA NotReady ==
  ASSUME status = "running"
  PROVE  /\ Silently => status' # "ready"
         /\ \A e : Happens(e) => status' # "ready"
         /\ \A t, yes : Decides(t, yes) => status' # "ready"
BY DEF Silently, Happens, Decides

LEMMA CalmSteps ==
  ASSUME IInv, RunInv, UNCHANGED gvars,
         \/ SetReg \/ MovReg \/ LoadAt \/ ShiftBy \/ OperateOn \/ OperateFloats
         \/ AddIndex \/ FromBack \/ Increase \/ SetIfZero \/ LabelHere \/ LoadSlot
  PROVE  RunInv'
<1>1. /\ status = "running" /\ Onward /\ stack' = stack /\ Silently
      /\ Here.op \notin {"ret", "push", "pushcopy", "pop", "release"}
  BY DEF SetReg, MovReg, LoadAt, ShiftBy, OperateOn, OperateFloats, AddIndex, FromBack, Increase,
         SetIfZero, LabelHere, LoadSlot, At
<1>2. status' # "ready"
  BY <1>1, NotReady
<1> QED BY <1>1, <1>2, StaysLevel

LEMMA EventSteps ==
  ASSUME IInv, RunInv, UNCHANGED gvars,
         StoreAt \/ ClearLocal \/ CallFunction \/ KeepSlot \/ CopyStruct \/ Compare \/ CompareTwo
  PROVE  RunInv'
<1>1. /\ status = "running" /\ Onward /\ stack' = stack
      /\ Here.op \notin {"ret", "push", "pushcopy", "pop", "release"}
  BY DEF StoreAt, ClearLocal, CallFunction, KeepSlot, CopyStruct, Compare, CompareTwo, At
<1>2. status' # "ready"
  <2>1. CASE StoreAt \/ ClearLocal \/ KeepSlot \/ CopyStruct
    BY <1>1, <2>1, NotReady DEF StoreAt, ClearLocal, KeepSlot, CopyStruct
  <2>2. CASE CallFunction
    BY <1>1, <2>2, NotReady DEF CallFunction
  <2>3. CASE Compare
    BY <1>1, <2>3, NotReady DEF Compare
  <2>4. CASE CompareTwo
    BY <1>1, <2>4, NotReady DEF CompareTwo
  <2> QED BY <2>1, <2>2, <2>3, <2>4
<1> QED BY <1>1, <1>2, StaysLevel

LEMMA JumpSteps ==
  ASSUME IInv, RunInv, UNCHANGED gvars, Jump \/ JumpIf \/ RangeEnds
  PROVE  RunInv'
<1>1. status = "running" /\ IsJump(Here) /\ stack' = stack
  BY DEF Jump, JumpIf, RangeEnds, At, IsJump
<1>2. Here.op \notin {"ret", "push", "pushcopy", "pop", "release"}
  BY <1>1 DEF IsJump
<1>3. pc' = Goes(Here.to) \/ Onward
  BY DEF Jump, JumpIf, RangeEnds
<1>4. status' # "ready"
  <2>1. CASE Jump \/ JumpIf
    BY <1>1, <2>1, NotReady DEF Jump, JumpIf
  <2>2. CASE RangeEnds
    BY <1>1, <2>2, NotReady DEF RangeEnds
  <2> QED BY <2>1, <2>2
<1>5. CASE pc' = Goes(Here.to)
  BY <1>1, <1>4, <1>5, StepsTo
<1>6. CASE Onward
  BY <1>1, <1>2, <1>4, <1>6, StaysLevel
<1> QED BY <1>3, <1>5, <1>6

LEMMA PushSteps ==
  ASSUME IInv, RunInv, UNCHANGED gvars, PushReg \/ PushSlots
  PROVE  RunInv'
<1>1. status = "running" /\ Onward /\ Silently /\ Here.op \in {"push", "pushcopy"}
  BY DEF PushReg, PushSlots, At
<1>2. status' # "ready"
  BY <1>1, NotReady
<1>3. ASSUME Level PROVE IsList(stack') /\ Len(stack') = Len(stack) + Effect(Here)
  <2>1. IsList(stack) /\ Counts(Here)
    BY <1>1, <1>3, IsSeated DEF SeatedAt
  <2>2. CASE PushReg
    <3>1. Effect(Here) = 1
      BY <2>1, <2>2 DEF PushReg, At, Effect, Counts
    <3> DEFINE x == IF Here.from = "none" THEN Junk ELSE regs[Here.from]
    <3>2. stack' = <<x>> \o stack
      BY <2>2 DEF PushReg
    <3> HIDE DEF x
    <3> QED BY <2>1, <3>1, <3>2, Prefixed
  <2>3. CASE PushSlots
    <3> DEFINE n == Here.slots
               t == [i \in 1 .. n |-> ContentOf(Behind(regs[Here.from], i - 1))]
               X == {t[i] : i \in 1 .. n}
    <3>1. Effect(Here) = n /\ n \in Nat
      BY <2>1, <2>3 DEF PushSlots, At, Effect, Counts
    <3>2. stack' = t \o stack
      BY <2>3 DEF PushSlots
    <3>3. t \in [1 .. n -> X]
      OBVIOUS
    <3> HIDE DEF t, X, n
    <3>4. IsList(t) /\ Len(t) = n
      BY <3>1, <3>3, FunIsList
    <3>5. IsList(t \o stack) /\ Len(stack) \in Nat /\ Len(t \o stack) = Len(t) + Len(stack)
      BY <2>1, <3>4, Joining
    <3> QED BY <3>1, <3>2, <3>4, <3>5
  <2> QED BY <2>2, <2>3
<1> QED BY <1>1, <1>2, <1>3, StepsOn

\* There is always something to pop, and as much as is released.
LEMMA PopSteps ==
  ASSUME IInv, RunInv, UNCHANGED gvars, PopReg \/ ReleaseSlots
  PROVE  RunInv'
<1>1. status = "running" /\ Onward /\ Silently /\ Here.op \in {"pop", "release"}
  BY DEF PopReg, ReleaseSlots, At
<1>2. status' # "ready"
  BY <1>1, NotReady
<1>3. ASSUME Level PROVE IsList(stack') /\ Len(stack') = Len(stack) + Effect(Here)
  <2>1. PICK H, hs :
              /\ H \in [Nat -> Nat]
              /\ SeatedAt(pc, stack, hs) /\ Counts(Here)
              /\ hs[pc + 1] = hs[pc] + Effect(Here)
              /\ hs[pc] \in Nat /\ hs[pc + 1] \in Nat
    BY <1>1, <1>3, IsSeated
  <2>2. IsList(stack) /\ Len(stack) \in Nat /\ hs[pc] <= Len(stack)
    BY <2>1, ListLength DEF SeatedAt
  <2>3. CASE PopReg
    <3>1. Effect(Here) = -1
      BY <2>3 DEF PopReg, At, Effect
    <3>2. Len(stack) # 0
      BY <2>1, <2>2, <3>1
    <3>3. stack # <<>>
      BY <3>2
    <3>4. stack' = Tail(stack)
      BY <2>3, <3>3 DEF PopReg
    <3>5. IsList(Tail(stack)) /\ Len(Tail(stack)) = Len(stack) - 1
      BY <2>2, <3>3, Shortened
    <3> QED BY <2>2, <3>1, <3>4, <3>5
  <2>4. CASE ReleaseSlots
    <3> DEFINE n == Here.slots
    <3>1. Effect(Here) = -n /\ n \in Nat
      BY <2>1, <2>4 DEF ReleaseSlots, At, Effect, Counts
    <3>2. stack' = SubSeq(stack, n + 1, Len(stack))
      BY <2>4 DEF ReleaseSlots, Deeper
    <3> HIDE DEF n
    <3>3. n <= Len(stack)
      <4> DEFINE a == hs[pc]
                 b == hs[pc + 1]
                 e == Effect(Here)
                 m == Len(stack)
      <4>1. a \in Nat /\ b \in Nat /\ m \in Nat /\ b = a + e /\ a <= m /\ e = -n
        BY <2>1, <2>2, <3>1
      <4> HIDE DEF a, b, e, m
      <4>2. n <= m
        BY <3>1, <4>1
      <4> QED BY <4>2 DEF m
    <3>4. IsList(SubSeq(stack, n + 1, Len(stack))) /\ Len(SubSeq(stack, n + 1, Len(stack))) = Len(stack) - n
      BY <2>2, <3>1, <3>3, CutOff
    <3> QED BY <2>2, <3>1, <3>2, <3>4
  <2> QED BY <2>3, <2>4
<1> QED BY <1>1, <1>2, <1>3, StepsOn

LEMMA EnterStep ==
  ASSUME IInv, RunInv, UNCHANGED gvars, Enter
  PROVE  RunInv'
<1>1. UNCHANGED <<function, todo, code>> /\ pc' = 1 /\ status' = "running" /\ stack' = stack
  BY DEF gvars, Enter
<1>2. todo = <<>> /\ stack = <<>>
  BY DEF Enter, RunInv
<1>3. Level' = Level
  BY <1>1 DEF Level
<1>4. ASSUME Level PROVE InPlace'
  <2>1. PICK H, hs : H \in [Nat -> Nat] /\ Stand(hs, H)
    BY <1>4 DEF IInv
  <2>2. Len(code) \in Nat /\ Len(code) # 0
    BY <1>2, ListLength DEF IInv, TasksOK, EndsWell
  <2>3. 1 \in 1 .. Len(code) /\ hs[1] = 0
    BY <2>1, <2>2 DEF Stand
  <2>4. IsList(stack) /\ Len(stack) = 0
    BY <1>2, EmptyIsList
  <2>5. SeatedAt(1, stack, hs)
    BY <2>3, <2>4 DEF SeatedAt, Even
  <2>6. Stand(hs, H)' /\ SeatedAt(pc, stack, hs)'
    BY <1>1, <2>1, <2>5 DEF Stand, SeatedAt
  <2> QED BY <2>1, <2>6 DEF InPlace
<1> QED BY <1>1, <1>2, <1>3, <1>4 DEF RunInv

LEMMA ReturnStep ==
  ASSUME IInv, RunInv, UNCHANGED gvars, ReturnToCaller
  PROVE  RunInv'
<1>1. todo' = todo /\ status = "running" /\ status' = "returned"
  BY DEF gvars, ReturnToCaller, At
<1> QED BY <1>1 DEF RunInv

\* Nothing runs before the text is finished.
LEMMA WaitingStep ==
  ASSUME RunInv, Generate, UNCHANGED mvars
  PROVE  RunInv'
<1>1. todo # <<>>
  BY DEF Generate, Emit, NodeDone, Epilogue, AddrVariable, AddrDeref, AddrValue, AddrIndex, Number,
         LoadedFloat, Loaded, Reference, Closure, Not, Binary, FloatBinary, Increment, Pipe, Hole,
         StructLiteral, ArrayLiteral, Assign, AndOr, Ternary, ElseExpr, Call, Noop, ExprStmt, Block,
         If, With, DoUnless, For, ForRange, While, DoWhile, Forever, Match, MatchCases, Case,
         ReturnStmt, Continue, Break, Defer, AtExpr, AtAddr, AtStmt
<1>2. status = "ready" /\ UNCHANGED <<pc, stack, status>>
  BY <1>1 DEF RunInv, mvars
<1> QED BY <1>2 DEF RunInv

LEMMA RunStep == IInv /\ RunInv /\ [Next]_vars => RunInv'
<1> SUFFICES ASSUME IInv, RunInv, [Next]_vars PROVE RunInv'
  OBVIOUS
<1>1. CASE Generate /\ UNCHANGED mvars
  BY <1>1, WaitingStep
<1>2. CASE Execute /\ UNCHANGED gvars
  BY <1>2, EnterStep, CalmSteps, EventSteps, JumpSteps, PushSteps, PopSteps, ReturnStep DEF Execute
<1>3. CASE UNCHANGED vars
  <2>1. UNCHANGED <<function, todo, code, pc, stack, status>>
    BY <1>3 DEF vars, gvars, mvars
  <2>2. Level' = Level /\ InPlace' = InPlace
    BY <2>1 DEF Level, InPlace, Stand, SeatedAt
  <2> QED BY <2>1, <2>2 DEF RunInv
<1> QED BY <1>1, <1>2, <1>3 DEF Next

LEMMA RunStart == Start => RunInv
BY DEF Start, RunInv

\* Whatever functions are compiled, and whichever way their tests turn out, a
\* function that leaves the stack as it finds it (Level) has, when it runs into
\* a label, a multiple of sixteen in rsp if and only if cg->depth says so of
\* that place of the text, and at a call always (asm_push, asm_pop and the
\* padding of asm_push_args, with the jumps of asm_gen_expr and asm_gen_stmt).
THEOREM StackStaysAligned == Spec => []StackIsAligned
<1>1. IInv /\ RunInv => StackIsAligned
  <2> SUFFICES ASSUME IInv, RunInv, Level, status = "running" PROVE StackIsAligned
    BY DEF StackIsAligned, DepthTellsAlignment, CallsAligned, At
  <2>1. PICK H, hs : H \in [Nat -> Nat] /\ Stand(hs, H) /\ SeatedAt(pc, stack, hs) /\ hs[pc] \in Nat
    BY IsSeated
  <2> DEFINE h == hs[pc]
             n == Len(stack)
             d == code[pc].depth
  <2>2. Stands(code[pc], H, h)
    BY <2>1 DEF Stand, SeatedAt
  <2>3. h \in Int /\ n \in Int /\ d \in Int /\ Even(n - h)
    <3>1. n \in Nat /\ Even(n - h)
      BY <2>1, ListLength DEF SeatedAt
    <3>2. d \in Int
      BY <2>2 DEF Stands
    <3> QED BY <2>1, <3>1, <3>2
  <2>4. Here.op = "label" => Even(h - d)
    BY <2>2 DEF Stands, Here
  <2>5. Here.op = "call" => Even(h)
    BY <2>2 DEF Stands, Here
  <2> HIDE DEF h, n, d
  <2>6. Here.op = "label" => Even(n - d)
    BY <2>3, <2>4, EvenThrough
  <2>7. Here.op = "call" => Even(n)
    BY <2>3, <2>5, EvenTogether
  <2> QED BY <2>6, <2>7 DEF StackIsAligned, DepthTellsAlignment, CallsAligned, At, Even, n, d
<1> QED BY <1>1, AsmInvariant, RunStart, RunStep, PTL DEF Spec
=============================================================================
