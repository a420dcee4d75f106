-------------------------- MODULE InterpreterProofs --------------------------
(***************************************************************************)
(* Proofs about module Interpreter, for every program, value set, start of *)
(* the flags and limit of the recursion.                                   *)
(*                                                                         *)
(* The inductive invariant IInv says what kind of task the agenda is made  *)
(* of, that main's activation is its last one, and that the activations of *)
(* call_fn in it lie one behind the other on the stack of bytes.  Of the   *)
(* thirty actions only a call and a return change these activations: all   *)
(* others replace one or two tasks at the head of the agenda by others     *)
(* that are no activations (Replaces), which the lemmas AgendaStep and     *)
(* InnerStep treat once.                                                   *)
(***************************************************************************)
EXTENDS Interpreter, SequenceFacts

-----------------------------------------------------------------------------
\* The invocations among the tasks of an agenda.

\* LeavesFrom counts the activations from the end of the tasks: what its recursive
\* definition says does hold of it.
LEMMA LeavesFromIs ==
  ASSUME NEW T, NEW s \in Seq(T)
  PROVE  /\ LeavesFrom(s) \in [0 .. Len(s) -> Seq({t \in T : t.op = "leave"})]
         /\ LeavesFrom(s)[0] = <<>>
         /\ \A n \in 1 .. Len(s) :
              LeavesFrom(s)[n] = LET t == s[Len(s) + 1 - n]
                                 IN IF t.op = "leave" THEN Append(LeavesFrom(s)[n - 1], t)
                                                      ELSE LeavesFrom(s)[n - 1]
<1> DEFINE N == Len(s)
           B == Seq({t \in T : t.op = "leave"})
           z == <<>>
           Step(n, b) == LET t == s[Len(s) + 1 - n] IN IF t.op = "leave" THEN Append(b, t) ELSE b
           h == [n \in 1 .. N |-> [b \in B |-> Step(n, b)]]
           Is(f) == f = [n \in 0 .. N |-> IF n = 0 THEN z ELSE Step(n, f[n - 1])]
<1>1. N \in Nat /\ z \in B
  OBVIOUS
<1>2. \A n \in 1 .. N, b \in B : Step(n, b) \in B
  OBVIOUS
<1>3. LeavesFrom(s) = CHOOSE f : Is(f)
  BY DEF LeavesFrom
<1> HIDE DEF N, B, z, Step
<1>4. h \in [1 .. N -> [B -> B]]
  BY <1>2
<1>5. PICK f \in [0 .. N -> B] : f[0] = z /\ \A n \in 1 .. N : f[n] = h[n][f[n - 1]]
  <2> HIDE DEF h
  <2> QED BY <1>1, <1>4, IterationExists
<1>6. \A n \in 1 .. N : f[n - 1] \in B
  BY <1>1, <1>5
<1>7. \A n \in 1 .. N : f[n] = Step(n, f[n - 1])
  BY <1>5, <1>6
<1>8. Is(f)
  BY <1>5, <1>7
<1>9. Is(LeavesFrom(s))
  BY <1>3, <1>8
<1> DEFINE g == LeavesFrom(s)
<1>10. g[0] = z /\ \A n \in 1 .. N : g[n] = Step(n, g[n - 1])
  BY <1>1, <1>9
<1>11. \A n \in 0 .. N : g[n] = f[n]
  <2> HIDE DEF g
  <2>1. \A n \in 1 .. N : g[n - 1] = f[n - 1] => g[n] = f[n]
    BY <1>7, <1>10
  <2>2. g[0] = f[0]
    BY <1>5, <1>10
  <2> QED BY ONLY <1>1, <2>1, <2>2, IterationsAgree, ZenonT(40)
<1>12. g \in [0 .. N -> B]
  BY <1>5, <1>9, <1>11
<1> QED BY <1>10, <1>12 DEF N, B, z, Step

\* The invocations are tasks of the agenda, all of them activations of call_fn.
LEMMA LeavesType ==
  ASSUME NEW T, NEW s \in Seq(T)
  PROVE  Leaves(s) \in Seq({t \in T : t.op = "leave"})
<1>1. Len(s) \in 0 .. Len(s)
  OBVIOUS
<1> QED BY <1>1, LeavesFromIs DEF Leaves

\* The first task, if it is an activation, is the innermost invocation.
LEMMA LeavesOfTail ==
  ASSUME NEW T, NEW s \in Seq(T), s # <<>>
  PROVE  Leaves(s) = IF s[1].op = "leave" THEN Append(Leaves(Tail(s)), s[1]) ELSE Leaves(Tail(s))
<1> DEFINE u == Tail(s)
           f == LeavesFrom(s)
           g == LeavesFrom(u)
<1>1. u \in Seq(T) /\ Len(u) \in Nat /\ Len(s) = Len(u) + 1
      /\ \A i \in 1 .. Len(u) : u[i] = s[i + 1]
  OBVIOUS
<1>2. /\ f[0] = <<>>
      /\ \A n \in 1 .. Len(s) :
           f[n] = LET t == s[Len(s) + 1 - n] IN IF t.op = "leave" THEN Append(f[n - 1], t) ELSE f[n - 1]
  BY LeavesFromIs
<1>3. /\ g[0] = <<>>
      /\ \A n \in 1 .. Len(u) :
           g[n] = LET t == u[Len(u) + 1 - n] IN IF t.op = "leave" THEN Append(g[n - 1], t) ELSE g[n - 1]
  BY <1>1, LeavesFromIs
<1> HIDE DEF u, f, g
<1>4. ASSUME NEW n \in 1 .. Len(u), f[n - 1] = g[n - 1] PROVE f[n] = g[n]
  <2>1. n \in 1 .. Len(s) /\ Len(u) + 1 - n \in 1 .. Len(u)
        /\ (Len(u) + 1 - n) + 1 = Len(s) + 1 - n
    BY <1>1
  <2>2. u[Len(u) + 1 - n] = s[Len(s) + 1 - n]
    BY <1>1, <2>1
  <2> QED BY <1>2, <1>3, <1>4, <2>1, <2>2
<1>5. \A n \in 0 .. Len(u) : f[n] = g[n]
  <2>1. f[0] = g[0]
    BY <1>2, <1>3
  <2>2. \A n \in 1 .. Len(u) : f[n - 1] = g[n - 1] => f[n] = g[n]
    BY <1>4
  <2> DEFINE N == Len(u)
  <2>3. N \in Nat /\ \A n \in 1 .. N : f[n - 1] = g[n - 1] => f[n] = g[n]
    BY <1>1, <2>2
  <2> HIDE DEF N
  <2>4. \A n \in 0 .. N : f[n] = g[n]
    BY ONLY <2>1, <2>3, IterationsAgree, ZenonT(40)
  <2> QED BY <2>4 DEF N
<1>6. f[Len(u)] = g[Len(u)]
  BY <1>1, <1>5
<1>7. Len(s) \in 1 .. Len(s) /\ Len(s) + 1 - Len(s) = 1 /\ Len(s) - 1 = Len(u)
  BY <1>1
<1>8. f[Len(s)] = IF s[1].op = "leave" THEN Append(g[Len(u)], s[1]) ELSE g[Len(u)]
  BY <1>2, <1>6, <1>7
<1> QED BY <1>8 DEF f, g, u, Leaves

\* Tasks that are no activations may be pushed without changing the invocations.
LEMMA LeavesPushed ==
  ASSUME NEW T, NEW s \in Seq(T), NEW new \in Seq(T), \A i \in 1 .. Len(new) : new[i].op # "leave"
  PROVE  Leaves(new \o s) = Leaves(s)
<1> DEFINE Inner(u) == \A i \in 1 .. Len(u) : u[i].op # "leave"
           S == {n \in Nat : \A u \in Seq(T) : Len(u) = n /\ Inner(u) => Leaves(u \o s) = Leaves(s)}
<1>1. 0 \in S
  <2>1. \A u \in Seq(T) : Len(u) = 0 => u \o s = s
    OBVIOUS
  <2> QED BY <2>1
<1>2. ASSUME NEW n \in Nat, n \in S PROVE n + 1 \in S
  <2>1. SUFFICES ASSUME NEW u \in Seq(T), Len(u) = n + 1, Inner(u) PROVE Leaves(u \o s) = Leaves(s)
    OBVIOUS
  <2>2. Tail(u) \in Seq(T) /\ Len(Tail(u)) = n /\ Inner(Tail(u))
    BY <2>1
  <2>3. u \o s \in Seq(T) /\ u \o s # <<>> /\ (u \o s)[1] = u[1]
    BY <2>1
  <2>4. Tail(u \o s) = Tail(u) \o s
    BY <2>1
  <2>5. u[1].op # "leave"
    BY <2>1
  <2> HIDE DEF Inner
  <2>6. Leaves(u \o s) = Leaves(Tail(u) \o s)
    BY <2>3, <2>4, <2>5, LeavesOfTail
  <2> QED BY <1>2, <2>2, <2>6
<1>3. Nat \subseteq S
  <2> HIDE DEF S
  <2> QED BY <1>1, <1>2, NatIsInductive
<1>4. Len(new) \in S
  BY <1>3
<1> QED BY <1>4

\* An agenda that ends in an activation has an invocation.
LEMMA LeavesNotEmpty ==
  ASSUME NEW T, NEW s \in Seq(T), s # <<>>, s[Len(s)].op = "leave"
  PROVE  Leaves(s) # <<>>
<1> DEFINE f == LeavesFrom(s)
           S == {m \in Nat : m + 1 <= Len(s) => f[m + 1] # <<>>}
<1>1. /\ f \in [0 .. Len(s) -> Seq({t \in T : t.op = "leave"})]
      /\ f[0] = <<>>
      /\ \A n \in 1 .. Len(s) :
           f[n] = LET t == s[Len(s) + 1 - n] IN IF t.op = "leave" THEN Append(f[n - 1], t) ELSE f[n - 1]
  BY LeavesFromIs
<1>2. Len(s) \in Nat /\ Len(s) # 0 /\ \A i \in 1 .. Len(s) : s[i] \in T
  OBVIOUS
<1> HIDE DEF f
<1>3. 0 \in S
  <2>1. 1 \in 1 .. Len(s) /\ Len(s) + 1 - 1 = Len(s) /\ 1 - 1 = 0
    BY <1>2
  <2>2. f[1] = Append(<<>>, s[Len(s)])
    BY <1>1, <2>1
  <2>3. f[1] # <<>> /\ 0 + 1 = 1
    BY <2>2, <1>2
  <2> QED BY <2>3
<1>4. ASSUME NEW m \in Nat, m \in S PROVE m + 1 \in S
  <2>1. SUFFICES ASSUME (m + 1) + 1 <= Len(s) PROVE f[(m + 1) + 1] # <<>>
    OBVIOUS
  <2>2. f[m + 1] # <<>> /\ m + 1 \in 0 .. Len(s)
    BY <1>2, <1>4, <2>1
  <2>3. (m + 1) + 1 \in 1 .. Len(s) /\ ((m + 1) + 1) - 1 = m + 1
    BY <1>2, <2>1
  <2> DEFINE t == s[Len(s) + 1 - ((m + 1) + 1)]
  <2>4. f[(m + 1) + 1] = IF t.op = "leave" THEN Append(f[m + 1], t) ELSE f[m + 1]
    BY <1>1, <2>3
  <2>5. f[m + 1] \in Seq({x \in T : x.op = "leave"})
    BY <1>1, <2>2
  <2> HIDE DEF t
  <2>6. Append(f[m + 1], t) # <<>>
    BY <2>5
  <2> QED BY <2>2, <2>4, <2>6
<1>5. Nat \subseteq S
  <2> HIDE DEF S
  <2> QED BY <1>3, <1>4, NatIsInductive
<1>6. Len(s) - 1 \in S /\ (Len(s) - 1) + 1 = Len(s)
  BY <1>2, <1>5
<1> QED BY <1>6 DEF f, Leaves

-----------------------------------------------------------------------------
\* The tasks of the program that is run.
Nodes      == Trees[program]
Kind(ks)   == {t \in Nodes : t.kind \in ks}
PlainTasks == [op : {"stmt"}, s : Nodes] \union [op : {"expr"}, e : Nodes]
InnerTasks ==
  PlainTasks
    \union [op : {"value"}, v : Values]
    \union [op : {"rest"}, stmts : Seq(Nodes)]
    \union [op : {"head", "again", "test"}, s : Kind(Loops)]
    \union [op : {"branch"}, yes : PlainTasks, no : PlainTasks]
    \union [op : {"short"}, e : Kind({"and", "or"})]
    \union [op : {"match"}, s : Kind({"match"})]
    \union [op : {"cases"}, s : Kind({"match"}), v : Values, i : Nat \ {0}]
    \union {t \in [op : {"case"}, s : Kind({"match"}), v : Values, i : Nat \ {0}] :
               t.i <= Len(t.s.cases)}
    \union [op : {"operand"}, e : Kind({"op", "call"}), got : Seq(Values), i : Nat]
    \union [op : {"drop", "return"}]
    \union [op : {"store"}, obj : Objects(program), at : 0 .. MaxStack]
Frames == [op : {"leave"}, fn : DOMAIN program, base : 2 .. MaxStack + 1]
Tasks  == InnerTasks \union Frames

\* The tree walk is under way: main's frame is the last thing on the agenda,
\* or there is nothing but main's result.
AgendaOK ==
  /\ agenda \in Seq(Tasks)
  /\ agenda # <<>>
  /\ agenda[Len(agenda)].op = "leave" \/ (Len(agenda) = 1 /\ agenda[1].op = "value")

\* What the variables hold.
StateOK ==
  /\ program \in Programs
  /\ broken \in BOOLEAN /\ continued \in BOOLEAN /\ returned \in BOOLEAN
  /\ return_value \in Values
  /\ offset \in [Objects(program) -> 0 .. MaxStack]
  /\ mem \in [0 .. MaxStack -> Values]
  /\ status \in {"running", "panicked", "crashed"}

\* Frames lie one behind the other, each within what is left for it; one more
\* than the depth allows is counted, but not laid out.
StackOK ==
  /\ size \in 2 .. MaxStack + 1
  /\ Len(Invocations) <= MaxDepth
  /\ recursion_depth = IF status = "panicked" THEN Len(Invocations) + 1 ELSE Len(Invocations)
  /\ \A k \in 1 .. Len(Invocations) :
       /\ Invocations[k].base <= 2 + (k - 1) * MaxFrame
       /\ Invocations[k].base + FrameSize(Invocations[k].fn)
            = IF k = Len(Invocations) THEN size ELSE Invocations[k + 1].base
  /\ unset \in Seq(SUBSET Objects(program)) /\ Len(unset) = Len(Invocations)

IInv == AgendaOK /\ StateOK /\ StackOK

-----------------------------------------------------------------------------
\* What the parser puts into a node of each kind (TreesAssumption), kind by kind.
LEMMA NodeHas ==
  ASSUME program \in Programs, NEW t \in Nodes
  PROVE  /\ t.kind = "block" => t.stmts \in Seq(Nodes) /\ t.locals \subseteq Objects(program)
         /\ t.kind \in {"expr", "return"} => t.e \in Nodes
         /\ t.kind \in {"if", "ternary"} => t.cond \in Nodes /\ t.yes \in Nodes /\ t.no \in Nodes
         /\ t.kind = "unless" => t.cond \in Nodes /\ t.body \in Nodes
         /\ t.kind = "for" => t.init \in Nodes /\ t.step \in Nodes
         /\ t.kind \in Loops => t.cond \in Nodes /\ t.body \in Nodes
         /\ t.kind = "match" => /\ t.cond \in Nodes /\ t.default \in Nodes
                                /\ \A i \in 1 .. Len(t.cases) :
                                     t.cases[i].cond \in Nodes /\ t.cases[i].body \in Nodes
                                /\ Len(t.cases) \in Nat
         /\ t.kind \in {"and", "or"} => t.left \in Nodes /\ t.right \in Nodes
         /\ t.kind = "id" => t.obj \in Objects(program)
         /\ t.kind = "assign" => t.obj \in Objects(program) /\ t.right \in Nodes
         /\ t.kind = "op" => t.args \in Seq(Nodes)
         /\ t.kind = "call" => t.args \in Seq(Nodes) /\ t.fn \in DOMAIN program
<1>1. WellFormed(t, program)
  BY TreesAssumption DEF Nodes
<1>2. t.kind = "match" => /\ \A i \in 1 .. Len(t.cases) :
                                t.cases[i].cond \in Nodes /\ t.cases[i].body \in Nodes
                          /\ Len(t.cases) \in Nat
  <2>1. SUFFICES ASSUME t.kind = "match"
                 PROVE  /\ \A i \in 1 .. Len(t.cases) :
                              t.cases[i].cond \in Nodes /\ t.cases[i].body \in Nodes
                        /\ Len(t.cases) \in Nat
    OBVIOUS
  <2>2. /\ t.cases \in Seq(ToSet(t.cases))
        /\ \A c \in ToSet(t.cases) : {c.cond, c.body} \subseteq Nodes
    BY <1>1, <2>1 DEF WellFormed, Nodes, Loops
  <2> QED BY <2>2
<1> QED BY <1>1, <1>2 DEF WellFormed, Nodes, Loops

\* What a task on the agenda carries, by what it is.
LEMMA TaskHas ==
  ASSUME NEW t \in Tasks
  PROVE  /\ t.op = "stmt" => t.s \in Nodes
         /\ t.op = "expr" => t.e \in Nodes
         /\ t.op = "value" => t.v \in Values /\ t \in InnerTasks
         /\ t.op = "rest" => t.stmts \in Seq(Nodes)
         /\ t.op \in {"head", "again", "test"} => t.s \in Kind(Loops)
         /\ t.op = "branch" => t.yes \in PlainTasks /\ t.no \in PlainTasks
         /\ t.op = "short" => t.e \in Kind({"and", "or"})
         /\ t.op = "match" => t.s \in Kind({"match"})
         /\ t.op \in {"cases", "case"} => /\ t.s \in Kind({"match"})
                                          /\ t.v \in Values /\ t.i \in Nat \ {0}
         /\ t.op = "cases" => t \in [op : {"cases"}, s : Kind({"match"}), v : Values, i : Nat \ {0}]
         /\ t.op = "case" => t.i <= Len(t.s.cases)
         /\ t.op = "operand" => t.e \in Kind({"op", "call"}) /\ t.got \in Seq(Values) /\ t.i \in Nat
         /\ t.op = "store" => t.obj \in Objects(program) /\ t.at \in 0 .. MaxStack
         /\ t.op = "leave" => t.fn \in DOMAIN program /\ t.base \in 2 .. MaxStack + 1
         /\ t.op # "leave" => t \in InnerTasks
BY DEF Tasks, InnerTasks, PlainTasks, Frames

\* The constructors of tasks make tasks of these kinds.
LEMMA MakesTask ==
  /\ \A s \in Nodes : Stmt(s) \in PlainTasks /\ Expr(s) \in PlainTasks
  /\ PlainTasks \subseteq InnerTasks
  /\ \A v \in Values : Value(v) \in InnerTasks
  /\ \A ss \in Seq(Nodes) : Rest(ss) \in InnerTasks
  /\ \A s \in Kind(Loops) : Iterate(s) \in InnerTasks /\ Again(s) \in InnerTasks /\ Test(s) \in InnerTasks
  /\ \A y, n \in PlainTasks : Choice(y, n) \in InnerTasks
  /\ \A e \in Kind({"and", "or"}) : RightSide(e) \in InnerTasks
  /\ \A s \in Kind({"match"}) : [op |-> "match", s |-> s] \in InnerTasks
  /\ \A s \in Kind({"match"}), v \in Values, i \in Nat \ {0} : Cases(s, v, i) \in InnerTasks
  /\ \A e \in Kind({"op", "call"}), got \in Seq(Values), i \in Nat : Operand(e, got, i) \in InnerTasks
  /\ Drop \in InnerTasks /\ Return \in InnerTasks
  /\ \A o \in Objects(program), a \in 0 .. MaxStack : [op |-> "store", obj |-> o, at |-> a] \in InnerTasks
<1>1. PlainTasks \subseteq InnerTasks
  BY DEF InnerTasks
<1>2. \A s \in Nodes : Stmt(s) \in PlainTasks /\ Expr(s) \in PlainTasks
  BY DEF PlainTasks, Stmt, Expr
<1>3. \A s \in Kind(Loops) : Iterate(s) \in InnerTasks /\ Again(s) \in InnerTasks /\ Test(s) \in InnerTasks
  BY DEF InnerTasks, Iterate, Again, Test
<1>4. \A v \in Values : Value(v) \in InnerTasks
  BY DEF InnerTasks, Value
<1>5. \A ss \in Seq(Nodes) : Rest(ss) \in InnerTasks
  BY DEF InnerTasks, Rest
<1>6. \A y, n \in PlainTasks : Choice(y, n) \in InnerTasks
  BY DEF InnerTasks, Choice
<1>7. /\ \A e \in Kind({"and", "or"}) : RightSide(e) \in InnerTasks
      /\ \A s \in Kind({"match"}) : [op |-> "match", s |-> s] \in InnerTasks
  BY DEF InnerTasks, RightSide
<1>8. /\ \A s \in Kind({"match"}), v \in Values, i \in Nat \ {0} : Cases(s, v, i) \in InnerTasks
      /\ \A e \in Kind({"op", "call"}), got \in Seq(Values), i \in Nat : Operand(e, got, i) \in InnerTasks
  BY DEF InnerTasks, Cases, Operand
<1>9. /\ Drop \in InnerTasks /\ Return \in InnerTasks
      /\ \A o \in Objects(program), a \in 0 .. MaxStack : [op |-> "store", obj |-> o, at |-> a] \in InnerTasks
  BY DEF InnerTasks, Drop, Return
<1> QED BY <1>1, <1>2, <1>3, <1>4, <1>5, <1>6, <1>7, <1>8, <1>9

\* Nothing may be pushed.
LEMMA NoTask == <<>> \in Seq(InnerTasks)
OBVIOUS

\* Only call_fn leaves an activation on the agenda.
LEMMA InnerIsNoLeave == \A t \in InnerTasks : t.op # "leave" /\ t \in Tasks
BY DEF InnerTasks, PlainTasks, Tasks

\* What is behind the first d tasks, when these are not frames.
LEMMA RestOfAgenda ==
  ASSUME AgendaOK, NEW d \in {1, 2}, d <= Len(agenda),
         \A i \in 1 .. d : agenda[i].op # "leave", agenda[1].op # "value" \/ d = 2
  PROVE  LET rest == SubSeq(agenda, d + 1, Len(agenda))
         IN /\ rest \in Seq(Tasks) /\ Len(rest) \in Nat \ {0}
            /\ rest[Len(rest)].op = "leave"
            /\ Leaves(rest) = Invocations
<1> DEFINE L == Len(agenda)
           old == SubSeq(agenda, 1, d)
           rest == SubSeq(agenda, d + 1, L)
<1>1. agenda \in Seq(Tasks) /\ agenda # <<>> /\ L \in Nat /\ L >= 1
  BY DEF AgendaOK
<1>2. agenda[L].op = "leave" /\ d < L
  BY <1>1 DEF AgendaOK
<1>3. /\ rest \in Seq(Tasks) /\ Len(rest) = L - d
      /\ rest[Len(rest)] = agenda[L]
  <2>1. \A i \in d + 1 .. L : agenda[i] \in Tasks
    BY <1>1
  <2>2. /\ rest \in Seq(Tasks) /\ Len(rest) = L - d
        /\ \A i \in 1 .. L - (d + 1) + 1 : rest[i] = agenda[d + 1 + i - 1]
    BY <1>1, <1>2, <2>1, SubSeqProperties
  <2> HIDE DEF rest
  <2>3. rest[L - d] = agenda[L]
    BY <1>1, <1>2, <2>2
  <2> QED BY <2>2, <2>3
<1>4. old \in Seq(Tasks) /\ \A i \in 1 .. Len(old) : old[i].op # "leave"
  BY <1>1, <1>2
<1>5. old \o rest = agenda
  <2>1. SubSeq(agenda, 1, d) \o SubSeq(agenda, d + 1, L) = SubSeq(agenda, 1, L)
    <3>1. 1 \in 1 .. L + 1 /\ d \in 1 - 1 .. L /\ L \in d .. L
      BY <1>1, <1>2
    <3> QED BY <1>1, <3>1, ConcatAdjacentSubSeq
  <2>2. SubSeq(agenda, 1, L) = agenda
    BY <1>1, SubSeqFull
  <2> QED BY <2>1, <2>2
<1>6. Leaves(agenda) = Leaves(rest)
  <2> HIDE DEF old, rest
  <2> QED BY <1>3, <1>4, <1>5, LeavesPushed
<1>7. Len(rest) \in Nat \ {0}
  BY <1>1, <1>2, <1>3
<1> QED BY <1>2, <1>3, <1>6, <1>7 DEF Invocations

\* What is pushed in their place changes no frame.
LEMMA AgendaStep ==
  ASSUME AgendaOK, NEW d \in {1, 2}, NEW new \in Seq(InnerTasks), d <= Len(agenda),
         \A i \in 1 .. d : agenda[i].op # "leave", agenda[1].op # "value" \/ d = 2,
         agenda' = new \o SubSeq(agenda, d + 1, Len(agenda)), program' = program
  PROVE  AgendaOK' /\ Invocations' = Invocations
<1> DEFINE rest == SubSeq(agenda, d + 1, Len(agenda))
<1>1. /\ rest \in Seq(Tasks) /\ Len(rest) \in Nat \ {0} /\ rest[Len(rest)].op = "leave"
      /\ Leaves(rest) = Invocations
  BY RestOfAgenda
<1>2. new \in Seq(Tasks) /\ (\A i \in 1 .. Len(new) : new[i].op # "leave") /\ Len(new) \in Nat
  BY InnerIsNoLeave
<1>3. agenda' = new \o rest
  OBVIOUS
<1> HIDE DEF rest
<1>4. /\ new \o rest \in Seq(Tasks) /\ Len(new \o rest) = Len(new) + Len(rest)
      /\ \A i \in 1 .. Len(new) + Len(rest) :
           (new \o rest)[i] = IF i <= Len(new) THEN new[i] ELSE rest[i - Len(new)]
  BY ONLY <1>1, <1>2, ConcatProperties
<1>5. /\ agenda' \in Seq(Tasks) /\ agenda' # <<>>
      /\ agenda'[Len(agenda')] = rest[Len(rest)]
  <2> DEFINE n == Len(new) + Len(rest)
  <2>1. n \in 1 .. n /\ ~(n <= Len(new)) /\ n - Len(new) = Len(rest)
    BY <1>1, <1>2
  <2>2. (new \o rest)[n] = rest[Len(rest)]
    BY <1>4, <2>1
  <2>3. new \o rest # <<>>
    BY <1>4, <2>1
  <2> QED BY <1>3, <1>4, <2>2, <2>3
<1>6. Tasks' = Tasks
  BY DEF Tasks, InnerTasks, PlainTasks, Frames, Nodes, Kind
<1>7. AgendaOK'
  BY <1>1, <1>5, <1>6 DEF AgendaOK
<1>8. Leaves(agenda') = Leaves(rest)
  BY <1>1, <1>2, <1>3, LeavesPushed, ZenonT(40)
<1> QED BY <1>1, <1>7, <1>8 DEF Invocations

\* A step that replaces tasks at the head and leaves size, depth and program alone
\* keeps the invariant.
LEMMA InnerStep ==
  ASSUME IInv, status = "running", StateOK', status' # "panicked",
         NEW d \in {1, 2}, NEW new \in Seq(InnerTasks), d <= Len(agenda),
         \A i \in 1 .. d : agenda[i].op # "leave", agenda[1].op # "value" \/ d = 2,
         agenda' = new \o SubSeq(agenda, d + 1, Len(agenda)),
         UNCHANGED <<program, size, recursion_depth>>,
         unset' \in Seq(SUBSET Objects(program)), Len(unset') = Len(unset)
  PROVE  IInv'
<1>1. AgendaOK' /\ Invocations' = Invocations
  BY AgendaStep DEF IInv
<1>2. \A f : FrameSize(f)' = FrameSize(f)
  BY DEF FrameSize
<1>3. StackOK'
  BY <1>1, <1>2 DEF StackOK, IInv
<1> QED BY <1>1, <1>3 DEF IInv

\* The first d tasks of the agenda make place for new ones; flags, values and
\* history may change as they like.
Replaces(d, new) ==
  /\ d \in {1, 2} /\ d <= Len(agenda)
  /\ new \in Seq(InnerTasks)
  /\ \A i \in 1 .. d : agenda[i].op # "leave"
  /\ agenda[1].op # "value" \/ d = 2
  /\ agenda' = new \o SubSeq(agenda, d + 1, Len(agenda))

\* The head of the agenda, and what is behind it.
LEMMA HeadTasks ==
  ASSUME AgendaOK
  PROVE  /\ Head(agenda) = agenda[1] /\ agenda[1] \in Tasks /\ Len(agenda) \in Nat /\ Len(agenda) >= 1
         /\ Tail(agenda) = SubSeq(agenda, 2, Len(agenda))
         /\ Len(agenda) > 1 => agenda[2] \in Tasks
<1>1. agenda \in Seq(Tasks) /\ agenda # <<>>
  BY DEF AgendaOK
<1>2. Tail(agenda) = SubSeq(agenda, 2, Len(agenda))
  BY <1>1, TailIsSubSeq
<1> QED BY <1>1, <1>2

\* Becomes replaces the first task.
LEMMA BecomesReplaces ==
  ASSUME AgendaOK, agenda[1].op \notin {"leave", "value"}, NEW new \in Seq(InnerTasks), Becomes(new)
  PROVE  Replaces(1, new)
BY HeadTasks DEF Becomes, Replaces

\* GivenBecomes replaces a value and the task that waits for it.
LEMMA GivenReplaces ==
  ASSUME AgendaOK, Len(agenda) > 1, agenda[1].op = "value", agenda[2].op # "leave",
         NEW new \in Seq(InnerTasks), GivenBecomes(new)
  PROVE  Replaces(2, new)
<1>1. \A i \in 1 .. 2 : i = 1 \/ i = 2
  OBVIOUS
<1> QED BY <1>1, HeadTasks DEF GivenBecomes, Replaces

\* A step that does nothing but replace tasks keeps the invariant.
LEMMA CalmStep ==
  ASSUME IInv, status = "running", NEW d, NEW new, Replaces(d, new), Calm
  PROVE  IInv'
<1>1. StateOK'
  BY DEF IInv, StateOK, Calm, flags, stack
<1>2. UNCHANGED <<program, size, recursion_depth, status, unset>>
  BY DEF Calm, stack
<1>3. unset' \in Seq(SUBSET Objects(program)) /\ Len(unset') = Len(unset)
  BY <1>2 DEF IInv, StackOK
<1> QED BY <1>1, <1>2, <1>3, InnerStep DEF Replaces

\* So does one that sets flags or the return value on top.
LEMMA FlagsStep ==
  ASSUME IInv, status = "running", NEW d, NEW new, Replaces(d, new),
         UNCHANGED <<stack, recursion_depth, status, unset, program>>,
         broken' \in BOOLEAN, continued' \in BOOLEAN, returned' \in BOOLEAN, return_value' \in Values
  PROVE  IInv'
<1>1. StateOK'
  BY DEF IInv, StateOK, stack
<1>2. UNCHANGED <<program, size, recursion_depth, status, unset>>
  BY DEF stack
<1>3. unset' \in Seq(SUBSET Objects(program)) /\ Len(unset') = Len(unset)
  BY <1>2 DEF IInv, StackOK
<1> QED BY <1>1, <1>2, <1>3, InnerStep DEF Replaces

-----------------------------------------------------------------------------
\* Statements of a block, expressions as statements, if and unless.
LEMMA BlockSteps ==
  ASSUME IInv, Noop \/ NextStmt \/ ExprStmt \/ Dropped \/ If \/ DoUnless \/ Branch
  PROVE  IInv'
<1>0. AgendaOK /\ program \in Programs
  BY DEF IInv, StateOK
<1>1. CASE Noop
  <2>1. agenda[1].op = "stmt" /\ status = "running" /\ Becomes(<<>>) /\ Calm
    BY <1>0, <1>1, HeadTasks DEF Noop, AtStmt, Running
  <2>2. Replaces(1, <<>>)
    BY <1>0, <2>1, NoTask, BecomesReplaces
  <2> QED BY <2>1, <2>2, CalmStep
<1>2. CASE NextStmt
  <2> DEFINE stmts == agenda[1].stmts
             new == IF stmts = <<>> \/ Skips THEN <<>> ELSE <<Stmt(Head(stmts)), Rest(Tail(stmts))>>
  <2>1. agenda[1].op = "rest" /\ status = "running" /\ Becomes(new) /\ Calm
    BY <1>0, <1>2, HeadTasks DEF NextStmt, At, Running
  <2>2. stmts \in Seq(Nodes)
    BY <1>0, <2>1, HeadTasks, TaskHas
  <2>3. stmts # <<>> => Head(stmts) \in Nodes /\ Tail(stmts) \in Seq(Nodes)
    BY <2>2
  <2>4. new \in Seq(InnerTasks)
    <3>1. CASE stmts = <<>> \/ Skips
      BY <3>1, NoTask
    <3>2. CASE ~(stmts = <<>> \/ Skips)
      <4>1. Stmt(Head(stmts)) \in InnerTasks /\ Rest(Tail(stmts)) \in InnerTasks
        BY <2>3, <3>2, MakesTask
      <4> HIDE DEF stmts
      <4> QED BY <3>2, <4>1
    <3> QED BY <3>1, <3>2
  <2> HIDE DEF new
  <2>5. Replaces(1, new)
    BY <1>0, <2>1, <2>4, BecomesReplaces
  <2> QED BY <2>1, <2>5, CalmStep
<1>3. CASE ExprStmt
  <2> DEFINE new == <<Expr(agenda[1].s.e), Drop>>
  <2>1. agenda[1].op = "stmt" /\ agenda[1].s.kind = "expr" /\ status = "running" /\ Becomes(new) /\ Calm
    BY <1>0, <1>3, HeadTasks DEF ExprStmt, AtStmt, Running
  <2>2. agenda[1].s.e \in Nodes
    BY <1>0, <2>1, HeadTasks, TaskHas, NodeHas
  <2>3. new \in Seq(InnerTasks)
    BY <2>2, MakesTask
  <2> HIDE DEF new
  <2>4. Replaces(1, new)
    BY <1>0, <2>1, <2>3, BecomesReplaces
  <2> QED BY <2>1, <2>4, CalmStep
<1>4. CASE Dropped
  <2>1. /\ Len(agenda) > 1 /\ agenda[1].op = "value" /\ agenda[2].op = "drop"
        /\ status = "running" /\ GivenBecomes(<<>>) /\ Calm
    BY <1>0, <1>4, HeadTasks DEF Dropped, Given
  <2>2. Replaces(2, <<>>)
    BY <1>0, <2>1, NoTask, GivenReplaces
  <2> QED BY <2>1, <2>2, CalmStep
<1>5. CASE If
  <2> DEFINE s == agenda[1].s
             new == <<Expr(s.cond), Choice(Stmt(s.yes), Stmt(s.no))>>
  <2>1. agenda[1].op = "stmt" /\ s.kind = "if" /\ status = "running" /\ Becomes(new) /\ Calm
    BY <1>0, <1>5, HeadTasks DEF If, AtStmt, Running
  <2>2. s.cond \in Nodes /\ s.yes \in Nodes /\ s.no \in Nodes
    BY <1>0, <2>1, HeadTasks, TaskHas, NodeHas
  <2>3. new \in Seq(InnerTasks)
    BY <2>2, MakesTask
  <2> HIDE DEF new
  <2>4. Replaces(1, new)
    BY <1>0, <2>1, <2>3, BecomesReplaces
  <2> QED BY <2>1, <2>4, CalmStep
<1>6. CASE DoUnless
  <2> DEFINE s == agenda[1].s
             new == <<Expr(s.cond), Choice(Stmt(Nothing), Stmt(s.body))>>
  <2>1. agenda[1].op = "stmt" /\ s.kind = "unless" /\ status = "running" /\ Becomes(new) /\ Calm
    BY <1>0, <1>6, HeadTasks DEF DoUnless, AtStmt, Running
  <2>2. s.cond \in Nodes /\ s.body \in Nodes /\ Nothing \in Nodes
    BY <1>0, <2>1, HeadTasks, TaskHas, NodeHas, TreesAssumption DEF Nodes
  <2>3. new \in Seq(InnerTasks)
    BY <2>2, MakesTask
  <2> HIDE DEF new
  <2>4. Replaces(1, new)
    BY <1>0, <2>1, <2>3, BecomesReplaces
  <2> QED BY <2>1, <2>4, CalmStep
<1>7. CASE Branch
  <2> DEFINE new == <<IF Head(agenda).v = 0 THEN agenda[2].no ELSE agenda[2].yes>>
  <2>1. /\ Len(agenda) > 1 /\ agenda[1].op = "value" /\ agenda[2].op = "branch"
        /\ status = "running" /\ GivenBecomes(new) /\ Calm
    BY <1>0, <1>7, HeadTasks DEF Branch, Given
  <2>2. agenda[2].no \in PlainTasks /\ agenda[2].yes \in PlainTasks
    BY <1>0, <2>1, HeadTasks, TaskHas
  <2>3. new \in Seq(InnerTasks)
    BY <2>2, MakesTask
  <2> HIDE DEF new
  <2>4. Replaces(2, new)
    BY <1>0, <2>1, <2>3, GivenReplaces
  <2> QED BY <2>1, <2>4, CalmStep
<1> QED BY <1>1, <1>2, <1>3, <1>4, <1>5, <1>6, <1>7

\* Return, break and continue only set flags.
LEMMA JumpSteps ==
  ASSUME IInv, ReturnStmt \/ KeepReturnValue \/ Break \/ Continue
  PROVE  IInv'
<1>0. /\ AgendaOK /\ program \in Programs
      /\ broken \in BOOLEAN /\ continued \in BOOLEAN /\ returned \in BOOLEAN /\ return_value \in Values
  BY DEF IInv, StateOK
<1>1. CASE ReturnStmt
  <2> DEFINE e == agenda[1].s.e
             new == <<IF e = Absent THEN Value(0) ELSE Expr(e), Return>>
  <2>1. agenda[1].op = "stmt" /\ agenda[1].s.kind = "return" /\ status = "running" /\ Becomes(new)
    BY <1>0, <1>1, HeadTasks DEF ReturnStmt, AtStmt, Running
  <2>2. e \in Nodes
    BY <1>0, <2>1, HeadTasks, TaskHas, NodeHas
  <2>3. new \in Seq(InnerTasks)
    BY <2>2, MakesTask, ZeroAssumption
  <2> HIDE DEF new
  <2>4. Replaces(1, new)
    BY <1>0, <2>1, <2>3, BecomesReplaces
  <2> QED BY <1>0, <1>1, <2>1, <2>4, FlagsStep DEF ReturnStmt
<1>2. CASE KeepReturnValue
  <2>1. /\ Len(agenda) > 1 /\ agenda[1].op = "value" /\ agenda[2].op = "return"
        /\ status = "running" /\ GivenBecomes(<<>>)
    BY <1>0, <1>2, HeadTasks DEF KeepReturnValue, Given
  <2>2. Replaces(2, <<>>)
    BY <1>0, <2>1, NoTask, GivenReplaces
  <2>3. Head(agenda).v \in Values
    BY <1>0, <2>1, HeadTasks, TaskHas
  <2> QED BY <1>0, <1>2, <2>1, <2>2, <2>3, FlagsStep DEF KeepReturnValue
<1>3. CASE Break \/ Continue
  <2>1. agenda[1].op = "stmt" /\ status = "running" /\ Becomes(<<>>)
    BY <1>0, <1>3, HeadTasks DEF Break, Continue, AtStmt, Running
  <2>2. Replaces(1, <<>>)
    BY <1>0, <2>1, NoTask, BecomesReplaces
  <2> QED BY <1>0, <1>3, <2>1, <2>2, FlagsStep DEF Break, Continue
<1> QED BY <1>1, <1>2, <1>3

\* What a round of a loop pushes.
LEMMA RoundTasks ==
  ASSUME program \in Programs, NEW s \in Kind(Loops)
  PROVE  /\ Round(s) \in Seq(InnerTasks)
         /\ FirstRound(s) \in Seq(InnerTasks)
<1>1. s \in Nodes /\ s.body \in Nodes /\ s.cond \in Nodes /\ s.kind \in Loops
  BY NodeHas DEF Kind
<1>2. Stmt(s.body) \in InnerTasks /\ Again(s) \in InnerTasks /\ Iterate(s) \in InnerTasks
  BY <1>1, MakesTask
<1>3. Round(s) \in Seq(InnerTasks)
  BY <1>2 DEF Round
<1>4. <<Iterate(s)>> \in Seq(InnerTasks)
  BY <1>2
<1>5. s.kind = "for" => <<Stmt(s.init), Iterate(s)>> \in Seq(InnerTasks)
  <2>1. SUFFICES ASSUME s.kind = "for" PROVE <<Stmt(s.init), Iterate(s)>> \in Seq(InnerTasks)
    OBVIOUS
  <2>2. Stmt(s.init) \in InnerTasks
    BY <1>1, <2>1, NodeHas, MakesTask
  <2> QED BY <1>2, <2>2
<1> QED BY <1>3, <1>4, <1>5 DEF FirstRound

\* Starting a loop, its tests and its rounds.
LEMMA LoopSteps ==
  ASSUME IInv, Loop \/ LoopHead \/ LoopTest \/ BodyDone
  PROVE  IInv'
<1>0. /\ AgendaOK /\ program \in Programs
      /\ broken \in BOOLEAN /\ continued \in BOOLEAN /\ returned \in BOOLEAN /\ return_value \in Values
  BY DEF IInv, StateOK
<1>1. CASE Loop
  <2> DEFINE s == agenda[1].s
  <2>1. agenda[1].op = "stmt" /\ s.kind \in Loops /\ status = "running" /\ Becomes(FirstRound(s))
    BY <1>0, <1>1, HeadTasks DEF Loop, AtStmt, Running
  <2>2. s \in Kind(Loops)
    BY <1>0, <2>1, HeadTasks, TaskHas DEF Kind
  <2>3. FirstRound(s) \in Seq(InnerTasks)
    BY <1>0, <2>2, RoundTasks
  <2>4. Replaces(1, FirstRound(s))
    BY <1>0, <2>1, <2>3, BecomesReplaces
  <2>5. broken' \in BOOLEAN /\ continued' \in BOOLEAN /\ returned' \in BOOLEAN /\ return_value' \in Values
    BY <1>0, <1>1 DEF Loop
  <2>6. UNCHANGED <<stack, recursion_depth, status, unset, program>>
    BY <1>1 DEF Loop
  <2> QED BY <2>1, <2>4, <2>5, <2>6, FlagsStep
<1>2. CASE LoopHead
  <2> DEFINE s == agenda[1].s
             new == IF s.kind # "for" /\ (broken \/ returned) THEN <<>>
                    ELSE IF s.kind = "loop" THEN Round(s)
                    ELSE <<Expr(s.cond), Test(s)>>
  <2>1. agenda[1].op = "head" /\ status = "running" /\ Becomes(new)
    BY <1>0, <1>2, HeadTasks DEF LoopHead, At, Running
  <2>2. s \in Kind(Loops)
    BY <1>0, <2>1, HeadTasks, TaskHas
  <2>3. Expr(s.cond) \in InnerTasks /\ Test(s) \in InnerTasks
    BY <1>0, <2>2, NodeHas, MakesTask DEF Kind
  <2>4. <<Expr(s.cond), Test(s)>> \in Seq(InnerTasks)
    BY <2>3
  <2>5. new \in Seq(InnerTasks)
    BY <1>0, <2>2, <2>4, NoTask, RoundTasks
  <2> HIDE DEF new
  <2>6. Replaces(1, new)
    BY <1>0, <2>1, <2>5, BecomesReplaces
  <2>7. broken' \in BOOLEAN /\ continued' \in BOOLEAN /\ returned' \in BOOLEAN /\ return_value' \in Values
    BY <1>0, <1>2 DEF LoopHead
  <2>8. UNCHANGED <<stack, recursion_depth, status, unset, program>>
    BY <1>2 DEF LoopHead
  <2> QED BY <2>1, <2>6, <2>7, <2>8, FlagsStep
<1>3. CASE LoopTest
  <2> DEFINE new == IF Head(agenda).v = 0 THEN <<>> ELSE Round(agenda[2].s)
  <2>1. /\ Len(agenda) > 1 /\ agenda[1].op = "value" /\ agenda[2].op = "test"
        /\ status = "running" /\ GivenBecomes(new)
    BY <1>0, <1>3, HeadTasks DEF LoopTest, Given
  <2>2. agenda[2].s \in Kind(Loops)
    BY <1>0, <2>1, HeadTasks, TaskHas
  <2>3. new \in Seq(InnerTasks)
    BY <1>0, <2>2, NoTask, RoundTasks
  <2> HIDE DEF new
  <2>4. Replaces(2, new)
    BY <1>0, <2>1, <2>3, GivenReplaces
  <2>5. broken' \in BOOLEAN /\ continued' \in BOOLEAN /\ returned' \in BOOLEAN /\ return_value' \in Values
    BY <1>0, <1>3 DEF LoopTest
  <2>6. UNCHANGED <<stack, recursion_depth, status, unset, program>>
    BY <1>3 DEF LoopTest
  <2> QED BY <2>1, <2>4, <2>5, <2>6, FlagsStep
<1>4. CASE BodyDone
  <2> DEFINE s == agenda[1].s
             new == IF broken \/ returned THEN <<>>
                    ELSE IF s.kind = "for" THEN <<Expr(s.step), Drop, Iterate(s)>>
                    ELSE <<Iterate(s)>>
  <2>1. agenda[1].op = "again" /\ status = "running" /\ Becomes(new) /\ Calm
    BY <1>0, <1>4, HeadTasks DEF BodyDone, At, Running
  <2>2. s \in Kind(Loops)
    BY <1>0, <2>1, HeadTasks, TaskHas
  <2>3. Drop \in InnerTasks /\ Iterate(s) \in InnerTasks /\ (s.kind = "for" => Expr(s.step) \in InnerTasks)
    BY <1>0, <2>2, NodeHas, MakesTask DEF Kind
  <2>4. <<Iterate(s)>> \in Seq(InnerTasks)
        /\ (s.kind = "for" => <<Expr(s.step), Drop, Iterate(s)>> \in Seq(InnerTasks))
    BY <2>3
  <2>5. new \in Seq(InnerTasks)
    BY <2>4, NoTask
  <2> HIDE DEF new
  <2>6. Replaces(1, new)
    BY <1>0, <2>1, <2>5, BecomesReplaces
  <2> QED BY <2>1, <2>6, CalmStep
<1> QED BY <1>1, <1>2, <1>3, <1>4

\* A match tries its cases one after the other.
LEMMA MatchSteps ==
  ASSUME IInv, Match \/ Matched \/ TryCase \/ CaseTried
  PROVE  IInv'
<1>0. AgendaOK /\ program \in Programs
  BY DEF IInv, StateOK
<1>1. CASE Match
  <2> DEFINE s == agenda[1].s
             new == <<Expr(s.cond), [op |-> "match", s |-> s]>>
  <2>1. agenda[1].op = "stmt" /\ s.kind = "match" /\ status = "running" /\ Becomes(new) /\ Calm
    BY <1>0, <1>1, HeadTasks DEF Match, AtStmt, Running
  <2>2. s \in Nodes /\ s.cond \in Nodes /\ s \in Kind({"match"})
    BY <1>0, <2>1, HeadTasks, TaskHas, NodeHas DEF Kind
  <2>3. Expr(s.cond) \in InnerTasks /\ [op |-> "match", s |-> s] \in InnerTasks
    BY <2>2, MakesTask
  <2>4. new \in Seq(InnerTasks)
    BY <2>3
  <2> HIDE DEF new
  <2>5. Replaces(1, new)
    BY <1>0, <2>1, <2>4, BecomesReplaces
  <2> QED BY <2>1, <2>5, CalmStep
<1>2. CASE Matched
  <2> DEFINE new == <<Cases(agenda[2].s, Head(agenda).v, 1)>>
  <2>1. /\ Len(agenda) > 1 /\ agenda[1].op = "value" /\ agenda[2].op = "match"
        /\ status = "running" /\ GivenBecomes(new) /\ Calm
    BY <1>0, <1>2, HeadTasks DEF Matched, Given
  <2>2. agenda[2].s \in Kind({"match"}) /\ Head(agenda).v \in Values
    BY <1>0, <2>1, HeadTasks, TaskHas
  <2>3. Cases(agenda[2].s, Head(agenda).v, 1) \in InnerTasks
    BY <2>2, MakesTask
  <2>4. new \in Seq(InnerTasks)
    BY <2>3
  <2> HIDE DEF new
  <2>5. Replaces(2, new)
    BY <1>0, <2>1, <2>4, GivenReplaces
  <2> QED BY <2>1, <2>5, CalmStep
<1>3. CASE TryCase
  <2> DEFINE t == agenda[1]
             new == IF t.i <= Len(t.s.cases)
                      THEN <<Expr(t.s.cases[t.i].cond), [t EXCEPT !.op = "case"]>>
                      ELSE IF t.s.default # Absent THEN <<Stmt(t.s.default)>> ELSE <<>>
  <2>1. agenda[1].op = "cases" /\ status = "running" /\ Becomes(new) /\ Calm
    BY <1>0, <1>3, HeadTasks DEF TryCase, At, Running
  <2>2. /\ t \in [op : {"cases"}, s : Kind({"match"}), v : Values, i : Nat \ {0}]
        /\ t.s \in Nodes /\ t.s.kind = "match" /\ t.i \in Nat \ {0}
    BY <1>0, <2>1, HeadTasks, TaskHas DEF Kind
  <2>3. /\ t.s.default \in Nodes /\ Len(t.s.cases) \in Nat
        /\ \A i \in 1 .. Len(t.s.cases) : t.s.cases[i].cond \in Nodes
    BY <1>0, <2>2, NodeHas
  <2>4. CASE t.i <= Len(t.s.cases)
    <3>1. t.s.cases[t.i].cond \in Nodes
      BY <2>2, <2>3, <2>4
    <3>2. Expr(t.s.cases[t.i].cond) \in InnerTasks
      BY <3>1, MakesTask
    <3>3. [t EXCEPT !.op = "case"] \in [op : {"case"}, s : Kind({"match"}), v : Values, i : Nat \ {0}]
          /\ [t EXCEPT !.op = "case"].i = t.i /\ [t EXCEPT !.op = "case"].s = t.s
      BY <2>2
    <3>4. [t EXCEPT !.op = "case"] \in InnerTasks
      BY <2>4, <3>3 DEF InnerTasks
    <3>5. new \in Seq(InnerTasks)
      BY <2>4, <3>2, <3>4
    <3> HIDE DEF new
    <3>6. Replaces(1, new)
      BY <1>0, <2>1, <3>5, BecomesReplaces
    <3> QED BY <2>1, <3>6, CalmStep
  <2>5. CASE ~(t.i <= Len(t.s.cases))
    <3>1. Stmt(t.s.default) \in InnerTasks
      BY <2>3, MakesTask
    <3>2. <<Stmt(t.s.default)>> \in Seq(InnerTasks)
      BY <3>1
    <3>3. new \in Seq(InnerTasks)
      BY <2>5, <3>2, NoTask
    <3> HIDE DEF new
    <3>4. Replaces(1, new)
      BY <1>0, <2>1, <3>3, BecomesReplaces
    <3> QED BY <2>1, <3>4, CalmStep
  <2> QED BY <2>4, <2>5
<1>4. CASE CaseTried
  <2> DEFINE t == agenda[2]
             new == IF Head(agenda).v = t.v THEN <<Stmt(t.s.cases[t.i].body)>>
                                            ELSE <<Cases(t.s, t.v, t.i + 1)>>
  <2>1. /\ Len(agenda) > 1 /\ agenda[1].op = "value" /\ agenda[2].op = "case"
        /\ status = "running" /\ GivenBecomes(new) /\ Calm
    BY <1>0, <1>4, HeadTasks DEF CaseTried, Given
  <2>2. /\ t.s \in Kind({"match"}) /\ t.v \in Values /\ t.i \in Nat \ {0} /\ t.i <= Len(t.s.cases)
    BY <1>0, <2>1, HeadTasks, TaskHas
  <2>3. t.s.cases[t.i].body \in Nodes
    <3>1. Len(t.s.cases) \in Nat /\ \A i \in 1 .. Len(t.s.cases) : t.s.cases[i].body \in Nodes
      BY <1>0, <2>2, NodeHas DEF Kind
    <3> QED BY <2>2, <3>1
  <2>4. Stmt(t.s.cases[t.i].body) \in InnerTasks /\ Cases(t.s, t.v, t.i + 1) \in InnerTasks
    BY <2>2, <2>3, MakesTask
  <2>5. new \in Seq(InnerTasks)
    BY <2>4
  <2> HIDE DEF new
  <2>6. Replaces(2, new)
    BY <1>0, <2>1, <2>5, GivenReplaces
  <2> QED BY <2>1, <2>6, CalmStep
<1> QED BY <1>1, <1>2, <1>3, <1>4

\* Expressions that call nothing.
LEMMA ValueSteps ==
  ASSUME IInv, Variable \/ AndOr \/ Short \/ Ternary \/ Assign
  PROVE  IInv'
<1>0. AgendaOK /\ program \in Programs /\ offset \in [Objects(program) -> 0 .. MaxStack]
      /\ mem \in [0 .. MaxStack -> Values]
  BY DEF IInv, StateOK
<1>1. CASE Variable
  <2> DEFINE new == <<Value(mem[offset[Head(agenda).e.obj]])>>
  <2>1. agenda[1].op = "expr" /\ Head(agenda).e.kind = "id" /\ status = "running" /\ Becomes(new) /\ Calm
    BY <1>0, <1>1, HeadTasks DEF Variable, AtExpr, Running
  <2>2. Head(agenda).e.obj \in Objects(program)
    BY <1>0, <2>1, HeadTasks, TaskHas, NodeHas
  <2>3. Value(mem[offset[Head(agenda).e.obj]]) \in InnerTasks
    BY <1>0, <2>2, MakesTask
  <2>4. new \in Seq(InnerTasks)
    BY <2>3
  <2> HIDE DEF new
  <2>5. Replaces(1, new)
    BY <1>0, <2>1, <2>4, BecomesReplaces
  <2> QED BY <2>1, <2>5, CalmStep
<1>2. CASE AndOr
  <2> DEFINE e == agenda[1].e
             new == <<Expr(e.left), RightSide(e)>>
  <2>1. agenda[1].op = "expr" /\ e.kind \in {"and", "or"} /\ status = "running" /\ Becomes(new) /\ Calm
    BY <1>0, <1>2, HeadTasks DEF AndOr, AtExpr, Running
  <2>2. e \in Kind({"and", "or"}) /\ e.left \in Nodes
    BY <1>0, <2>1, HeadTasks, TaskHas, NodeHas DEF Kind
  <2>3. Expr(e.left) \in InnerTasks /\ RightSide(e) \in InnerTasks
    BY <2>2, MakesTask
  <2>4. new \in Seq(InnerTasks)
    BY <2>3
  <2> HIDE DEF new
  <2>5. Replaces(1, new)
    BY <1>0, <2>1, <2>4, BecomesReplaces
  <2> QED BY <2>1, <2>5, CalmStep
<1>3. CASE Short
  <2> DEFINE new == IF (Head(agenda).v = 0) = (agenda[2].e.kind = "and")
                      THEN <<Head(agenda)>> ELSE <<Expr(agenda[2].e.right)>>
  <2>1. /\ Len(agenda) > 1 /\ agenda[1].op = "value" /\ agenda[2].op = "short"
        /\ status = "running" /\ GivenBecomes(new) /\ Calm
    BY <1>0, <1>3, HeadTasks DEF Short, Given
  <2>2. Head(agenda) \in InnerTasks /\ agenda[2].e \in Kind({"and", "or"})
    BY <1>0, <2>1, HeadTasks, TaskHas
  <2>3. Expr(agenda[2].e.right) \in InnerTasks
    BY <1>0, <2>2, NodeHas, MakesTask DEF Kind
  <2>4. <<Head(agenda)>> \in Seq(InnerTasks) /\ <<Expr(agenda[2].e.right)>> \in Seq(InnerTasks)
    BY <2>2, <2>3
  <2>5. new \in Seq(InnerTasks)
    BY <2>4
  <2> HIDE DEF new
  <2>6. Replaces(2, new)
    BY <1>0, <2>1, <2>5, GivenReplaces
  <2> QED BY <2>1, <2>6, CalmStep
<1>4. CASE Ternary
  <2> DEFINE e == agenda[1].e
             new == <<Expr(e.cond), Choice(Expr(e.yes), Expr(e.no))>>
  <2>1. agenda[1].op = "expr" /\ e.kind = "ternary" /\ status = "running" /\ Becomes(new) /\ Calm
    BY <1>0, <1>4, HeadTasks DEF Ternary, AtExpr, Running
  <2>2. e.cond \in Nodes /\ e.yes \in Nodes /\ e.no \in Nodes
    BY <1>0, <2>1, HeadTasks, TaskHas, NodeHas
  <2>3. Expr(e.cond) \in InnerTasks /\ Choice(Expr(e.yes), Expr(e.no)) \in InnerTasks
    BY <2>2, MakesTask
  <2>4. new \in Seq(InnerTasks)
    BY <2>3
  <2> HIDE DEF new
  <2>5. Replaces(1, new)
    BY <1>0, <2>1, <2>4, BecomesReplaces
  <2> QED BY <2>1, <2>5, CalmStep
<1>5. CASE Assign
  <2> DEFINE e == agenda[1].e
             new == <<Expr(e.right), [op |-> "store", obj |-> e.obj, at |-> offset[e.obj]]>>
  <2>1. agenda[1].op = "expr" /\ e.kind = "assign" /\ status = "running" /\ Becomes(new) /\ Calm
    BY <1>0, <1>5, HeadTasks DEF Assign, AtExpr, Running
  <2>2. e.right \in Nodes /\ e.obj \in Objects(program) /\ offset[e.obj] \in 0 .. MaxStack
    BY <1>0, <2>1, HeadTasks, TaskHas, NodeHas
  <2>3. Expr(e.right) \in InnerTasks /\ [op |-> "store", obj |-> e.obj, at |-> offset[e.obj]] \in InnerTasks
    BY <2>2, MakesTask
  <2>4. new \in Seq(InnerTasks)
    BY <2>3
  <2> HIDE DEF new
  <2>5. Replaces(1, new)
    BY <1>0, <2>1, <2>4, BecomesReplaces
  <2> QED BY <2>1, <2>5, CalmStep
<1> QED BY <1>1, <1>2, <1>3, <1>4, <1>5

\* The history of the innermost invocation may be replaced or forgotten.
LEMMA FrontOfUnset ==
  ASSUME IInv, NEW o \in SUBSET Objects(program), unset # <<>>
  PROVE  /\ Front(unset) \o <<o>> \in Seq(SUBSET Objects(program))
         /\ Len(Front(unset) \o <<o>>) = Len(unset)
         /\ Front(unset) \in Seq(SUBSET Objects(program))
         /\ Len(Front(unset)) = Len(unset) - 1
         /\ Last(unset) \in SUBSET Objects(program)
<1>1. unset \in Seq(SUBSET Objects(program))
  BY DEF IInv, StackOK
<1> DEFINE S == SUBSET Objects(program)
           front == SubSeq(unset, 1, Len(unset) - 1)
<1> HIDE DEF S
<1>2. unset \in Seq(S) /\ o \in S /\ Len(unset) \in Nat /\ Len(unset) >= 1
  BY <1>1 DEF S
<1>3. unset[Len(unset)] \in S /\ \A i \in 1 .. Len(unset) - 1 : unset[i] \in S
  BY <1>2
<1>4. front \in Seq(S) /\ Len(front) = Len(unset) - 1
  <2>1. 1 \in Int /\ Len(unset) - 1 \in Int
    BY <1>2
  <2>2. /\ front \in Seq(S)
        /\ Len(front) = IF 1 <= Len(unset) - 1 THEN (Len(unset) - 1) - 1 + 1 ELSE 0
    BY <1>3, <2>1, SubSeqProperties
  <2>3. (IF 1 <= Len(unset) - 1 THEN (Len(unset) - 1) - 1 + 1 ELSE 0) = Len(unset) - 1
    <3> DEFINE n == Len(unset)
    <3>1. n \in Nat /\ n >= 1
      BY <1>2
    <3> HIDE DEF n
    <3>2. (IF 1 <= n - 1 THEN (n - 1) - 1 + 1 ELSE 0) = n - 1
      BY <3>1
    <3> QED BY <3>2 DEF n
  <2> HIDE DEF front
  <2> QED BY ONLY <2>2, <2>3
<1> HIDE DEF front
<1>5. front \o <<o>> \in Seq(S) /\ Len(front \o <<o>>) = Len(unset)
  BY <1>2, <1>4
<1> QED BY <1>3, <1>4, <1>5 DEF S, front, Front, Last

\* While something is left to do there is an invocation.
LEMMA UnderWay ==
  ASSUME IInv, status = "running", agenda[1].op # "value" \/ Len(agenda) > 1
  PROVE  /\ agenda[Len(agenda)].op = "leave"
         /\ Invocations # <<>> /\ unset # <<>>
<1>1. agenda \in Seq(Tasks) /\ agenda # <<>> /\ agenda[Len(agenda)].op = "leave"
  BY DEF IInv, AgendaOK
<1>2. Invocations # <<>>
  BY <1>1, LeavesNotEmpty DEF Invocations
<1>3. Invocations \in Seq({t \in Tasks : t.op = "leave"})
  BY <1>1, LeavesType DEF Invocations
<1>4. Len(unset) = Len(Invocations) /\ unset \in Seq(SUBSET Objects(program))
  BY DEF IInv, StackOK
<1> QED BY <1>1, <1>2, <1>3, <1>4

\* A missing node crashes, a block marks its locals, an assignment writes one slot.
LEMMA MemorySteps ==
  ASSUME IInv, NullNode \/ Block \/ Store
  PROVE  IInv'
<1>0. AgendaOK /\ program \in Programs /\ mem \in [0 .. MaxStack -> Values]
      /\ unset \in Seq(SUBSET Objects(program))
  BY DEF IInv, StateOK, StackOK
<1>1. CASE NullNode
  <2>1. UNCHANGED <<agenda, flags, stack, recursion_depth, unset, program>> /\ status' = "crashed"
        /\ status = "running"
    BY <1>1 DEF NullNode, AtStmt, AtExpr, Running
  <2>2. AgendaOK'
    BY <1>0, <2>1 DEF AgendaOK, Tasks, InnerTasks, PlainTasks, Frames, Nodes, Kind
  <2>3. StateOK'
    BY <2>1 DEF IInv, StateOK, flags, stack
  <2>4. Invocations' = Invocations /\ (\A f : FrameSize(f)' = FrameSize(f)) /\ size' = size
    BY <2>1 DEF Invocations, FrameSize, stack
  <2>5. StackOK'
    BY <2>1, <2>4 DEF IInv, StackOK
  <2> QED BY <2>2, <2>3, <2>5 DEF IInv
<1>2. CASE Block
  <2> DEFINE s == agenda[1].s
             new == <<Rest(s.stmts)>>
  <2>1. /\ agenda[1].op = "stmt" /\ s.kind = "block" /\ status = "running" /\ Becomes(new)
        /\ unset' = Front(unset) \o <<Last(unset) \union s.locals>>
        /\ UNCHANGED <<flags, stack, recursion_depth, status, program>>
    BY <1>0, <1>2, HeadTasks DEF Block, AtStmt, Running
  <2>2. s.stmts \in Seq(Nodes) /\ s.locals \subseteq Objects(program)
    BY <1>0, <2>1, HeadTasks, TaskHas, NodeHas
  <2>3. Rest(s.stmts) \in InnerTasks
    BY <2>2, MakesTask
  <2>4. new \in Seq(InnerTasks)
    BY <2>3
  <2>5. unset # <<>>
    BY <2>1, UnderWay
  <2>6. unset' \in Seq(SUBSET Objects(program)) /\ Len(unset') = Len(unset)
    <3>1. Last(unset) \in SUBSET Objects(program)
      BY <2>5, FrontOfUnset
    <3>2. Last(unset) \union s.locals \in SUBSET Objects(program)
      BY <2>2, <3>1
    <3> QED BY <2>1, <2>5, <3>2, FrontOfUnset
  <2>7. StateOK'
    BY <2>1 DEF IInv, StateOK, flags, stack
  <2> HIDE DEF new
  <2>8. Replaces(1, new)
    BY <1>0, <2>1, <2>4, BecomesReplaces
  <2>9. UNCHANGED <<program, size, recursion_depth, status>>
    BY <2>1 DEF stack
  <2> QED BY <2>1, <2>6, <2>7, <2>8, <2>9, InnerStep DEF Replaces
<1>3. CASE Store
  <2> DEFINE new == <<Head(agenda)>>
             o == Last(unset) \ {agenda[2].obj}
  <2>1. /\ Len(agenda) > 1 /\ agenda[1].op = "value" /\ agenda[2].op = "store"
        /\ status = "running" /\ GivenBecomes(new)
        /\ mem' = [mem EXCEPT ![agenda[2].at] = Head(agenda).v]
        /\ unset' = Front(unset) \o <<o>>
        /\ UNCHANGED <<flags, offset, size, recursion_depth, status, program>>
    BY <1>0, <1>3, HeadTasks DEF Store, Given
  <2>2. Head(agenda) \in InnerTasks /\ Head(agenda).v \in Values
    BY <1>0, <2>1, HeadTasks, TaskHas
  <2>3. new \in Seq(InnerTasks)
    BY <2>2
  <2>4. mem' \in [0 .. MaxStack -> Values]
    BY <1>0, <2>1, <2>2
  <2>5. unset # <<>>
    BY <2>1, UnderWay
  <2>6. unset' \in Seq(SUBSET Objects(program)) /\ Len(unset') = Len(unset)
    <3>1. Last(unset) \in SUBSET Objects(program)
      BY <2>5, FrontOfUnset
    <3>2. o \in SUBSET Objects(program)
      BY <3>1
    <3> HIDE DEF o
    <3> QED BY <2>1, <2>5, <3>2, FrontOfUnset
  <2>7. StateOK'
    BY <2>1, <2>4 DEF IInv, StateOK, flags
  <2> HIDE DEF new
  <2>8. Replaces(2, new)
    BY <1>0, <2>1, <2>3, GivenReplaces
  <2> QED BY <2>1, <2>6, <2>7, <2>8, InnerStep DEF Replaces
<1> QED BY <1>1, <1>2, <1>3

-----------------------------------------------------------------------------
\* Calls and returns.
\* call_fn pushes the body of the function on top of its activation.
LEMMA LeavesOfCall ==
  ASSUME NEW s \in Seq(Tasks), NEW b \in InnerTasks, NEW l \in Frames
  PROVE  /\ <<b, l>> \o s \in Seq(Tasks)
         /\ Leaves(<<b, l>> \o s) = Append(Leaves(s), l)
<1>1. b \in Tasks /\ l \in Tasks /\ b.op # "leave" /\ l.op = "leave"
  BY InnerIsNoLeave DEF Tasks, Frames
<1>2. <<l>> \o s \in Seq(Tasks) /\ <<l>> \o s # <<>> /\ (<<l>> \o s)[1] = l /\ Tail(<<l>> \o s) = s
  BY <1>1
<1>3. Leaves(<<l>> \o s) = Append(Leaves(s), l)
  BY <1>1, <1>2, LeavesOfTail
<1>4. /\ <<b, l>> \o s \in Seq(Tasks) /\ <<b, l>> \o s # <<>> /\ (<<b, l>> \o s)[1] = b
      /\ Tail(<<b, l>> \o s) = <<l>> \o s
  BY <1>1
<1>5. Leaves(<<b, l>> \o s) = Leaves(<<l>> \o s)
  BY <1>1, <1>4, LeavesOfTail
<1> QED BY <1>3, <1>4, <1>5

\* The objects of a function have their places within its frame.
LEMMA PlaceInLayout ==
  ASSUME program \in Programs, NEW fn \in DOMAIN program
  PROVE  /\ Layout(fn) \in Seq(Objects(program))
         /\ FrameSize(fn) \in Nat /\ FrameSize(fn) <= MaxFrame
         /\ Len(program[fn].args) \in Nat
         /\ \A o \in ToSet(Layout(fn)) : Place(fn, o) \in Nat /\ Place(fn, o) < FrameSize(fn)
         /\ ToSet(program[fn].locals) \subseteq Objects(program)
<1> DEFINE args == program[fn].args
           locals == program[fn].locals
<1>1. args \in Seq(Objects(program)) /\ locals \in Seq(Objects(program))
  BY TreesAssumption
<1>2. /\ Layout(fn) \in Seq(Objects(program)) /\ Len(Layout(fn)) = Len(args) + Len(locals)
      /\ Len(args) \in Nat /\ Len(locals) \in Nat
  BY <1>1 DEF Layout
<1>3. FrameSize(fn) \in Nat /\ FrameSize(fn) <= MaxFrame /\ Len(Layout(fn)) <= FrameSize(fn)
  <2>1. FrameSize(fn) = 2 * Len(args) + Len(locals)
    BY DEF FrameSize
  <2>2. 2 * Len(args) + Len(locals) <= MaxFrame
    BY StackAssumption
  <2> HIDE DEF args, locals
  <2> QED BY <1>2, <2>1, <2>2
<1>4. ASSUME NEW o \in ToSet(Layout(fn))
      PROVE  Place(fn, o) \in Nat /\ Place(fn, o) < FrameSize(fn)
  <2> DEFINE L == Layout(fn)
             i == CHOOSE i \in DOMAIN L : L[i] = o
  <2>1. \E j \in DOMAIN L : L[j] = o
    BY <1>4 DEF ToSet
  <2>2. Place(fn, o) = i - 1
    BY DEF Place
  <2> HIDE DEF L
  <2>3. i \in DOMAIN L
    BY <2>1
  <2> HIDE DEF i
  <2>4. L \in Seq(Objects(program)) /\ Len(L) <= FrameSize(fn)
    BY <1>2, <1>3 DEF L
  <2>5. i \in 1 .. Len(L) /\ Len(L) \in Nat
    BY <2>3, <2>4
  <2> QED BY ONLY <1>3, <2>2, <2>4, <2>5
<1>5. ToSet(locals) \subseteq Objects(program)
  BY <1>1 DEF ToSet
<1> QED BY <1>2, <1>3, <1>4, <1>5

\* call_fn lays the new frame right behind the last one, and it fits: there are fewer
\* than MaxDepth frames below it, none larger than MaxFrame.  At the limit it only counts.
LEMMA CallStep ==
  ASSUME IInv, status = "running", NEW fn \in DOMAIN program, NEW args \in Seq(Values),
         NEW d \in {1, 2}, d <= Len(agenda), \A i \in 1 .. d : agenda[i].op # "leave",
         agenda[1].op # "value" \/ d = 2, CallFn(fn, args, SubSeq(agenda, d + 1, Len(agenda)))
  PROVE  IInv'
<1> DEFINE L == Len(agenda)
           rest == SubSeq(agenda, d + 1, L)
           I == Invocations
<1>0. /\ AgendaOK /\ program \in Programs /\ MaxDepth \in Nat \ {0} /\ MaxFrame \in Nat /\ MaxStack \in Nat
      /\ agenda \in Seq(Tasks) /\ L \in Nat /\ size \in 2 .. MaxStack + 1
      /\ program' = program
  BY StackAssumption DEF IInv, AgendaOK, StateOK, StackOK, CallFn
<1>1. I \in Seq({t \in Tasks : t.op = "leave"})
  BY <1>0, LeavesType DEF Invocations
<1>2. /\ recursion_depth = Len(I) /\ Len(I) <= MaxDepth /\ Len(I) \in Nat
      /\ recursion_depth' = Len(I) + 1
  BY <1>1 DEF IInv, StackOK, CallFn
<1>3. Tasks' = Tasks /\ Objects(program)' = Objects(program) /\ (\A f : FrameSize(f)' = FrameSize(f))
  BY <1>0 DEF Tasks, InnerTasks, PlainTasks, Frames, Nodes, Kind, FrameSize
<1>4. CASE recursion_depth + 1 > MaxDepth
  <2>1. status' = "panicked" /\ UNCHANGED <<agenda, flags, stack, unset, program>>
    BY <1>4 DEF CallFn
  <2>2. AgendaOK' /\ Invocations' = Invocations
    BY <1>0, <1>3, <2>1 DEF AgendaOK, Invocations
  <2>3. StateOK'
    BY <2>1 DEF IInv, StateOK, flags, stack
  <2>4. StackOK'
    BY <1>2, <1>3, <2>1, <2>2 DEF IInv, StackOK, stack
  <2> QED BY <2>2, <2>3, <2>4 DEF IInv
<1>5. CASE ~(recursion_depth + 1 > MaxDepth)
  <2> DEFINE body == Stmt(program[fn].body)
             l == Leave(fn, size)
             J == Append(I, l)
  <2>1. /\ offset' = Offsets(fn, size) /\ mem' = Written(args, size)
        /\ size' = size + FrameSize(fn)
        /\ agenda' = <<body, l>> \o rest
        /\ unset' = Append(unset, ToSet(program[fn].locals))
        /\ UNCHANGED <<status, flags, program>>
    BY <1>5 DEF CallFn
  <2>2. body \in InnerTasks /\ l \in Frames
    BY <1>0, TreesAssumption, MakesTask DEF Nodes, Leave, Frames
  \* what is below the call stays
  <2>3. /\ rest \in Seq(Tasks) /\ Len(rest) \in Nat \ {0} /\ rest[Len(rest)].op = "leave"
        /\ Leaves(rest) = I
    BY <1>0, RestOfAgenda
  <2> HIDE DEF rest, body, l
  <2>4. agenda' \in Seq(Tasks) /\ Invocations' = J
    BY <2>1, <2>2, <2>3, LeavesOfCall DEF Invocations
  <2>5. AgendaOK'
    <3>1. Len(agenda') = 2 + Len(rest) /\ agenda'[Len(agenda')] = rest[Len(rest)] /\ agenda' # <<>>
      BY <2>1, <2>3
    <3> QED BY <1>3, <2>3, <2>4, <3>1 DEF AgendaOK
  <2>6. /\ I # <<>> /\ Len(I) \in 1 .. Len(I)
        /\ \A k \in 1 .. Len(I) : I[k].fn \in DOMAIN program
    <3>1. Leaves(rest) # <<>>
      BY <2>3, LeavesNotEmpty
    <3>2. \A k \in 1 .. Len(I) : I[k] \in Tasks /\ I[k].op = "leave"
      BY <1>1
    <3> HIDE DEF I
    <3>3. I # <<>>
      BY <2>3, <3>1
    <3> QED BY <1>1, <3>2, <3>3, TaskHas
  <2>7. FrameSize(fn) \in Nat /\ FrameSize(fn) <= MaxFrame
    BY <1>0, PlaceInLayout
  <2>8. size \in Nat /\ size <= 2 + Len(I) * MaxFrame
    <3> DEFINE n == Len(I)
               f == FrameSize(I[n].fn)
               b == I[n].base
    <3>1. b <= 2 + (n - 1) * MaxFrame /\ b + f = size
      BY <2>6 DEF IInv, StackOK
    <3>2. f \in Nat /\ f <= MaxFrame
      BY <1>0, <2>6, PlaceInLayout
    <3>3. b \in Nat /\ n \in Nat /\ MaxFrame \in Nat /\ size \in Nat
      <4>1. I[n] \in Tasks /\ I[n].op = "leave"
        BY <1>1, <2>6
      <4>2. I[n].base \in 2 .. MaxStack + 1
        BY <4>1, TaskHas
      <4> QED BY <1>0, <1>2, <4>2
    <3> HIDE DEF n, f, b
    <3>4. (n - 1) * MaxFrame + MaxFrame = n * MaxFrame
      BY <3>3
    <3> DEFINE p == (n - 1) * MaxFrame
               q == n * MaxFrame
    <3>5. p \in Int /\ q \in Int /\ p + MaxFrame = q /\ b <= 2 + p
      BY <3>1, <3>3, <3>4
    <3> HIDE DEF p, q
    <3>6. size <= 2 + q
      BY <3>1, <3>2, <3>3, <3>5
    <3> QED BY <3>3, <3>6 DEF n, q
  <2>9. size' \in 2 .. MaxStack + 1 /\ size' >= size /\ size' = size + FrameSize(fn)
    <3> DEFINE n == Len(I)
               f == FrameSize(fn)
    <3>1. n \in Nat /\ n + 1 <= MaxDepth /\ MaxDepth \in Nat /\ MaxFrame \in Nat
      BY <1>0, <1>2, <1>5
    <3> DEFINE q == n * MaxFrame
               r == (n + 1) * MaxFrame
               t == MaxDepth * MaxFrame
    <3>2. q \in Nat /\ r \in Nat /\ t \in Nat /\ r = q + MaxFrame
      <4> HIDE DEF n
      <4> QED BY <3>1
    <3>3. r <= t
      <4> HIDE DEF n
      <4> DEFINE k == MaxDepth - (n + 1)
      <4>1. k \in Nat /\ MaxDepth = (n + 1) + k
        BY <3>1
      <4> HIDE DEF k
      <4>2. ((n + 1) + k) * MaxFrame = (n + 1) * MaxFrame + k * MaxFrame
        BY <3>1, <4>1
      <4>3. k * MaxFrame \in Nat
        BY <3>1, <4>1
      <4> QED BY <3>2, <4>1, <4>2, <4>3
    <3>4. 2 + t <= MaxStack + 1
      BY StackAssumption
    <3>5. size <= 2 + q /\ f \in Nat /\ f <= MaxFrame /\ size \in 2 .. MaxStack + 1 /\ size' = size + f
      BY <1>0, <2>1, <2>7, <2>8
    <3> HIDE DEF n, f, q, r, t
    <3>6. size + f \in 2 .. MaxStack + 1 /\ size + f >= size
      BY <1>0, <3>1, <3>2, <3>3, <3>4, <3>5
    <3> QED BY <3>5, <3>6 DEF f
  <2>10. offset' \in [Objects(program) -> 0 .. MaxStack]
    <3>1. offset \in [Objects(program) -> 0 .. MaxStack]
      BY DEF IInv, StateOK
    <3>2. ASSUME NEW o \in Objects(program), o \in ToSet(Layout(fn))
          PROVE  size + Place(fn, o) \in 0 .. MaxStack
      <4>1. Place(fn, o) \in Nat /\ Place(fn, o) < FrameSize(fn)
        BY <1>0, <3>2, PlaceInLayout
      <4>2. size + FrameSize(fn) <= MaxStack + 1
        BY <1>0, <2>7, <2>9
      <4> DEFINE p == Place(fn, o)
                 f == FrameSize(fn)
      <4>3. p \in Nat /\ p < f /\ f \in Nat /\ size + f <= MaxStack + 1 /\ size \in Nat /\ MaxStack \in Nat
        BY <1>0, <2>7, <2>8, <4>1, <4>2
      <4> HIDE DEF p, f
      <4>4. size + p \in 0 .. MaxStack
        BY <4>3
      <4> QED BY <4>4 DEF p
    <3>3. offset' = [o \in Objects(program) |->
                       IF o \in ToSet(Layout(fn)) THEN size + Place(fn, o) ELSE offset[o]]
      BY <2>1, <3>1 DEF Offsets
    <3>4. \A o \in Objects(program) :
            (IF o \in ToSet(Layout(fn)) THEN size + Place(fn, o) ELSE offset[o]) \in 0 .. MaxStack
      BY <3>1, <3>2
    <3> QED BY <3>3, <3>4
  <2>11. mem' \in [0 .. MaxStack -> Values]
    <3>1. mem \in [0 .. MaxStack -> Values]
      BY DEF IInv, StateOK
    <3>2. ASSUME NEW a \in 0 .. MaxStack, a \in size .. size + Len(args) - 1
          PROVE  args[a - size + 1] \in Values
      <4>1. a - size + 1 \in 1 .. Len(args)
        BY <2>8, <3>2
      <4> QED BY <4>1
    <3>3. mem' = [a \in 0 .. MaxStack |->
                    IF a \in size .. size + Len(args) - 1 THEN args[a - size + 1] ELSE mem[a]]
      BY <2>1, <3>1 DEF Written
    <3> QED BY <3>1, <3>2, <3>3
  <2>12. StateOK'
    BY <1>0, <1>3, <2>1, <2>10, <2>11 DEF IInv, StateOK, flags
  <2>13. Len(J) = Len(I) + 1 /\ J[Len(J)] = l /\ \A k \in 1 .. Len(I) : J[k] = I[k]
    <3> HIDE DEF I
    <3> QED BY <1>1, <2>2
  <2>14. unset' \in Seq(SUBSET Objects(program)) /\ Len(unset') = Len(J)
    <3>1. unset \in Seq(SUBSET Objects(program)) /\ Len(unset) = Len(I)
      BY DEF IInv, StackOK
    <3>2. ToSet(program[fn].locals) \in SUBSET Objects(program)
      BY <1>0, PlaceInLayout
    <3> DEFINE S == SUBSET Objects(program)
               x == ToSet(program[fn].locals)
    <3>3. unset' = Append(unset, x) /\ unset \in Seq(S) /\ x \in S
      BY <2>1, <3>1, <3>2
    <3> HIDE DEF S, x
    <3>4. unset' \in Seq(S) /\ Len(unset') = Len(unset) + 1
      BY <3>3
    <3> QED BY <2>13, <3>1, <3>4 DEF S
  <2>15. l.fn = fn /\ l.base = size
    BY DEF l, Leave
  <2>16. ASSUME NEW k \in 1 .. Len(J)
         PROVE  /\ J[k].base <= 2 + (k - 1) * MaxFrame
                /\ J[k].base + FrameSize(J[k].fn) = IF k = Len(J) THEN size' ELSE J[k + 1].base
    <3>1. CASE k = Len(J)
      <4>1. J[k] = l /\ k - 1 = Len(I)
        BY <1>2, <2>13, <3>1
      <4> QED BY <2>8, <2>9, <2>15, <3>1, <4>1
    <3>2. CASE k # Len(J)
      <4>1. k \in 1 .. Len(I) /\ J[k] = I[k] /\ k + 1 \in 1 .. Len(J)
        BY <1>2, <2>13, <3>2
      <4>2. /\ I[k].base <= 2 + (k - 1) * MaxFrame
            /\ I[k].base + FrameSize(I[k].fn) = IF k = Len(I) THEN size ELSE I[k + 1].base
        BY <4>1 DEF IInv, StackOK
      <4>3. J[k + 1].base = IF k = Len(I) THEN size ELSE I[k + 1].base
        <5>1. CASE k = Len(I)
          BY <2>13, <2>15, <5>1
        <5>2. CASE k # Len(I)
          <6>1. k + 1 \in 1 .. Len(I)
            BY <1>2, <4>1, <5>2
          <6> QED BY <2>13, <5>2, <6>1
        <5> QED BY <5>1, <5>2
      <4> QED BY <3>2, <4>1, <4>2, <4>3
    <3> QED BY <3>1, <3>2
  <2>17. StackOK'
    <3>1. Len(J) <= MaxDepth /\ recursion_depth' = Len(J) /\ status' = "running"
      BY <1>0, <1>2, <1>5, <2>1, <2>13
    <3> HIDE DEF J
    <3> QED BY <1>3, <2>4, <2>9, <2>14, <2>16, <3>1 DEF StackOK
  <2> QED BY <2>5, <2>12, <2>17 DEF IInv
<1> QED BY <1>4, <1>5

\* Operators and calls, once their operands are evaluated.
LEMMA OperandSteps ==
  ASSUME IInv, Operands \/ OperandDone
  PROVE  IInv'
<1>0. AgendaOK /\ program \in Programs
  BY DEF IInv, StateOK
<1>1. ASSUME NEW d \in {1, 2}, d <= Len(agenda), status = "running",
             \A i \in 1 .. d : agenda[i].op # "leave", agenda[1].op # "value" \/ d = 2,
             NEW e \in Kind({"op", "call"}), NEW args \in Seq(Values),
             Apply(e, args, SubSeq(agenda, d + 1, Len(agenda)))
      PROVE  IInv'
  <2>1. CASE e.kind = "op"
    <3>1. PICK v \in Values : agenda' = <<Value(v)>> \o SubSeq(agenda, d + 1, Len(agenda))
      BY <1>1, <2>1 DEF Apply
    <3>2. Calm
      BY <1>1, <2>1 DEF Apply
    <3>3. Value(v) \in InnerTasks
      BY MakesTask
    <3>4. <<Value(v)>> \in Seq(InnerTasks)
      BY <3>3
    <3>5. Replaces(d, <<Value(v)>>)
      BY <1>1, <3>1, <3>4 DEF Replaces
    <3> QED BY <1>1, <3>2, <3>5, CalmStep
  <2>2. CASE e.kind = "call"
    <3>1. e.fn \in DOMAIN program
      BY <1>0, <2>2, NodeHas DEF Kind
    <3>2. CallFn(e.fn, args, SubSeq(agenda, d + 1, Len(agenda)))
      BY <1>1, <2>2 DEF Apply
    <3> QED BY <1>1, <3>1, <3>2, CallStep
  <2> QED BY <2>1, <2>2 DEF Kind
<1>2. CASE Operands
  <2> DEFINE e == agenda[1].e
             new == <<Expr(e.args[1]), Operand(e, <<>>, 1)>>
  <2>1. /\ agenda[1].op = "expr" /\ e.kind \in {"op", "call"} /\ status = "running"
        /\ IF e.args = <<>> THEN Apply(e, <<>>, Tail(agenda)) ELSE Becomes(new) /\ Calm
    BY <1>0, <1>2, HeadTasks DEF Operands, AtExpr, Running
  <2>2. e \in Kind({"op", "call"}) /\ e.args \in Seq(Nodes)
    BY <1>0, <2>1, HeadTasks, TaskHas, NodeHas DEF Kind
  <2>3. CASE e.args = <<>>
    <3>1. Tail(agenda) = SubSeq(agenda, 1 + 1, Len(agenda)) /\ 1 <= Len(agenda)
      <4>1. 1 + 1 = 2
        OBVIOUS
      <4> QED BY <1>0, <4>1, HeadTasks
    <3>2. <<>> \in Seq(Values) /\ 1 \in {1, 2} /\ \A i \in 1 .. 1 : agenda[i].op # "leave"
      BY <2>1
    <3>3. Apply(e, <<>>, SubSeq(agenda, 1 + 1, Len(agenda))) /\ agenda[1].op # "value"
      <4> HIDE DEF e
      <4> QED BY <2>1, <2>3, <3>1
    <3> HIDE DEF e
    <3> QED BY <1>1, <2>1, <2>2, <3>1, <3>2, <3>3
  <2>4. CASE e.args # <<>>
    <3>1. e.args[1] \in Nodes
      BY <2>2, <2>4
    <3>2. <<>> \in Seq(Values) /\ 1 \in Nat
      OBVIOUS
    <3>3. Expr(e.args[1]) \in InnerTasks /\ Operand(e, <<>>, 1) \in InnerTasks
      BY <2>2, <3>1, <3>2, MakesTask
    <3>4. new \in Seq(InnerTasks)
      BY <3>3
    <3> HIDE DEF new
    <3>5. Replaces(1, new)
      BY <1>0, <2>1, <2>4, <3>4, BecomesReplaces
    <3> QED BY <2>1, <2>4, <3>5, CalmStep
  <2> QED BY <2>3, <2>4
<1>3. CASE OperandDone
  <2> DEFINE e == agenda[2].e
             args == Append(agenda[2].got, Head(agenda).v)
             next == Len(args) + 1
             new == <<Expr(e.args[next]), Operand(e, args, next)>>
  <2>1. /\ Len(agenda) > 1 /\ agenda[1].op = "value" /\ agenda[2].op = "operand"
        /\ status = "running"
        /\ IF next > Len(e.args) THEN Apply(e, args, SubSeq(agenda, 3, Len(agenda)))
                                 ELSE GivenBecomes(new) /\ Calm
    BY <1>0, <1>3, HeadTasks DEF OperandDone, Given
  <2>2. e \in Kind({"op", "call"}) /\ agenda[2].got \in Seq(Values) /\ Head(agenda).v \in Values
    BY <1>0, <2>1, HeadTasks, TaskHas
  <2>3. args \in Seq(Values) /\ Len(args) \in Nat /\ next \in Nat \ {0}
    BY <2>2
  <2>4. e.args \in Seq(Nodes)
    BY <1>0, <2>2, NodeHas DEF Kind
  <2> HIDE DEF args, e
  <2>5. CASE next > Len(e.args)
    <3>1. Apply(e, args, SubSeq(agenda, 2 + 1, Len(agenda)))
      BY <2>1, <2>5
    <3>2. 2 \in {1, 2} /\ 2 <= Len(agenda)
      BY <1>0, <2>1, HeadTasks
    <3>3. \A i \in 1 .. 2 : agenda[i].op # "leave"
      <4>1. \A i \in 1 .. 2 : i = 1 \/ i = 2
        OBVIOUS
      <4> QED BY <2>1, <4>1
    <3> QED BY <1>1, <2>1, <2>2, <2>3, <3>1, <3>2, <3>3
  <2>6. CASE ~(next > Len(e.args))
    <3>1. e.args[next] \in Nodes
      BY <2>3, <2>4, <2>6
    <3>2. Expr(e.args[next]) \in InnerTasks /\ Operand(e, args, next) \in InnerTasks
      BY <2>2, <2>3, <3>1, MakesTask
    <3>3. new \in Seq(InnerTasks)
      BY <3>2
    <3> HIDE DEF new
    <3>4. Replaces(2, new)
      BY <1>0, <2>1, <2>6, <3>3, GivenReplaces
    <3> QED BY <2>1, <2>6, <3>4, CalmStep
  <2> QED BY <2>5, <2>6
<1> QED BY <1>2, <1>3

\* A return gives the stack and the depth back to what the call found, whatever jump
\* ended the body.
LEMMA LeaveStep ==
  ASSUME IInv, LeaveFn
  PROVE  IInv'
<1> DEFINE r == Tail(agenda)
           l == agenda[1]
           I == Invocations
           K == Leaves(r)
           v == IF returned THEN return_value ELSE 0
           val == Value(v)
           n == Len(I)
<1>0. /\ AgendaOK /\ program \in Programs /\ agenda \in Seq(Tasks) /\ agenda # <<>>
      /\ status = "running" /\ l.op = "leave" /\ l \in Tasks
      /\ r \in Seq(Tasks) /\ Len(r) = Len(agenda) - 1
  BY HeadTasks DEF IInv, AgendaOK, StateOK, LeaveFn, At, Running
<1>1. /\ size' = l.base /\ recursion_depth' = recursion_depth - 1
      /\ agenda' = <<val>> \o r /\ returned' = FALSE /\ unset' = Front(unset)
      /\ UNCHANGED <<broken, continued, return_value, offset, mem, status, program>>
  BY <1>0, HeadTasks DEF LeaveFn, Becomes
<1>2. val \in InnerTasks
  <2>1. v \in Values
    BY ZeroAssumption DEF IInv, StateOK
  <2> HIDE DEF v
  <2> QED BY <2>1, MakesTask
<1>3. val \in Tasks /\ val.op = "value"
  BY <1>2, InnerIsNoLeave DEF Value
<1>4. Tasks' = Tasks /\ Objects(program)' = Objects(program) /\ (\A f : FrameSize(f)' = FrameSize(f))
  BY <1>1 DEF Tasks, InnerTasks, PlainTasks, Frames, Nodes, Kind, FrameSize
<1>5. I = Append(K, l) /\ K \in Seq(Tasks)
  <2>1. K \in Seq({t \in Tasks : t.op = "leave"})
    BY <1>0, LeavesType
  <2> QED BY <1>0, <2>1, LeavesOfTail DEF Invocations
<1> HIDE DEF r, l, val
<1>6. AgendaOK'
  <2>1. agenda' \in Seq(Tasks) /\ Len(agenda') = 1 + Len(r) /\ agenda' # <<>> /\ agenda'[1] = val
    BY <1>0, <1>1, <1>3
  <2>2. CASE r = <<>>
    <3>1. Len(agenda') = 1
      BY <2>1, <2>2
    <3> QED BY <1>3, <1>4, <2>1, <3>1 DEF AgendaOK
  <2>3. CASE r # <<>>
    <3>1. agenda'[Len(agenda')] = agenda[Len(agenda)]
      BY <1>0, <1>1, <1>3, <2>1, <2>3 DEF r
    <3>2. Len(agenda) # 1
      <4>1. Len(r) # 0
        BY <1>0, <2>3
      <4> QED BY <1>0, <4>1
    <3>3. agenda[Len(agenda)].op = "leave"
      BY <1>0, <3>2 DEF AgendaOK
    <3> QED BY <1>4, <2>1, <3>1, <3>3 DEF AgendaOK
  <2> QED BY <2>2, <2>3
<1>7. Invocations' = K
  <2>1. <<val>> \o r \in Seq(Tasks) /\ <<val>> \o r # <<>> /\ (<<val>> \o r)[1] = val
        /\ Tail(<<val>> \o r) = r
    BY <1>0, <1>3
  <2>2. Leaves(<<val>> \o r) = Leaves(r)
    BY <1>3, <2>1, LeavesOfTail
  <2> QED BY <1>1, <2>2 DEF Invocations
<1>8. StateOK'
  BY <1>1, <1>4 DEF IInv, StateOK
<1>9. /\ n \in Nat \ {0} /\ Len(K) = n - 1 /\ I[n] = l /\ \A k \in 1 .. n - 1 : I[k] = K[k]
  <2> HIDE DEF I, K
  <2> QED BY <1>0, <1>5
<1>10. l.base \in 2 .. MaxStack + 1
  BY <1>0, TaskHas
<1>11. /\ n <= MaxDepth /\ MaxDepth \in Nat /\ recursion_depth = n
       /\ unset \in Seq(SUBSET Objects(program)) /\ Len(unset) = n
       /\ \A k \in 1 .. n :
            /\ I[k].base <= 2 + (k - 1) * MaxFrame
            /\ I[k].base + FrameSize(I[k].fn) = IF k = n THEN size ELSE I[k + 1].base
  BY <1>0, StackAssumption DEF IInv, StackOK
<1>12. unset' \in Seq(SUBSET Objects(program)) /\ Len(unset') = n - 1
  <2>1. unset # <<>> /\ {} \in SUBSET Objects(program)
    BY <1>9, <1>11
  <2> QED BY <1>1, <1>11, <2>1, FrontOfUnset
<1> HIDE DEF I, K, n
<1>13. \A k \in 1 .. Len(K) :
         /\ K[k].base <= 2 + (k - 1) * MaxFrame
         /\ K[k].base + FrameSize(K[k].fn) = IF k = Len(K) THEN size' ELSE K[k + 1].base
  <2>1. SUFFICES ASSUME NEW k \in 1 .. Len(K)
                 PROVE  /\ K[k].base <= 2 + (k - 1) * MaxFrame
                        /\ K[k].base + FrameSize(K[k].fn) = IF k = Len(K) THEN size' ELSE K[k + 1].base
    OBVIOUS
  <2>2. k \in 1 .. n /\ k # n /\ K[k] = I[k] /\ k + 1 \in 1 .. n
    BY <1>9
  <2>3. I[k].base <= 2 + (k - 1) * MaxFrame /\ I[k].base + FrameSize(I[k].fn) = I[k + 1].base
    BY <1>11, <2>2
  <2>4. CASE k = Len(K)
    <3>1. k + 1 = n
      BY <1>9, <2>4
    <3> QED BY <1>1, <1>9, <2>2, <2>3, <2>4, <3>1
  <2>5. CASE k # Len(K)
    <3>1. K[k + 1] = I[k + 1]
      BY <1>9, <2>5
    <3> QED BY <2>2, <2>3, <2>5, <3>1
  <2> QED BY <2>4, <2>5
<1>14. StackOK'
  <2>1. Len(K) <= MaxDepth /\ recursion_depth' = Len(K) /\ status' # "panicked"
    BY <1>0, <1>1, <1>9, <1>11
  <2>2. size' \in 2 .. MaxStack + 1 /\ Len(unset') = Len(K)
    BY <1>1, <1>9, <1>10, <1>12
  <2> HIDE DEF K
  <2> QED BY <1>4, <1>7, <1>12, <1>13, <2>1, <2>2 DEF StackOK
<1> QED BY <1>6, <1>8, <1>14 DEF IInv

-----------------------------------------------------------------------------
\* The call of main establishes the invariant.
LEMMA InitOK == Init => IInv
<1> SUFFICES ASSUME Init PROVE IInv
  OBVIOUS
<1> DEFINE body == Stmt(program[Main].body)
           l == Leave(Main, 2)
           f == FrameSize(Main)
           x == ToSet(program[Main].locals)
<1>0. /\ program \in Programs /\ Main \in DOMAIN program
      /\ MaxDepth \in Nat \ {0} /\ MaxFrame \in Nat /\ MaxStack \in Nat
      /\ agenda = <<body, l>> /\ size = 2 + f /\ unset = <<x>> /\ recursion_depth = 1
      /\ status = "running"
  BY TreesAssumption, StackAssumption DEF Init
<1>1. f \in Nat /\ f <= MaxFrame /\ x \subseteq Objects(program)
  BY <1>0, PlaceInLayout
<1>2. 2 + MaxFrame <= MaxStack + 1
  <2>1. 2 + MaxDepth * MaxFrame <= MaxStack + 1
    BY StackAssumption
  <2>2. MaxDepth = (MaxDepth - 1) + 1 /\ MaxDepth - 1 \in Nat
    BY <1>0
  <2> DEFINE k == MaxDepth - 1
  <2>3. k \in Nat /\ MaxDepth = k + 1
    BY <2>2
  <2> HIDE DEF k
  <2>4. (k + 1) * MaxFrame = k * MaxFrame + MaxFrame /\ k * MaxFrame \in Nat
    BY <1>0, <2>3
  <2> QED BY <1>0, <2>1, <2>3, <2>4
<1>3. body \in InnerTasks /\ l \in Frames
  <2>1. program[Main].body \in Nodes
    BY <1>0, TreesAssumption DEF Nodes
  <2>2. 2 \in 2 .. MaxStack + 1
    BY <1>0, <1>2
  <2> QED BY <1>0, <2>1, <2>2, MakesTask DEF Leave, Frames
<1> HIDE DEF body, l
<1>4. l.op = "leave" /\ l.fn = Main /\ l.base = 2
  BY DEF l, Leave
<1>5. Invocations = <<l>> /\ agenda \in Seq(Tasks)
  <2>1. <<>> \in Seq(Tasks) /\ <<body, l>> \o <<>> = <<body, l>> /\ Append(<<>>, l) = <<l>>
    OBVIOUS
  <2>2. Leaves(<<>>) = <<>>
    <3>1. <<>> \in Seq(Tasks) /\ Len(<<>>) = 0
      OBVIOUS
    <3> QED BY <3>1, LeavesFromIs DEF Leaves
  <2> QED BY <1>0, <1>3, <2>1, <2>2, LeavesOfCall DEF Invocations
<1>6. AgendaOK
  BY <1>0, <1>4, <1>5 DEF AgendaOK
<1>7. offset \in [Objects(program) -> 0 .. MaxStack]
  <2>1. \A g \in DOMAIN program : Layout(g) = program[g].args \o program[g].locals
    BY DEF Layout
  <2>2. offset = [o \in Objects(program) |-> IF o \in ToSet(Layout(Main)) THEN 2 + Place(Main, o) ELSE 0]
    BY <2>1 DEF Init, Objects
  <2>3. \A o \in ToSet(Layout(Main)) : Place(Main, o) \in Nat /\ Place(Main, o) < f
    BY <1>0, PlaceInLayout
  <2> HIDE DEF f
  <2>4. \A o \in ToSet(Layout(Main)) : 2 + Place(Main, o) \in 0 .. MaxStack
    BY <1>0, <1>1, <1>2, <2>3
  <2> QED BY <1>0, <2>2, <2>4
<1>8. StateOK
  <2>1. mem \in [0 .. MaxStack -> Values]
    BY DEF Init
  <2>2. broken \in BOOLEAN /\ continued \in BOOLEAN /\ returned \in BOOLEAN /\ return_value \in Values
    BY FlagsAssumption, ZeroAssumption DEF Init
  <2> QED BY <1>0, <1>7, <2>1, <2>2 DEF StateOK
<1>9. StackOK
  <2>1. size \in 2 .. MaxStack + 1
    <3> HIDE DEF f
    <3> QED BY <1>0, <1>1, <1>2
  <2>2. Len(Invocations) = 1 /\ Invocations[1] = l
    BY <1>5
  <2>3. \A k \in 1 .. Len(Invocations) :
          /\ Invocations[k].base <= 2 + (k - 1) * MaxFrame
          /\ Invocations[k].base + FrameSize(Invocations[k].fn)
               = IF k = Len(Invocations) THEN size ELSE Invocations[k + 1].base
    <3>1. (1 - 1) * MaxFrame = 0
      BY <1>0
    <3>2. \A k \in 1 .. Len(Invocations) : k = 1
      BY <2>2
    <3>3. l.base <= 2 + (1 - 1) * MaxFrame /\ l.base + FrameSize(l.fn) = size
      BY <1>0, <1>4, <3>1
    <3> QED BY <2>2, <3>2, <3>3
  <2>4. unset \in Seq(SUBSET Objects(program)) /\ Len(unset) = 1
    <3> DEFINE S == SUBSET Objects(program)
    <3>1. x \in S
      BY <1>1
    <3> HIDE DEF S, x
    <3>2. <<x>> \in Seq(S) /\ Len(<<x>>) = 1
      BY <3>1
    <3> QED BY <1>0, <3>2 DEF S
  <2> QED BY <1>0, <2>1, <2>2, <2>3, <2>4 DEF StackOK
<1> QED BY <1>6, <1>8, <1>9 DEF IInv

\* Every step of the interpreter keeps the invariant.
LEMMA NextOK == IInv /\ [Next]_vars => IInv'
<1> SUFFICES ASSUME IInv, [Next]_vars PROVE IInv'
  OBVIOUS
<1>1. CASE UNCHANGED vars
  <2>1. UNCHANGED <<program, agenda, broken, continued, returned, return_value, offset, mem, size,
                    recursion_depth, status, unset>>
    BY <1>1 DEF vars, flags, stack
  <2> QED BY <2>1 DEF IInv, AgendaOK, StateOK, StackOK, Invocations, FrameSize, Tasks, InnerTasks,
                      PlainTasks, Frames, Nodes, Kind
<1>2. CASE Next
  BY <1>2, BlockSteps, JumpSteps, LoopSteps, MatchSteps, ValueSteps, MemorySteps, OperandSteps,
     LeaveStep DEF Next
<1> QED BY <1>1, <1>2

\* eval_stmt, interpreter_eval_expr and call_fn keep the agenda, the memory and the
\* stack in the shape IInv describes, whatever program they run.
THEOREM InterpreterInvariant == Spec => []IInv
<1> QED BY InitOK, NextOK, PTL DEF Spec

\* The flags, values and offsets interpreter.c keeps have their types, the stack stays
\* within its bound and call_fn never counts further than one call behind the limit.
THEOREM InterpreterTypeCorrect == Spec => []TypeOK
<1>1. IInv => TypeOK
  <2> SUFFICES ASSUME IInv PROVE TypeOK
    OBVIOUS
  <2>1. \A t \in ToSet(agenda) : t.op = "value" => t.v \in Values
    BY TaskHas DEF IInv, AgendaOK, ToSet
  <2>2. Invocations \in Seq({t \in Tasks : t.op = "leave"})
    BY LeavesType DEF IInv, AgendaOK, Invocations
  <2>3. recursion_depth \in 0 .. MaxDepth + 1
    <3>1. Len(Invocations) \in Nat /\ MaxDepth \in Nat
      BY <2>2, StackAssumption
    <3> QED BY <3>1 DEF IInv, StackOK
  <2>4. DOMAIN offset = Objects(program)
    BY DEF IInv, StateOK
  <2> QED BY <2>1, <2>3, <2>4 DEF IInv, StateOK, StackOK, TypeOK
<1> QED BY <1>1, InterpreterInvariant, PTL

\* The frames of the calls under way lie one behind the other up to the end of the
\* stack, and recursion_depth counts them: call_fn gives back exactly what it took,
\* whether its body ended, returned, or was left by break or continue.
THEOREM FramesLieOnTheStack == Spec => []FramesStack
<1>1. IInv => FramesStack
  <2> SUFFICES ASSUME IInv PROVE FramesStack
    OBVIOUS
  <2>1. Invocations \in Seq({t \in Tasks : t.op = "leave"})
    BY LeavesType DEF IInv, AgendaOK, Invocations
  <2>2. DOMAIN Invocations = 1 .. Len(Invocations)
    BY <2>1
  <2> QED BY <2>2 DEF IInv, StackOK, FramesStack
<1> QED BY <1>1, InterpreterInvariant, PTL
=============================================================================
