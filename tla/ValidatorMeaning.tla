-------------------------- MODULE ValidatorMeaning --------------------------
(***************************************************************************)
(* What names, order and dead code are supposed to be, told without scopes *)
(* that are pushed, walks that nest or marks: an environment is a function *)
(* from names to objects that is passed down the tree, dependency is a     *)
(* relation between objects, and live is what a relation reaches.          *)
(***************************************************************************)
EXTENDS Optimizer

\* The objects of the program: those below its top level, and their own.
RECURSIVE Inside(_, _)
Inside(tag, x) ==
  LET items == Below(tag, IF tag = "obj" THEN Object(x) ELSE x)
  IN (IF tag = "obj" THEN {x} ELSE {})
     \union UNION {Inside(IF items[i][1] = "code" THEN "node" ELSE items[i][1], items[i][2]) : i \in DOMAIN items}
Objs == UNION {Inside("obj", o) : o \in Range(prog.objs)}

-----------------------------------------------------------------------------
(* Names *)

NamesOf(objs) == [n \in {Object(o).name : o \in Range(objs)} |-> Named(objs, n)]
Under(objs, env) == NamesOf(objs) @@ env
Globals == NamesOf(prog.objs)

RECURSIVE Alias(_)
Alias(type) == IF type.kind # "undef" THEN type
               ELSE LET o == IF type.id.path[1] \in DOMAIN Globals THEN Globals[type.id.path[1]] ELSE NoObj
                    IN IF o = NoObj \/ Object(o).kind # "typedef" THEN type ELSE Alias(Object(o).type)
Within(o, name) ==
  CASE o = NoObj -> NoObj
    [] Object(o).kind = "namespace" -> Named(Object(o).objs, name)
    [] Object(o).kind = "typedef" /\ Alias(Object(o).type).kind = "enum" -> Named(Alias(Object(o).type).members, name)
    [] OTHER -> NoObj
Find(id, env) ==
  LET e == IF id.global THEN Globals ELSE env
  IN FoldLeft(Within, IF Head(id.path) \in DOMAIN e THEN e[Head(id.path)] ELSE NoObj, Tail(id.path))

IsNamespace(o) == o # NoObj /\ Object(o).kind = "namespace"
Used(using, env) == LET ns == Find(using.id, env) IN IF IsNamespace(ns) THEN Object(ns).objs ELSE <<>>

Declares(tag, x) ==
  CASE tag = "obj" /\ x.kind = "namespace" -> x.objs
    [] tag = "obj" /\ x.kind = "function"  -> x.args \o (IF "va_area" \in DOMAIN x THEN <<x.va_area>> ELSE <<>>)
    [] tag = "node" /\ x.kind \in {"block", "for"} -> x.locals
    [] tag = "node" /\ x.kind = "with"     -> <<x.obj>>
    [] tag = "node" /\ x.kind = "lambda"   -> x.params
    [] tag = "type" /\ x.kind = "enum"     -> x.members
    [] OTHER -> <<>>

Fault == <<"fault", NoObj>>
Faults(b) == IF b THEN {Fault} ELSE {}
SameMembers(type) == Cardinality({type.fields[i].name : i \in DOMAIN type.fields}) < Len(type.fields)
Twice(objs) == Cardinality(DOMAIN NamesOf(objs)) < Len(objs)

\* Every use of a name below x with what it denotes in env, or a fault; `fn' is
\* the function or global around it.
RECURSIVE Reads(_, _, _, _)
Reads(tag, x, env, fn) ==
  IF tag = "code" THEN Reads("node", x, env, fn)
  ELSE
    LET thing == IF tag = "obj" THEN Object(x) ELSE x
        here  == IF tag = "obj" /\ thing.kind \in {"function", "global"} THEN x ELSE fn
        own   == Declares(tag, thing)
        items == Below(tag, thing)
        IsUsing(i) == items[i][1] = "node" /\ items[i][2].kind = "using"
        \* the names a `using' before the i-th item has put into this block
        Opened(i) == FlattenSeq([j \in 1..(i - 1) |->
                       IF IsUsing(j) /\ "body" \notin DOMAIN items[j][2] THEN Used(items[j][2], Under(own, env)) ELSE <<>>])
        opens == IF tag = "node" /\ thing.kind = "using" /\ "body" \in DOMAIN thing THEN Used(thing, env) ELSE <<>>
        all   == own \o opens \o (IF tag = "node" /\ thing.kind = "block" THEN Opened(Len(items) + 1) ELSE <<>>)
        o     == Find(thing.id, env)
    IN UNION {Reads(items[i][1], items[i][2], Under(own \o opens \o (IF thing.kind = "block" THEN Opened(i) ELSE <<>>), env), here) : i \in DOMAIN items}
       \union Faults(Twice(all) \/ (tag = "type" /\ thing.kind = "struct" /\ SameMembers(thing)))
       \union (IF tag = "node" /\ thing.kind = "id"
               THEN {<<thing.at, o>>} \union Faults(o = NoObj \/ (Flag(Object(o), "private") /\ Len(thing.id.path) > 1))
                    \union Faults(fn # NoObj /\ Flag(Object(fn), "constexpr") /\ o # NoObj
                                  /\ ~Flag(Object(o), "constexpr") /\ Object(o).kind # "arg")
               ELSE {})
       \union (IF tag = "type" /\ thing.kind = "undef"
               THEN {<<thing.at, o>>} \union Faults(o = NoObj \/ Object(o).kind # "typedef") ELSE {})
       \union (IF tag = "node" /\ thing.kind = "using" THEN Faults(~IsNamespace(Find(thing.id, env))) ELSE {})

Reading == Faults(Twice(prog.objs))
           \union UNION {Reads("obj", prog.objs[i], Globals, NoObj) : i \in DOMAIN prog.objs}

-----------------------------------------------------------------------------
(* Order *)

\* Uses of names below x, apart from those in types behind pointers.
RECURSIVE Spelled(_, _, _)
Spelled(tag, x, exactly) ==
  IF tag = "code" THEN Spelled("node", x, exactly)
  ELSE
    LET thing == IF tag = "obj" THEN Object(x) ELSE x
        items == Below(tag, thing)
    IN (IF (tag = "node" /\ thing.kind = "id") \/ (tag = "type" /\ thing.kind = "undef" /\ exactly) THEN {thing.at} ELSE {})
       \union UNION {Spelled(items[i][1], items[i][2], exactly /\ ~(tag = "type" /\ thing.kind \in {"ptr", "vla"})) : i \in DOMAIN items}

Names(o) == {ref[at] : at \in Spelled("obj", o, TRUE)}

\* What must be complete before o is: the types it is made of, constants, and,
\* if it is evaluated by the compiler, the functions it calls.
Needs(o) ==
  {p \in Names(o) :
     \/ Object(p).kind \in {"typedef", "enum_member"}
     \/ Object(p).kind = "global" /\ Flag(Object(p), "constexpr")
     \/ Object(p).kind = "function" /\ p # o /\ (Flag(Object(o), "constexpr") \/ Object(o).kind = "typedef")}

RECURSIVE Reached(_, _)
Reached(next, set) ==
  LET more == set \union UNION {next[o] : o \in set}
  IN IF more = set THEN set ELSE Reached(next, more)

Depends(o) == Reached([p \in Objs |-> Needs(p)], Needs(o))

\* What the compiler does not survive: an initial value that names its own
\* global, through values of globals that are no constants, and a name behind
\* an alias that leads nowhere.
Plain(o) == Object(o).kind = "global" /\ ~Flag(Object(o), "constexpr")
NamedInValues == [o \in Objs |-> IF Plain(o) THEN {p \in Names(o) : p # NoObj /\ Plain(p)} ELSE {}]
NamesItself == \E o \in Objs : o \in Reached(NamedInValues, NamedInValues[o])
LeadsNowhere == \E o \in Objs : Object(o).kind = "typedef" /\ Alias(Object(o).type).kind = "undef"

Validated == {"function", "global", "enum_member", "typedef"}

-----------------------------------------------------------------------------
(* Life *)

RECURSIVE Uses(_, _)
Uses(tag, x) ==
  LET items == Below(tag, x)
  IN (IF tag = "node" /\ x.kind = "id" THEN {ref[x.at]} ELSE {})
     \union (IF tag = "node" /\ x.kind = "with" THEN {prog.drops[ExitFn(x)].fn} ELSE {})
     \union UNION {IF items[i][1] = "node" THEN Uses("node", items[i][2]) ELSE {} : i \in DOMAIN items}
UsedBy(o) == UNION {Uses("node", code) : code \in Range(Code(o))}
Roots == {o \in Objs : \/ IsRoot(o) \/ Flag(Object(o), "exported")
                       \/ Object(o).kind = "function" /\ "dyn_base_type" \in DOMAIN Object(o)}
Live == Reached([o \in Objs |-> UsedBy(o)], Roots)

-----------------------------------------------------------------------------

Queueable == {o \in Objs : Object(o).kind \in Validated}

\* A type invariant: what is queued can be queued, and between the passes
\* every walk has left its objects, scopes and pointers behind.
TypeOK ==
  /\ phase \in {"names", "queue", "shallow", "deep", "optimize", "search", "done", "failed", "crashed"}
  /\ Len(stack) <= MaxNesting /\ current \in Objs \union {NoObj} /\ Range(stack) \subseteq Objs \union {NoObj}
  /\ Range(queue) \subseteq [obj : Queueable, method : {"deep", "shallow"}]
  /\ errors \in Nat /\ done \in 0..Len(queue) /\ marked \subseteq Objs
  /\ phase \in {"names", "queue"} /\ todo = <<>> =>
       current = NoObj /\ stack = <<>> /\ exacts = <<>> /\ Len(scopes) = 1

\* Names are resolved lexically: the scopes that are pushed and popped during the
\* walk give every use the object an environment gives it, and a program is
\* rejected for its names only if some name has no meaning, or two.
ResolvesLexically ==
  /\ phase = "queue" /\ queue = <<>> /\ stack = <<>> => Reading = {<<at, ref[at]>> : at \in prog.uses}
  /\ phase = "failed" /\ ~exact => Fault \in Reading

\* When an object is validated deep, everything it needs - the types it is made
\* of, the constants and the functions the compiler must run - was validated
\* before it, however the program text is ordered and whatever walks were
\* nested when it was found.
DependenciesFirst ==
  phase = "shallow" /\ done = 0 =>
    \A i \in DOMAIN queue : queue[i].method = "deep" =>
      \A p \in Needs(queue[i].obj) : \E j \in 1..(i - 1) : queue[j] = [obj |-> p, method |-> "deep"]

\* A circular dependency is reported only if something needs itself.
RejectedIsCyclic == phase = "queue" /\ errors > 0 => \E o \in Objs : o \in Depends(o)

\* No object is validated deep twice (casts and arguments would be inserted
\* twice), and none is forgotten.
ValidatedOnce ==
  phase = "shallow" /\ done = 0 =>
    \A o \in Queueable : Cardinality({i \in DOMAIN queue : queue[i] = [obj |-> o, method |-> "deep"]}) = 1

\* Once a type has one function of an interface, an accepted program has exactly
\* one for each function the interface declares: no entry of a table is empty.
DispatchIsComplete ==
  phase = "optimize" =>
    \A fn \in {o \in Objs : Object(o).kind = "function" /\ "dyn_base_type" \in DOMAIN Object(o)} :
      \A decl \in Range(Object(ref[Object(fn).dyn_base_type.at]).type.func_decls) :
        Cardinality({o \in Objs : /\ Object(o).kind = "function" /\ "dyn_base_type" \in DOMAIN Object(o)
                                  /\ Implements(Object(o)) = <<Object(fn).self, ref[Object(fn).dyn_base_type.at], Object(decl).name>>}) = 1

\* The queue orders what has an order: everything once, after what it needs, and
\* it gives up only on what needs itself; what comes out of it is complete.
ValidatedInOrder == DependenciesFirst /\ ValidatedOnce /\ RejectedIsCyclic /\ DispatchIsComplete

\* The dead code pass keeps every object that the roots reach through bodies,
\* initial values and drop functions, and what it marks besides are locals
\* and names that are live.
LiveCodeIsKept == phase = "done" => marked = Live

\* Compilation ends, with an error or with everything marked; it runs out of
\* stack in resolve_obj_enqueue, or reads something else as an object in
\* expand_typedef, for no other program than those that name themselves in
\* plain globals or lead nowhere.
Terminates == <>(phase \in {"failed", "done"} \/ (phase = "crashed" /\ (NamesItself \/ LeadsNowhere)))
=============================================================================
