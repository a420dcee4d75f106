----------------------------- MODULE Validator ------------------------------
(***************************************************************************)
(* Names, order and reachability: the middle of the compiler               *)
(* (parser/validator.c, parser/queue.c and ast/vtable.c).                  *)
(*                                                                         *)
(* The validator walks the tree three times, each time with another table  *)
(* of callbacks: first every identifier is resolved in a stack of scopes;  *)
(* then the objects are queued, each behind those it needs, by a walk that *)
(* starts new walks from its callbacks; then the queue is worked off.      *)
(* `todo' is the stack of these nested walks.  The optimizer that follows  *)
(* is module Optimizer; what an expression's type is, is module Types.     *)
(***************************************************************************)
EXTENDS Iterator, Integers, FiniteSets

CONSTANTS
  Programs,    \* what the parser has read: objects, their table, drop functions
  MaxNesting   \* how many walks inside walks the C stack holds

VARIABLES
  prog,
  phase,    \* which pass is running; "crashed" when the C stack is used up or a pointer to something else is read as an object
  todo,     \* items of the walks still to be visited
  current,  \* v->current_obj, or NoObj
  stack,    \* v->obj_stack
  scopes,   \* names to objects, the global scope first
  ref,      \* referenced_obj of every use, by its place in the text
  errors,   \* context->emitted_errors
  exact,    \* v->need_exact_type_infos
  exacts,   \* v->exact_type_info_stack
  onlyObjs, \* iterate_only_objs of the one table all nested walks share
  queue,    \* the resolve queue: object and method
  done,     \* how many nodes of the queue the running pass has left behind
  vtables,  \* functions registered, by type and interface
  marked    \* objects with `referenced' set

walking == <<todo, current, stack>>
naming  == <<scopes, ref>>
queueing == <<exact, exacts, onlyObjs, queue>>
ending  == <<done, vtables, marked>>
vars == <<prog, phase, walking, naming, errors, queueing, ending>>

NoObj == 0
NotAnObj == -1   \* a pointer to something else
NoNames == [n \in {} |-> NoObj]
Object(i) == prog.obj[i]
Thing(item) == IF item.tag = "obj" THEN Object(item.x) ELSE item.x

Flag(x, f) == f \in DOMAIN x /\ x[f]

-----------------------------------------------------------------------------
(* Walking *)

Visit(walk, items) ==
  [i \in 1..Len(items) |-> [walk |-> walk, event |-> "enter", tag |-> items[i][1], x |-> items[i][2]]]

\* What follows when the item at the top is entered: what is below it, and
\* its end.
Into(item) ==
  Visit(item.walk, Below(item.tag, Thing(item))) \o <<[item EXCEPT !.event = "leave"]>> \o Tail(todo)

At(walks, event, tag, kinds) ==
  /\ phase \in {"names", "queue"} /\ todo # <<>>
  /\ Head(todo).walk \in walks /\ Head(todo).event = event /\ Head(todo).tag = tag
  /\ tag # "code" => Thing(Head(todo)).kind \in kinds

Go == todo' = IF Head(todo).event = "enter" THEN Into(Head(todo)) ELSE Tail(todo)

Push(o) == stack' = Append(stack, current) /\ current' = o
\* mutant: the object is taken and stays on the stack
PopOne == IF stack = <<>> THEN current' = NoObj /\ UNCHANGED stack
       ELSE current' = Last(stack) /\ UNCHANGED stack

Pop == IF stack = <<>> THEN current' = NoObj /\ UNCHANGED stack
       ELSE current' = Last(stack) /\ stack' = Front(stack)

Reject(n) == errors' = errors + n

\* Code is left out while the shared table says so.
SkipOrCode ==
  /\ At({"names", "queue", "resolve"}, "enter", "code", {})
  /\ todo' = (IF Head(todo).walk = "resolve" /\ onlyObjs THEN <<>>
              ELSE Visit(Head(todo).walk, <<<<"node", Head(todo).x>>>>)) \o Tail(todo)
  /\ UNCHANGED <<prog, phase, current, stack, naming, errors, queueing, ending>>

-----------------------------------------------------------------------------
(* Scopes *)

\* Objects registered in a scope one by one; a name that is taken is an error
\* and keeps its first meaning.
Registered(scope, objs) ==
  FoldLeft(LAMBDA s, o : IF Object(o).name \in DOMAIN s THEN s ELSE s @@ (Object(o).name :> o), scope, objs)
Clashes(scope, objs) ==
  Cardinality({i \in 1..Len(objs) : Object(objs[i]).name \in
                 DOMAIN scope \union {Object(objs[j]).name : j \in 1..(i - 1)}})

BeginScope(objs) == scopes' = Append(scopes, Registered(NoNames, objs)) /\ Reject(Clashes(NoNames, objs))
EndScope == scopes' = Front(scopes)
Register(objs) ==
  /\ scopes' = [scopes EXCEPT ![Len(scopes)] = Registered(@, objs)]
  /\ Reject(Clashes(scopes[Len(scopes)], objs))

\* mutant: outer scopes first
LookupOutside(name, global) ==
  LET in == {i \in 1..Len(scopes) : name \in DOMAIN scopes[i] /\ (global => i = 1)}
  IN IF in = {} THEN NoObj ELSE scopes[Min(in)][name]

\* scope_resolve_ident: the first part of a path is looked up from the inner
\* scope outwards, or in the global scope; every further one among the
\* members of what was found.
Lookup(name, global) ==
  LET in == {i \in 1..Len(scopes) : name \in DOMAIN scopes[i] /\ (global => i = 1)}
  IN IF in = {} THEN NoObj ELSE scopes[Max(in)][name]

Named(objs, name) == LET i == SelectInSeq(objs, LAMBDA o : Object(o).name = name)
                     IN IF i = 0 THEN NoObj ELSE objs[i]

RECURSIVE Expanded(_, _), Resolve(_)
\* expand_typedef: an alias that has been resolved already is followed once,
\* another one to its end; if it has none, or no name, nothing is there.
Nothing == [kind |-> "nothing"]
Expanded(type, fuel) ==
  IF type.kind # "undef" THEN type
  ELSE IF ref[type.at] # NoObj THEN Object(ref[type.at]).type
  ELSE LET o == Resolve(type.id)
       IN IF fuel = 0 \/ o \in {NoObj, NotAnObj} THEN Nothing
          ELSE IF "type" \in DOMAIN Object(o) THEN Expanded(Object(o).type, fuel - 1)
          ELSE IF Object(o).kind = "function" THEN [kind |-> "fn"] ELSE Nothing

Member(o, name) ==
  CASE o \in {NoObj, NotAnObj}       -> o
    [] Object(o).kind = "namespace"  -> Named(Object(o).objs, name)
    [] Object(o).kind = "typedef"    ->
         LET type == Expanded(Object(o).type, Len(prog.obj))
         IN IF type = Nothing THEN NotAnObj ELSE IF type.kind = "enum" THEN Named(type.members, name) ELSE NoObj
    [] OTHER                         -> NoObj

Resolve(id) == FoldLeft(Member, Lookup(Head(id.path), id.global), Tail(id.path))

\* The namespaces around an object.
RECURSIVE Outer(_)
Outer(o) == LET around == {n \in 1..Len(prog.obj) : Object(n).kind = "namespace" /\ o \in Range(Object(n).objs)}
            IN IF around = {} THEN <<>> ELSE LET n == CHOOSE n \in around : TRUE IN Append(Outer(n), Object(n).name)

\* A name that is resolved gets the path of its object; what is below a node
\* that is visited again is looked up by that.
Spelling(x) ==
  LET o == ref[x.at]  id == x.id
  IN CASE o = NoObj -> id
       [] o # NoObj /\ Outer(o) # <<>> -> [id EXCEPT !.path = Append(Outer(o), Last(@))]
       [] o # NoObj /\ Object(o).kind = "enum_member" /\ Len(id.path) > 1 ->
            [id EXCEPT !.path = Outer(Resolve([id EXCEPT !.path = Front(@)])) \o SubSeq(@, Len(@) - 1, Len(@))]
       [] OTHER -> id

Panic == phase' = "failed" /\ todo' = <<>>
Crash == phase' = "crashed" /\ todo' = <<>>

-----------------------------------------------------------------------------
(* validate_idents *)

EnterNamespaceScope ==
  /\ At({"names"}, "enter", "obj", {"namespace"})
  /\ Push(Head(todo).x) /\ BeginScope(Thing(Head(todo)).objs) /\ Go
  /\ UNCHANGED <<prog, phase, ref, queueing, ending>>

EnterFunctionScope ==
  /\ At({"names"}, "enter", "obj", {"function"})
  /\ LET fn == Thing(Head(todo))
     IN BeginScope(fn.args \o (IF "va_area" \in DOMAIN fn THEN <<fn.va_area>> ELSE <<>>))
  /\ Push(Head(todo).x) /\ Go
  /\ UNCHANGED <<prog, phase, ref, queueing, ending>>

LeaveScope ==
  /\ At({"names"}, "leave", "obj", {"namespace", "function"})
  /\ Pop /\ EndScope /\ Go
  /\ UNCHANGED <<prog, phase, ref, errors, queueing, ending>>

PushGlobalVar ==
  /\ At({"names"}, "enter", "obj", {"global"})
  /\ Push(Head(todo).x) /\ Go
  /\ UNCHANGED <<prog, phase, naming, errors, queueing, ending>>

PopGlobalVar ==
  /\ At({"names"}, "leave", "obj", {"global"})
  /\ Pop /\ Go
  /\ UNCHANGED <<prog, phase, naming, errors, queueing, ending>>

\* The va_area is the one local its function has registered itself.
IsVaArea(o) == current # NoObj /\ Object(current).kind = "function"
               /\ "va_area" \in DOMAIN Object(current) /\ Object(current).va_area = o

RegisterLocalVar ==
  /\ At({"names"}, "enter", "obj", {"local"})
  /\ Register(IF IsVaArea(Head(todo).x) THEN <<>> ELSE <<Head(todo).x>>) /\ Go
  /\ UNCHANGED <<prog, phase, current, stack, ref, queueing, ending>>

\* Blocks, for and with start empty: their locals are registered when the
\* walk comes to them, before the statements.
EnterNodeScope ==
  /\ At({"names"}, "enter", "node", {"block", "for", "with", "lambda"})
  /\ BeginScope(IF Head(todo).x.kind = "lambda" THEN Head(todo).x.params ELSE <<>>) /\ Go
  /\ UNCHANGED <<prog, phase, current, stack, ref, queueing, ending>>

LeaveNodeScope ==
  /\ At({"names"}, "leave", "node", {"block", "for", "with", "lambda", "using"})
  /\ IF Head(todo).x.kind = "using" /\ "body" \notin DOMAIN Head(todo).x THEN UNCHANGED scopes ELSE EndScope
  /\ Go
  /\ UNCHANGED <<prog, phase, current, stack, ref, errors, queueing, ending>>

\* `using' puts the objects of a namespace into a scope of its own if it has a
\* body, else into the one around it.
EnterUsingScope ==
  /\ At({"names"}, "enter", "node", {"using"})
  /\ LET using == Head(todo).x
         ns    == Resolve(using.id)
         objs  == IF ns # NoObj /\ Object(ns).kind = "namespace" THEN Object(ns).objs ELSE <<>>
     IN /\ IF "body" \in DOMAIN using THEN scopes' = Append(scopes, Registered(NoNames, objs))
           ELSE scopes' = [scopes EXCEPT ![Len(scopes)] = Registered(@, objs)]
        /\ Reject(IF ns = NoObj \/ Object(ns).kind # "namespace" THEN 1
                  ELSE Clashes(IF "body" \in DOMAIN using THEN NoNames ELSE scopes[Len(scopes)], objs))
  /\ Go
  /\ UNCHANGED <<prog, phase, current, stack, ref, queueing, ending>>

\* A struct's members are in a scope as well, as nodes among objects.
EnterTypeScope ==
  /\ At({"names"}, "enter", "type", {"enum", "struct"})
  /\ IF Head(todo).x.kind = "enum" THEN BeginScope(Head(todo).x.members)
     ELSE LET fields == Head(todo).x.fields
              names  == {fields[i].name : i \in DOMAIN fields}
          IN scopes' = Append(scopes, [n \in names |-> NotAnObj]) /\ Reject(Len(fields) - Cardinality(names))
  /\ Go
  /\ UNCHANGED <<prog, phase, current, stack, ref, queueing, ending>>

LeaveTypeScope ==
  /\ At({"names"}, "leave", "type", {"enum", "struct"})
  /\ EndScope /\ Go
  /\ UNCHANGED <<prog, phase, current, stack, ref, errors, queueing, ending>>

\* Only what is [constexpr] itself, or an argument, may be named in what is.
BreaksConstexpr(o) ==
  /\ current # NoObj /\ Flag(Object(current), "constexpr")
  /\ ~Flag(Object(o), "constexpr") /\ Object(o).kind # "arg"

ValidateIdentExpr ==
  /\ At({"names"}, "enter", "node", {"id"})
  /\ LET id == Spelling(Head(todo).x)  o == Resolve(id)
     IN IF o = NoObj THEN Reject(1) /\ Go /\ UNCHANGED <<ref, phase>>
        ELSE IF o = NotAnObj THEN Crash /\ UNCHANGED <<ref, errors>>
        ELSE /\ ref' = [ref EXCEPT ![Head(todo).x.at] = o]
             /\ IF BreaksConstexpr(o) THEN Reject(1) /\ Panic
                ELSE /\ Reject(IF Flag(Object(o), "private") /\ Len(id.path) > 1 THEN 1 ELSE 0)
                     /\ Go /\ UNCHANGED phase
  /\ UNCHANGED <<prog, current, stack, scopes, queueing, ending>>

ValidateUndefTypeIdent ==
  /\ At({"names"}, "enter", "type", {"undef"})
  /\ LET o == Resolve(Spelling(Head(todo).x))
     IN IF o = NotAnObj THEN Crash /\ UNCHANGED <<ref, errors>>
        ELSE /\ IF o # NoObj /\ Object(o).kind = "typedef"
                THEN ref' = [ref EXCEPT ![Head(todo).x.at] = o] /\ UNCHANGED errors
                ELSE Reject(1) /\ UNCHANGED ref
             /\ Go /\ UNCHANGED phase
  /\ UNCHANGED <<prog, current, stack, scopes, queueing, ending>>

\* Items the running walk has no callback for.
NameCallbacks ==
  [obj  |-> {"namespace", "function", "global"},
   node |-> {"block", "for", "with", "lambda", "using"},
   type |-> {"enum", "struct"}]
NoNameCallback ==
  /\ phase = "names" /\ todo # <<>> /\ Head(todo).tag # "code"
  /\ LET item == Head(todo)  kind == Thing(item).kind
     IN /\ kind \notin NameCallbacks[item.tag]
        /\ item.event = "leave" \/ (kind \notin {"local", "undef"} /\ ~(item.tag = "node" /\ kind = "id"))
  /\ Go
  /\ UNCHANGED <<prog, phase, current, stack, naming, errors, queueing, ending>>

-----------------------------------------------------------------------------
(* The queue (parser/queue.c) *)

InQueue(o, methods) == \E i \in 1..Len(queue) : queue[i].obj = o /\ queue[i].method \in methods
Anyhow == {"deep", "shallow"}
\* mutant: what is there shallow is there
QueuedAnyhow(o, method) == InQueue(o, Anyhow)

Queued(o, method) == InQueue(o, IF method = "shallow" THEN Anyhow ELSE {"deep"})

\* mutant: naming what is being visited is circular
EnqueueOnce(o, method, rest) ==
  IF Queued(o, method) THEN todo' = rest /\ UNCHANGED <<phase, current, stack, errors, onlyObjs>>
  ELSE IF o \in Range(Append(stack, current))
  THEN Reject(1) /\ todo' = rest /\ UNCHANGED <<phase, current, stack, onlyObjs>>
  ELSE IF Len(stack) = MaxNesting THEN Crash /\ UNCHANGED <<current, stack, errors, onlyObjs>>
  ELSE /\ Push(o)
       /\ onlyObjs' = (method = "shallow" /\ Object(o).kind = "function")
       /\ todo' = Visit("resolve", <<<<"obj", o>>>>)
                  \o <<[walk |-> "resolve", event |-> method, tag |-> "obj", x |-> o]>> \o rest
       /\ UNCHANGED <<phase, errors>>

\* resolve_obj_enqueue, up to the walk below the object: what is queued
\* already is left alone, and an object that is needed deep while it is being
\* visited depends on itself.  One that is needed shallowly is visited inside
\* its own visit, and again inside that.
Enqueue(o, method, rest) ==
  IF Queued(o, method) THEN todo' = rest /\ UNCHANGED <<phase, current, stack, errors, onlyObjs>>
  ELSE IF method = "deep" /\ o \in Range(Append(stack, current))
  THEN Reject(1) /\ todo' = rest /\ UNCHANGED <<phase, current, stack, onlyObjs>>
  ELSE IF Len(stack) = MaxNesting THEN Crash /\ UNCHANGED <<current, stack, errors, onlyObjs>>
  ELSE /\ Push(o)
       /\ onlyObjs' = (method = "shallow" /\ Object(o).kind = "function")
       /\ todo' = Visit("resolve", <<<<"obj", o>>>>)
                  \o <<[walk |-> "resolve", event |-> method, tag |-> "obj", x |-> o]>> \o rest
       /\ UNCHANGED <<phase, errors>>

\* Its end: the object goes behind everything its walk has queued, unless
\* that walk has queued it.
FinishEnqueue ==
  /\ phase = "queue" /\ todo # <<>> /\ Head(todo).event \in Anyhow
  /\ queue' = IF Queued(Head(todo).x, Head(todo).event) THEN queue
              ELSE Append(queue, [obj |-> Head(todo).x, method |-> Head(todo).event])
  /\ Pop /\ todo' = Tail(todo)
  /\ UNCHANGED <<prog, phase, naming, errors, exact, exacts, onlyObjs, ending>>

\* Behind a pointer a type's size is not needed.
EnterType ==
  /\ At({"queue", "resolve"}, "enter", "type", {"ptr", "vla"})
  /\ exacts' = Append(exacts, exact) /\ exact' = FALSE /\ Go
  /\ UNCHANGED <<prog, phase, current, stack, naming, errors, onlyObjs, queue, ending>>

LeaveType ==
  /\ At({"queue", "resolve"}, "leave", "type", {"ptr", "vla"})
  /\ exact' = Last(exacts) /\ exacts' = Front(exacts) /\ Go
  /\ UNCHANGED <<prog, phase, current, stack, naming, errors, onlyObjs, queue, ending>>

ResolveTypeAliasEnqueue ==
  /\ At({"queue", "resolve"}, "enter", "type", {"undef"})
  /\ IF exact THEN Enqueue(ref[Head(todo).x.at], "deep", Into(Head(todo)))
     ELSE Go /\ UNCHANGED <<phase, current, stack, errors, onlyObjs>>
  /\ UNCHANGED <<prog, naming, exact, exacts, queue, ending>>

\* mutant: constants are needed by name only
MethodConstant(o) ==
  CASE Object(o).kind = "global"      -> "shallow"
    [] Object(o).kind = "enum_member" -> "deep"
    [] Object(o).kind = "function"    ->
         IF (Flag(Object(current), "constexpr") \/ Object(current).kind = "typedef") /\ current # o
         THEN "deep" ELSE "shallow"

\* How much of what an identifier names is needed.
Method(o) ==
  CASE Object(o).kind = "global"      -> IF Flag(Object(o), "constexpr") THEN "deep" ELSE "shallow"
    [] Object(o).kind = "enum_member" -> "deep"
    [] Object(o).kind = "function"    ->
         IF (Flag(Object(current), "constexpr") \/ Object(current).kind = "typedef") /\ current # o
         THEN "deep" ELSE "shallow"

ResolveIdEnqueue ==
  /\ At({"resolve"}, "leave", "node", {"id"})
  /\ LET o == ref[Head(todo).x.at]
     IN IF Object(o).kind \in {"global", "enum_member", "function"} THEN Enqueue(o, Method(o), Tail(todo))
        ELSE Go /\ UNCHANGED <<phase, current, stack, errors, onlyObjs>>
  /\ UNCHANGED <<prog, naming, exact, exacts, queue, ending>>

InitObjEnqueue ==
  /\ At({"queue"}, "leave", "obj", {"global", "function", "enum_member", "typedef"})
  /\ Enqueue(Head(todo).x, "deep", Tail(todo))
  /\ UNCHANGED <<prog, naming, exact, exacts, queue, ending>>

NoQueueCallback ==
  /\ phase = "queue" /\ todo # <<>> /\ Head(todo).tag # "code" /\ Head(todo).event \notin Anyhow
  /\ LET item == Head(todo)  kind == Thing(item).kind
     IN CASE item.tag = "type" -> kind \notin {"ptr", "vla"} /\ ~(kind = "undef" /\ item.event = "enter")
          [] item.tag = "node" -> ~(kind = "id" /\ item.event = "leave" /\ item.walk = "resolve")
          [] item.tag = "obj"  -> ~(item.walk = "queue" /\ item.event = "leave"
                                    /\ kind \in {"global", "function", "enum_member", "typedef"})
  /\ Go
  /\ UNCHANGED <<prog, phase, current, stack, naming, errors, queueing, ending>>

-----------------------------------------------------------------------------
(* validator_pass *)

Init ==
  /\ prog \in Programs
  /\ phase = "names"
  /\ todo = Visit("names", Items("obj", prog.objs))
  /\ current = NoObj /\ stack = <<>>
  /\ scopes = <<Registered(NoNames, prog.objs)>>
  /\ ref = [at \in prog.uses |-> NoObj]
  /\ errors = Clashes(NoNames, prog.objs)
  /\ exact = FALSE /\ exacts = <<>> /\ onlyObjs = FALSE /\ queue = <<>>
  /\ done = 0 /\ vtables = <<>>
  /\ marked = {o \in 1..Len(prog.obj) : Flag(prog.obj[o], "exported")}

\* Between the walks: errors end the pass.
NamesDone ==
  /\ phase = "names" /\ todo = <<>>
  /\ phase' = IF errors > 0 THEN "failed" ELSE "queue"
  /\ todo' = IF errors > 0 THEN <<>> ELSE Visit("queue", Items("obj", prog.objs))
  /\ exact' = (errors = 0)
  /\ UNCHANGED <<prog, current, stack, naming, errors, exacts, onlyObjs, queue, ending>>

QueueDone ==
  /\ phase = "queue" /\ todo = <<>>
  /\ phase' = IF errors > 0 THEN "failed" ELSE "shallow"
  /\ UNCHANGED <<prog, walking, naming, errors, queueing, ending>>

\* validate_obj_shallow, vtable_register: a `dyn' function enters the table of
\* the type its first argument points to.
Implements(fn) == <<fn.self, ref[fn.dyn_base_type.at], fn.name>>

ValidateObjShallow ==
  /\ phase = "shallow" /\ done < Len(queue)
  /\ done' = done + 1
  /\ LET o == queue[done + 1].obj
     IN IF Object(o).kind = "function" /\ "dyn_base_type" \in DOMAIN Object(o)
        THEN /\ vtables' = IF Implements(Object(o)) \in Range(vtables) THEN vtables
                           ELSE Append(vtables, Implements(Object(o)))
             /\ Reject(IF Implements(Object(o)) \in Range(vtables) THEN 1 ELSE 0)
             /\ marked' = marked \union {o}
        ELSE UNCHANGED <<vtables, errors, marked>>
  /\ UNCHANGED <<prog, phase, walking, naming, queueing>>

ShallowDone ==
  /\ phase = "shallow" /\ done = Len(queue)
  /\ phase' = "deep" /\ done' = 0
  /\ UNCHANGED <<prog, walking, naming, errors, queueing, vtables, marked>>

\* validate_obj_deep, as far as it is not about types: the entry point and the
\* functions around it are roots.
IsMain(fn) == fn.name = "main" /\ fn.outer = NoObj
IsRoot(o) == Object(o).kind = "function"
             /\ (IsMain(Object(o)) \/ Flag(Object(o), "before_main") \/ Flag(Object(o), "after_main"))

ValidateObjDeep ==
  /\ phase = "deep" /\ done < Len(queue)
  /\ done' = done + 1
  /\ marked' = IF queue[done + 1].method = "deep" /\ IsRoot(queue[done + 1].obj)
               THEN marked \union {queue[done + 1].obj} ELSE marked
  /\ UNCHANGED <<prog, phase, walking, naming, errors, queueing, vtables>>

\* mutant: the function of another type will do
MissingAnywhere ==
  {<<v, o>> \in Range(vtables) \X (1..Len(prog.obj)) :
     /\ o \in Range(Object(v[2]).type.func_decls)
     /\ \A u \in Range(vtables) : u[3] # Object(o).name}

\* validate_vtables, validate_drop_functions and the search for main: all
\* functions of an interface are there once a type has one of them.
Missing ==
  {<<v, o>> \in Range(vtables) \X (1..Len(prog.obj)) :
     /\ o \in Range(Object(v[2]).type.func_decls)
     /\ <<v[1], v[2], Object(o).name>> \notin Range(vtables)}
DoubleDrops == {i \in 1..Len(prog.drops) : \E j \in 1..(i - 1) : prog.drops[j].type = prog.drops[i].type}
HasMain == \E i \in 1..Len(queue) : Object(queue[i].obj).kind = "function" /\ IsMain(Object(queue[i].obj))

Finish ==
  /\ phase = "deep" /\ done = Len(queue)
  /\ LET found == errors + Cardinality(Missing) + Cardinality(DoubleDrops) + (IF HasMain THEN 0 ELSE 1)
     IN errors' = found /\ phase' = IF found > 0 THEN "failed" ELSE "optimize"
  /\ scopes' = Front(scopes)
  /\ UNCHANGED <<prog, walking, ref, queueing, ending>>

Next ==
  \/ SkipOrCode \/ EnterNamespaceScope \/ EnterFunctionScope \/ LeaveScope
  \/ PushGlobalVar \/ PopGlobalVar \/ RegisterLocalVar
  \/ EnterNodeScope \/ LeaveNodeScope \/ EnterUsingScope \/ EnterTypeScope \/ LeaveTypeScope
  \/ ValidateIdentExpr \/ ValidateUndefTypeIdent \/ NoNameCallback
  \/ EnterType \/ LeaveType \/ ResolveTypeAliasEnqueue \/ ResolveIdEnqueue \/ InitObjEnqueue
  \/ FinishEnqueue \/ NoQueueCallback
  \/ NamesDone \/ QueueDone \/ ValidateObjShallow \/ ShallowDone \/ ValidateObjDeep \/ Finish
=============================================================================
