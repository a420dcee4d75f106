----------------------------- MODULE Optimizer ------------------------------
(***************************************************************************)
(* The dead code pass (optimizer/optimizer.c): from the bodies of the      *)
(* functions that are marked already, every object that is named is        *)
(* marked and what belongs to it is searched.  With optimisation on, the   *)
(* back ends leave out what has no mark.                                   *)
(***************************************************************************)
EXTENDS Validator

\* What is searched below a node: the optimizer has a table of its own, which
\* is not the iterator's.
OptFields(kind) ==
  CASE kind \in Infix \union {"assign", "member", "pipe", "else_expr"} -> <<"left", "right">>
    [] kind = "closure"                        -> <<"exprs">>
    [] kind \in {"len", "expr_stmt"}           -> <<"expr">>
    [] kind \in Prefix                         -> <<"right">>
    [] kind = "index"                          -> <<"expr", "left">>
    [] kind \in Postfix \union {"cast"}        -> <<"left">>
    [] kind = "call"                           -> <<"expr", "args">>
    [] kind \in {"with", "ternary", "if"}      -> <<"condition", "if_branch", "else_branch">>
    [] kind \in {"case", "while"}              -> <<"condition", "body">>
    [] kind \in {"loop", "case_type", "using", "defer", "lambda"} -> <<"body">>
    [] kind = "for"                            -> <<"init_stmt", "condition", "expr", "body">>
    [] kind = "for_range"                      -> <<"left", "right", "body">>
    [] kind = "match"                          -> <<"condition", "cases", "default_case">>
    [] kind \in {"array", "struct"}            -> <<"args">>
    [] kind = "block"                          -> <<"stmts">>
    [] kind = "return"                         -> <<"return_val">>
    [] kind \in {"do_unless", "do_while"}      -> <<"body", "condition">>
    [] OTHER                                   -> <<>>

Nodes(node, f) ==
  CASE f \notin DOMAIN node              -> <<>>
    [] f \in NodeLists \union {"args"}   -> node[f]
    [] OTHER                             -> <<node[f]>>

Searched(node) == LET fields == OptFields(node.kind)
                  IN FlattenSeq([i \in 1..Len(fields) |-> Nodes(node, fields[i])])

\* The drop function of the type of a `with' variable, which the validator has
\* put into the node.
ExitFn(with) ==
  LET type == ref[Object(with.obj).type.at]
  IN (CHOOSE i \in 1..Len(prog.drops) : prog.drops[i].type = type /\ \A j \in 1..(i - 1) : prog.drops[j].type # type)

Code(o) == CASE Object(o).kind = "function" /\ "body" \in DOMAIN Object(o) -> <<Object(o).body>>
             [] Object(o).kind = "global" /\ "value" \in DOMAIN Object(o)  -> <<Object(o).value>>
             [] OTHER -> <<>>

\* The stack of nodes to be searched; its top is the head.
PushNodes(nodes) == todo' = Reverse(nodes) \o Tail(todo)

Searching == phase = "search" /\ todo # <<>>

\* remove_dead_code
AddFuncsToNodeStack ==
  /\ phase = "optimize"
  /\ phase' = "search"
  /\ LET IsFn(o) == Object(o).kind = "function" /\ o \in marked
     IN todo' = Reverse(FlattenSeq([i \in 1..Len(prog.obj) |-> IF IsFn(i) THEN Code(i) ELSE <<>>]))
  /\ UNCHANGED <<prog, current, stack, naming, errors, queueing, ending>>

SearchNode ==
  /\ Searching /\ Head(todo).kind \notin {"id", "with", "asm"}
  /\ PushNodes(Searched(Head(todo)))
  /\ UNCHANGED <<prog, phase, current, stack, naming, errors, queueing, ending>>

\* mutant: the drop function is marked and not searched
SearchWithMark ==
  /\ Searching /\ Head(todo).kind = "with"
  /\ LET fn == prog.drops[ExitFn(Head(todo))].fn
     IN marked' = marked \union {fn} /\ PushNodes(Searched(Head(todo)))
  /\ UNCHANGED <<prog, phase, current, stack, naming, errors, queueing, done, vtables>>

SearchWith ==
  /\ Searching /\ Head(todo).kind = "with"
  /\ LET fn == prog.drops[ExitFn(Head(todo))].fn
     IN marked' = marked \union {fn} /\ PushNodes(Code(fn) \o Searched(Head(todo)))
  /\ UNCHANGED <<prog, phase, current, stack, naming, errors, queueing, done, vtables>>

\* mutant: what is marked is searched again
SearchIdAgain ==
  /\ Searching /\ Head(todo).kind = "id"
  /\ LET o == ref[Head(todo).at]
     IN /\ marked' = IF o = NoObj THEN marked ELSE marked \union {o}
        /\ PushNodes(IF o = NoObj THEN <<>> ELSE Code(o))
  /\ UNCHANGED <<prog, phase, current, stack, naming, errors, queueing, done, vtables>>

\* Each object is searched when it gets its mark; the name of a member has no
\* object.
SearchId ==
  /\ Searching /\ Head(todo).kind = "id"
  /\ LET o == ref[Head(todo).at]
     IN /\ marked' = IF o = NoObj THEN marked ELSE marked \union {o}
        /\ PushNodes(IF o = NoObj \/ o \in marked THEN <<>> ELSE Code(o))
  /\ UNCHANGED <<prog, phase, current, stack, naming, errors, queueing, done, vtables>>

\* An operand of inline assembly is marked, and not searched.
SearchAsm ==
  /\ Searching /\ Head(todo).kind = "asm"
  /\ LET args == Head(todo).args
     IN marked' = marked \union {ref[args[i].at] : i \in {j \in 1..Len(args) : args[j].kind = "id"}}
  /\ PushNodes(<<>>)
  /\ UNCHANGED <<prog, phase, current, stack, naming, errors, queueing, done, vtables>>

SearchDone ==
  /\ phase = "search" /\ todo = <<>>
  /\ phase' = "done"
  /\ UNCHANGED <<prog, walking, naming, errors, queueing, ending>>

Compile ==
  Next \/ AddFuncsToNodeStack \/ SearchNode \/ SearchWith \/ SearchId \/ SearchAsm \/ SearchDone

\* The passes run one after the other in one thread.
Spec == Init /\ [][Compile]_vars /\ WF_vars(Compile)
=============================================================================
