------------------------------ MODULE Iterator ------------------------------
(***************************************************************************)
(* The syntax tree after the parser, and the walk over it that the         *)
(* validator, its queue and the type checker share (ast/ast_iterator.c).   *)
(*                                                                         *)
(* An object - function, global, local, argument, type definition, enum    *)
(* member, namespace - is known by its number in a table; a node or a type *)
(* is a record with a kind and the fields that are not NULL.  What the     *)
(* walk visits below one of them is a table from kinds to fields, in the   *)
(* order of the C switch; an item is a pair of a tag and what it tags.     *)
(***************************************************************************)
EXTENDS Naturals, Sequences, SequencesExt

Infix == {"add", "sub", "mul", "div", "mod", "eq", "ne", "gt", "ge", "lt", "le",
          "and", "or", "lshift", "rshift", "xor", "bit_or", "bit_and"}
Prefix == {"neg", "bit_neg", "not", "ref", "deref"}
Postfix == {"inc", "dec"}
Loops == {"while", "for", "loop", "for_range", "do_while", "do_unless"}

\* ast_node: what is visited below an expression.
ExprFields(kind) ==
  CASE kind \in Infix \union {"pipe", "else_expr"} -> <<"left", "right", "type">>
    [] kind = "assign"                             -> <<"right", "left", "type">>
    [] kind \in Prefix                             -> <<"right", "type">>
    [] kind \in Postfix \union {"member", "cast"}  -> <<"left", "type">>
    [] kind = "closure"                            -> <<"exprs", "type">>
    [] kind = "call"                               -> <<"expr", "type", "args">>
    [] kind = "index"                              -> <<"left", "expr", "type">>
    [] kind = "len"                                -> <<"expr", "type">>
    [] kind \in {"sizeof", "alignof"}              -> <<"the_type">>
    [] kind = "ternary"                            -> <<"condition", "if_branch", "else_branch", "type">>
    [] kind \in {"array", "struct"}                -> <<"args", "type">>
    [] kind = "asm"                            -> <<"args">>
    [] kind = "type_expr"                          -> <<"l_type", "r_type">>
    [] kind = "lambda"                             -> <<"params", "body", "return_type">>
    [] kind \in {"id", "hole"}                     -> <<"type">>
    [] OTHER                                       -> <<>>

\* ast_node: what is visited below a statement.  `body' and `default_case' are
\* members of one union: what the switch visits as the body of a match is its
\* default case, which is visited three times.
StmtFields(kind) ==
  CASE kind = "block"                    -> <<"locals", "stmts">>
    [] kind = "expr_stmt"                -> <<"expr">>
    [] kind = "if"                       -> <<"condition", "if_branch", "else_branch">>
    [] kind \in {"case", "while"}        -> <<"condition", "body">>
    [] kind \in {"do_unless", "do_while"} -> <<"body", "condition">>
    [] kind \in {"loop", "defer", "using"} -> <<"body">>
    [] kind = "for"                      -> <<"locals", "init_stmt", "condition", "expr", "body">>
    [] kind = "for_range"                -> <<"left", "right", "body">>
    [] kind = "with"                     -> <<"obj", "condition", "if_branch", "else_branch">>
    [] kind = "match"                    -> <<"condition", "default_case", "cases", "default_case", "default_case">>
    [] kind = "match_type"               -> <<"type", "default_case", "cases", "default_case", "default_case">>
    [] kind = "case_type"                -> <<"type", "body">>
    [] kind = "return"                   -> <<"return_val">>
    [] kind \in {"struct_member", "embed_struct"} -> <<"type">>
    [] OTHER                             -> ExprFields(kind)

\* ast_type
TypeFields(kind) ==
  CASE kind \in {"ptr", "vla", "dyn"}   -> <<"base">>
    [] kind \in {"array", "c_array"}    -> <<"base", "num_indices">>
    [] kind = "enum"                    -> <<"members">>
    [] kind = "struct"                  -> <<"fields">>
    [] kind = "fn"                      -> <<"base", "arg_types">>
    [] kind = "typeof"                  -> <<"num_indices">>
    [] kind = "interface"               -> <<"func_decls">>
    [] OTHER                            -> <<>>

\* ast_obj
ObjFields(kind) ==
  CASE kind = "function"    -> <<"dyn_base_type", "return_type", "args", "body", "va_area">>
    [] kind \in {"arg", "local", "typedef"} -> <<"type">>
    [] kind = "namespace"   -> <<"objs">>
    [] kind = "global"      -> <<"value", "type">>
    [] kind = "enum_member" -> <<"type", "value">>

Fields(tag, x) ==
  CASE tag = "obj"  -> ObjFields(x.kind)
    [] tag = "type" -> TypeFields(x.kind)
    [] tag = "node" -> StmtFields(x.kind)

\* How the fields are tagged; a list has a tag for its elements.
OneObj   == {"obj", "va_area"}
ObjLists == {"locals", "params", "members", "func_decls", "objs"}
OneType  == {"type", "the_type", "l_type", "r_type", "base", "return_type", "dyn_base_type"}
NodeLists == {"stmts", "exprs", "cases", "fields"}

Items(tag, list) == [i \in 1..Len(list) |-> <<tag, list[i]>>]

\* What one field contributes; a field that is not there is a NULL child.
Part(tag, x, f) ==
  CASE f \notin DOMAIN x                         -> <<>>
    [] f \in OneObj                              -> <<<<"obj", x[f]>>>>
    [] f \in ObjLists \/ (f = "args" /\ tag = "obj") -> Items("obj", x[f])
    [] f \in OneType                             -> <<<<"type", x[f]>>>>
    [] f = "arg_types"                           -> Items("type", x[f])
    [] f \in NodeLists \/ f = "args"             -> Items("node", x[f])
    [] OTHER                                     -> <<<<"node", x[f]>>>>

\* Functions' bodies and globals' values are code: when the walk comes to
\* them, a list with `iterate_only_objs' set leaves them out.
IsCode(tag, x, f) == tag = "obj" /\ f \in {"body", "value"} /\ x.kind # "enum_member"

\* Everything below x.
Below(tag, x) ==
  LET fields == Fields(tag, x)
      Visited(f) == IF IsCode(tag, x, f) /\ f \in DOMAIN x THEN <<<<"code", x[f]>>>> ELSE Part(tag, x, f)
  IN FlattenSeq([i \in 1..Len(fields) |-> Visited(fields[i])])
=============================================================================
