------------------------------- MODULE Layout -------------------------------
(***************************************************************************)
(* Sizes and offsets: where the validator puts the members of structs      *)
(* (get_type_size, get_type_align and iter_validate_type in                *)
(* parser/validator.c).                                                    *)
(*                                                                         *)
(* A size is written to the type it was computed for and read again by the *)
(* next computation: the alignment of a struct comes from the size it had  *)
(* before, that of a pointer or a C array from the size its target had     *)
(* when it was visited, and a union is as large as what its members have   *)
(* been given so far.  What is computed therefore depends on when.         *)
(*                                                                         *)
(* A type is a record with a kind; a definition is known by its number in  *)
(* prog.types and named by [kind |-> "undef", to |-> number].  A struct    *)
(* carries its own number.  Sizes are kept of definitions, of the types of *)
(* their members, and of what such a member points to or repeats; structs  *)
(* written out inside another one are left out.                            *)
(***************************************************************************)
EXTENDS Integers, Sequences, SequencesExt, FiniteSetsExt

CONSTANT Programs

VARIABLES
  prog,
  phase,
  size,     \* of every definition's type
  offset,   \* of the members of every struct
  own,      \* the size on the type of every member
  inner,    \* the size on what a member points to or repeats
  laidOut,  \* definitions the deep pass has been through
  globals,  \* definitions of whose type a global has been through the shallow pass
  at        \* definition and member being visited

sizes == <<size, offset, own, inner>>
layoutVars == <<sizes, laidOut, globals, at>>

-----------------------------------------------------------------------------
(* Types *)

RECURSIVE Unpacked(_)
Unpacked(t) == IF t.kind = "undef" THEN Unpacked(prog.types[t.to]) ELSE t

Defined(i) == prog.types[i]
IsStruct(i) == Defined(i).kind = "struct"
Members(i) == IF IsStruct(i) THEN Defined(i).members ELSE <<>>
IsUnion(i) == IsStruct(i) /\ Defined(i).union

ScalarSize == [i8 |-> 1, u8 |-> 1, char |-> 1, bool |-> 1, void |-> 1, i32 |-> 4, f32 |-> 4, enum |-> 4,
               i64 |-> 8, u64 |-> 8, f64 |-> 8, f80 |-> 10, ptr |-> 8, fn |-> 8, vla |-> 8, dyn |-> 16]
Preset(t) == IF t.kind \in DOMAIN ScalarSize \ {"ptr", "fn", "vla", "dyn", "enum"} THEN ScalarSize[t.kind] ELSE 0

AlignTo(n, align) == ((n + align - 1) \div align) * align
\* The largest power of two that is not above n, and at least `least'.
Power(n, least) == Max({least} \union {p \in {2^k : k \in 0..6} : p <= n})

-----------------------------------------------------------------------------
(* get_type_size *)

Aligned(t, ownSize, innerSize) ==
  CASE t.kind \in {"ptr", "c_array"} -> Power(innerSize, 8)
    [] t.kind = "array"              -> 8
    [] OTHER                         -> Power(ownSize, 1)

RECURSIVE TypeSize(_), Placed(_)
\* Offsets of the members, and where the last one ends.
Placed(i) ==
  LET Put(done, j) ==
        LET t == Members(i)[j]  n == TypeSize(t)
            start == AlignTo(done.end, Aligned(t, n, inner[i][j]))
        IN [offsets |-> Append(done.offsets, start), end |-> start + n]
  IN FoldLeft(Put, [offsets |-> <<>>, end |-> 0], [j \in 1..Len(Members(i)) |-> j])

TypeSize(t) ==
  CASE t.kind \in DOMAIN ScalarSize -> ScalarSize[t.kind]
    [] t.kind = "undef"             -> TypeSize(Unpacked(t))
    [] t.kind = "c_array"           -> t.n * TypeSize(t.base)
    [] t.kind = "array"             -> t.n * TypeSize(t.base) + ScalarSize.ptr
    [] t.kind = "struct"            ->
         IF t.union THEN Max({0} \union Range(own[t.at]))
         ELSE AlignTo(Placed(t.at).end, Power(size[t.at], 1))
    [] OTHER                        -> 0

\* Structs whose offsets the computation writes on its way.
RECURSIVE Reached(_)
Reached(t) ==
  CASE t.kind = "undef"                -> Reached(Unpacked(t))
    [] t.kind \in {"c_array", "array"} -> Reached(t.base)
    [] t.kind = "struct" /\ ~t.union   -> {t.at} \union UNION {Reached(m) : m \in Range(t.members)}
    [] OTHER                           -> {}

Written(t) ==
  /\ offset' = [i \in DOMAIN offset |-> IF i \in Reached(t) THEN Placed(i).offsets ELSE offset[i]]
  /\ own' = [i \in DOMAIN own |-> IF i \in Reached(t) THEN [j \in DOMAIN own[i] |-> TypeSize(Members(i)[j])]
                                  ELSE own[i]]

-----------------------------------------------------------------------------
(* The passes *)

LayoutInit ==
  /\ size = [i \in DOMAIN prog.types |-> Preset(Defined(i))]
  /\ offset = [i \in DOMAIN prog.types |-> [j \in DOMAIN Members(i) |-> 0]]
  /\ own = [i \in DOMAIN prog.types |-> [j \in DOMAIN Members(i) |-> Preset(Members(i)[j])]]
  /\ inner = [i \in DOMAIN prog.types |->
                [j \in DOMAIN Members(i) |->
                   IF Members(i)[j].kind \in {"ptr", "c_array"} THEN Preset(Members(i)[j].base) ELSE 0]]
  /\ laidOut = {} /\ globals = {} /\ at = <<>>

\* validate_data_type: the size is computed for the definition and written
\* to it.
ValidateDataType(i) ==
  /\ phase = "layout" /\ laidOut = {} /\ at = <<>> /\ i \in prog.globals \ globals
  /\ globals' = globals \union {i}
  /\ Written(Defined(i)) /\ size' = [size EXCEPT ![i] = TypeSize(Defined(i))]
  /\ UNCHANGED <<prog, phase, inner, laidOut, at>>

\* What has to be through the deep pass before a definition, in the order of
\* the text: what it holds, not what it points to (module Validator shows that
\* the queue sees to it).
RECURSIVE Exact(_)
Exact(t) ==
  CASE t.kind = "undef"                -> <<t.to>>
    [] t.kind \in {"c_array", "array"} -> Exact(t.base)
    [] t.kind = "struct"               -> FlattenSeq([j \in DOMAIN t.members |-> Exact(t.members[j])])
    [] OTHER                           -> <<>>

\* mutant: the definitions as they stand in the text
InTextOrder(i) == i
RECURSIVE Innermost(_)
Innermost(i) ==
  LET missing == SelectSeq(Exact(Defined(i)), LAMBDA j : j \notin laidOut)
  IN IF missing = <<>> THEN i ELSE Innermost(Head(missing))

EnterTypedef ==
  /\ phase = "layout" /\ globals = prog.globals /\ at = <<>> /\ laidOut # DOMAIN prog.types
  /\ at' = <<Innermost(Min(DOMAIN prog.types \ laidOut)), 1>>
  /\ UNCHANGED <<prog, phase, sizes, laidOut, globals>>

\* iter_validate_type on a member's type, after what it points to or repeats
\* has been visited.
ValidateMemberType ==
  /\ phase = "layout" /\ at # <<>> /\ at[2] <= Len(Members(at[1]))
  /\ LET i == at[1]  j == at[2]  t == Members(i)[j]
     IN /\ inner' = IF t.kind \in {"ptr", "c_array"} THEN [inner EXCEPT ![i][j] = TypeSize(t.base)] ELSE inner
        /\ LET on == IF t.kind = "ptr" THEN t.base ELSE t
           IN /\ offset' = [k \in DOMAIN offset |-> IF k \in Reached(on) THEN Placed(k).offsets ELSE offset[k]]
              /\ own' = [k \in DOMAIN own |-> [l \in DOMAIN own[k] |->
                           IF <<k, l>> = <<i, j>> \/ k \in Reached(on) THEN TypeSize(Members(k)[l]) ELSE own[k][l]]]
        /\ at' = <<i, j + 1>>
  /\ UNCHANGED <<prog, phase, size, laidOut, globals>>

\* iter_validate_type on the definition's own type.
ValidateTypedef ==
  /\ phase = "layout" /\ at # <<>> /\ at[2] > Len(Members(at[1]))
  /\ Written(Defined(at[1])) /\ size' = [size EXCEPT ![at[1]] = TypeSize(Defined(at[1]))]
  /\ laidOut' = laidOut \union {at[1]} /\ at' = <<>>
  /\ UNCHANGED <<prog, phase, inner, globals>>

LayoutNext ==
  \/ \E i \in DOMAIN prog.types : ValidateDataType(i)
  \/ EnterTypedef
  \/ ValidateMemberType
  \/ ValidateTypedef

LaidOut == laidOut = DOMAIN prog.types
=============================================================================
