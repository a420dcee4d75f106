------------------------ MODULE PreprocessorMeaning ------------------------
(***************************************************************************)
(* What macros mean, by substitution of token lists, and the properties of *)
(* Preprocessor that say so.                                               *)
(***************************************************************************)
EXTENDS Preprocessor, SequencesExt, FiniteSets

-----------------------------------------------------------------------------
(* macros: here one is a name, parameters and a list of tokens *)

\* the length of the argument list at the head of ts, brackets included
RECURSIVE Balanced(_, _, _)
Balanced(ts, n, d) ==
    IF n > Len(ts) THEN 0
    ELSE LET d1 == IF ts[n].type \in Open THEN d + 1 ELSE IF ts[n].type \in Close THEN d - 1 ELSE d
         IN IF d1 = 0 THEN n ELSE Balanced(ts, n + 1, d1)
BracketLength(ts) == IF ts # <<>> /\ ts[1].type \in Open THEN Balanced(ts, 1, 0) ELSE 0

RECURSIVE Split(_, _, _)
Split(ts, current, d) ==
    IF ts = <<>> THEN <<current>>
    ELSE IF Head(ts).type = "," /\ d = 0 THEN <<current>> \o Split(Tail(ts), <<>>, 0)
    ELSE Split(Tail(ts), Append(current, Head(ts)),
               IF Head(ts).type \in Open THEN d + 1 ELSE IF Head(ts).type \in Close THEN d - 1 ELSE d)
ArgumentsOf(ts, n) == IF n <= 2 THEN <<>> ELSE Split(SubSeq(ts, 2, n - 1), <<>>, 0)

RECURSIVE Join(_)
Join(ts) ==
    IF Len(ts) < 3 THEN ts
    ELSE IF ts[1].type = "ID" /\ ts[2].type = "AT"
    THEN Join(<<[ts[1] EXCEPT !.value = @ \o ts[3].value]>> \o SubSeq(ts, 4, Len(ts)))
    ELSE <<ts[1]>> \o Join(Tail(ts))

Nowhere == 0   \* lines count from 1

\* the tokens ts stands for, as the body of a macro with these arguments, called in this line or nowhere
RECURSIVE Meant(_, _, _, _, _)
Meant(ms, ts, params, args, line) ==
    IF ts = <<>> THEN <<>>
    ELSE LET t == Head(ts)
             rest == Tail(ts)
             n == BracketLength(rest)
             given == ArgumentsOf(rest, n)
             m == CHOOSE x \in ms : x.name = t.value /\ Len(x.params) = Len(given)
             parameter == {k \in DOMAIN params : params[k] = t.value}
         IN IF t.type = "MACRO_CALL"
            THEN Join(Meant(ms, m.body, m.params, given, t.line + 1)) \o Meant(ms, SubSeq(rest, n + 1, Len(rest)), params, args, line)
            ELSE (IF t.type # "ID" THEN <<t>>
                  ELSE IF parameter # {} THEN Meant(ms, args[First(parameter)], <<>>, <<>>, Nowhere)
                  ELSE IF t.value = <<"__line__">> /\ line # Nowhere THEN <<[type |-> "INT", value |-> <<line>>, line |-> t.line, source |-> t.source]>>
                  ELSE <<t>>)
                 \o Meant(ms, rest, params, args, line)

\* a definition at the head of ts: macro NAME, maybe ( parameters ), { body }
ParamsLength(ts) == IF ts[3].type = "(" THEN BracketLength(SubSeq(ts, 3, Len(ts))) ELSE 0
BodyLength(ts) == BracketLength(SubSeq(ts, 3 + ParamsLength(ts), Len(ts)))
Definition(ts) ==
    LET n == ParamsLength(ts)
        names == SelectSeq(SubSeq(ts, 3, 2 + n), LAMBDA t : t.type = "ID")
    IN [name |-> ts[2].value, params |-> [k \in DOMAIN names |-> names[k].value],
        body |-> SubSeq(ts, 4 + n, 1 + n + BodyLength(ts))]

RECURSIVE Definitions(_)
Definitions(ts) == IF ts = <<>> THEN {}
                   ELSE IF Head(ts).type = "MACRO" THEN {Definition(ts)} \cup Definitions(SubSeq(ts, 3 + ParamsLength(ts) + BodyLength(ts), Len(ts)))
                   ELSE Definitions(Tail(ts))
RECURSIVE Others(_)
Others(ts) == IF ts = <<>> THEN <<>>
              ELSE IF Head(ts).type = "MACRO" THEN Others(SubSeq(ts, 3 + ParamsLength(ts) + BodyLength(ts), Len(ts)))
              ELSE <<Head(ts)>> \o Others(Tail(ts))

\* the built-in ones
StdMacros == {[name |-> program.stdNames[n], params |-> <<>>, body |-> <<program.stdBodies[n]>>] : n \in DOMAIN program.stdNames}

Strip(ts) == [n \in DOMAIN ts |-> <<ts[n].type, ts[n].value>>]

-----------------------------------------------------------------------------
(* Where the code means something else: a call in a body takes the macro's *)
(* parameters as they are written, what is joined with @ changes the body  *)
(* or the argument it is in for its next use, and an argument of several   *)
(* tokens is not joined to what it follows.                                *)

Has(ts, type) == \E n \in DOMAIN ts : ts[n].type = type
Uses(ts, v) == Cardinality({n \in DOMAIN ts : ts[n].type \in {"ID", "MACRO_CALL"} /\ ts[n].value = v})
PassesParameters(m) ==
    \E n \in DOMAIN m.body : /\ m.body[n].type = "MACRO_CALL"
                             /\ LET rest == SubSeq(m.body, n + 1, Len(m.body))
                                IN \E k \in 1..BracketLength(rest) : ToSet(m.params) \cap {rest[k].value} # {}
JoinsBadly(m, text, all) ==
    /\ Has(m.body, "AT")
    /\ \/ Uses(text, m.name) > 1
       \/ \E other \in all : Has(other.body, "MACRO_CALL") \/ \E v \in ToSet(other.params) : Uses(other.body, v) > 1
       \/ \E n \in DOMAIN text : text[n].value = m.name /\ BracketLength(SubSeq(text, n + 1, Len(text))) > 3
Simple == \A m \in Definitions(Source) : ~PassesParameters(m) /\ ~JoinsBadly(m, Others(Source), Definitions(Source))

-----------------------------------------------------------------------------
(* Properties *)

\* Definitions taken out and calls replaced, nested in arguments and bodies, the tokens the parser gets are
\* those that substitution gives.
TokensAreMeant ==
    stage = "done" /\ Simple =>
        Strip(Cells(dest)) = Append(Strip(Meant(Definitions(Source) \cup StdMacros, Others(Source), <<>>, <<>>, Nowhere)), <<"EOF", <<"EOF">>>>)

\* Import cycles and macros that call themselves do not keep the preprocessor from ending.
Terminates == <>(stage \in {"done", "failed", "undefined"})
=============================================================================
