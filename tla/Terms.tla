------------------------------- MODULE Terms ---------------------------------
(***************************************************************************)
(* Symbolic values and the events of a run: what two evaluations of one    *)
(* function are compared by (modules AsmMachine and AsmMeaning).           *)
(***************************************************************************)
EXTENDS Syntax

\* A number, an address, what is stored at an address, the value of an
\* operator, what a call returned, and a value nobody defined.
Const(n)        == [is |-> "const", n |-> n]
AddressOf(x, i) == [is |-> "address", of |-> x, slot |-> i]
ContentOf(t)    == [is |-> "content", at |-> t]
Applied(f, l, r) == [is |-> "op", op |-> f, left |-> l, right |-> r]
ResultOf(fn)    == [is |-> "result", of |-> fn]
Junk            == [is |-> "junk"]

\* What a function without a value returns, and where a broken frame leads.
NoValue         == [is |-> "nothing"]
Nowhere         == [is |-> "nowhere"]

\* The address n slots behind another.
Behind(t, n) == IF t.is \in {"address", "behind"} THEN [t EXCEPT !.slot = @ + n]
                ELSE IF n = 0 THEN t ELSE [is |-> "behind", of |-> t, slot |-> n]

\* A branch taken on a value that is not known, a store, a call, the clearing
\* of a variable, and the end of the function.
Tested(t, yes)   == [event |-> "test", of |-> t, yes |-> yes]
Stored(at, t)    == [event |-> "store", at |-> at, value |-> t]
Called(fn, args) == [event |-> "call", fn |-> fn, args |-> args]
Cleared(x)       == [event |-> "clear", x |-> x]
Returned(t)      == [event |-> "return", value |-> t]

\* The branches among some events.
Tests(trace) == SelectSeq(trace, LAMBDA e : e.event = "test")
=============================================================================
