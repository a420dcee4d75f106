---------------------------- MODULE DriverProofs ----------------------------
(***************************************************************************)
(* Proofs about the driver, for every bound on its errors, whatever tools  *)
(* and options are allowed and whatever is at the output path before.      *)
(***************************************************************************)
EXTENDS Driver, TLAPS

\* An option record has the fields the driver asks for.
LEMMA OptionFields ==
    ASSUME NEW a \in Actions, NEW o \in Options(a)
    PROVE  /\ o.action \in Actions /\ o.backend \in Backends
           /\ {o.silent, o.optimize, o.assemble, o.link} \subseteq BOOLEAN
<1>1. CASE a = "shell"
  <2>1. o = [action |-> a, backend |-> "assembly", silent |-> TRUE,
             optimize |-> TRUE, assemble |-> TRUE, link |-> TRUE]
    BY <1>1 DEF Options, DefaultOpts
  <2>2. QED
    BY <2>1 DEF Backends
<1>2. CASE a # "shell"
  <2>1. o \in [action : {a}, backend : Backends, silent : BOOLEAN,
               optimize : BOOLEAN, assemble : BOOLEAN, link : BOOLEAN]
    BY <1>2 DEF Options
  <2>2. QED
    BY <2>1
<1>3. QED
  BY <1>1, <1>2

\* construct_passes: the back end's pass is the last but one, cleanup is the
\* last, and those before belong to the front end.
LEMMA PassOrder ==
    ASSUME NEW o, o.optimize \in BOOLEAN
    PROVE  LET n == Len(Passes(o)) IN
           /\ n \in {7, 8}
           /\ Passes(o)[n - 1] = o.backend /\ Passes(o)[n] = "cleanup"
           /\ \A i \in 1 .. n - 2 : Passes(o)[i] \in FrontEnd \cup {"initialization"}
<1> DEFINE First == <<"initialization", "lexer", "preprocessor", "parser", "validator">>
           End   == <<o.backend, "cleanup">>
<1>1. CASE o.optimize
  <2>1. Passes(o) = (First \o <<"optimizer">>) \o End
    BY <1>1 DEF Passes
  <2>2. /\ Len(First \o <<"optimizer">>) = 6
        /\ \A i \in 1 .. 5 : (First \o <<"optimizer">>)[i] = First[i]
        /\ (First \o <<"optimizer">>)[6] = "optimizer"
    OBVIOUS
  <2>3. QED
    BY <2>1, <2>2 DEF FrontEnd
<1>2. CASE ~o.optimize
  <2>1. Passes(o) = (First \o << >>) \o End
    BY <1>2 DEF Passes
  <2>2. First \o << >> = First
    OBVIOUS
  <2>3. QED
    BY <2>1, <2>2 DEF FrontEnd
<1>3. QED
  BY <1>1, <1>2

\* Nothing has happened before the options are read.
Fresh == pc = "args" => pass = 0 /\ errors = 0 /\ ~runAfter

\* Every counted error is a failure, and no pass behind the ones that may go
\* on after an error is entered with one.
ErrorsStop ==
    /\ errors > 0 => failed
    /\ pc = "pass" /\ errors > 0 => Current \in MayReject
    /\ pc = "compiled" /\ errors > 0 => opts.silent

\* The pass behind the back end, or the end of compile().
PastBackend == pc = "compiled" \/ (pc = "pass" /\ pass = Len(Passes(opts)))

\* What will be run is there: nothing went wrong, and an executable was asked
\* for.  A panic without a failure is the interpreter's, which runs nothing.
OutputIsReady ==
    /\ pc = "pass" => pass >= 1
    /\ pc = "caught" /\ ~failed => ~runAfter
    /\ PastBackend /\ ~failed /\ runAfter /\ opts.assemble /\ opts.link =>
         target = IF opts.backend = "json" THEN "text" ELSE "new"
    /\ pc # "exited" => executed = "nothing"

IInv == TypeOK /\ Fresh /\ ErrorsStop /\ OutputIsReady /\ CountedErrorsAreFatal /\ RunsItsOwnOutput

LEMMA InitInvariant == Init => IInv
<1> SUFFICES ASSUME Init PROVE IInv
  OBVIOUS
<1>1. opts \in Options("build") /\ opts.optimize \in BOOLEAN
  BY DEF Init, Options, DefaultOpts, Actions, Backends
<1>2. Len(Passes(opts)) \in {7, 8}
  BY <1>1, PassOrder
<1>3. \E a \in Actions : opts \in Options(a)
  BY <1>1 DEF Actions
<1>4. TypeOK
  <2>1. pass \in 0 .. Len(Passes(opts)) /\ errors \in 0 .. MaxErrors + 1
    BY <1>2, DriverAssumption DEF Init
  <2>2. target \in {"absent", "old", "text", "new"}
    BY DriverAssumption DEF Init
  <2>3. QED
    BY <1>3, <2>1, <2>2 DEF Init, TypeOK
<1>5. QED
  BY <1>4 DEF Init, IInv, Fresh, ErrorsStop, OutputIsReady, PastBackend, CountedErrorsAreFatal,
              RunsItsOwnOutput

LEMMA NextInvariant == IInv /\ [Next]_vars => IInv'
<1> SUFFICES ASSUME IInv, [Next]_vars PROVE IInv'
  OBVIOUS
<1> USE DriverAssumption
<1> DEFINE End == Len(Passes(opts))
<1>0. /\ opts.action \in Actions /\ opts.backend \in Backends
      /\ {opts.silent, opts.optimize, opts.assemble, opts.link} \subseteq BOOLEAN
      /\ End \in {7, 8}
      /\ Passes(opts)[End - 1] = opts.backend /\ Passes(opts)[End] = "cleanup"
      /\ \A i \in 1 .. End - 2 : Passes(opts)[i] \in FrontEnd \cup {"initialization"}
  BY OptionFields, PassOrder DEF IInv, TypeOK
<1> USE DEF IInv, TypeOK, Fresh, ErrorsStop, OutputIsReady, PastBackend,
            CountedErrorsAreFatal, RunsItsOwnOutput, Running
<1>1. CASE InfoOrUsage
  BY <1>0, <1>1 DEF InfoOrUsage, Exit
<1>2. CASE ParseArgs
  <2>1. PICK a \in Actions : \E o \in Options(a) : opts' = o
    BY <1>2 DEF ParseArgs
  <2>2. PICK o \in Options(a) : opts' = o
    BY <2>1
  <2>3. o.backend \in Backends /\ o.optimize \in BOOLEAN /\ Len(Passes(o)) \in {7, 8}
    BY <2>2, OptionFields, PassOrder
  <2>4. /\ pc = "args" /\ runAfter' \in BOOLEAN
        /\ \/ pc' = "exited" /\ exit' = 1 /\ pass' = 0
           \/ pc' = "pass" /\ pass' = 1 /\ exit' = exit
        /\ UNCHANGED <<errors, warned, target, executed, failed>>
    BY <1>2 DEF ParseArgs, Exit
  <2>5. opts' \in Options(a) /\ Len(Passes(opts')) \in {7, 8}
    BY <2>2, <2>3
  <2>6. pass' \in 0 .. Len(Passes(opts')) /\ pass' # Len(Passes(opts'))
    <3> DEFINE p == pass'
               n == Len(Passes(opts'))
    <3>1. p = 0 \/ p = 1
      BY <2>4
    <3>2. n = 7 \/ n = 8
      BY <2>5
    <3> HIDE DEF p, n
    <3>3. p \in 0 .. n /\ p # n
      BY <3>1, <3>2
    <3>4. QED
      BY <3>3 DEF p, n
  <2>7. TypeOK'
    BY <2>1, <2>4, <2>5, <2>6
  <2>8. Fresh' /\ ErrorsStop'
    BY <2>4
  <2>9. OutputIsReady'
    BY <2>4, <2>6
  <2>10. QED
    BY <2>4, <2>7, <2>8, <2>9
<1>3. CASE Warn
  BY <1>0, <1>3 DEF Warn, Current
<1>4. CASE UncriticalError
  BY <1>0, <1>4 DEF UncriticalError, Current
<1>5. CASE CriticalError
  BY <1>0, <1>5 DEF CriticalError, Current
<1>6. CASE FileError
  BY <1>0, <1>6 DEF FileError, Exit, Current
<1>7. CASE PassReturns
  <2>1. pass = End - 1 => opts.backend \notin FrontEnd \cup {"initialization", "cleanup"}
    BY <1>0 DEF FrontEnd, Backends
  <2>2. pass # End - 1
    BY <1>0, <1>7, <2>1 DEF PassReturns, Current
  <2>3. QED
    BY <1>0, <1>7, <2>2 DEF PassReturns, Returned, Current
<1>8. CASE WriteText
  BY <1>0, <1>8 DEF WriteText, Returned, Current
<1>9. CASE BuildBinary
  BY <1>0, <1>9 DEF BuildBinary, Returned, Current
<1>10. CASE ToolFails
  BY <1>0, <1>10 DEF ToolFails
<1>11. CASE ToolKilled
  BY <1>0, <1>11 DEF ToolKilled, Returned, Current
<1>12. CASE Interpret
  <2>1. PICK code \in BOOLEAN : Returned(code)
    BY <1>12 DEF Interpret
  <2>2. pass # End
    BY <1>0, <1>12 DEF Interpret, Current
  <2>3. /\ pc = "pass" /\ runAfter' = FALSE
        /\ UNCHANGED <<opts, errors, warned, target, executed, exit, failed>>
    BY <1>12 DEF Interpret
  <2>4. \/ pc' = "caught" /\ pass' = pass
        \/ pc' = "pass" /\ pass' = pass + 1 /\ errors = 0
    BY <2>1, <2>2 DEF Returned
  <2>5. pass' \in 1 .. End
    <3> DEFINE n == Len(Passes(opts))
    <3>1. pass \in 1 .. n /\ pass # n /\ (n = 7 \/ n = 8)
      BY <1>0, <2>2, <2>3
    <3> HIDE DEF n
    <3>2. pass' \in 1 .. n
      BY <2>4, <3>1
    <3>3. QED
      BY <3>2 DEF n
  <2>6. TypeOK' /\ Fresh' /\ ErrorsStop'
    <3>1. pass' \in 0 .. End /\ End' = End
      BY <1>0, <2>3, <2>5
    <3>2. TypeOK'
      BY <2>3, <2>4, <3>1
    <3>3. Fresh' /\ ErrorsStop'
      BY <2>3, <2>4
    <3>4. QED
      BY <3>2, <3>3
  <2>7. OutputIsReady'
    BY <2>3, <2>4, <2>5
  <2>8. QED
    BY <2>3, <2>4, <2>6, <2>7
<1>13. CASE Catch
  BY <1>0, <1>13 DEF Catch, Exit, Current
<1>14. CASE AfterCompile
  BY <1>0, <1>14 DEF AfterCompile, Exit, Current
<1>15. CASE UNCHANGED vars
  BY <1>15 DEF vars, Current
<1>16. QED
  BY <1>1, <1>2, <1>3, <1>4, <1>5, <1>6, <1>7, <1>8, <1>9, <1>10, <1>11, <1>12, <1>13, <1>14,
     <1>15 DEF Next, Ended
-----------------------------------------------------------------------------
\* The inductive invariant of main, compile() and the panic handler.
THEOREM Invariance == Spec => []IInv
BY InitInvariant, NextInvariant, PTL DEF Spec

\* The driver's variables keep their types, and the number of errors its bound.
THEOREM TypeCorrectness == Spec => []TypeOK
<1>1. IInv => TypeOK
  BY DEF IInv
<1>2. QED
  BY <1>1, Invariance, PTL

\* A compilation that counted an error and is not silent ends with status 1 and
\* runs nothing, whichever pass threw it and however it got out of there.
THEOREM ErrorsAreFatal == Spec => []CountedErrorsAreFatal
<1>1. IInv => CountedErrorsAreFatal
  BY DEF IInv
<1>2. QED
  BY <1>1, Invariance, PTL

\* What is run behind a compilation in which nothing failed is what this
\* compilation wrote.
THEOREM NothingStaleRuns == Spec => []RunsItsOwnOutput
<1>1. IInv => RunsItsOwnOutput
  BY DEF IInv
<1>2. QED
  BY <1>1, Invariance, PTL

\* No pass writes to the output path after an error was counted.
THEOREM NothingIsWrittenAfterErrors == Spec => NoOutputAfterErrors
<1>1. IInv /\ [Next]_vars =>
        [target' \in {"text", "new"} /\ target' # target => errors = 0]_vars
  <2> SUFFICES ASSUME IInv, Next, target' \in {"text", "new"}, target' # target PROVE errors = 0
    BY DEF vars
  <2>1. WriteText \/ BuildBinary
    BY DEF Next, InfoOrUsage, ParseArgs, Warn, UncriticalError, CriticalError, FileError, PassReturns,
           ToolFails, ToolKilled, Interpret, Catch, AfterCompile, Ended, vars
  <2>2. pc = "pass" /\ Current \notin MayReject
    BY <2>1 DEF WriteText, BuildBinary, MayReject, FrontEnd
  <2>3. QED
    BY <2>2 DEF IInv, TypeOK, ErrorsStop
<1>2. QED
  BY <1>1, Invariance, PTL DEF Spec, NoOutputAfterErrors
=============================================================================
