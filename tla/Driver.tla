------------------------------- MODULE Driver -------------------------------
(***************************************************************************)
(* One run of the compiler driver: the options, the pass pipeline with its *)
(* non-local error exits (setjmp/longjmp), the tools it starts, and what   *)
(* main does after compile() has returned.                                 *)
(***************************************************************************)
EXTENDS Integers, Sequences

CONSTANTS AllowSilent,    \* may the run be given --silent (or be a `shell` run)
          ToolsMayFail,   \* may the assembler, linker or C compiler fail
          MaxErrors,      \* bound on the uncritical errors of one run
          OldTarget       \* what is at the output path before the run

ASSUME DriverAssumption ==
    /\ AllowSilent \in BOOLEAN /\ ToolsMayFail \in BOOLEAN
    /\ MaxErrors \in Nat \ {0}
    /\ OldTarget \in {"absent", "old"}

Actions == {"build", "run", "lib", "debug", "shell"}
Backends == {"assembly", "C", "json", "interpreter"}

VARIABLES pc,          \* where the driver is
          opts,        \* the action and the flags that matter for control
          pass,        \* index of the current pass in Passes(opts)
          errors,      \* context->emitted_errors
          warned,      \* context->emitted_warnings > 0
          runAfter,    \* context->flags.run_after_compile
          target,      \* what is at the output path
          executed,    \* what was run as the output, "nothing" if nothing was
          exit,        \* exit status, Running until then
          failed       \* history: the compilation itself went wrong

vars == <<pc, opts, pass, errors, warned, runAfter, target, executed, exit, failed>>

Running == -1

DefaultOpts(a) ==
    [action |-> a, backend |-> "assembly", silent |-> a = "shell",
     optimize |-> TRUE, assemble |-> TRUE, link |-> TRUE]

\* What the command lines of an action can ask for; `shell` keeps every
\* remaining argument for the program it runs.  -S turns both steps off.
Options(a) ==
    IF a = "shell" THEN {DefaultOpts(a)}
    ELSE {o \in [action : {a}, backend : Backends, silent : BOOLEAN,
                 optimize : BOOLEAN, assemble : BOOLEAN, link : BOOLEAN] :
             o.link => o.assemble}

Permitted(o) == o.silent => AllowSilent

\* construct_passes
Passes(o) ==
    <<"initialization", "lexer", "preprocessor", "parser", "validator">>
    \o (IF o.optimize THEN <<"optimizer">> ELSE <<>>)
    \o <<o.backend, "cleanup">>

Current == Passes(opts)[pass]

Init ==
    /\ pc = "args"
    /\ opts = DefaultOpts("build")
    /\ pass = 0
    /\ errors = 0
    /\ warned = FALSE
    /\ runAfter = FALSE
    /\ target = OldTarget
    /\ executed = "nothing"
    /\ exit = Running
    /\ failed = FALSE

Exit(status) == pc' = "exited" /\ exit' = status

\* --help and the like, or a command line that cannot be served
InfoOrUsage ==
    /\ pc = "args"
    /\ \E status \in {0, 1} : Exit(status)
    /\ UNCHANGED <<opts, pass, errors, warned, runAfter, target, executed, failed>>

ParseArgs ==
    /\ pc = "args"
    /\ \E a \in Actions : \E o \in Options(a) :
          /\ Permitted(o)
          /\ opts' = o
          /\ runAfter' = (a \in {"run", "shell"})
          /\ IF o.backend = "interpreter" /\ a # "run"
             THEN Exit(1) /\ UNCHANGED pass
             ELSE pc' = "pass" /\ pass' = 1 /\ UNCHANGED exit
    /\ UNCHANGED <<errors, warned, target, executed, failed>>

-----------------------------------------------------------------------------
(***************************************************************************)
(* The passes.                                                             *)
(***************************************************************************)

FrontEnd == {"lexer", "preprocessor", "parser", "validator", "optimizer"}
MayWarn == FrontEnd \cup {"assembly", "C"}
MayReject == (FrontEnd \ {"optimizer"})

\* throw_error with a type that is a warning
Warn ==
    /\ pc = "pass" /\ Current \in MayWarn
    /\ warned' = TRUE
    /\ UNCHANGED <<pc, opts, pass, errors, runAfter, target, executed, exit, failed>>

\* throw_error with an error that does not force an exit: the pass goes on
UncriticalError ==
    /\ pc = "pass" /\ Current \in MayReject
    /\ errors < MaxErrors
    /\ errors' = errors + 1
    /\ failed' = TRUE
    /\ UNCHANGED <<pc, opts, pass, warned, runAfter, target, executed, exit>>

\* throw_error with an error that does: panic, longjmp out of the passes
CriticalError ==
    /\ pc = "pass" /\ Current \in FrontEnd \cup {"assembly", "C", "interpreter"}
    /\ errors <= MaxErrors
    /\ errors' = errors + 1
    /\ failed' = TRUE
    /\ pc' = "caught"
    /\ runAfter' = (runAfter /\ Current # "interpreter")
    /\ UNCHANGED <<opts, pass, warned, target, executed, exit>>

\* read_file and open_file exit on the spot when a file cannot be opened
FileError ==
    /\ pc = "pass" /\ Current \in {"initialization", "preprocessor", "assembly", "C", "json"}
    /\ failed' = TRUE
    /\ Exit(1)
    /\ UNCHANGED <<opts, pass, errors, warned, runAfter, target, executed>>

\* Slip: only the pass's own result is looked at.
ReturnedCarelessly(error) ==
    IF error
    THEN pc' = "caught" /\ UNCHANGED pass
    ELSE IF pass = Len(Passes(opts))
    THEN pc' = "compiled" /\ UNCHANGED pass
    ELSE pc' = "pass" /\ pass' = pass + 1

\* A pass has returned `error`: go on to the next one, or panic.
Returned(error) ==
    IF error \/ errors > 0
    THEN pc' = "caught" /\ UNCHANGED pass
    ELSE IF pass = Len(Passes(opts))
    THEN pc' = "compiled" /\ UNCHANGED pass
    ELSE pc' = "pass" /\ pass' = pass + 1

PassReturns ==
    /\ pc = "pass" /\ Current \in FrontEnd \cup {"initialization", "cleanup"}
    /\ Returned(FALSE)
    /\ UNCHANGED <<opts, errors, warned, runAfter, target, executed, exit, failed>>

\* The JSON tree goes to the output path itself; the assembly or the C code
\* of -S goes to a file beside it, named after it.
WriteText ==
    /\ pc = "pass"
    /\ Current = "json" \/ (Current \in {"assembly", "C"} /\ ~opts.assemble)
    /\ target' = IF Current = "json" THEN "text" ELSE target
    /\ Returned(FALSE)
    /\ UNCHANGED <<opts, errors, warned, runAfter, executed, exit, failed>>

\* as and ld, or cc for both: the program ends up at the output path, an
\* object file of -c next to it.
BuildBinary ==
    /\ pc = "pass" /\ Current \in {"assembly", "C"} /\ opts.assemble
    /\ target' = IF opts.link THEN "new" ELSE target
    /\ Returned(FALSE)
    /\ UNCHANGED <<opts, errors, warned, runAfter, executed, exit, failed>>

\* A tool exits with an error, or the cache directory cannot be made: `throw`
\* without counting one.  The linker may leave or remove the output path.
ToolFails ==
    /\ ToolsMayFail
    /\ pc = "pass" /\ Current \in {"assembly", "C"} /\ opts.assemble
    /\ target' \in {target, "absent"}
    /\ failed' = TRUE
    /\ pc' = "caught"
    /\ UNCHANGED <<opts, pass, errors, warned, runAfter, executed, exit>>

\* A tool is killed by a signal: subprocess returns the WEXITSTATUS of a
\* process that has none, which is 0.
ToolKilled ==
    /\ ToolsMayFail
    /\ pc = "pass" /\ Current \in {"assembly", "C"} /\ opts.assemble
    /\ target' \in {target, "absent"}
    /\ failed' = TRUE
    /\ Returned(FALSE)
    /\ UNCHANGED <<opts, errors, warned, runAfter, executed, exit>>

\* The interpreted program ends; its exit code is what the pass returns.
Interpret ==
    /\ pc = "pass" /\ Current = "interpreter"
    /\ runAfter' = FALSE
    /\ \E code \in BOOLEAN : Returned(code)
    /\ UNCHANGED <<opts, errors, warned, target, executed, exit, failed>>

\* Slip: the exit status is the number of errors.
CatchCounting ==
    /\ pc = "caught"
    /\ IF ~opts.silent /\ errors > 0
       THEN Exit(errors)
       ELSE pc' = "compiled" /\ UNCHANGED exit
    /\ UNCHANGED <<opts, pass, errors, warned, runAfter, target, executed, failed>>

\* Slip: only the summary of errors and warnings together ends the process.
CatchWarned ==
    /\ pc = "caught"
    /\ IF ~opts.silent /\ errors > 0 /\ warned
       THEN Exit(1)
       ELSE pc' = "compiled" /\ UNCHANGED exit
    /\ UNCHANGED <<opts, pass, errors, warned, runAfter, target, executed, failed>>

\* Slip: a handler that returns panics again.
CatchAgain ==
    /\ pc = "caught"
    /\ IF ~opts.silent /\ errors > 0 THEN Exit(1) ELSE UNCHANGED <<pc, exit>>
    /\ UNCHANGED <<opts, pass, errors, warned, runAfter, target, executed, failed>>

\* The catch branch: the default panic handler ends the process only if it
\* is not silent and an error was counted.
Catch ==
    /\ pc = "caught"
    /\ IF ~opts.silent /\ errors > 0
       THEN Exit(1)
       ELSE pc' = "compiled" /\ UNCHANGED exit
    /\ UNCHANGED <<opts, pass, errors, warned, runAfter, target, executed, failed>>

\* Slip: `run` does not ask whether there is an executable.
AfterCompileAlways ==
    /\ pc = "compiled"
    /\ executed' = IF opts.action \in {"run", "shell"} /\ runAfter THEN target ELSE executed
    /\ Exit(0)
    /\ UNCHANGED <<opts, pass, errors, warned, runAfter, target, failed>>

\* The rest of main: run the output, or debug_repl, which is the module
\* Debugger, and return 0.  The exit status of the program that ran is not the driver's.
AfterCompile ==
    /\ pc = "compiled"
    /\ executed' = IF /\ opts.action \in {"run", "shell"} /\ runAfter
                      /\ opts.assemble /\ opts.link
                   THEN target ELSE executed
    /\ Exit(0)
    /\ UNCHANGED <<opts, pass, errors, warned, runAfter, target, failed>>

\* The process has ended.
Ended == pc = "exited" /\ UNCHANGED vars

Next ==
    \/ InfoOrUsage \/ ParseArgs
    \/ Warn \/ UncriticalError \/ CriticalError \/ FileError
    \/ PassReturns \/ WriteText \/ BuildBinary \/ ToolFails \/ ToolKilled
    \/ Interpret
    \/ Catch \/ AfterCompile
    \/ Ended

Spec == Init /\ [][Next]_vars

\* The compiler runs on until it exits; the tools and the interpreted program
\* are taken to end.
FairSpec == Spec /\ WF_vars(InfoOrUsage \/ ParseArgs)
                 /\ WF_vars(PassReturns \/ WriteText \/ BuildBinary \/ Interpret)
                 /\ WF_vars(Catch) /\ WF_vars(AfterCompile)

-----------------------------------------------------------------------------

TypeOK ==
    /\ pc \in {"args", "pass", "caught", "compiled", "exited"}
    /\ \E a \in Actions : opts \in Options(a)
    /\ pass \in 0..Len(Passes(opts))
    /\ errors \in 0..MaxErrors + 1
    /\ warned \in BOOLEAN /\ runAfter \in BOOLEAN /\ failed \in BOOLEAN
    /\ target \in {"absent", "old", "text", "new"}
    /\ executed \in {"nothing", "absent", "old", "text", "new"}
    /\ exit \in {0, 1, Running}

\* A compilation in which nothing went wrong executes its own output and
\* nothing older, whatever is left out of the pipeline by -S, -c or the back
\* end; for `-b json` that output is the JSON file.
RunsItsOwnOutput ==
    executed # "nothing" /\ ~failed =>
        executed = IF opts.backend = "json" THEN "text" ELSE "new"

\* Code is only generated, and a target only written, without errors.
NoOutputAfterErrors ==
    [][target' \in {"text", "new"} /\ target' # target => errors = 0]_vars

\* Unless it is silent, a compilation that counted an error ends the process
\* with status 1 and runs nothing.
CountedErrorsAreFatal ==
    pc = "exited" /\ errors > 0 /\ ~opts.silent => exit = 1 /\ executed = "nothing"

\* The driver always comes to an end.
Terminates == <>(pc = "exited")
=============================================================================
