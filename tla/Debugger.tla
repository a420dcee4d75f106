------------------------------ MODULE Debugger ------------------------------
(***************************************************************************)
(* The interactive debugger: the commands of debug_repl, the software      *)
(* breakpoints they plant with ptrace, and the processes being debugged.   *)
(* A process runs on its own from the fork to the stop at its exec, and    *)
(* while the debugger is blocked in waitpid.  Instructions are one byte    *)
(* long; what the program computes does not matter, only where it is.      *)
(***************************************************************************)
EXTENDS Integers

CONSTANTS LastAddr,      \* the program's instructions are at 0..LastAddr
          MaxLoads,      \* bound on the processes a session forks
          UserMayPoke,   \* may the user write registers and memory
          UserIsQuick    \* may a command come before the stop at the exec

ASSUME DebuggerAssumption ==
    /\ LastAddr \in Nat
    /\ MaxLoads \in Nat \ {0}
    /\ UserMayPoke \in BOOLEAN /\ UserIsQuick \in BOOLEAN

Addrs == 0..LastAddr
Pids == 1..MaxLoads
NoPid == 0

VARIABLES pc,        \* "repl", in waitpid ("step", "wait"), or "gone"
          loaded,    \* dbg->loaded
          forked,    \* how many processes there have been
          brks,      \* dbg->breakpoints, by address
          stepping,  \* the breakpoint step_over_breakpoint is at
          proc       \* the processes, by pid

vars == <<pc, loaded, forked, brks, stepping, proc>>

\* A byte of the program: what the compiler put there, the trap instruction,
\* what the user wrote, or the low byte of the -1 of a failed PTRACE_PEEKDATA.
Bytes == {"code", "int3", "user", "junk"}

\* next and left are history: the instruction the program would execute next
\* were it not debugged, and whether it has left that path; poked is whether
\* the user wrote to its registers or memory.
Forked == [status |-> "starting", mem |-> [a \in Addrs |-> "code"], rip |-> 0,
           single |-> FALSE, signal |-> "none", next |-> 0,
           left |-> FALSE, poked |-> FALSE]

Init ==
    /\ pc = "repl"
    /\ loaded = NoPid
    /\ forked = 0
    /\ brks = <<>>
    /\ stepping = 0
    /\ proc = [p \in Pids |-> [Forked EXCEPT !.status = "none"]]

-----------------------------------------------------------------------------
(***************************************************************************)
(* ptrace: every request fails unless the process is stopped.              *)
(***************************************************************************)
Stopped(ps, p) == ps[p].status = "stopped"

Peek(ps, p, a) == IF Stopped(ps, p) THEN ps[p].mem[a] ELSE "junk"

Poke(ps, p, a, byte) ==
    IF Stopped(ps, p) THEN [ps EXCEPT ![p].mem[a] = byte] ELSE ps

\* Slips: the length of the trap is taken off twice, or not at all.
SetRipTwice(ps, p, a) == IF Stopped(ps, p) THEN [ps EXCEPT ![p].rip = a - 1] ELSE ps
SetRipNever(ps, p, a) == ps

SetRip(ps, p, a) == IF Stopped(ps, p) THEN [ps EXCEPT ![p].rip = a] ELSE ps

Resume(ps, p, single) ==
    IF Stopped(ps, p)
    THEN [ps EXCEPT ![p].status = "running", ![p].single = single]
    ELSE ps

\* Slips: only the flag is changed, the program is not.
EnableFlag(ps, brk, a) ==
    [brk |-> [brk EXCEPT !.saved = Peek(ps, brk.pid, a), !.enabled = TRUE], proc |-> ps]
DisableFlag(ps, brk, a) == [brk |-> [brk EXCEPT !.enabled = FALSE], proc |-> ps]

\* breakpoint_enable and breakpoint_disable: the breakpoint and the processes
\* after the call.  They use the pid the breakpoint was made with, and take
\* every request to have succeeded.
Enable(ps, brk, a) ==
    [brk  |-> [brk EXCEPT !.saved = Peek(ps, brk.pid, a), !.enabled = TRUE],
     proc |-> Poke(ps, brk.pid, a, "int3")]

Disable(ps, brk, a) ==
    [brk  |-> [brk EXCEPT !.enabled = FALSE],
     proc |-> Poke(ps, brk.pid, a, brk.saved)]

\* init_breakpoint
NewBreakpoint == [pid |-> loaded, enabled |-> FALSE, saved |-> "code"]

-----------------------------------------------------------------------------
(***************************************************************************)
(* The commands.  Those that only print are left out.                      *)
(***************************************************************************)
AtPrompt == pc = "repl"
Using ==
    /\ AtPrompt /\ loaded # NoPid
    /\ UserIsQuick \/ proc[loaded].status # "starting"

\* load_exec: fork, and forget that any breakpoint is enabled
LoadExec(ps) ==
    /\ forked < MaxLoads
    /\ forked' = forked + 1
    /\ loaded' = forked + 1
    /\ proc' = [ps EXCEPT ![forked + 1] = Forked]
    /\ brks' = [a \in DOMAIN brks |-> [brks[a] EXCEPT !.enabled = FALSE]]

\* handle_unload: SIGKILL, and nobody waits for it
Killed(p) == [proc EXCEPT ![p].status =
                 IF @ \in {"reaped", "zombie"} THEN @ ELSE "zombie"]

HandleLoad ==
    /\ AtPrompt /\ loaded = NoPid
    /\ LoadExec(proc)
    /\ UNCHANGED <<pc, stepping>>

HandleUnload ==
    /\ Using
    /\ proc' = Killed(loaded)
    /\ loaded' = NoPid
    /\ UNCHANGED <<pc, forked, brks, stepping>>

\* handle_comp with something loaded: unload it, run the compiler, load again
HandleComp ==
    /\ Using
    /\ LoadExec(Killed(loaded))
    /\ UNCHANGED <<pc, stepping>>

HandleExit ==
    /\ AtPrompt
    /\ proc' = IF loaded # NoPid THEN Killed(loaded) ELSE proc
    /\ loaded' = NoPid
    /\ pc' = "gone"
    /\ UNCHANGED <<forked, brks, stepping>>

\* brk add: set_breakpoint_at_address
BrkAdd(a) ==
    /\ Using
    /\ LET brk == IF a \in DOMAIN brks THEN brks[a] ELSE NewBreakpoint
           done == IF brk.enabled THEN [brk |-> brk, proc |-> proc]
                   ELSE Enable(proc, brk, a)
       IN  /\ brks' = [b \in DOMAIN brks \cup {a} |->
                          IF b = a THEN done.brk ELSE brks[b]]
           /\ proc' = done.proc
    /\ UNCHANGED <<pc, loaded, forked, stepping>>

\* brk rm: disable_breakpoint_at_address, enabled or not
BrkRm(a) ==
    /\ Using /\ a \in DOMAIN brks
    /\ LET done == Disable(proc, brks[a], a)
       IN  /\ brks' = [brks EXCEPT ![a] = done.brk]
           /\ proc' = done.proc
    /\ UNCHANGED <<pc, loaded, forked, stepping>>

\* brk rm *: every enabled one
BrkRmAll ==
    /\ Using
    /\ LET On == {a \in DOMAIN brks : brks[a].enabled}
           Hit(p) == {a \in On : brks[a].pid = p}
       IN  /\ brks' = [a \in DOMAIN brks |-> [brks[a] EXCEPT !.enabled = FALSE]]
           /\ proc' = [p \in Pids |-> IF ~Stopped(proc, p) THEN proc[p] ELSE
                         [proc[p] EXCEPT !.mem = [a \in Addrs |->
                             IF a \in Hit(p) THEN brks[a].saved ELSE @[a]]]]
    /\ UNCHANGED <<pc, loaded, forked, stepping>>

\* register write rip, and memory write
HandleRegister(a) ==
    /\ UserMayPoke /\ Using
    /\ Stopped(proc, loaded)
    /\ proc' = [proc EXCEPT ![loaded].rip = a, ![loaded].poked = TRUE]
    /\ UNCHANGED <<pc, loaded, forked, brks, stepping>>

HandleMemory(a) ==
    /\ UserMayPoke /\ Using
    /\ Stopped(proc, loaded)
    /\ proc' = [proc EXCEPT ![loaded].mem[a] = "user", ![loaded].poked = TRUE]
    /\ UNCHANGED <<pc, loaded, forked, brks, stepping>>

\* handle_continue up to its waitpid, which is in step_over_breakpoint when
\* the program stands behind an enabled breakpoint.  The registers of a
\* process that is not stopped are whatever is on the stack.
HandleContinue ==
    /\ Using
    /\ \E behind \in IF Stopped(proc, loaded) THEN {proc[loaded].rip - 1}
                     ELSE Addrs \cup {-1} :
          IF behind \in DOMAIN brks /\ brks[behind].enabled
          THEN LET done == Disable(SetRip(proc, loaded, behind), brks[behind], behind)
               IN  /\ brks' = [brks EXCEPT ![behind] = done.brk]
                   /\ proc' = Resume(done.proc, loaded, TRUE)
                   /\ stepping' = behind
                   /\ pc' = "step"
          ELSE /\ proc' = Resume(proc, loaded, FALSE)
               /\ pc' = "wait"
               /\ UNCHANGED <<brks, stepping>>
    /\ UNCHANGED <<loaded, forked>>

\* waitpid has something to return, be it that there is no such child
Answers(p) == proc[p].status \in {"stopped", "zombie", "reaped"}

Reaped == IF proc[loaded].status = "zombie"
          THEN [proc EXCEPT ![loaded].status = "reaped"] ELSE proc

\* wait_for_signal returns, whatever the status, and the process goes on
StepDone ==
    /\ pc = "step" /\ Answers(loaded)
    /\ LET done == Enable(Reaped, brks[stepping], stepping)
       IN  /\ brks' = [brks EXCEPT ![stepping] = done.brk]
           /\ proc' = Resume(done.proc, loaded, FALSE)
    /\ stepping' = 0
    /\ pc' = "wait"
    /\ UNCHANGED <<loaded, forked>>

\* Slip: a stop at a trap is not reported.
WaitPastTraps ==
    /\ pc = "wait" /\ Answers(loaded)
    /\ IF Stopped(proc, loaded) THEN UNCHANGED <<proc, pc, loaded>>
       ELSE proc' = Reaped /\ loaded' = NoPid /\ pc' = "repl"
    /\ UNCHANGED <<forked, brks, stepping>>

\* waitpid in handle_continue: the process is gone, at a trap, or stopped by
\* some other signal, after which it is not the loaded one any more; the
\* status is uninitialised if the single step had already reaped it.
WaitDone ==
    /\ pc = "wait" /\ Answers(loaded)
    /\ proc' = Reaped
    /\ loaded' \in CASE proc[loaded].status = "zombie" -> {NoPid}
                     [] proc[loaded].status = "reaped" -> {NoPid, loaded}
                     [] Stopped(proc, loaded)          ->
                          IF proc[loaded].signal = "SIGTRAP" THEN {loaded} ELSE {NoPid}
    /\ pc' = "repl"
    /\ UNCHANGED <<forked, brks, stepping>>

-----------------------------------------------------------------------------
(***************************************************************************)
(* The processes.                                                          *)
(***************************************************************************)
Update(p, new) ==
    /\ proc' = [proc EXCEPT ![p] = new]
    /\ UNCHANGED <<pc, loaded, forked, brks, stepping>>

Halt(p, signal) == [proc[p] EXCEPT !.status = "stopped", !.signal = signal, !.single = FALSE]

\* The stop a traced process makes once it has executed the new image.
ExecStop(p) ==
    /\ proc[p].status = "starting"
    /\ Update(p, Halt(p, "SIGTRAP"))

\* execv returned: the child is now a debugger too, and ends as one.
ExecFails(p) ==
    /\ proc[p].status = "starting"
    /\ Update(p, [proc[p] EXCEPT !.status = "clone"])

CloneExits(p) ==
    /\ proc[p].status = "clone"
    /\ Update(p, [proc[p] EXCEPT !.status = "zombie"])

\* What lies at rip; beyond the program there is nothing to execute.
Byte(p) == IF proc[p].rip \in Addrs THEN proc[p].mem[proc[p].rip] ELSE "junk"

\* The program runs straight on; its last instruction repeats it or ends it.
Succ(a) == IF a = LastAddr THEN {0} ELSE {a + 1}

Executed(p, a) ==
    [proc[p] EXCEPT !.rip = a, !.next = a,
                    !.left = @ \/ proc[p].rip # proc[p].next]

Execute(p) ==
    /\ proc[p].status = "running" /\ Byte(p) = "code"
    /\ \/ \E a \in Succ(proc[p].rip) :
             LET new == Executed(p, a)
             IN  Update(p, IF ~proc[p].single THEN new
                           ELSE [new EXCEPT !.status = "stopped",
                                            !.signal = "SIGTRAP", !.single = FALSE])
       \/ /\ proc[p].rip = LastAddr
          /\ Update(p, [Executed(p, 0) EXCEPT !.status = "zombie"])

HitTrap(p) ==
    /\ proc[p].status = "running" /\ Byte(p) = "int3"
    /\ Update(p, [Halt(p, "SIGTRAP") EXCEPT !.rip = @ + 1,
                                            !.left = @ \/ proc[p].rip # proc[p].next])

\* The program was led astray; all it can do is fault.
Fault(p) ==
    /\ proc[p].status = "running" /\ Byte(p) \in {"user", "junk"}
    /\ Update(p, [Halt(p, "other") EXCEPT !.left = TRUE])

\* A signal arrives, from the terminal or from the program itself.
Signalled(p) ==
    /\ proc[p].status = "running"
    /\ Update(p, Halt(p, "other"))

\* The debugger has quit; its processes are not followed any further.
Gone == pc = "gone" /\ UNCHANGED vars

Command ==
    \/ HandleLoad \/ HandleUnload \/ HandleComp \/ HandleExit
    \/ \E a \in Addrs : BrkAdd(a) \/ BrkRm(a) \/ HandleRegister(a) \/ HandleMemory(a)
    \/ BrkRmAll
    \/ HandleContinue

Process(p) ==
    /\ pc # "gone"
    /\ \/ ExecStop(p) \/ ExecFails(p) \/ CloneExits(p)
       \/ Execute(p) \/ HitTrap(p) \/ Fault(p) \/ Signalled(p)

Next ==
    \/ Command
    \/ StepDone \/ WaitDone
    \/ \E p \in Pids : Process(p)
    \/ Gone

Spec == Init /\ [][Next]_vars

\* The programs run, and waitpid returns when there is something to report;
\* a command is up to the user.
FairSpec == Spec /\ WF_vars(StepDone) /\ WF_vars(WaitDone)
                 /\ \A p \in Pids : WF_vars(pc # "gone" /\ (ExecStop(p) \/ ExecFails(p)))
                                    /\ WF_vars(pc # "gone" /\ (Execute(p) \/ HitTrap(p) \/ Fault(p)))

-----------------------------------------------------------------------------

\* The type invariant.
TypeOK ==
    /\ pc \in {"repl", "step", "wait", "gone"}
    /\ loaded \in {NoPid} \cup Pids /\ forked \in {NoPid} \cup Pids
    /\ pc \in {"step", "wait"} => loaded # NoPid
    /\ \E S \in SUBSET Addrs :
          brks \in [S -> [pid : Pids, enabled : BOOLEAN, saved : Bytes]]
    /\ stepping \in Addrs
    /\ proc \in [Pids -> [status : {"none", "starting", "clone", "stopped",
                                    "running", "zombie", "reaped"},
                          mem : [Addrs -> Bytes], rip : 0..LastAddr + 1,
                          single : BOOLEAN, signal : {"none", "SIGTRAP", "other"},
                          next : Addrs, left : BOOLEAN, poked : BOOLEAN]]

Live(p) == proc[p].status \in {"stopped", "running"}

\* A breakpoint that was really written into the loaded program is in it as
\* long as it is listed as enabled, across every step over it.
PlantedStays ==
    loaded # NoPid /\ Live(loaded) /\ ~proc[loaded].poked =>
        \A a \in DOMAIN brks :
            brks[a].enabled /\ brks[a].pid = loaded /\ brks[a].saved = "code"
                => proc[loaded].mem[a] = "int3"

\* There is no trap in the loaded program but those of enabled breakpoints,
\* so that every one can be stepped over and removed.
EveryTrapIsKnown ==
    loaded # NoPid /\ Live(loaded) =>
        \A a \in Addrs : proc[loaded].mem[a] = "int3"
                             => a \in DOMAIN brks /\ brks[a].enabled

\* The breakpoints the debugger lists and the traps in the program are the same.
TrapsAreBreakpoints == PlantedStays /\ EveryTrapIsKnown

\* `cont` continues an undisturbed program with the instruction it would
\* execute next without a debugger, the trap there taken out for the step,
\* unless it stands right behind a breakpoint that has been removed.
ContinuesInPlace ==
    [][pc = "repl" /\ pc' \in {"step", "wait"} /\ Stopped(proc, loaded)
       /\ ~proc[loaded].left /\ ~proc[loaded].poked =>
          LET next == proc[loaded].next
          IN  \/ /\ proc'[loaded].rip = next
                 /\ pc' = "step" => proc'[loaded].mem[next] # "int3"
              \/ /\ proc[loaded].rip = next + 1
                 /\ next \in DOMAIN brks /\ ~brks[next].enabled]_vars

\* `cont` returns when the program, which gets everywhere again and again,
\* has a breakpoint in it.
BreakpointsStop ==
    (pc = "wait" /\ proc[loaded].status = "running" /\ ~proc[loaded].poked
        /\ \E a \in Addrs : proc[loaded].mem[a] = "int3") ~> pc = "repl"
=============================================================================
