--------------------------- MODULE DebuggerProofs ---------------------------
(***************************************************************************)
(* Proofs about the debugger, for programs of any length and any number of *)
(* processes, whatever the user does and whenever.                         *)
(***************************************************************************)
EXTENDS Debugger, TLAPS

Statuses  == {"none", "starting", "clone", "stopped", "running", "zombie", "reaped"}
Processes == [status : Statuses, mem : [Addrs -> Bytes], rip : 0..LastAddr + 1,
              single : BOOLEAN, signal : {"none", "SIGTRAP", "other"},
              next : Addrs, left : BOOLEAN, poked : BOOLEAN]
Procs     == [Pids -> Processes]
Brk       == [pid : Pids, enabled : BOOLEAN, saved : Bytes]

-----------------------------------------------------------------------------
(* The inductive invariant *)

\* TypeOK, with the set of addresses that have a breakpoint told.
Types == /\ pc \in {"repl", "step", "wait", "gone"}
         /\ loaded \in {NoPid} \cup Pids /\ forked \in {NoPid} \cup Pids
         /\ pc \in {"step", "wait"} => loaded # NoPid
         /\ stepping \in Addrs
         /\ proc \in Procs
         /\ brks \in [DOMAIN brks -> Brk] /\ DOMAIN brks \subseteq Addrs

\* The loaded process, and whether its memory still matters.
Its   == proc[loaded]
Alive == loaded # NoPid /\ Its.status \in {"starting", "stopped", "running"}

\* Pids are given out in order, so that no breakpoint is made for a process
\* before there is one.
Counted == /\ loaded <= forked
           /\ \A a \in DOMAIN brks : brks[a].pid <= forked

\* Nothing runs while the prompt is shown.
AtRest == pc = "repl" /\ loaded # NoPid => Its.status # "running"

\* The breakpoint that is stepped over is taken out.
StepsOver == pc = "step" => stepping \in DOMAIN brks /\ ~brks[stepping].enabled

\* A process that has not stopped at its exec is as it was forked: all
\* requests so far have failed.
Untouched == loaded # NoPid /\ Its.status = "starting" =>
               Its.rip = 0 /\ Its.next = 0 /\ \A a \in Addrs : Its.mem[a] = "code"

\* A trap is that of an enabled breakpoint of this very process, which a
\* stale one with the same address does not touch.
Traps == Alive => \A a \in Addrs : Its.mem[a] = "int3" =>
            a \in DOMAIN brks /\ brks[a].enabled /\ brks[a].pid = loaded

Planted == Alive /\ ~Its.poked => \A a \in DOMAIN brks :
              brks[a].enabled /\ brks[a].pid = loaded /\ brks[a].saved = "code" => Its.mem[a] = "int3"

\* What a breakpoint gives back is not itself a trap.
Saved == \A a \in DOMAIN brks : brks[a].pid = loaded => brks[a].saved # "int3"

\* Where the process is stopped: at its exec, or behind a trap.
Place == /\ pc = "wait" /\ Its.status = "running" => ~Its.single
         /\ pc = "repl" /\ loaded # NoPid /\ Its.status = "stopped" => Its.signal = "SIGTRAP"
         /\ pc \in {"repl", "wait"} /\ loaded # NoPid /\ Its.status = "stopped"
              /\ Its.signal = "SIGTRAP" /\ ~Its.left /\ ~Its.poked =>
              \/ Its.rip = 0 /\ Its.next = 0
              \/ Its.rip = Its.next + 1 /\ Its.next \in DOMAIN brks

IInv == /\ Types /\ Counted /\ AtRest /\ StepsOver /\ Untouched
        /\ Traps /\ Planted /\ Saved /\ Place

-----------------------------------------------------------------------------
(* What the requests of ptrace do *)

LEMMA Constants ==
    /\ LastAddr \in Nat /\ MaxLoads \in Nat \ {0} /\ 0 \in Addrs /\ NoPid \notin Pids
    /\ Pids \subseteq Nat /\ Addrs \subseteq Nat /\ Addrs \subseteq 0..LastAddr + 1
    /\ {"code", "int3", "user", "junk"} \subseteq Bytes
BY DebuggerAssumption DEF Addrs, Pids, NoPid, Bytes

\* A write to a stopped process changes one of its bytes, any other nothing.
LEMMA PokeFacts ==
    ASSUME NEW ps \in Procs, NEW p \in Pids, NEW a \in Addrs, NEW byte \in Bytes
    PROVE  /\ Poke(ps, p, a, byte) \in Procs
           /\ \A q \in Pids : Poke(ps, p, a, byte)[q] =
                 IF q = p /\ Stopped(ps, p)
                   THEN [ps[p] EXCEPT !.mem = [ps[p].mem EXCEPT ![a] = byte]] ELSE ps[q]
<1>1. [ps[p] EXCEPT !.mem = [ps[p].mem EXCEPT ![a] = byte]] \in Processes
  BY DEF Procs, Processes
<1>2. QED
  BY <1>1 DEF Poke, Stopped, Procs

LEMMA SetRipFacts ==
    ASSUME NEW ps \in Procs, NEW p \in Pids, NEW a \in Addrs
    PROVE  /\ SetRip(ps, p, a) \in Procs
           /\ \A q \in Pids : SetRip(ps, p, a)[q] =
                 IF q = p /\ Stopped(ps, p) THEN [ps[p] EXCEPT !.rip = a] ELSE ps[q]
<1>1. [ps[p] EXCEPT !.rip = a] \in Processes
  BY Constants DEF Procs, Processes
<1>2. QED
  BY <1>1 DEF SetRip, Stopped, Procs

LEMMA ResumeFacts ==
    ASSUME NEW ps \in Procs, NEW p \in Pids, NEW single \in BOOLEAN
    PROVE  /\ Resume(ps, p, single) \in Procs
           /\ \A q \in Pids : Resume(ps, p, single)[q] =
                 IF q = p /\ Stopped(ps, p)
                   THEN [ps[p] EXCEPT !.status = "running", !.single = single] ELSE ps[q]
<1>1. [ps[p] EXCEPT !.status = "running", !.single = single] \in Processes
  BY DEF Procs, Processes, Statuses
<1>2. QED
  BY <1>1 DEF Resume, Stopped, Procs

LEMMA PeekFacts ==
    ASSUME NEW ps \in Procs, NEW p \in Pids, NEW a \in Addrs
    PROVE  Peek(ps, p, a) \in Bytes
BY Constants DEF Peek, Procs, Processes

-----------------------------------------------------------------------------
(* The type invariant, in the parts the steps need *)

LEMMA TypesSuffice == Types => TypeOK
BY DEF Types, TypeOK, Procs, Processes, Statuses, Brk

-----------------------------------------------------------------------------
(* One step of each kind *)

LEMMA InitInvariant == Init => IInv
<1> SUFFICES ASSUME Init PROVE IInv
  OBVIOUS
<1>1. Forked \in Processes /\ [Forked EXCEPT !.status = "none"] \in Processes
  BY Constants DEF Forked, Processes, Statuses
<1>2. brks = << >> /\ DOMAIN brks = {}
  BY DEF Init
<1>3. Types
  <2>1. << >> \in [1 .. 0 -> Brk] /\ 1 .. 0 = {}
    OBVIOUS
  <2>2. brks \in [DOMAIN brks -> Brk]
    BY <2>1, <1>2
  <2>3. proc \in Procs
    BY <1>1 DEF Init, Procs
  <2>4. QED
    BY <1>2, <2>2, <2>3, Constants DEF Init, Types, NoPid
<1>4. loaded = NoPid /\ pc = "repl" /\ NoPid = 0
  BY DEF Init, NoPid
<1>5. Counted
  BY <1>2 DEF Init, NoPid, Counted
<1>6. QED
  BY <1>2, <1>3, <1>4, <1>5 DEF IInv, AtRest, StepsOver, Untouched, Traps, Planted, Saved, Place, Alive

\* A new process is as it was forked, and none of the breakpoints is its own.
LEMMA LoadExecInvariant ==
    ASSUME IInv, NEW ps \in Procs, LoadExec(ps), pc = "repl", UNCHANGED <<pc, stepping>>
    PROVE  IInv'
<1> USE DEF NoPid
<1>1. Forked \in Processes
  BY Constants DEF Forked, Processes, Statuses
<1>2. forked + 1 \in Pids /\ forked' = forked + 1 /\ loaded' = forked + 1
  BY Constants, DebuggerAssumption DEF IInv, Types, LoadExec, Pids
<1>3. proc' \in Procs /\ Its' = Forked
  BY <1>1, <1>2 DEF LoadExec, Procs, Its
<1>4. /\ DOMAIN brks' = DOMAIN brks
      /\ \A a \in DOMAIN brks : brks'[a] = [brks[a] EXCEPT !.enabled = FALSE]
  BY DEF LoadExec
<1>5. \A a \in DOMAIN brks : /\ brks'[a] \in Brk /\ ~brks'[a].enabled
                             /\ brks'[a].pid = brks[a].pid
  BY <1>4 DEF IInv, Types, Brk
<1>6. Types'
  <2>1. brks' \in [DOMAIN brks' -> Brk]
    BY <1>4, <1>5 DEF LoadExec
  <2>2. QED
    BY <2>1, <1>2, <1>3, <1>4 DEF IInv, Types
<1>7. forked \in Nat /\ \A a \in DOMAIN brks : brks[a].pid <= forked /\ brks[a].pid \in Nat
  BY Constants DEF IInv, Types, Counted, Brk
<1>8. Counted'
  BY <1>2, <1>4, <1>5, <1>7 DEF Counted
<1>9. Saved'
  BY <1>2, <1>4, <1>5, <1>7 DEF Saved
<1>10. Its'.status = "starting" /\ Its'.rip = 0 /\ Its'.next = 0 /\ \A a \in Addrs : Its'.mem[a] = "code"
  BY <1>3 DEF Forked
<1>11. Untouched' /\ Traps'
  BY <1>10 DEF Untouched, Traps
<1>12. Planted'
  BY <1>4, <1>5 DEF Planted
<1>13. AtRest' /\ StepsOver' /\ Place'
  BY <1>10 DEF AtRest, StepsOver, Place
<1>14. QED
  BY <1>6, <1>8, <1>9, <1>11, <1>12, <1>13 DEF IInv

\* What is not the loaded process may change in any way.
LEMMA ElsewhereInvariant ==
    ASSUME IInv, proc' \in Procs, UNCHANGED <<pc, loaded, forked, brks, stepping>>,
           loaded # NoPid => proc'[loaded] = proc[loaded]
    PROVE  IInv'
<1>1. loaded # NoPid => Its' = Its
  BY DEF Its
<1>2. Types' /\ Counted' /\ StepsOver' /\ Saved'
  BY DEF IInv, Types, Counted, StepsOver, Saved
<1>3. pc = "wait" => loaded # NoPid
  BY DEF IInv, Types
<1>4. AtRest' /\ Untouched' /\ Traps' /\ Planted' /\ Place'
  BY <1>1, <1>3 DEF IInv, AtRest, Untouched, Alive, Traps, Planted, Place
<1>5. QED
  BY <1>2, <1>4 DEF IInv

\* Without a loaded process there is little to keep.
LEMMA NoneLoadedInvariant ==
    ASSUME IInv, proc' \in Procs, loaded' = NoPid, pc' \in {"repl", "gone"},
           UNCHANGED <<forked, brks, stepping>>
    PROVE  IInv'
<1> USE DEF NoPid
<1>1. Types'
  BY DEF IInv, Types
<1>2. Counted' /\ Saved'
  BY Constants DEF IInv, Types, Counted, Saved, Brk
<1>3. AtRest' /\ StepsOver' /\ Untouched' /\ Traps' /\ Planted' /\ Place'
  BY DEF AtRest, StepsOver, Untouched, Alive, Traps, Planted, Place
<1>4. QED
  BY <1>1, <1>2, <1>3 DEF IInv

LEMMA KilledFacts ==
    ASSUME proc \in Procs, NEW p \in Pids
    PROVE  Killed(p) \in Procs
<1>1. \A status \in Statuses : [proc[p] EXCEPT !.status = status] \in Processes
  BY DEF Procs, Processes
<1>2. QED
  BY <1>1 DEF Killed, Procs, Processes, Statuses

LEMMA ReapedFacts ==
    ASSUME IInv, loaded \in Pids
    PROVE  /\ Reaped \in Procs
           /\ Reaped[loaded] = IF Its.status = "zombie" THEN [Its EXCEPT !.status = "reaped"] ELSE Its
           /\ Reaped[loaded].mem = Its.mem /\ Reaped[loaded].poked = Its.poked
<1>1. proc \in Procs /\ Its \in Processes
  BY DEF IInv, Types, Procs, Its
<1>2. [Its EXCEPT !.status = "reaped"] \in Processes
  BY <1>1 DEF Processes, Statuses
<1>3. QED
  BY <1>1, <1>2 DEF Reaped, Procs, Its, Processes

\* Enabling a breakpoint that is not enabled: its trap becomes one more of the
\* loaded process if it is of this process and the process is stopped; what is
\* saved is then what was there, and never a trap.
LEMMA EnableFacts ==
    ASSUME IInv, NEW ps \in Procs, loaded \in Pids,
           ps[loaded].mem = Its.mem, Its.status = ps[loaded].status \/ ps[loaded].status = "reaped",
           NEW a \in Addrs, NEW brk \in Brk, a \in DOMAIN brks => brk = brks[a], ~brk.enabled
    PROVE  LET done == Enable(ps, brk, a) IN
           /\ done.brk \in Brk /\ done.brk.pid = brk.pid /\ done.brk.enabled
           /\ done.proc \in Procs
           /\ done.proc[loaded] = IF brk.pid = loaded /\ Stopped(ps, loaded)
                                  THEN [ps[loaded] EXCEPT !.mem = [ps[loaded].mem EXCEPT ![a] = "int3"]]
                                  ELSE ps[loaded]
           /\ brk.pid = loaded => /\ done.brk.saved # "int3"
                                  /\ done.brk.saved = "code" => Stopped(ps, loaded)
<1> DEFINE done == Enable(ps, brk, a)
<1>1. brk.pid \in Pids /\ "int3" \in Bytes
  BY DEF Brk, Bytes
<1>2. Peek(ps, brk.pid, a) \in Bytes
  BY <1>1, PeekFacts
<1>3. done.brk = [brk EXCEPT !.saved = Peek(ps, brk.pid, a), !.enabled = TRUE]
  BY DEF Enable
<1>4. done.brk \in Brk /\ done.brk.pid = brk.pid /\ done.brk.enabled /\ done.brk.saved = Peek(ps, brk.pid, a)
  BY <1>2, <1>3 DEF Brk
<1>5. done.proc = Poke(ps, brk.pid, a, "int3")
  BY DEF Enable
<1>6. /\ done.proc \in Procs
      /\ done.proc[loaded] = IF brk.pid = loaded /\ Stopped(ps, loaded)
                             THEN [ps[loaded] EXCEPT !.mem = [ps[loaded].mem EXCEPT ![a] = "int3"]]
                             ELSE ps[loaded]
  <2>1. \A p \in Pids :
           /\ Poke(ps, p, a, "int3") \in Procs
           /\ \A q \in Pids : Poke(ps, p, a, "int3")[q] =
                 IF q = p /\ Stopped(ps, p)
                   THEN [ps[p] EXCEPT !.mem = [ps[p].mem EXCEPT ![a] = "int3"]] ELSE ps[q]
    BY <1>1, PokeFacts
  <2>2. QED
    BY <2>1, <1>1, <1>5
<1>7. ASSUME brk.pid = loaded, Stopped(ps, loaded) PROVE Its.mem[a] # "int3"
  <2>1. Alive
    BY <1>7 DEF Alive, Stopped, NoPid, Pids
  <2>2. QED
    BY <2>1 DEF IInv, Traps
<1>8. brk.pid = loaded => /\ done.brk.saved # "int3"
                          /\ done.brk.saved = "code" => Stopped(ps, loaded)
  BY <1>4, <1>7 DEF Peek
<1>9. QED
  BY <1>4, <1>6, <1>8

\* A breakpoint is enabled, or was to be: the traps are again those of the
\* enabled breakpoints.
LEMMA EnableKeeps ==
    ASSUME IInv, loaded \in Pids, UNCHANGED <<loaded, forked>>,
           NEW a \in Addrs, NEW brk \in Brk, NEW new \in Brk,
           brk.pid <= forked, ~brk.enabled, a \in DOMAIN brks => brk = brks[a],
           new.pid = brk.pid, new.enabled,
           brk.pid = loaded => new.saved # "int3" /\ (new.saved = "code" => ~Alive' \/ Stopped(proc, loaded)),
           DOMAIN brks' = DOMAIN brks \cup {a}, brks'[a] = new,
           \A b \in DOMAIN brks : b # a => brks'[b] = brks[b],
           Alive' => Alive, Its'.poked = Its.poked,
           Its'.mem = IF brk.pid = loaded /\ Stopped(proc, loaded)
                      THEN [Its.mem EXCEPT ![a] = "int3"] ELSE Its.mem
    PROVE  Counted' /\ Saved' /\ Traps' /\ Planted'
<1>1. Its.mem \in [Addrs -> Bytes] /\ DOMAIN brks \subseteq Addrs
  BY DEF IInv, Types, Its, Procs, Processes
<1>2. Counted' /\ Saved'
  BY DEF IInv, Counted, Saved
<1>3. Traps'
  <2> SUFFICES ASSUME Alive', NEW b \in Addrs, Its'.mem[b] = "int3"
               PROVE  b \in DOMAIN brks' /\ brks'[b].enabled /\ brks'[b].pid = loaded
    BY DEF Traps
  <2>1. CASE b = a /\ brk.pid = loaded
    BY <2>1
  <2>2. CASE ~(b = a /\ brk.pid = loaded)
    <3>1. Its.mem[b] = "int3"
      BY <2>2, <1>1
    <3>2. b \in DOMAIN brks /\ brks[b].enabled /\ brks[b].pid = loaded
      BY <3>1 DEF IInv, Traps
    <3>3. QED
      BY <3>2
  <2>3. QED
    BY <2>1, <2>2
<1>4. Planted'
  <2> SUFFICES ASSUME Alive', ~Its'.poked, NEW b \in DOMAIN brks',
                      brks'[b].enabled, brks'[b].pid = loaded, brks'[b].saved = "code"
               PROVE  Its'.mem[b] = "int3"
    BY DEF Planted
  <2>1. CASE b = a
    BY <2>1, <1>1
  <2>2. CASE b # a
    <3>1. b \in Addrs /\ Its.mem[b] = "int3"
      BY <2>2, <1>1 DEF IInv, Planted
    <3>2. QED
      BY <3>1, <2>2, <1>1
  <2>3. QED
    BY <2>1, <2>2
<1>5. QED
  BY <1>2, <1>3, <1>4

\* All but the bytes of the loaded process.
SameBut == /\ Its'.status = Its.status /\ Its'.rip = Its.rip /\ Its'.next = Its.next
           /\ Its'.single = Its.single /\ Its'.signal = Its.signal
           /\ Its'.left = Its.left /\ Its'.poked = Its.poked

LEMMA BrkAddInvariant ==
    ASSUME IInv, NEW a \in Addrs, BrkAdd(a) PROVE IInv'
<1> DEFINE brk  == IF a \in DOMAIN brks THEN brks[a] ELSE NewBreakpoint
           done == Enable(proc, brk, a)
<1>1. /\ pc = "repl" /\ loaded \in Pids /\ UNCHANGED <<pc, loaded, forked, stepping>>
      /\ loaded # NoPid /\ proc \in Procs /\ Its \in Processes
  BY DEF BrkAdd, Using, AtPrompt, IInv, Types, Its, Procs
<1>2. brk \in Brk
  BY <1>1 DEF IInv, Types, NewBreakpoint, Brk, Bytes
<1>3. CASE brk.enabled
  <2>1. a \in DOMAIN brks
    BY <1>3 DEF NewBreakpoint
  <2>2. proc' = proc /\ brks' = [b \in DOMAIN brks \cup {a} |-> IF b = a THEN brk ELSE brks[b]]
    BY <1>3 DEF BrkAdd
  <2>3. DOMAIN brks \cup {a} = DOMAIN brks /\ \A b \in DOMAIN brks : (IF b = a THEN brk ELSE brks[b]) = brks[b]
    BY <2>1
  <2>4. brks' = [b \in DOMAIN brks |-> brks[b]]
    BY <2>2, <2>3
  <2>5. brks' = brks
    BY <2>4 DEF IInv, Types
  <2>6. QED
    BY <2>2, <2>5, <1>1, ElsewhereInvariant
<1>4. CASE ~brk.enabled
  <2>1. /\ done.brk \in Brk /\ done.brk.pid = brk.pid /\ done.brk.enabled
        /\ done.proc \in Procs
        /\ done.proc[loaded] = IF brk.pid = loaded /\ Stopped(proc, loaded)
                               THEN [Its EXCEPT !.mem = [Its.mem EXCEPT ![a] = "int3"]]
                               ELSE Its
        /\ brk.pid = loaded => /\ done.brk.saved # "int3"
                               /\ done.brk.saved = "code" => Stopped(proc, loaded)
    <3> HIDE DEF brk
    <3>1. a \in DOMAIN brks => brk = brks[a]
      BY DEF brk
    <3>2. QED
      BY <1>1, <1>2, <1>4, <3>1, EnableFacts DEF Its
  <2>2. /\ proc' = done.proc
        /\ brks' = [b \in DOMAIN brks \cup {a} |-> IF b = a THEN done.brk ELSE brks[b]]
    BY <1>4 DEF BrkAdd
  <2> HIDE DEF done
  <2>3. /\ DOMAIN brks' = DOMAIN brks \cup {a}
        /\ brks'[a] = done.brk /\ \A b \in DOMAIN brks : b # a => brks'[b] = brks[b]
    BY <2>2
  <2>4. /\ SameBut
        /\ brk.pid = loaded /\ Stopped(proc, loaded) => Its'.mem = [Its.mem EXCEPT ![a] = "int3"]
        /\ ~(brk.pid = loaded /\ Stopped(proc, loaded)) => Its'.mem = Its.mem
        /\ Its.mem \in [Addrs -> Bytes]
    BY <2>1, <2>2, <1>1 DEF Its, Processes, SameBut
  <2>5. a \in DOMAIN brks => brk = brks[a] /\ ~brks[a].enabled
    BY <1>4
  <2>6. brk.pid <= forked
    BY <1>1 DEF IInv, Counted, NewBreakpoint
  <2> HIDE DEF brk
  <2>7. Types'
    <3>1. brks' \in [DOMAIN brks' -> Brk]
      BY <2>1, <2>2, <2>3 DEF IInv, Types
    <3>2. QED
      BY <3>1, <1>1, <2>1, <2>2, <2>3 DEF IInv, Types
  <2>8. Alive' => Alive
    BY <1>1, <2>4 DEF Alive, SameBut
  <2>9. Counted' /\ Saved' /\ Traps' /\ Planted'
    <3>1. Its'.poked = Its.poked
      BY <2>4 DEF SameBut
    <3>2. Its'.mem = IF brk.pid = loaded /\ Stopped(proc, loaded)
                     THEN [Its.mem EXCEPT ![a] = "int3"] ELSE Its.mem
      BY <2>4
    <3>3. QED
      BY <1>1, <1>2, <1>4, <2>1, <2>3, <2>5, <2>6, <2>8, <3>1, <3>2, EnableKeeps
  <2>10. AtRest' /\ StepsOver' /\ Place'
    BY <1>1, <2>3, <2>4 DEF IInv, AtRest, StepsOver, Place, SameBut
  <2>11. Untouched'
    BY <1>1, <2>4 DEF IInv, Untouched, SameBut, Stopped, Its
  <2>12. QED
    BY <2>7, <2>9, <2>10, <2>11 DEF IInv
<1>5. QED
  BY <1>3, <1>4

\* Disabling a breakpoint at the prompt, enabled or not: the loaded process
\* keeps the traps of the others.
LEMMA DisableKeeps ==
    ASSUME IInv, loaded \in Pids, Its.status # "running", NEW a \in DOMAIN brks,
           UNCHANGED <<loaded, forked>>,
           brks' = [brks EXCEPT ![a] = [brks[a] EXCEPT !.enabled = FALSE]],
           Alive' => Alive, Its'.poked = Its.poked,
           Its'.mem = IF brks[a].pid = loaded /\ Stopped(proc, loaded)
                      THEN [Its.mem EXCEPT ![a] = brks[a].saved] ELSE Its.mem
    PROVE  /\ brks' \in [DOMAIN brks' -> Brk] /\ DOMAIN brks' = DOMAIN brks /\ ~brks'[a].enabled
           /\ Counted' /\ Traps' /\ Planted' /\ Saved'
<1>1. /\ Its \in Processes /\ a \in Addrs /\ DOMAIN brks \subseteq Addrs
      /\ brks \in [DOMAIN brks -> Brk] /\ brks[a] \in Brk
  BY DEF IInv, Types, Its, Procs
<1>2. [brks[a] EXCEPT !.enabled = FALSE] \in Brk
  BY <1>1 DEF Brk
<1>3. /\ brks' \in [DOMAIN brks' -> Brk] /\ DOMAIN brks' = DOMAIN brks
      /\ ~brks'[a].enabled /\ brks'[a].pid = brks[a].pid /\ brks'[a].saved = brks[a].saved
      /\ \A b \in DOMAIN brks : b # a => brks'[b] = brks[b]
  BY <1>1, <1>2 DEF Brk
<1>4. Its.mem \in [Addrs -> Bytes]
  BY <1>1 DEF Processes
<1>5. Counted' /\ Saved'
  BY <1>3 DEF IInv, Counted, Saved
<1>6. ASSUME Alive', NEW b \in Addrs, Its'.mem[b] = "int3"
      PROVE  b # a /\ Its.mem[b] = "int3"
  <2>1. CASE b # a
    BY <2>1, <1>4, <1>6
  <2>2. CASE b = a /\ brks[a].pid = loaded /\ Stopped(proc, loaded)
    BY <2>2, <1>4, <1>6 DEF IInv, Saved
  <2>3. CASE b = a /\ ~(brks[a].pid = loaded /\ Stopped(proc, loaded))
    <3>1. Its.mem[a] = "int3"
      BY <2>3, <1>6
    <3>2. brks[a].pid = loaded /\ ~Stopped(proc, loaded)
      BY <3>1, <2>3, <1>1, <1>6 DEF IInv, Traps
    <3>3. Its.status = "starting"
      BY <3>2, <1>6 DEF Alive, Stopped, Its
    <3>4. QED
      BY <3>1, <3>3, <1>1, <1>6 DEF IInv, Untouched, Alive
  <2>4. QED
    BY <2>1, <2>2, <2>3
<1>7. Traps'
  BY <1>3, <1>6 DEF IInv, Traps
<1>8. Planted'
  <2> SUFFICES ASSUME Alive', ~Its'.poked, NEW b \in DOMAIN brks',
                      brks'[b].enabled, brks'[b].pid = loaded, brks'[b].saved = "code"
               PROVE  Its'.mem[b] = "int3"
    BY DEF Planted
  <2>1. b # a /\ b \in Addrs /\ Its.mem[b] = "int3"
    BY <1>1, <1>3 DEF IInv, Planted
  <2>2. QED
    BY <2>1, <1>4
<1>9. QED
  BY <1>3, <1>5, <1>7, <1>8

LEMMA DisableFacts ==
    ASSUME NEW ps \in Procs, NEW p \in Pids, NEW a \in Addrs, NEW brk \in Brk
    PROVE  /\ Disable(ps, brk, a).brk = [brk EXCEPT !.enabled = FALSE]
           /\ Disable(ps, brk, a).proc \in Procs
           /\ Disable(ps, brk, a).proc[p] =
                 IF brk.pid = p /\ Stopped(ps, p)
                 THEN [ps[p] EXCEPT !.mem = [ps[p].mem EXCEPT ![a] = brk.saved]] ELSE ps[p]
<1>1. brk.pid \in Pids /\ brk.saved \in Bytes
  BY DEF Brk
<1>2. /\ Disable(ps, brk, a).brk = [brk EXCEPT !.enabled = FALSE]
      /\ Disable(ps, brk, a).proc = Poke(ps, brk.pid, a, brk.saved)
  BY DEF Disable
<1>3. \A q \in Pids, byte \in Bytes :
         /\ Poke(ps, q, a, byte) \in Procs
         /\ \A r \in Pids : Poke(ps, q, a, byte)[r] =
               IF r = q /\ Stopped(ps, q)
                 THEN [ps[q] EXCEPT !.mem = [ps[q].mem EXCEPT ![a] = byte]] ELSE ps[r]
  BY PokeFacts
<1>4. /\ Poke(ps, brk.pid, a, brk.saved) \in Procs
      /\ Poke(ps, brk.pid, a, brk.saved)[p] =
            IF p = brk.pid /\ Stopped(ps, brk.pid)
              THEN [ps[brk.pid] EXCEPT !.mem = [ps[brk.pid].mem EXCEPT ![a] = brk.saved]] ELSE ps[p]
  <2> DEFINE q == brk.pid
             byte == brk.saved
  <2>1. q \in Pids /\ byte \in Bytes
    BY <1>1
  <2> HIDE DEF q, byte
  <2>2. /\ Poke(ps, q, a, byte) \in Procs
        /\ Poke(ps, q, a, byte)[p] =
              IF p = q /\ Stopped(ps, q)
                THEN [ps[q] EXCEPT !.mem = [ps[q].mem EXCEPT ![a] = byte]] ELSE ps[p]
    BY <2>1, <1>3
  <2>3. QED
    BY <2>2 DEF q, byte
<1>5. Disable(ps, brk, a).proc \in Procs
  BY <1>2, <1>4
<1>6. Disable(ps, brk, a).proc[p] =
         IF brk.pid = p /\ Stopped(ps, p)
         THEN [ps[p] EXCEPT !.mem = [ps[p].mem EXCEPT ![a] = brk.saved]] ELSE ps[p]
  <2>1. CASE brk.pid = p
    BY <2>1, <1>2, <1>4
  <2>2. CASE brk.pid # p
    BY <2>2, <1>2, <1>4
  <2>3. QED
    BY <2>1, <2>2
<1>7. QED
  BY <1>2, <1>5, <1>6

LEMMA BrkRmInvariant ==
    ASSUME IInv, NEW a \in Addrs, BrkRm(a) PROVE IInv'
<1>1. /\ pc = "repl" /\ loaded \in Pids /\ UNCHANGED <<pc, loaded, forked, stepping>>
      /\ loaded # NoPid /\ proc \in Procs /\ Its \in Processes /\ a \in DOMAIN brks /\ brks[a] \in Brk
  BY DEF BrkRm, Using, AtPrompt, IInv, Types, Its, Procs
<1>2. /\ brks' = [brks EXCEPT ![a] = Disable(proc, brks[a], a).brk]
      /\ proc' = Disable(proc, brks[a], a).proc
  BY DEF BrkRm
<1> DEFINE brk == brks[a]
<1>0. brk \in Brk
  BY <1>1
<1>3. /\ brks' = [brks EXCEPT ![a] = [brks[a] EXCEPT !.enabled = FALSE]]
      /\ proc' \in Procs
      /\ Its' = IF brks[a].pid = loaded /\ Stopped(proc, loaded)
                THEN [Its EXCEPT !.mem = [Its.mem EXCEPT ![a] = brks[a].saved]] ELSE Its
  <2> HIDE DEF brk
  <2>1. /\ Disable(proc, brk, a).brk = [brk EXCEPT !.enabled = FALSE]
        /\ Disable(proc, brk, a).proc \in Procs
        /\ Disable(proc, brk, a).proc[loaded] =
              IF brk.pid = loaded /\ Stopped(proc, loaded)
              THEN [proc[loaded] EXCEPT !.mem = [proc[loaded].mem EXCEPT ![a] = brk.saved]] ELSE proc[loaded]
    BY <1>0, <1>1, DisableFacts
  <2>2. brks' = [brks EXCEPT ![a] = Disable(proc, brk, a).brk] /\ proc' = Disable(proc, brk, a).proc
    BY <1>2 DEF brk
  <2>3. /\ brks' = [brks EXCEPT ![a] = [brk EXCEPT !.enabled = FALSE]]
        /\ proc' \in Procs
        /\ Its' = IF brk.pid = loaded /\ Stopped(proc, loaded)
                  THEN [Its EXCEPT !.mem = [Its.mem EXCEPT ![a] = brk.saved]] ELSE Its
    BY <1>1, <2>1, <2>2 DEF Its
  <2>4. QED
    BY <2>3 DEF brk
<1>4. /\ SameBut
      /\ Its'.mem = IF brks[a].pid = loaded /\ Stopped(proc, loaded)
                    THEN [Its.mem EXCEPT ![a] = brks[a].saved] ELSE Its.mem
  BY <1>1, <1>3 DEF Processes, SameBut
<1>5. Alive' => Alive
  BY <1>1, <1>4 DEF Alive, SameBut
<1>6. Its.status # "running" /\ Its'.poked = Its.poked
  BY <1>1, <1>4 DEF IInv, AtRest, SameBut
<1>7. /\ brks' \in [DOMAIN brks' -> Brk] /\ DOMAIN brks' = DOMAIN brks
      /\ Counted' /\ Traps' /\ Planted' /\ Saved'
  BY <1>1, <1>3, <1>4, <1>5, <1>6, DisableKeeps
<1>8. Types'
  BY <1>1, <1>3, <1>7 DEF IInv, Types
<1>9. AtRest' /\ StepsOver' /\ Place'
  BY <1>1, <1>4, <1>7 DEF IInv, AtRest, StepsOver, Place, SameBut
<1>10. Untouched'
  BY <1>1, <1>4 DEF IInv, Untouched, SameBut, Stopped, Its
<1>11. QED
  BY <1>7, <1>8, <1>9, <1>10 DEF IInv

LEMMA BrkRmAllInvariant ==
    ASSUME IInv, BrkRmAll PROVE IInv'
<1> DEFINE On == {a \in DOMAIN brks : brks[a].enabled}
           Hit(p) == {a \in On : brks[a].pid = p}
           After(p) == IF ~Stopped(proc, p) THEN proc[p] ELSE
                         [proc[p] EXCEPT !.mem = [a \in Addrs |->
                             IF a \in Hit(p) THEN brks[a].saved ELSE proc[p].mem[a]]]
<1>1. /\ pc = "repl" /\ loaded \in Pids /\ UNCHANGED <<pc, loaded, forked, stepping>>
      /\ loaded # NoPid /\ proc \in Procs /\ Its \in Processes /\ DOMAIN brks \subseteq Addrs
      /\ \A a \in DOMAIN brks : brks[a] \in Brk
  BY DEF BrkRmAll, Using, AtPrompt, IInv, Types, Its, Procs
<1>2. /\ brks' = [a \in DOMAIN brks |-> [brks[a] EXCEPT !.enabled = FALSE]]
      /\ proc' = [p \in Pids |-> After(p)]
  BY <1>1 DEF BrkRmAll, Procs, Processes
<1>3. /\ DOMAIN brks' = DOMAIN brks
      /\ \A a \in DOMAIN brks : /\ brks'[a] \in Brk /\ ~brks'[a].enabled
                                /\ brks'[a].pid = brks[a].pid /\ brks'[a].saved = brks[a].saved
  BY <1>1, <1>2 DEF Brk
<1>4. brks' \in [DOMAIN brks' -> Brk]
  BY <1>2, <1>3
<1>5. ASSUME NEW p \in Pids PROVE After(p) \in Processes
  <2>1. [a \in Addrs |-> IF a \in Hit(p) THEN brks[a].saved ELSE proc[p].mem[a]] \in [Addrs -> Bytes]
    BY <1>1 DEF Procs, Processes, Brk
  <2>2. QED
    BY <1>1, <2>1 DEF Procs, Processes
<1>6. proc' \in Procs /\ Its' = After(loaded)
  BY <1>1, <1>2, <1>5 DEF Procs, Its
<1>7. /\ SameBut
      /\ ~Stopped(proc, loaded) => Its'.mem = Its.mem
      /\ Stopped(proc, loaded) =>
           \A a \in Addrs : Its'.mem[a] = IF a \in Hit(loaded) THEN brks[a].saved ELSE Its.mem[a]
  BY <1>1, <1>6 DEF Its, Processes, SameBut
<1>8. Types' /\ Counted' /\ Saved' /\ Planted'
  BY <1>1, <1>3, <1>4, <1>6 DEF IInv, Types, Counted, Saved, Planted
<1>9. AtRest' /\ StepsOver' /\ Place'
  BY <1>1, <1>3, <1>7 DEF IInv, AtRest, StepsOver, Place, SameBut
<1>10. Untouched'
  BY <1>1, <1>7 DEF IInv, Untouched, SameBut, Stopped, Its
<1>11. Traps'
  <2> SUFFICES ASSUME Alive', NEW a \in Addrs, Its'.mem[a] = "int3" PROVE FALSE
    BY DEF Traps
  <2>1. Alive /\ Its.status # "running"
    BY <1>1, <1>7 DEF Alive, SameBut, IInv, AtRest
  <2>2. CASE Stopped(proc, loaded)
    <3>1. CASE a \in Hit(loaded)
      BY <3>1, <2>2, <1>7 DEF IInv, Saved
    <3>2. CASE a \notin Hit(loaded)
      BY <3>2, <2>1, <2>2, <1>7 DEF IInv, Traps
    <3>3. QED
      BY <3>1, <3>2
  <2>3. CASE ~Stopped(proc, loaded)
    <3>1. Its.status = "starting" /\ Its.mem[a] = "int3"
      BY <2>1, <2>3, <1>7 DEF Alive, Stopped, Its
    <3>2. QED
      BY <3>1, <1>1 DEF IInv, Untouched
  <2>4. QED
    BY <2>2, <2>3
<1>12. QED
  BY <1>8, <1>9, <1>10, <1>11 DEF IInv

\* The user writes to the registers or the memory of the stopped process.
LEMMA PokeInvariant ==
    ASSUME IInv, NEW new \in Processes, proc' = [proc EXCEPT ![loaded] = new],
           pc = "repl", loaded \in Pids, Stopped(proc, loaded), new.poked,
           new.status = "stopped", new.signal = Its.signal,
           \A a \in Addrs : new.mem[a] = "int3" => Its.mem[a] = "int3",
           UNCHANGED <<pc, loaded, forked, brks, stepping>>
    PROVE  IInv'
<1>1. /\ proc' \in Procs /\ Its' = new /\ Its.status = "stopped" /\ loaded # NoPid
  BY Constants DEF IInv, Types, Procs, Its, Stopped
<1>2. Types' /\ Counted' /\ Saved' /\ StepsOver'
  BY <1>1 DEF IInv, Types, Counted, Saved, StepsOver
<1>3. Traps' /\ Planted'
  BY <1>1 DEF IInv, Traps, Planted, Alive
<1>4. AtRest' /\ Untouched' /\ Place'
  BY <1>1 DEF IInv, AtRest, Untouched, Place
<1>5. QED
  BY <1>2, <1>3, <1>4 DEF IInv

LEMMA RegisterInvariant ==
    ASSUME IInv, NEW a \in Addrs, HandleRegister(a) PROVE IInv'
<1> DEFINE new == [proc[loaded] EXCEPT !.rip = a, !.poked = TRUE]
<1>1. /\ pc = "repl" /\ loaded \in Pids /\ Stopped(proc, loaded) /\ proc[loaded] \in Processes
      /\ proc \in Procs /\ UNCHANGED <<pc, loaded, forked, brks, stepping>>
  BY DEF HandleRegister, Using, AtPrompt, IInv, Types, Procs
<1>2. /\ new \in Processes /\ new.poked /\ new.status = "stopped" /\ new.signal = Its.signal
      /\ \A b \in Addrs : new.mem[b] = "int3" => Its.mem[b] = "int3"
  BY <1>1, Constants DEF Processes, Stopped, Its
<1>3. proc' = [proc EXCEPT ![loaded] = new]
  BY <1>1 DEF HandleRegister, Procs, Processes
<1> HIDE DEF new
<1>4. QED
  BY <1>1, <1>2, <1>3, PokeInvariant

LEMMA MemoryInvariant ==
    ASSUME IInv, NEW a \in Addrs, HandleMemory(a) PROVE IInv'
<1> DEFINE new == [proc[loaded] EXCEPT !.mem = [proc[loaded].mem EXCEPT ![a] = "user"], !.poked = TRUE]
<1>1. /\ pc = "repl" /\ loaded \in Pids /\ Stopped(proc, loaded) /\ proc[loaded] \in Processes
      /\ proc \in Procs /\ UNCHANGED <<pc, loaded, forked, brks, stepping>>
  BY DEF HandleMemory, Using, AtPrompt, IInv, Types, Procs
<1>2. /\ new \in Processes /\ new.poked /\ new.status = "stopped" /\ new.signal = Its.signal
      /\ \A b \in Addrs : new.mem[b] = "int3" => Its.mem[b] = "int3"
  BY <1>1, Constants DEF Processes, Stopped, Its
<1>3. proc' = [proc EXCEPT ![loaded] = new]
  BY <1>1 DEF HandleMemory, Procs, Processes
<1> HIDE DEF new
<1>4. QED
  BY <1>1, <1>2, <1>3, PokeInvariant

\* waitpid returns: the process is still the loaded one only if it has stopped
\* at a trap, or was reaped before.
LEMMA WaitDoneInvariant ==
    ASSUME IInv, WaitDone PROVE IInv'
<1>1. /\ pc = "wait" /\ pc' = "repl" /\ loaded \in Pids /\ proc' = Reaped
      /\ Its.status \in {"stopped", "zombie", "reaped"} /\ UNCHANGED <<forked, brks, stepping>>
  BY DEF WaitDone, Answers, IInv, Types, Its
<1>2. proc' \in Procs
  BY <1>1, ReapedFacts
<1>3. CASE loaded' = NoPid
  BY <1>1, <1>2, <1>3, NoneLoadedInvariant
<1>4. CASE loaded' # NoPid
  <2>1. /\ loaded' = loaded /\ Its.status # "zombie"
        /\ Its.status = "reaped" \/ Its.signal = "SIGTRAP"
    <3>1. CASE Its.status = "zombie"
      BY <3>1, <1>1, <1>4 DEF WaitDone, Its, Stopped
    <3>2. CASE Its.status = "reaped"
      BY <3>2, <1>1, <1>4 DEF WaitDone, Its, Stopped
    <3>3. CASE Its.status = "stopped"
      BY <3>3, <1>1, <1>4 DEF WaitDone, Its, Stopped
    <3>4. QED
      BY <3>1, <3>2, <3>3, <1>1
  <2>2. Its' = Its
    BY <1>1, <2>1, ReapedFacts DEF Its
  <2>3. Types' /\ Counted' /\ Saved' /\ StepsOver'
    BY <1>1, <1>2, <2>1 DEF IInv, Types, Counted, Saved, StepsOver
  <2>4. Untouched' /\ Traps' /\ Planted'
    BY <1>1, <2>1, <2>2 DEF IInv, Untouched, Traps, Planted, Alive
  <2>5. AtRest' /\ Place'
    BY <1>1, <2>1, <2>2 DEF IInv, AtRest, Place
  <2>6. QED
    BY <2>3, <2>4, <2>5 DEF IInv
<1>5. QED
  BY <1>3, <1>4

\* cont: the breakpoint the program stands behind, if there is one that is
\* enabled, is taken out for a single step; otherwise the program just runs.
LEMMA ContinueFacts ==
    ASSUME IInv, HandleContinue
    PROVE  /\ pc = "repl" /\ loaded \in Pids /\ proc' \in Procs /\ UNCHANGED <<loaded, forked>>
           /\ ~Stopped(proc, loaded) => Its' = Its
           /\ \E behind :
                /\ Stopped(proc, loaded) => behind = Its.rip - 1
                /\ \/ /\ behind \in DOMAIN brks /\ brks[behind].enabled
                      /\ brks' = [brks EXCEPT ![behind] = [brks[behind] EXCEPT !.enabled = FALSE]]
                      /\ stepping' = behind /\ pc' = "step"
                      /\ Stopped(proc, loaded) =>
                           Its' = [Its EXCEPT !.status = "running", !.single = TRUE, !.rip = behind,
                                              !.mem = IF brks[behind].pid = loaded
                                                      THEN [Its.mem EXCEPT ![behind] = brks[behind].saved]
                                                      ELSE Its.mem]
                   \/ /\ ~(behind \in DOMAIN brks /\ brks[behind].enabled)
                      /\ pc' = "wait" /\ UNCHANGED <<brks, stepping>>
                      /\ Stopped(proc, loaded) =>
                           Its' = [Its EXCEPT !.status = "running", !.single = FALSE]
<1>1. /\ pc = "repl" /\ loaded \in Pids /\ UNCHANGED <<loaded, forked>>
      /\ proc \in Procs /\ Its \in Processes /\ Its = proc[loaded]
      /\ \A a \in DOMAIN brks : a \in Addrs /\ brks[a] \in Brk
  BY DEF HandleContinue, Using, AtPrompt, IInv, Types, Its, Procs
<1>2. PICK behind \in IF Stopped(proc, loaded) THEN {proc[loaded].rip - 1} ELSE Addrs \cup {-1} :
        IF behind \in DOMAIN brks /\ brks[behind].enabled
        THEN LET done == Disable(SetRip(proc, loaded, behind), brks[behind], behind)
             IN  /\ brks' = [brks EXCEPT ![behind] = done.brk]
                 /\ proc' = Resume(done.proc, loaded, TRUE)
                 /\ stepping' = behind
                 /\ pc' = "step"
        ELSE /\ proc' = Resume(proc, loaded, FALSE)
             /\ pc' = "wait"
             /\ UNCHANGED <<brks, stepping>>
  BY DEF HandleContinue
<1>3. Stopped(proc, loaded) => behind = Its.rip - 1
  BY <1>1, <1>2
<1>4. CASE behind \in DOMAIN brks /\ brks[behind].enabled
  <2> DEFINE s    == SetRip(proc, loaded, behind)
             brk  == brks[behind]
             done == Disable(s, brk, behind)
  <2>1. /\ brks' = [brks EXCEPT ![behind] = done.brk] /\ proc' = Resume(done.proc, loaded, TRUE)
        /\ stepping' = behind /\ pc' = "step"
    BY <1>2, <1>4
  <2>2. behind \in Addrs /\ brk \in Brk
    BY <1>1, <1>4
  <2>3. /\ s \in Procs
        /\ s[loaded] = IF Stopped(proc, loaded) THEN [Its EXCEPT !.rip = behind] ELSE Its
    BY <1>1, <2>2, SetRipFacts
  <2> HIDE DEF s, brk
  <2>4. /\ done.brk = [brk EXCEPT !.enabled = FALSE] /\ done.proc \in Procs
        /\ done.proc[loaded] = IF brk.pid = loaded /\ Stopped(s, loaded)
                               THEN [s[loaded] EXCEPT !.mem = [s[loaded].mem EXCEPT ![behind] = brk.saved]]
                               ELSE s[loaded]
    BY <1>1, <2>2, <2>3, DisableFacts
  <2> DEFINE ps == done.proc
  <2>5. ps \in Procs
    BY <2>4
  <2>6. proc' = Resume(ps, loaded, TRUE)
    BY <2>1
  <2>7. ps[loaded] = IF brk.pid = loaded /\ Stopped(s, loaded)
                     THEN [s[loaded] EXCEPT !.mem = [s[loaded].mem EXCEPT ![behind] = brk.saved]]
                     ELSE s[loaded]
    BY <2>4
  <2>8. brks' = [brks EXCEPT ![behind] = [brk EXCEPT !.enabled = FALSE]]
    BY <2>1, <2>4
  <2> HIDE DEF ps, done
  <2>9. /\ proc' \in Procs
        /\ Its' = IF Stopped(ps, loaded) THEN [ps[loaded] EXCEPT !.status = "running", !.single = TRUE]
                  ELSE ps[loaded]
    BY <1>1, <2>5, <2>6, ResumeFacts DEF Its
  <2>10. CASE Stopped(proc, loaded)
    <3>1. s[loaded] = [Its EXCEPT !.rip = behind] /\ Stopped(s, loaded) /\ s[loaded].mem = Its.mem
      BY <2>3, <2>10, <1>1 DEF Stopped, Processes
    <3>2. Stopped(ps, loaded)
      BY <3>1, <2>7, <1>1 DEF Stopped, Processes
    <3>3. Its' = [ps[loaded] EXCEPT !.status = "running", !.single = TRUE]
      BY <3>2, <2>9
    <3>4. ps[loaded] = [Its EXCEPT !.rip = behind,
                                   !.mem = IF brk.pid = loaded THEN [Its.mem EXCEPT ![behind] = brk.saved]
                                           ELSE Its.mem]
      BY <3>1, <2>7, <1>1 DEF Processes
    <3>5. Its' = [Its EXCEPT !.status = "running", !.single = TRUE, !.rip = behind,
                             !.mem = IF brk.pid = loaded THEN [Its.mem EXCEPT ![behind] = brk.saved]
                                     ELSE Its.mem]
      BY <3>3, <3>4, <1>1 DEF Processes
    <3>6. QED
      BY <3>5, <2>1, <2>8, <2>9, <2>10, <1>1, <1>3, <1>4 DEF brk
  <2>11. CASE ~Stopped(proc, loaded)
    <3>1. s[loaded] = Its /\ ~Stopped(s, loaded)
      BY <2>3, <2>11, <1>1 DEF Stopped
    <3>2. Its' = Its
      BY <3>1, <2>7, <2>9 DEF Stopped
    <3>3. QED
      BY <3>2, <2>1, <2>8, <2>9, <2>11, <1>1, <1>3, <1>4 DEF brk
  <2>12. QED
    BY <2>10, <2>11
<1>5. CASE ~(behind \in DOMAIN brks /\ brks[behind].enabled)
  <2>1. proc' = Resume(proc, loaded, FALSE) /\ pc' = "wait" /\ UNCHANGED <<brks, stepping>>
    BY <1>2, <1>5
  <2>2. /\ proc' \in Procs
        /\ Its' = IF Stopped(proc, loaded) THEN [Its EXCEPT !.status = "running", !.single = FALSE] ELSE Its
    BY <1>1, <2>1, ResumeFacts DEF Its
  <2>3. QED
    BY <2>1, <2>2, <1>1, <1>3, <1>5
<1>6. QED
  BY <1>4, <1>5

LEMMA ContinueInvariant ==
    ASSUME IInv, HandleContinue PROVE IInv'
<1>1. /\ pc = "repl" /\ loaded \in Pids /\ proc' \in Procs /\ UNCHANGED <<loaded, forked>>
      /\ ~Stopped(proc, loaded) => Its' = Its
      /\ Its \in Processes /\ Its.status # "running" /\ loaded # NoPid
  BY ContinueFacts, Constants DEF IInv, Types, AtRest, Its, Procs
<1>2. PICK behind :
        /\ Stopped(proc, loaded) => behind = Its.rip - 1
        /\ \/ /\ behind \in DOMAIN brks /\ brks[behind].enabled
              /\ brks' = [brks EXCEPT ![behind] = [brks[behind] EXCEPT !.enabled = FALSE]]
              /\ stepping' = behind /\ pc' = "step"
              /\ Stopped(proc, loaded) =>
                   Its' = [Its EXCEPT !.status = "running", !.single = TRUE, !.rip = behind,
                                      !.mem = IF brks[behind].pid = loaded
                                              THEN [Its.mem EXCEPT ![behind] = brks[behind].saved]
                                              ELSE Its.mem]
           \/ /\ ~(behind \in DOMAIN brks /\ brks[behind].enabled)
              /\ pc' = "wait" /\ UNCHANGED <<brks, stepping>>
              /\ Stopped(proc, loaded) =>
                   Its' = [Its EXCEPT !.status = "running", !.single = FALSE]
  BY ContinueFacts
<1>3. Untouched'
  BY <1>1, <1>2 DEF IInv, Untouched, Stopped, Its, Processes
<1>4. CASE pc' = "step"
  <2>1. /\ behind \in DOMAIN brks /\ brks[behind].enabled /\ stepping' = behind
        /\ brks' = [brks EXCEPT ![behind] = [brks[behind] EXCEPT !.enabled = FALSE]]
        /\ Stopped(proc, loaded) =>
             Its' = [Its EXCEPT !.status = "running", !.single = TRUE, !.rip = behind,
                                !.mem = IF brks[behind].pid = loaded
                                        THEN [Its.mem EXCEPT ![behind] = brks[behind].saved]
                                        ELSE Its.mem]
    BY <1>2, <1>4
  <2>2. /\ Its'.poked = Its.poked /\ (Alive' => Alive)
        /\ Its'.mem = IF brks[behind].pid = loaded /\ Stopped(proc, loaded)
                      THEN [Its.mem EXCEPT ![behind] = brks[behind].saved] ELSE Its.mem
    BY <1>1, <2>1, ZenonT(40) DEF Processes, Alive, Stopped, Its
  <2>3. /\ brks' \in [DOMAIN brks' -> Brk] /\ DOMAIN brks' = DOMAIN brks /\ ~brks'[behind].enabled
        /\ Counted' /\ Traps' /\ Planted' /\ Saved'
    BY <1>1, <2>1, <2>2, DisableKeeps
  <2>4. Types'
    BY <1>1, <1>4, <2>1, <2>3 DEF IInv, Types
  <2>5. AtRest' /\ StepsOver' /\ Place'
    BY <1>4, <2>1, <2>3 DEF AtRest, StepsOver, Place
  <2>6. QED
    BY <1>3, <2>3, <2>4, <2>5 DEF IInv
<1>5. CASE pc' = "wait"
  <2>1. /\ UNCHANGED <<brks, stepping>>
        /\ Stopped(proc, loaded) => Its' = [Its EXCEPT !.status = "running", !.single = FALSE]
    BY <1>2, <1>5
  <2>2. /\ Its'.mem = Its.mem /\ Its'.poked = Its.poked /\ (Alive' => Alive)
        /\ Its'.status # "stopped" /\ (Its'.status = "running" => ~Its'.single)
    BY <1>1, <2>1 DEF Processes, Alive, Stopped, Its
  <2>3. Types' /\ Counted' /\ Saved' /\ Traps' /\ Planted'
    BY <1>1, <1>5, <2>1, <2>2 DEF IInv, Types, Counted, Saved, Traps, Planted
  <2>4. AtRest' /\ StepsOver' /\ Place'
    BY <1>5, <2>2 DEF AtRest, StepsOver, Place
  <2>5. QED
    BY <1>3, <2>3, <2>4 DEF IInv
<1>6. QED
  BY <1>2, <1>4, <1>5

\* The single step is over, however it ended: the breakpoint is planted again.
LEMMA StepDoneInvariant ==
    ASSUME IInv, StepDone PROVE IInv'
<1> DEFINE a    == stepping
           brk  == brks[a]
           done == Enable(Reaped, brk, a)
<1>1. /\ pc = "step" /\ pc' = "wait" /\ loaded \in Pids /\ loaded # NoPid /\ stepping' = 0
      /\ proc \in Procs /\ Its \in Processes
      /\ Its.status \in {"stopped", "zombie", "reaped"} /\ UNCHANGED <<loaded, forked>>
  BY Constants DEF StepDone, Answers, IInv, Types, Its, Procs
<1>2. /\ a \in DOMAIN brks /\ a \in Addrs /\ brk \in Brk /\ ~brk.enabled /\ brk.pid <= forked
      /\ brks \in [DOMAIN brks -> Brk] /\ DOMAIN brks \subseteq Addrs
  BY <1>1 DEF IInv, Types, StepsOver, Counted
<1>3. /\ Reaped \in Procs /\ Reaped[loaded].mem = Its.mem /\ Reaped[loaded].poked = Its.poked
      /\ IF Its.status = "stopped" THEN Reaped[loaded] = Its ELSE Reaped[loaded].status = "reaped"
      /\ Reaped[loaded] \in Processes
  BY <1>1, ReapedFacts DEF Processes, Procs
<1>4. brks' = [brks EXCEPT ![a] = done.brk] /\ proc' = Resume(done.proc, loaded, FALSE)
  BY DEF StepDone
<1> DEFINE r == Reaped
<1>5. r \in Procs /\ r[loaded].mem = Its.mem /\ (Its.status = r[loaded].status \/ r[loaded].status = "reaped")
  BY <1>3
<1> HIDE DEF a, brk, r
<1>6. /\ Enable(r, brk, a).brk \in Brk /\ Enable(r, brk, a).brk.pid = brk.pid /\ Enable(r, brk, a).brk.enabled
      /\ Enable(r, brk, a).proc \in Procs
      /\ Enable(r, brk, a).proc[loaded] =
           IF brk.pid = loaded /\ Stopped(r, loaded)
           THEN [r[loaded] EXCEPT !.mem = [r[loaded].mem EXCEPT ![a] = "int3"]]
           ELSE r[loaded]
      /\ brk.pid = loaded => /\ Enable(r, brk, a).brk.saved # "int3"
                             /\ Enable(r, brk, a).brk.saved = "code" => Stopped(r, loaded)
  <2>1. a \in DOMAIN brks => brk = brks[a]
    BY DEF brk
  <2>2. QED
    BY <1>1, <1>2, <1>5, <2>1, EnableFacts
<1> DEFINE new == Enable(r, brk, a).brk
           ps  == Enable(r, brk, a).proc
<1>7. brks' = [brks EXCEPT ![a] = new] /\ proc' = Resume(ps, loaded, FALSE)
  BY <1>4 DEF r
<1>8. /\ new \in Brk /\ new.pid = brk.pid /\ new.enabled /\ ps \in Procs
      /\ ps[loaded] = IF brk.pid = loaded /\ Stopped(r, loaded)
                      THEN [r[loaded] EXCEPT !.mem = [r[loaded].mem EXCEPT ![a] = "int3"]]
                      ELSE r[loaded]
      /\ brk.pid = loaded => new.saved # "int3" /\ (new.saved = "code" => Stopped(r, loaded))
  BY <1>6
<1> HIDE DEF new, ps, done
<1>9. /\ proc' \in Procs
      /\ Its' = IF Stopped(ps, loaded) THEN [ps[loaded] EXCEPT !.status = "running", !.single = FALSE]
                ELSE ps[loaded]
  BY <1>1, <1>7, <1>8, ResumeFacts DEF Its
<1>10. Stopped(r, loaded) <=> Stopped(proc, loaded)
  BY <1>1, <1>3 DEF Stopped, Its, r
<1>11. /\ Its'.status \in {"running", "reaped"} /\ (Its'.status = "running" => ~Its'.single)
       /\ Its'.poked = Its.poked /\ (Its'.status = "running" => Its.status = "stopped")
       /\ Its'.mem = IF brk.pid = loaded /\ Stopped(proc, loaded)
                     THEN [Its.mem EXCEPT ![a] = "int3"] ELSE Its.mem
  <2>1. CASE Its.status = "stopped"
    <3>1. r[loaded] = Its /\ Stopped(r, loaded)
      BY <2>1, <1>3 DEF r, Stopped
    <3>2. ps[loaded].status = "stopped" /\ ps[loaded] \in Processes /\ ps[loaded].poked = Its.poked
      BY <3>1, <2>1, <1>1, <1>8 DEF Processes, Procs
    <3>3. Its' = [ps[loaded] EXCEPT !.status = "running", !.single = FALSE]
      BY <3>2, <1>9 DEF Stopped
    <3>4. ps[loaded].mem = IF brk.pid = loaded THEN [Its.mem EXCEPT ![a] = "int3"] ELSE Its.mem
      BY <3>1, <1>1, <1>8 DEF Processes
    <3>5. QED
      BY <3>2, <3>3, <3>4, <2>1 DEF Processes, Stopped, Its
  <2>2. CASE Its.status # "stopped"
    <3>1. r[loaded].status = "reaped" /\ ~Stopped(r, loaded)
      BY <2>2, <1>3 DEF r, Stopped
    <3>2. Its' = r[loaded]
      BY <3>1, <1>8, <1>9 DEF Stopped
    <3>3. QED
      BY <3>1, <3>2, <2>2, <1>3, <1>10 DEF r, Stopped, Its
  <2>3. QED
    BY <2>1, <2>2
<1>12. Alive' => Alive
  BY <1>1, <1>11 DEF Alive
<1>13. /\ DOMAIN brks' = DOMAIN brks /\ DOMAIN brks = DOMAIN brks \cup {a}
       /\ brks'[a] = new /\ \A b \in DOMAIN brks : b # a => brks'[b] = brks[b]
       /\ brks' \in [DOMAIN brks' -> Brk]
  BY <1>2, <1>7, <1>8
<1>14. Counted' /\ Saved' /\ Traps' /\ Planted'
  <2>1. a \in DOMAIN brks => brk = brks[a]
    BY DEF brk
  <2>2. brk.pid = loaded => new.saved # "int3" /\ (new.saved = "code" => ~Alive' \/ Stopped(proc, loaded))
    BY <1>8, <1>10
  <2>3. /\ Its'.poked = Its.poked
        /\ Its'.mem = IF brk.pid = loaded /\ Stopped(proc, loaded)
                      THEN [Its.mem EXCEPT ![a] = "int3"] ELSE Its.mem
    BY <1>11
  <2>4. QED
    BY <1>1, <1>2, <1>8, <1>12, <1>13, <2>1, <2>2, <2>3, EnableKeeps
<1>15. Types'
  BY <1>1, <1>2, <1>9, <1>13, Constants DEF IInv, Types
<1>16. AtRest' /\ StepsOver' /\ Untouched' /\ Place'
  BY <1>1, <1>11 DEF AtRest, StepsOver, Untouched, Place
<1>17. QED
  BY <1>14, <1>15, <1>16 DEF IInv

\* A process does something: what it may do if it is the loaded one.
LEMMA UpdateInvariant ==
    ASSUME IInv, NEW p \in Pids, NEW new \in Processes, Update(p, new), pc # "gone",
           p = loaded =>
             /\ new.mem = Its.mem /\ new.poked = Its.poked
             /\ new.status \in {"stopped", "running"} => Its.status \in {"starting", "stopped", "running"}
             /\ new.status # "starting"
             /\ new.status = "running" => Its.status = "running" /\ new.single = Its.single
             /\ new.status = "stopped" =>
                  \/ Its.status = "running" /\ pc = "step"
                  \/ Its.status = "running" /\ new.signal = "other"
                  \/ new.signal = "SIGTRAP" /\ ~new.left =>
                       \/ new.rip = 0 /\ new.next = 0
                       \/ new.rip = new.next + 1 /\ new.next \in DOMAIN brks
             /\ Its.status = "starting" /\ new.status = "stopped" => new.signal = "SIGTRAP"
             /\ new.status = "stopped" => Its.status \in {"starting", "running"}
    PROVE  IInv'
<1>1. /\ proc' = [proc EXCEPT ![p] = new] /\ UNCHANGED <<pc, loaded, forked, brks, stepping>>
      /\ proc \in Procs /\ proc' \in Procs
  BY DEF Update, IInv, Types, Procs
<1>2. CASE p # loaded
  <2>1. loaded # NoPid => proc'[loaded] = proc[loaded]
    BY <1>1, <1>2 DEF Procs, IInv, Types
  <2>2. QED
    BY <1>1, <2>1, ElsewhereInvariant
<1>3. CASE p = loaded
  <2>1. Its' = new /\ loaded # NoPid
    BY <1>1, <1>3, Constants DEF Its, Procs
  <2>2. Types' /\ Counted' /\ StepsOver' /\ Saved'
    BY <1>1 DEF IInv, Types, Counted, StepsOver, Saved
  <2>3. Alive' => Alive
    BY <1>1, <1>3, <2>1 DEF Alive
  <2>4. Untouched' /\ Traps' /\ Planted'
    BY <1>1, <1>3, <2>1, <2>3 DEF IInv, Untouched, Traps, Planted
  <2>5. AtRest'
    BY <1>1, <1>3, <2>1 DEF IInv, AtRest
  <2>6. Place'
    BY <1>1, <1>3, <2>1 DEF IInv, AtRest, Place
  <2>7. QED
    BY <2>2, <2>4, <2>5, <2>6 DEF IInv
<1>4. QED
  BY <1>2, <1>3

LEMMA ProcessInvariant ==
    ASSUME IInv, NEW p \in Pids, Process(p) PROVE IInv'
<1> DEFINE it == proc[p]
<1>1. it \in Processes /\ pc # "gone" /\ (p = loaded => Its = it)
  BY DEF IInv, Types, Procs, Process, Its
<1>2. \A signal \in {"SIGTRAP", "other"} :
         /\ Halt(p, signal) \in Processes
         /\ Halt(p, signal) = [it EXCEPT !.status = "stopped", !.signal = signal, !.single = FALSE]
  BY <1>1 DEF Halt, Processes, Statuses
<1>3. CASE ExecStop(p)
  <2> DEFINE new == Halt(p, "SIGTRAP")
  <2>1. it.status = "starting" /\ Update(p, new)
    BY <1>3 DEF ExecStop
  <2>2. /\ new \in Processes /\ new.status = "stopped" /\ new.signal = "SIGTRAP"
        /\ new.mem = it.mem /\ new.poked = it.poked /\ new.rip = it.rip /\ new.next = it.next
    BY <1>1, <1>2, ZenonT(40) DEF Processes
  <2>3. p = loaded => new.rip = 0 /\ new.next = 0
    BY <1>1, <2>1, <2>2, Constants DEF IInv, Untouched
  <2> HIDE DEF new
  <2>4. QED
    BY <1>1, <2>1, <2>2, <2>3, UpdateInvariant
<1>4. CASE ExecFails(p) \/ CloneExits(p)
  <2>1. PICK status \in {"clone", "zombie"} : Update(p, [proc[p] EXCEPT !.status = status])
    BY <1>4 DEF ExecFails, CloneExits
  <2> DEFINE new == [proc[p] EXCEPT !.status = status]
  <2>2. new \in Processes /\ new.status = status /\ new.mem = it.mem /\ new.poked = it.poked
    BY <1>1, <2>1 DEF Processes, Statuses
  <2>3. Update(p, new)
    BY <2>1
  <2> HIDE DEF new
  <2>4. QED
    BY <1>1, <2>1, <2>2, <2>3, UpdateInvariant
<1>5. CASE Execute(p)
  <2>1. it.status = "running" /\ it.rip \in Addrs
    BY <1>5 DEF Execute, Byte
  <2>2. PICK new :
          /\ Update(p, new) /\ new \in Processes /\ new.mem = it.mem /\ new.poked = it.poked
          /\ \/ new.status = "running" /\ new.single = it.single
             \/ new.status = "stopped" /\ it.single
             \/ new.status = "zombie"
    <3>1. \A a \in Addrs : /\ Executed(p, a) \in Processes
                           /\ Executed(p, a).status = it.status /\ Executed(p, a).single = it.single
                           /\ Executed(p, a).mem = it.mem /\ Executed(p, a).poked = it.poked
      BY <1>1, Constants DEF Executed, Processes
    <3>2. Succ(it.rip) \subseteq Addrs
      BY <2>1, Constants, DebuggerAssumption DEF Succ, Addrs
    <3>3. CASE \E a \in Succ(it.rip) :
                 Update(p, IF ~it.single THEN Executed(p, a)
                           ELSE [Executed(p, a) EXCEPT !.status = "stopped",
                                                       !.signal = "SIGTRAP", !.single = FALSE])
      <4>1. PICK a \in Addrs :
                 Update(p, IF ~it.single THEN Executed(p, a)
                           ELSE [Executed(p, a) EXCEPT !.status = "stopped",
                                                       !.signal = "SIGTRAP", !.single = FALSE])
        BY <3>2, <3>3
      <4> DEFINE e    == Executed(p, a)
                 halt == [e EXCEPT !.status = "stopped", !.signal = "SIGTRAP", !.single = FALSE]
      <4>2. /\ e \in Processes /\ e.status = "running" /\ e.single = it.single
            /\ e.mem = it.mem /\ e.poked = it.poked
        BY <2>1, <3>1
      <4>3. halt \in Processes /\ halt.status = "stopped" /\ halt.mem = it.mem /\ halt.poked = it.poked
        BY <4>2 DEF Processes, Statuses
      <4>4. Update(p, IF ~it.single THEN e ELSE halt)
        BY <4>1
      <4> HIDE DEF e, halt, it
      <4>5. CASE it.single
        BY <4>3, <4>4, <4>5
      <4>6. CASE ~it.single
        BY <4>2, <4>4, <4>6
      <4>7. QED
        BY <4>5, <4>6
    <3>4. CASE Update(p, [Executed(p, 0) EXCEPT !.status = "zombie"])
      <4> DEFINE e == Executed(p, 0)
                 z == [e EXCEPT !.status = "zombie"]
      <4>1. e \in Processes /\ e.mem = it.mem /\ e.poked = it.poked
        BY <3>1, Constants
      <4>2. z \in Processes /\ z.status = "zombie" /\ z.mem = it.mem /\ z.poked = it.poked
        BY <4>1 DEF Processes, Statuses
      <4>3. Update(p, z)
        BY <3>4
      <4> HIDE DEF e, z
      <4>4. QED
        BY <4>2, <4>3
    <3>5. QED
      BY <1>5, <3>3, <3>4 DEF Execute
  <2>3. p = loaded /\ new.status = "stopped" => pc = "step"
    BY <1>1, <2>1, <2>2, Constants DEF IInv, AtRest, Place, Types
  <2>4. QED
    BY <1>1, <2>1, <2>2, <2>3, UpdateInvariant
<1>6. CASE HitTrap(p)
  <2> DEFINE new == [Halt(p, "SIGTRAP") EXCEPT !.rip = @ + 1, !.left = @ \/ proc[p].rip # proc[p].next]
  <2>1. it.status = "running" /\ it.rip \in Addrs /\ it.mem[it.rip] = "int3" /\ Update(p, new)
    BY <1>6 DEF HitTrap, Byte
  <2>2. /\ new \in Processes /\ new.status = "stopped" /\ new.mem = it.mem /\ new.poked = it.poked
        /\ new.rip = it.rip + 1 /\ new.next = it.next /\ (~new.left => it.rip = it.next)
    <3>1. it.rip + 1 \in 0 .. LastAddr + 1
      BY <2>1, DebuggerAssumption DEF Addrs
    <3>2. new = [it EXCEPT !.status = "stopped", !.signal = "SIGTRAP", !.single = FALSE,
                           !.rip = it.rip + 1, !.left = it.left \/ it.rip # it.next]
      BY <1>1, <1>2, ZenonT(40) DEF Processes
    <3>3. QED
      BY <1>1, <3>1, <3>2 DEF Processes, Statuses
  <2>3. p = loaded => it.rip \in DOMAIN brks
    BY <1>1, <2>1, Constants DEF IInv, Traps, Alive
  <2> HIDE DEF new
  <2>4. QED
    BY <1>1, <2>1, <2>2, <2>3, UpdateInvariant
<1>7. CASE Fault(p) \/ Signalled(p)
  <2>1. PICK left \in BOOLEAN : /\ it.status = "running"
                                /\ Update(p, [Halt(p, "other") EXCEPT !.left = left])
    <3>1. Halt(p, "other") = [Halt(p, "other") EXCEPT !.left = it.left] /\ it.left \in BOOLEAN
      BY <1>1, <1>2, ZenonT(40) DEF Processes
    <3>2. QED
      BY <1>7, <3>1 DEF Fault, Signalled
  <2> DEFINE new == [Halt(p, "other") EXCEPT !.left = left]
  <2>2. /\ new \in Processes /\ new.status = "stopped" /\ new.signal = "other"
        /\ new.mem = it.mem /\ new.poked = it.poked
    BY <1>1, <1>2, <2>1 DEF Processes
  <2>3. Update(p, new)
    BY <2>1
  <2> HIDE DEF new
  <2>4. QED
    BY <1>1, <2>1, <2>2, <2>3, UpdateInvariant
<1>8. QED
  BY <1>3, <1>4, <1>5, <1>6, <1>7 DEF Process

-----------------------------------------------------------------------------
(* The theorems *)

LEMMA StepInvariant == IInv /\ [Next]_vars => IInv'
<1> SUFFICES ASSUME IInv, [Next]_vars PROVE IInv'
  OBVIOUS
<1>1. CASE HandleLoad \/ HandleComp
  <2>1. PICK ps \in {proc, Killed(loaded)} : LoadExec(ps) /\ (ps # proc => loaded \in Pids)
    BY <1>1 DEF HandleLoad, HandleComp, Using, IInv, Types
  <2>2. ps \in Procs
    BY <2>1, KilledFacts DEF IInv, Types
  <2>3. pc = "repl" /\ UNCHANGED <<pc, stepping>>
    BY <1>1 DEF HandleLoad, HandleComp, Using, AtPrompt
  <2>4. QED
    BY <2>1, <2>2, <2>3, LoadExecInvariant
<1>2. CASE HandleUnload \/ HandleExit
  <2>1. proc' \in Procs
    BY <1>2, KilledFacts DEF HandleUnload, HandleExit, Using, IInv, Types
  <2>2. loaded' = NoPid /\ pc' \in {"repl", "gone"} /\ UNCHANGED <<forked, brks, stepping>>
    BY <1>2 DEF HandleUnload, HandleExit, Using, AtPrompt
  <2>3. QED
    BY <2>1, <2>2, NoneLoadedInvariant
<1>3. CASE \E a \in Addrs : BrkAdd(a) \/ BrkRm(a) \/ HandleRegister(a) \/ HandleMemory(a)
  BY <1>3, BrkAddInvariant, BrkRmInvariant, RegisterInvariant, MemoryInvariant
<1>4. CASE BrkRmAll \/ HandleContinue
  BY <1>4, BrkRmAllInvariant, ContinueInvariant
<1>5. CASE StepDone \/ WaitDone
  BY <1>5, StepDoneInvariant, WaitDoneInvariant
<1>6. CASE \E p \in Pids : Process(p)
  BY <1>6, ProcessInvariant
<1>7. CASE UNCHANGED vars
  <2>1. UNCHANGED <<pc, loaded, forked, brks, stepping, proc>> /\ proc' \in Procs
    BY <1>7 DEF vars, IInv, Types
  <2>2. QED
    BY <2>1, ElsewhereInvariant
<1>8. QED
  BY <1>1, <1>2, <1>3, <1>4, <1>5, <1>6, <1>7 DEF Next, Command, Gone

\* The invariant behind the other theorems: where a process is stopped, whose
\* its traps are and what the breakpoints have saved.
THEOREM Invariance == Spec => []IInv
<1>1. QED
  BY InitInvariant, StepInvariant, PTL DEF Spec

\* The state of the debugger and of the processes keeps its types, for every
\* program and every number of loads.
THEOREM TypeCorrectness == Spec => []TypeOK
<1>1. IInv => TypeOK
  BY TypesSuffice DEF IInv
<1>2. QED
  BY <1>1, Invariance, PTL

\* What `brk' lists as enabled is planted, and what is planted is listed,
\* whatever the user does to the process and its predecessors, and however a
\* step over a breakpoint ends.
THEOREM TrapsAreListed == Spec => []TrapsAreBreakpoints
<1>1. IInv => TrapsAreBreakpoints
  <2> SUFFICES ASSUME IInv PROVE TrapsAreBreakpoints
    OBVIOUS
  <2>1. loaded # NoPid /\ Live(loaded) => Alive
    BY DEF Live, Alive, Its
  <2>2. PlantedStays
    BY <2>1 DEF IInv, Planted, PlantedStays, Its
  <2>3. EveryTrapIsKnown
    BY <2>1 DEF IInv, Traps, EveryTrapIsKnown, Its
  <2>4. QED
    BY <2>2, <2>3 DEF TrapsAreBreakpoints
<1>2. QED
  BY <1>1, Invariance, PTL

\* `cont' goes on where the program would, the trap there taken out.
THEOREM ContinuationInPlace == Spec => ContinuesInPlace
<1> DEFINE Continues ==
      pc = "repl" /\ pc' \in {"step", "wait"} /\ Stopped(proc, loaded)
        /\ ~proc[loaded].left /\ ~proc[loaded].poked =>
          LET next == proc[loaded].next
          IN  \/ /\ proc'[loaded].rip = next
                 /\ pc' = "step" => proc'[loaded].mem[next] # "int3"
              \/ /\ proc[loaded].rip = next + 1
                 /\ next \in DOMAIN brks /\ ~brks[next].enabled
<1>1. IInv /\ [Next]_vars => [Continues]_vars
  <2> SUFFICES ASSUME IInv, Next, pc = "repl", pc' \in {"step", "wait"}, Stopped(proc, loaded),
                      ~proc[loaded].left, ~proc[loaded].poked
               PROVE  Continues
    BY DEF Continues
  <2>1. HandleContinue
    BY DEF Next, Command, HandleLoad, HandleComp, HandleUnload, HandleExit, BrkAdd, BrkRm, BrkRmAll,
           HandleRegister, HandleMemory, StepDone, WaitDone, Process, ExecStop, ExecFails, CloneExits,
           Execute, HitTrap, Fault, Signalled, Update, Gone
  <2>2. loaded \in Pids /\ UNCHANGED loaded /\ Its = proc[loaded] /\ Its' = proc'[loaded]
    BY <2>1, ContinueFacts DEF Its
  <2>3. Its \in Processes /\ loaded # NoPid /\ Its.status = "stopped" /\ Alive
    BY <2>2, Constants DEF IInv, Types, Procs, Its, Stopped, Alive
  <2>4. \/ Its.rip = 0 /\ Its.next = 0
        \/ Its.rip = Its.next + 1 /\ Its.next \in DOMAIN brks
    BY <2>2, <2>3 DEF IInv, Place
  <2>5. PICK behind :
          /\ Stopped(proc, loaded) => behind = Its.rip - 1
          /\ \/ /\ behind \in DOMAIN brks /\ brks[behind].enabled
                /\ brks' = [brks EXCEPT ![behind] = [brks[behind] EXCEPT !.enabled = FALSE]]
                /\ stepping' = behind /\ pc' = "step"
                /\ Stopped(proc, loaded) =>
                     Its' = [Its EXCEPT !.status = "running", !.single = TRUE, !.rip = behind,
                                        !.mem = IF brks[behind].pid = loaded
                                                THEN [Its.mem EXCEPT ![behind] = brks[behind].saved]
                                                ELSE Its.mem]
             \/ /\ ~(behind \in DOMAIN brks /\ brks[behind].enabled)
                /\ pc' = "wait" /\ UNCHANGED <<brks, stepping>>
                /\ Stopped(proc, loaded) =>
                     Its' = [Its EXCEPT !.status = "running", !.single = FALSE]
    BY <2>1, ContinueFacts
  <2>6. /\ behind = Its.rip - 1 /\ DOMAIN brks \subseteq Addrs /\ Its.next \in Addrs
        /\ Its.next \in Int /\ Its.rip \in Int /\ Addrs \subseteq Nat
        /\ Its.rip = Its.next + 1 => behind = Its.next
    <3>1. behind = Its.rip - 1 /\ DOMAIN brks \subseteq Addrs /\ Its.next \in Addrs /\ Its.rip \in 0 .. LastAddr + 1
      BY <2>3, <2>5 DEF IInv, Types, Processes
    <3>2. Its.next \in Int /\ Its.rip \in Int
      <4>1. \A n \in Addrs : n \in Int
        BY Constants
      <4>2. \A n \in 0 .. LastAddr + 1 : n \in Int
        BY DebuggerAssumption
      <4>3. QED
        BY <3>1, <4>1, <4>2
    <3>3. \A m, n \in Int : m = n + 1 => m - 1 = n
      OBVIOUS
    <3>4. QED
      BY <3>1, <3>2, <3>3, Constants
  <2>7. CASE pc' = "step"
    <3>1. /\ behind \in DOMAIN brks /\ brks[behind].enabled
          /\ Its' = [Its EXCEPT !.status = "running", !.single = TRUE, !.rip = behind,
                                !.mem = IF brks[behind].pid = loaded
                                        THEN [Its.mem EXCEPT ![behind] = brks[behind].saved]
                                        ELSE Its.mem]
      BY <2>5, <2>7
    <3>2. Its.next = behind
      <4>1. Its.rip # 0
        BY <2>6, <3>1
      <4>2. QED
        BY <4>1, <2>4, <2>6
    <3>3. Its'.rip = Its.next
      BY <3>1, <3>2, <2>3 DEF Processes
    <3>4. Its'.mem[behind] # "int3"
      <4>1. Its.mem \in [Addrs -> Bytes] /\ behind \in Addrs
        BY <3>1, <2>3, <2>6 DEF Processes
      <4>2. Its'.mem = IF brks[behind].pid = loaded
                       THEN [Its.mem EXCEPT ![behind] = brks[behind].saved] ELSE Its.mem
        BY <3>1, <2>3 DEF Processes
      <4>3. CASE brks[behind].pid = loaded
        BY <4>1, <4>2, <4>3, <3>1 DEF IInv, Saved
      <4>4. CASE brks[behind].pid # loaded
        BY <4>1, <4>2, <4>4, <2>3 DEF IInv, Traps
      <4>5. QED
        BY <4>3, <4>4
    <3>5. QED
      BY <3>2, <3>3, <3>4, <2>2
  <2>8. CASE pc' = "wait"
    <3>1. ~(behind \in DOMAIN brks /\ brks[behind].enabled) /\ Its' = [Its EXCEPT !.status = "running", !.single = FALSE]
      BY <2>5, <2>8
    <3>2. Its'.rip = Its.rip
      BY <3>1, <2>3 DEF Processes
    <3>3. CASE Its.rip = Its.next + 1 /\ Its.next \in DOMAIN brks
      <4>1. behind = Its.next
        BY <2>6, <3>3
      <4>2. QED
        BY <4>1, <3>1, <3>3, <2>2
    <3>4. QED
      BY <3>2, <3>3, <2>2, <2>4, <2>8
  <2>9. QED
    BY <2>7, <2>8
<1>2. Spec => [][Continues]_vars
  BY <1>1, Invariance, PTL DEF Spec
<1>3. QED
  BY <1>2 DEF ContinuesInPlace

=============================================================================
