----------------------------- MODULE MCDebugger -----------------------------
(* Two sessions' worth of processes and a program of two instructions. *)
EXTENDS Debugger
=============================================================================
