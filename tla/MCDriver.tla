------------------------------ MODULE MCDriver ------------------------------
(***************************************************************************)
(* All combinations of the options, with external tools that may fail and  *)
(* with what an earlier build left at the output path.                     *)
(***************************************************************************)
EXTENDS Driver
=============================================================================
