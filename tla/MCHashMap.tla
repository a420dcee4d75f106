------------------------------ MODULE MCHashMap ------------------------------
(***************************************************************************)
(* Five keys over the slots of a table that starts with four and doubles.  *)
(* Hash 3 starts at the last slot, so that its probes wrap around; 7 is the*)
(* same slot of four and another one of eight.                             *)
(***************************************************************************)
EXTENDS HashMap, TLC

CONSTANTS k1, k2, k3, k4, k5, a, b

MCKeys == {k1, k2, k3, k4, k5}
MCValues == {a, b}
MCHashes == {3, 7}
Interchangeable == Permutations(MCKeys) \cup Permutations(MCValues)
=============================================================================
