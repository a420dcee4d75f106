-------------------------------- MODULE Lists --------------------------------
(***************************************************************************)
(* What the modules that are proved about assume of their lists.           *)
(***************************************************************************)
EXTENDS Naturals, Sequences

\* A sequence of whatever it holds.
IsList(s) == s \in Seq({s[n] : n \in DOMAIN s})
=============================================================================
