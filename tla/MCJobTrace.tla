----------------------------- MODULE MCJobTrace -----------------------------
(* Small instances of JobTrace for TLC. *)
EXTENDS JobTrace, TLC

Symmetric == Permutations(Calls)
=============================================================================
