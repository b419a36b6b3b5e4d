----------------------------- MODULE MCWshScope -----------------------------
(* Instances of WshScope for TLC.  Names and functions are interchangeable. *)
EXTENDS WshScope, TLC

Symmetry == Permutations(Names) \cup Permutations(Funs)
=============================================================================
