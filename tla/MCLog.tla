------------------------------- MODULE MCLog -------------------------------
(* The processes and the blocks of the log are interchangeable. *)
EXTENDS LogInvariant, TLC

Symmetry == Permutations(Procs) \cup Permutations(Blocks)
=============================================================================
