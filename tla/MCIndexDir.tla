----------------------------- MODULE MCIndexDir -----------------------------
(* Small instances of IndexDir for TLC. *)
EXTENDS IndexDir, TLC

CONSTANTS a, b

\* The corpus of one spec makes three chunks, that of the other two.
Counts == (a :> 3) @@ (b :> 2)

Symmetry == Permutations(Procs)
=============================================================================
