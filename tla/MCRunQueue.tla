----------------------------- MODULE MCRunQueue -----------------------------
(* Small instances of RunQueue for TLC. *)
EXTENDS RunQueue, TLC

Symmetry == Permutations(Clients) \cup Permutations(Workers) \cup Permutations(Hashes)
=============================================================================
