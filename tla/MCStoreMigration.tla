-------------------------- MODULE MCStoreMigration --------------------------
(* A small instance of StoreMigration for TLC. *)
EXTENDS StoreMigration, TLC

Symmetry == Permutations(Openers) \cup Permutations(RowIds)
=============================================================================
