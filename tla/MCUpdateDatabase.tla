-------------------------- MODULE MCUpdateDatabase --------------------------
(***************************************************************************)
(* Small instances of UpdateDatabase for TLC.                              *)
(***************************************************************************)
EXTENDS UpdateDatabaseImplements, TLC

CONSTANTS people, books, f1, f2, created_at, x1, x2

Symmetry == Permutations(Columns) \cup Permutations(Rows)

=============================================================================
