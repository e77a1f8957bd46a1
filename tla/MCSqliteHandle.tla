--------------------------- MODULE MCSqliteHandle ---------------------------
(***************************************************************************)
(* Small instances of SqliteHandle for TLC.                                *)
(***************************************************************************)
EXTENDS SqliteHandle, TLC

CONSTANTS c1, c2, h1, h2, h3, k1

Symmetry ==
  Permutations(Conns) \cup Permutations(Handles) \cup Permutations(Keys)

=============================================================================
