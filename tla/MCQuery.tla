------------------------------ MODULE MCQuery ------------------------------
(***************************************************************************)
(* Small instances of Query for TLC.                                       *)
(***************************************************************************)
EXTENDS Query, TLC

CONSTANTS q1, q2

Row(a, b) == [a |-> a, b |-> b]

\* Three rows that tie on a, on b or on nothing.
SmallTables ==
  {1 :> Row(2, 1) @@ 2 :> Row(1, 2) @@ 3 :> Row(1, 1),
   1 :> Row(1, 1) @@ 2 :> Row(1, 2) @@ 3 :> Row(2, 2)}

SmallConditions ==
  {[column |-> "a", value |-> 1], [column |-> "b", value |-> 2]}

SmallOrderings ==
  {[column |-> "a", desc |-> TRUE], [column |-> "b", desc |-> FALSE]}

SmallLimits == {0, 1, -2} \cup {INVALID_LIMIT}
SmallOffsets == {1, -2}

Symmetry == Permutations(Queries)

=============================================================================
