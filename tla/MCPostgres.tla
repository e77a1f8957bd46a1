----------------------------- MODULE MCPostgres -----------------------------
(***************************************************************************)
(* Small instances of Postgres for TLC.                                    *)
(***************************************************************************)
EXTENDS PostgresImplements, TLC

CONSTANTS t1, a, b, r1, pk, created_at

\* The fields a model may declare are interchangeable.
Symmetry == Permutations(Columns)

=============================================================================
