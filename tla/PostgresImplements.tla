-------------------------- MODULE PostgresImplements --------------------------
(***************************************************************************)
(* The committed tables of Postgres are those of Migration: no removal of  *)
(* a field can be cut in two, whatever fails.  Only the key is at risk     *)
(* when a statement may fail by itself.                                    *)
(***************************************************************************)
EXTENDS Postgres

Promise == INSTANCE Migration WITH
  tables <- [t \in Tables |-> [exists |-> db[t].exists,
                               cols   |-> db[t].cols \ {Pk},
                               cells  |-> db[t].cells]],
  Interruptible <- FALSE, KeyAtRisk <- StepsFail

\* At every step the committed tables keep what the models keep, and change
\* only as a migration, an insertion or another release may change them.
ImplementsMigration == Promise!MigrationSpec

=============================================================================
