----------------------- MODULE UpdateDatabaseImplements -----------------------
(***************************************************************************)
(* Where no statement fails, the tables UpdateDatabase works on are those  *)
(* of Migration.  Between DROP TABLE and RENAME a table is its temporary   *)
(* table; a crash there is the one step that loses sight of it.            *)
(***************************************************************************)
EXTENDS UpdateDatabase

Renaming(t) == pc = "rename" /\ table = t /\ ~db[t].exists

TableOf(t) == IF Renaming(t) THEN db[temp] ELSE db[t]

Promise == INSTANCE Migration WITH
  tables <- [t \in Tables |-> [exists |-> TableOf(t).exists,
                               cols   |-> TableOf(t).cols \ {Pk},
                               cells  |-> TableOf(t).cells]],
  Interruptible <- TRUE, KeyAtRisk <- FALSE

\* At every step the tables keep what the models keep, and change only as a
\* migration, an insertion or another release may change them, or vanish as a
\* whole in a crash.
ImplementsMigration == Promise!MigrationSpec

=============================================================================
