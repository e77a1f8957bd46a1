------------------------------ MODULE Migration ------------------------------
(***************************************************************************)
(* What update_database promises of the tables in a database, whichever    *)
(* adapter does the work: a table that is there stays, the fields that are *)
(* in the model keep their values, and no other value appears.             *)
(***************************************************************************)
CONSTANTS
  Tables,         \* the tables of the registry
  Columns,        \* the fields of the models
  Stamps,         \* the fields create_table may add besides
  Pk,             \* the primary key
  Interruptible,  \* the removal of a field is not one step
  KeyAtRisk       \* the key may be taken for a field to remove

VARIABLES
  tables,  \* the tables: whether they exist, their fields and cells
  wanted   \* the fields of each model

Absent == [exists |-> FALSE, cols |-> {}, cells |-> {}]

\* The cells of a table in the fields of its model and in the key.
Kept(x, model) ==
  {c \in x.cells : c[2] \in model \/ (c[2] = Pk /\ ~KeyAtRisk)}

RowsOf(x) == {c[1] : c \in x.cells}

\* What a commit may make of a table: fields of the model are added, others
\* are removed, rows that were not there are stored.
Legal(old, new, model) ==
  /\ old.exists => new.exists
  /\ old.cols \cap model \subseteq new.cols
  /\ new.cols \subseteq old.cols \cup model \cup (IF old.exists THEN {} ELSE Stamps)
  /\ Kept(old, model) \subseteq new.cells
  /\ \A c \in new.cells \ old.cells : c[1] \notin RowsOf(old)

Change ==
  /\ \A t \in Tables : Legal(tables[t], tables'[t], wanted[t])
  /\ UNCHANGED wanted

\* The program dies between the DROP and the RENAME of SQLite's remove_field.
Vanish ==
  /\ Interruptible
  /\ \E t \in Tables :
       tables[t].exists /\ tables' = [tables EXCEPT ![t] = Absent]
  /\ UNCHANGED wanted

\* Another release of the program.
Release ==
  /\ \E t \in Tables, w \in SUBSET Columns : wanted' = [wanted EXCEPT ![t] = w]
  /\ UNCHANGED tables

\* An empty database, or the tables of somebody else.
Init ==
  /\ wanted \in [Tables -> SUBSET Columns]
  /\ \A t \in Tables : tables[t].exists \/ tables[t] = Absent

Next == Change \/ Vanish \/ Release

MigrationSpec == Init /\ [][Next]_<<tables, wanted>>

=============================================================================
