------------------------------ MODULE Postgres ------------------------------
(***************************************************************************)
(* One PostgresqlConnection: update_database, the transactions of the      *)
(* program and what it stores, over a session of the server                *)
(* (src/postgres/postgresql_connection.cpp, src/table_set.cpp,             *)
(* src/table.cpp, src/connection.cpp).                                     *)
(*                                                                         *)
(* Each statement is a step of the server, between two of which the        *)
(* session may be lost or the process die.  DDL is transactional, a        *)
(* statement that fails in a transaction makes the rest of it fail and its *)
(* COMMIT a ROLLBACK, and BEGIN within a transaction only warns.  The      *)
(* adapter logs errors and goes on: it throws nothing but a failed         *)
(* connect.                                                                *)
(***************************************************************************)
EXTENDS Naturals, FiniteSets

CONSTANTS
  Tables,       \* the tables of the registry
  Columns,      \* the fields a model may declare
  Stamps,       \* created_at and updated_at
  Pk,           \* the primary key
  Rows,         \* the rows the program stores
  Timed,        \* the tables whose model calls timestamps(true)
  NoOne,        \* no table, no key
  MaxIndexes,   \* bound: indexes of one table
  MaxReleases,  \* bound: changes of the models
  StepsFail     \* a statement may fail by itself (a timeout, a full disk)

ASSUME PostgresAssumption ==
  /\ Columns \cap Stamps = {} /\ Pk \notin Columns \cup Stamps
  /\ NoOne \notin Tables \cup Columns \cup Stamps \cup {Pk}
  /\ Timed \subseteq Tables
  /\ MaxIndexes \in Nat \ {0} /\ MaxReleases \in Nat /\ StepsFail \in BOOLEAN

VARIABLES
  db,        \* the tables, as committed
  work,      \* the tables, as the session sees them: as the open transaction
             \*   has made them, otherwise as committed
  tx,        \* the state of the session
  link,      \* pgconn_
  keyless,   \* the tables whose model sets an empty primary key
  wanted,    \* the fields of each model
  pc,        \* where update_database is
  todo,      \* the tables it has not come to
  table,     \* the table at hand
  key,       \* table_data: the primary key it read
  missing,   \* update_table: the fields still to add
  surplus,   \* update_table: the fields still to remove, once per index
  inUnit,    \* history: begin_transaction was called, commit was not
  cut,       \* history: remove_field has sent its COMMIT since
  unit,      \* history: the cells stored since, by table
  keep,      \* history: the committed cells no release has asked to remove
  saved,     \* history: the rows with values for which save has returned
             \*   true since the last release, by table: over a session, out
             \*   of transactions, into a table with the columns
  database_, \* there is a database of the name the program gives to
             \*   create_database and drop_database
  trouble,   \* history: what has gone wrong
  releases   \* history

server == <<db, work, tx>>
process == <<pc, todo, table, key, missing, surplus>>
program == <<inUnit, cut, unit, keep, saved>>
around == <<keyless, wanted, database_>>
vars == <<server, link, around, process, program, trouble, releases>>

Cell == Rows \X (Columns \cup {Pk})

\* indexes: the rows of pg_index, the primary key's included.
TableState == [exists : BOOLEAN, cols : SUBSET (Columns \cup Stamps \cup {Pk}),
               indexes : 0..MaxIndexes, cells : SUBSET Cell]
NoTable == [exists |-> FALSE, cols |-> {}, indexes |-> 0, cells |-> {}]

Places == {"idle", "next", "create", "key", "columns", "fields", "alter",
           "commit", "ready"}
Troubles == {"statement failed", "lost", "key unread"}

TypeOK ==
  /\ db \in [Tables -> TableState] /\ work \in [Tables -> TableState]
  /\ tx \in {"idle", "inTx", "failed"}
  /\ link \in {"null", "up", "lost"}
  /\ keyless \in SUBSET Tables /\ wanted \in [Tables -> SUBSET Columns]
  /\ pc \in Places
  /\ todo \subseteq Tables /\ table \in Tables \cup {NoOne}
  /\ key \in {Pk, NoOne}
  /\ missing \subseteq Columns
  /\ surplus \subseteq (Columns \cup Stamps \cup {Pk}) \X (1..MaxIndexes)
  /\ inUnit \in BOOLEAN /\ cut \in BOOLEAN
  /\ unit \in [Tables -> SUBSET Cell] /\ keep \in [Tables -> SUBSET Cell]
  /\ saved \subseteq Tables \X Rows /\ database_ \in BOOLEAN
  /\ trouble \subseteq Troubles
  /\ releases \in 0..MaxReleases

-----------------------------------------------------------------------------
(* Statements.                                                             *)

\* With no session, or a lost one, PQexec gives an error; so it does in a
\* transaction that has failed.
Runs == link = "up" /\ tx # "failed"

\* The statement takes the tables to what is given.
Makes(tables) ==
  /\ work' = tables
  /\ db' = IF tx = "idle" THEN tables ELSE db
  /\ UNCHANGED tx

RollsBack == db' = db /\ work' = db /\ tx' = "idle"

FailsTo(more) ==
  /\ tx' = IF tx = "inTx" THEN "failed" ELSE tx
  /\ trouble' = trouble \cup {"statement failed"} \cup more
  /\ UNCHANGED <<db, work>>

Fails == FailsTo({})

MayFail == StepsFail \/ ~Runs

\* A statement that only fails when something is wrong.
Executes(tables) ==
  \/ Runs /\ Makes(tables) /\ UNCHANGED trouble
  \/ MayFail /\ Fails

-----------------------------------------------------------------------------
(* begin_transaction and commit, of the program and of remove_field.       *)

\* Mutant: the statement is not sent.
BeginsNothing == UNCHANGED <<server, trouble>>

\* BEGIN within a transaction is a warning.
Begins ==
  \/ /\ Runs /\ tx = "idle"
     /\ tx' = "inTx"
     /\ UNCHANGED <<db, work, trouble>>
  \/ /\ Runs /\ tx = "inTx"
     /\ UNCHANGED <<server, trouble>>
  \/ MayFail /\ Fails

\* Mutant: what the transaction did is rolled back.
CommitRollsBack == IF link = "up" THEN RollsBack /\ UNCHANGED trouble ELSE Fails

\* COMMIT makes db what the transaction made of it, or what it was when the
\* transaction had failed; without a transaction it only warns.
Commits ==
  IF link # "up" THEN Fails
  ELSE /\ IF tx = "failed" THEN RollsBack
          ELSE db' = work /\ tx' = "idle" /\ UNCHANGED work
       /\ UNCHANGED trouble

\* History: what a unit stored is kept from when it is committed.
KeepsCommitted ==
  keep' = [t \in Tables |-> keep[t] \cup (unit[t] \cap db'[t].cells)]

-----------------------------------------------------------------------------
(* TableSet::update_database.                                              *)

Locals == <<todo, table, key, missing, surplus>>

Start ==
  /\ pc \in {"idle", "ready"}
  /\ pc' = "next"
  /\ todo' = Tables
  /\ UNCHANGED <<server, link, around, table, key, missing, surplus, program,
                 trouble, releases>>

\* A query that fails is an empty answer.
Answers == Runs /\ UNCHANGED <<server, trouble>>

table_exists ==
  /\ pc = "next"
  /\ \E t \in todo :
       /\ todo' = todo \ {t}
       /\ table' = t
       /\ \/ Answers /\ pc' = IF work[t].exists THEN "key" ELSE "create"
          \/ MayFail /\ Fails /\ pc' = "create"
  /\ UNCHANGED <<link, around, key, missing, surplus, program, releases>>

\* The columns create_table adds to those of the model.
Stamped(t) == IF t \in Timed THEN Stamps ELSE {}

\* CREATE TABLE of a table that exists fails.
create_table ==
  /\ pc = "create"
  /\ LET k == IF table \in keyless THEN {} ELSE {Pk} IN
     IF work[table].exists THEN Fails
     ELSE Executes([work EXCEPT ![table] =
                      [exists |-> TRUE,
                       cols |-> wanted[table] \cup k \cup Stamped(table),
                       indexes |-> Cardinality(k), cells |-> {}]])
  /\ pc' = "next"
  /\ UNCHANGED <<link, around, Locals, program, releases>>

\* A query that fails and one without a row are the same: there is no key.
select_value(found) ==
  \/ Answers /\ key' = found
  \/ /\ MayFail
     /\ FailsTo(IF Runs THEN {"key unread"} ELSE {})
     /\ key' = NoOne

primary_key ==
  /\ pc = "key"
  /\ select_value(IF Pk \in work[table].cols THEN Pk ELSE NoOne)
  /\ pc' = "columns"
  /\ UNCHANGED <<link, around, todo, table, missing, surplus, program,
                 releases>>

\* Mutant: the key is listed, too.
KeyListed == work[table].cols \X (1..work[table].indexes)

\* The fields of table_data: every column but the key, once for each index of
\* the table.
FieldsRead == (work[table].cols \ {key}) \X (1..work[table].indexes)

\* table_data, and the differences update_table takes.
table_data ==
  /\ pc = "columns"
  /\ \E read \in {FieldsRead, {}} :
       /\ \/ read = FieldsRead /\ Answers
          \/ read = {} /\ MayFail /\ Fails
       /\ missing' = wanted[table] \ {x[1] : x \in read}
       /\ surplus' = {x \in read : x[1] \notin wanted[table]}
  /\ pc' = "fields"
  /\ UNCHANGED <<link, around, todo, table, key, program, releases>>

\* ADD of a column that is there fails.
add_field ==
  /\ pc = "fields"
  /\ \E f \in missing :
       /\ IF f \in work[table].cols \/ ~work[table].exists THEN Fails
          ELSE Executes([work EXCEPT ![table].cols = @ \cup {f}])
       /\ missing' = missing \ {f}
  /\ UNCHANGED <<link, around, pc, todo, table, key, surplus, program,
                 releases>>

\* remove_field: BEGIN.
remove_field ==
  /\ pc = "fields" /\ missing = {} /\ surplus # {}
  /\ Begins
  /\ pc' = "alter"
  /\ UNCHANGED <<link, around, Locals, program, releases>>

\* Mutant: the column is dropped with its table.
DropsTable(x, f) == NoTable

\* Mutant: an index goes with every column.
DropsAnIndex(x, f) ==
  [x EXCEPT !.cols = @ \ {f}, !.cells = {c \in @ : c[2] # f},
            !.indexes = @ - 1]

\* The primary key goes with its index, which may be the table's only one.
DropsColumn(x, f) ==
  [x EXCEPT !.cols = @ \ {f}, !.cells = {c \in @ : c[2] # f},
            !.indexes = IF f = Pk THEN @ - 1 ELSE @]

\* remove_field: ALTER TABLE ... DROP COLUMN, of the next field of the list.
AlterTable ==
  /\ pc = "alter"
  /\ \E x \in surplus :
       /\ \A n \in 1..(x[2] - 1) : <<x[1], n>> \notin surplus
       /\ IF x[1] \in work[table].cols
          THEN Executes([work EXCEPT ![table] = DropsColumn(@, x[1])])
          ELSE Fails
       /\ surplus' = surplus \ {x}
  /\ pc' = "commit"
  /\ UNCHANGED <<link, around, todo, table, key, missing, program, releases>>

\* remove_field: COMMIT, which ends a transaction of the program, too.
CommitRemoval ==
  /\ pc = "commit"
  /\ Commits
  /\ KeepsCommitted
  /\ pc' = "fields"
  /\ cut' = inUnit
  /\ UNCHANGED <<link, around, Locals, inUnit, unit, saved, releases>>

TableDone ==
  /\ pc = "fields" /\ missing = {} /\ surplus = {}
  /\ pc' = "next"
  /\ UNCHANGED <<server, link, around, Locals, program, trouble, releases>>

Return ==
  /\ pc = "next" /\ todo = {}
  /\ pc' = "ready"
  /\ table' = NoOne
  /\ UNCHANGED <<server, link, around, todo, key, missing, surplus, program,
                 trouble, releases>>

-----------------------------------------------------------------------------
(* The program around it.                                                  *)

Calls == pc \in {"idle", "ready"}
Apart == <<around, process, releases>>

\* A connect that fails throws and leaves a dead session in pgconn_.
connect ==
  /\ Calls /\ link # "up"
  /\ link' \in {"up", "lost"}
  /\ UNCHANGED <<server, program, trouble, Apart>>

\* The server rolls back what was not committed.
disconnect ==
  /\ Calls /\ link # "null"
  /\ link' = "null"
  /\ RollsBack
  /\ inUnit' = FALSE /\ cut' = FALSE /\ unit' = [t \in Tables |-> {}]
  /\ UNCHANGED <<keep, saved, trouble, Apart>>

\* The session is lost: the server restarts, or the network fails.
Lose ==
  /\ link = "up"
  /\ link' = "lost"
  /\ RollsBack
  /\ trouble' = trouble \cup {"lost"}
  /\ UNCHANGED <<program, Apart>>

begin_transaction ==
  /\ Calls /\ ~inUnit
  /\ Begins
  /\ inUnit' = TRUE
  /\ UNCHANGED <<link, cut, unit, keep, saved, Apart>>

commit ==
  /\ Calls /\ inUnit
  /\ Commits
  /\ KeepsCommitted
  /\ inUnit' = FALSE /\ cut' = FALSE /\ unit' = [t \in Tables |-> {}]
  /\ UNCHANGED <<link, saved, Apart>>

\* What the server parses as the parameters of a statement: $1, $2 and so on.
Parses(placeholder) == placeholder = "$"

HasColumns(t, listed) == work[t].exists /\ listed \subseteq work[t].cols

\* The server does INSERT INTO t (listed) VALUES (placeholders).  The key is
\* INTEGER PRIMARY KEY: it has no default, and may not be NULL.
Insertable(t, listed, placeholder) ==
  /\ HasColumns(t, listed)
  /\ work[t].cols \cap {Pk} \subseteq listed
  /\ Parses(placeholder)

StoreRow(t, r, listed, placeholder) ==
  LET new == {r} \X listed IN
  \/ /\ Runs /\ Insertable(t, listed, placeholder)
     /\ Makes([work EXCEPT ![t].cells = @ \cup new])
     /\ unit' = IF inUnit THEN [unit EXCEPT ![t] = @ \cup new] ELSE unit
     /\ keep' = IF tx = "idle" THEN [keep EXCEPT ![t] = @ \cup new] ELSE keep
     /\ UNCHANGED trouble
  \/ /\ MayFail \/ ~Insertable(t, listed, placeholder)
     /\ Fails
     /\ UNCHANGED <<unit, keep>>

NewRow(r) ==
  \A u \in Tables : r \notin {c[1] : c \in db[u].cells \cup work[u].cells}

\* The program's own INSERT, by execute or insert, which gives the key: it is
\* told when it fails.
insert ==
  /\ Calls
  /\ \E t \in Tables, r \in Rows :
       /\ NewRow(r)
       /\ \E fields \in SUBSET wanted[t] :
            StoreRow(t, r, fields \cup (work[t].cols \cap {Pk}), "$")
  /\ UNCHANGED <<link, inUnit, cut, saved, Apart>>

\* Base<T>::save of a new record: create lists the attributes, never the key,
\* and writes "?" for the value of each; without attributes it gives a NULL
\* key.  insert returns 0 for a statement that failed, and save true.
save ==
  /\ Calls
  /\ \E t \in Tables, r \in Rows : \E fields \in SUBSET wanted[t] :
       /\ NewRow(r)
       /\ StoreRow(t, r, fields, "?")
       /\ saved' = IF Runs /\ tx = "idle" /\ fields # {} /\ HasColumns(t, fields)
                   THEN saved \cup {<<t, r>>} ELSE saved
  /\ UNCHANGED <<link, inUnit, cut, Apart>>

\* create_database and drop_database over this session: neither statement runs
\* in a transaction, which it ends in failure instead.
MakesDatabase(there) ==
  /\ Calls
  /\ \/ /\ Runs /\ tx = "idle" /\ database_ # there
        /\ database_' = there
        /\ UNCHANGED <<server, trouble>>
     \/ /\ MayFail \/ tx # "idle" \/ database_ = there
        /\ Fails
        /\ UNCHANGED database_
  /\ UNCHANGED <<link, keyless, wanted, process, program, releases>>

create_database == MakesDatabase(TRUE)

drop_database == MakesDatabase(FALSE)

\* The process ends or dies, and another release of the program follows.
Restart ==
  /\ link' = "null" /\ RollsBack
  /\ pc' = "idle" /\ todo' = {} /\ table' = NoOne /\ key' = NoOne
  /\ missing' = {} /\ surplus' = {}
  /\ inUnit' = FALSE /\ cut' = FALSE /\ unit' = [t \in Tables |-> {}]
  /\ trouble' = trouble \cap {"key unread"}
  /\ UNCHANGED <<around, keep, saved, releases>>

Release ==
  /\ pc = "idle" /\ link = "null" /\ releases < MaxReleases
  /\ \E t \in Tables, w \in SUBSET Columns :
       /\ wanted' = [wanted EXCEPT ![t] = w]
       /\ keep' = [keep EXCEPT ![t] = {c \in @ : c[2] \in w \cup {Pk}}]
  /\ releases' = releases + 1
  /\ saved' = {}
  /\ UNCHANGED <<server, link, keyless, database_, process, inUnit, cut, unit,
                 trouble>>

\* Another client of the server makes an index, which takes a lock that no
\* transaction may hold.
CreateIndex ==
  /\ tx = "idle"
  /\ \E t \in Tables :
       /\ db[t].exists /\ db[t].indexes < MaxIndexes
       /\ Makes([db EXCEPT ![t].indexes = @ + 1])
  /\ UNCHANGED <<link, program, trouble, Apart>>

Init ==
  /\ db = [t \in Tables |-> NoTable] /\ work = db /\ tx = "idle"
  /\ link = "null"
  /\ keyless \in SUBSET Tables /\ wanted \in [Tables -> SUBSET Columns]
  /\ pc = "idle" /\ todo = {} /\ table = NoOne /\ key = NoOne
  /\ missing = {} /\ surplus = {}
  /\ inUnit = FALSE /\ cut = FALSE /\ unit = [t \in Tables |-> {}]
  /\ keep = [t \in Tables |-> {}] /\ saved = {} /\ database_ \in BOOLEAN
  /\ trouble = {} /\ releases = 0

Next ==
  \/ Start \/ table_exists \/ create_table \/ primary_key \/ table_data
  \/ add_field \/ remove_field \/ AlterTable \/ CommitRemoval \/ TableDone
  \/ Return
  \/ connect \/ disconnect \/ Lose \/ begin_transaction \/ commit \/ insert
  \/ save \/ create_database \/ drop_database \/ Restart \/ Release \/ CreateIndex

Spec == Init /\ [][Next]_vars

-----------------------------------------------------------------------------
(* Properties.                                                             *)

\* Whatever fails and whenever the session or the process ends, a committed
\* value of a field that is in the model is in the committed table; so is the
\* key, unless the query for it failed by itself and it was removed as a
\* field the model does not have.
KeptCommitted ==
  \A t \in Tables : \A c \in keep[t] :
    c \in db[t].cells \/ (c[2] = Pk /\ "key unread" \in trouble)

\* When update_database returns and nothing has failed, a table with a key
\* has the fields of its model and no others but the timestamps of a model
\* that has them, as the session sees it.
FollowsModel ==
  [][pc = "next" /\ pc' = "ready" /\ trouble = {} =>
       \A t \in Tables :
         work[t].exists /\ (t \notin keyless =>
           /\ wanted[t] \cup {Pk} \subseteq work[t].cols
           /\ work[t].cols \subseteq wanted[t] \cup {Pk} \cup Stamped(t))]_vars

\* What the program stores in a transaction is not committed before it says
\* so, unless something has failed, or update_database removed a field
\* within the transaction and committed it.
UnitWhole ==
  inUnit /\ trouble = {} /\ ~cut =>
    \A t \in Tables : unit[t] \cap db[t].cells = {}

\* When commit returns and nothing has failed, what was stored in the
\* transaction is committed.
CommitMeansStored ==
  [][inUnit /\ ~inUnit' /\ link' = "up" /\ trouble' = {} =>
       \A t \in Tables : unit[t] \subseteq db'[t].cells]_vars

\* README.md lists PostgreSQL among the databases, and test/base/save.cpp
\* takes a save that returns true for a row with an id: a record that has
\* been saved, over a session that works into a table that has its columns,
\* is in the table.
SavedIsStored ==
  \A x \in saved : \E c \in db[x[1]].cells : c[1] = x[2]

=============================================================================
