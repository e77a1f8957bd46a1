--------------------------- MODULE UpdateDatabase ---------------------------
(***************************************************************************)
(* Connection::update_database over SQLite: each table of the registry is  *)
(* created, or brought to its model one ALTER TABLE at a time; a column is *)
(* removed by Sqlite3Connection::remove_field, which moves the rows to a   *)
(* temporary table, drops the original and renames (src/table_set.cpp,     *)
(* src/table.cpp, src/sqlite/sqlite3_connection.cpp).                      *)
(*                                                                         *)
(* There is no transaction: every SQL statement commits by itself, so each *)
(* is one step, between two of which the process may die.  Neither execute *)
(* nor select_all looks at the result of a failed sqlite3_step: a statement *)
(* that fails while it runs goes unnoticed, and a read that fails gives    *)
(* the rows up to there.  A statement that does not compile throws.        *)
(***************************************************************************)
EXTENDS Integers, FiniteSets

CONSTANTS
  Tables,       \* the tables of the registry
  Columns,      \* the fields a model may declare
  Stamps,       \* created_at and updated_at
  Pk,           \* the column of the primary key
  Rows,         \* the rows the program stores
  Timed,        \* the tables whose model calls timestamps(true)
  Foreign,      \* the tables another tool made, with keys that are texts
  MaxSecond,    \* bound: the last second of the clock
  MaxCrashes,   \* bound: crashes of the process
  MaxReleases,  \* bound: changes of the models
  NoOne,        \* no table, no field
  StepsFail     \* sqlite3_step may fail

Seconds == 0..MaxSecond
Fields  == Columns \cup Stamps
Cell    == Rows \X (Fields \cup {Pk})   \* a row's value in a column

ASSUME NamesDistinct ==
  /\ Tables \cap Seconds = {}
  /\ Columns \cap Stamps = {}
  /\ Pk \notin Fields
  /\ NoOne \notin Fields \cup Tables \cup {Pk}

ASSUME SubsetAssumption == Timed \subseteq Tables /\ Foreign \subseteq Tables

ASSUME BoundAssumption ==
  /\ MaxSecond \in Nat
  /\ MaxCrashes \in Nat
  /\ MaxReleases \in Nat
  /\ StepsFail \in BOOLEAN

VARIABLES
  db,        \* the tables of the file; a second names the table ar_rename_<second>
  wanted,    \* the fields of each model, as this release of the program has them
  clock,     \* the time in seconds
  pc,        \* where update_database is
  todo,      \* the tables it has not come to
  table,     \* the table at hand
  missing,   \* update_table: the fields still to add
  surplus,   \* update_table: the fields still to remove
  temp,      \* remove_field: the second in the name of the temporary table
  copied,    \* remove_field: the columns of the temporary table
  keyed,     \* remove_field: the temporary table has a primary key
  keep,      \* history: the cells stored that no release has asked to remove
  owner,     \* history: the table each row was stored in
  miscopied, \* history: an INSERT INTO ... SELECT of remove_field has failed
  misread,   \* history: a read of remove_field has overlooked a wanted field
             \* or the key
  crashes,   \* history
  releases   \* history

process == <<pc, todo, table, missing, surplus, temp, copied, keyed>>
misses  == <<miscopied, misread>>
vars == <<db, wanted, clock, pc, todo, table, missing, surplus, temp, copied,
          keyed, keep, owner, miscopied, misread, crashes, releases>>

\* The column Pk is the primary key of the tables with an "integer" key, as
\* create_table declares it, or a "text" key.
TableState == [exists : BOOLEAN, key : {"none", "integer", "text"},
               cols : SUBSET (Fields \cup {Pk}), cells : SUBSET Cell]
NoTable == [exists |-> FALSE, key |-> "none", cols |-> {}, cells |-> {}]

Places == {"idle", "next", "create", "fields", "create temp", "copy", "drop",
           "rename", "ready", "threw"}

TypeOK ==
  /\ db \in [Tables \cup Seconds -> TableState]
  /\ wanted \in [Tables -> SUBSET Columns]
  /\ clock \in Seconds
  /\ pc \in Places
  /\ todo \subseteq Tables
  /\ table \in Tables \cup {NoOne}
  /\ missing \subseteq Columns
  /\ surplus \subseteq Fields \cup {Pk}
  /\ temp \in Seconds
  /\ copied \subseteq Fields \cup {Pk}
  /\ keyed \in BOOLEAN
  /\ keep \in [Tables -> SUBSET Cell]
  /\ owner \in [Rows -> Tables \cup {NoOne}]
  /\ miscopied \in BOOLEAN
  /\ misread \in BOOLEAN
  /\ crashes \in 0..MaxCrashes
  /\ releases \in 0..MaxReleases

-----------------------------------------------------------------------------
(* Statements.                                                             *)

\* CREATE TABLE: a primary key is always INTEGER PRIMARY KEY.
NewTable(cols, hasKey) ==
  [exists |-> TRUE, key |-> IF hasKey THEN "integer" ELSE "none",
   cols |-> cols, cells |-> {}]

\* The columns create_table gives the table of a model.
ModelColumns(t) ==
  wanted[t] \cup {Pk} \cup (IF t \in Timed THEN Stamps ELSE {})

\* Mutant: the operands of operator- swapped.
MinusSwapped(a, b) == b \ a

\* Fields::operator- compares names only, so a new type is no difference.
Minus(a, b) == a \ b

\* The cells of a table in these columns.
CellsIn(t, cols) == {x \in db[t].cells : x[2] \in cols}

\* A step may fail, but not in the last second: what keeps a statement from
\* running, a lock or a full disk, goes away in the end.
MayFail == StepsFail /\ clock < MaxSecond

\* A statement runs, or its step fails and nobody is told.
Executes(db2) == db' = db2 \/ (MayFail /\ db' = db)

\* A statement does not compile: the exception leaves update_database.
Throws ==
  /\ pc' = "threw"
  /\ todo' = {}
  /\ table' = NoOne
  /\ missing' = {}
  /\ surplus' = {}
  /\ copied' = {}
  /\ keyed' = FALSE
  /\ UNCHANGED <<db, temp>>

GoesTo(place) ==
  /\ pc' = place
  /\ UNCHANGED <<todo, table, missing, surplus, temp, copied, keyed>>

World == <<wanted, clock, keep, owner, crashes, releases>>

-----------------------------------------------------------------------------
(* What is read of the database: select_all takes a step that fails for    *)
(* the end of the rows.                                                    *)

table_exists(t) == {db[t].exists} \cup (IF MayFail THEN {FALSE} ELSE {})

KeyOf(t) == IF db[t].key = "none" THEN NoOne ELSE Pk

primary_key(t) == {KeyOf(t)} \cup (IF MayFail THEN {NoOne} ELSE {})

\* The names PRAGMA table_info gives: the columns, or those before the failure.
TableInfo(t) == IF MayFail THEN SUBSET db[t].cols ELSE {db[t].cols}

\* The key of a table and its other columns.  The two are read one after the
\* other: when the key is not found, its column is a field like any other.
table_data(t) ==
  {[key |-> k, fields |-> names \ {k}] : k \in primary_key(t), names \in TableInfo(t)}

-----------------------------------------------------------------------------
(* TableSet::update_database and update_table.                             *)

\* The program starts and calls update_database.
Start ==
  /\ pc = "idle"
  /\ pc' = "next"
  /\ todo' = Tables
  /\ UNCHANGED <<db, table, missing, surplus, temp, copied, keyed, World, misses>>

\* The next table of the map, in the unknown order of the class names:
\* table_exists, and for one that exists table_data and the two differences.
\* Both are taken from the fields as they are before the first change.
NextTable ==
  /\ pc = "next"
  /\ \E t \in todo :
       /\ todo' = todo \ {t}
       /\ table' = t
       /\ \/ /\ TRUE \in table_exists(t)
             /\ \E d \in table_data(t) :
                  /\ missing' = Minus(wanted[t], d.fields)
                  /\ surplus' = Minus(d.fields, wanted[t])
             /\ pc' = "fields"
          \/ /\ FALSE \in table_exists(t)
             /\ pc' = "create"
             /\ UNCHANGED <<missing, surplus>>
  /\ UNCHANGED <<db, temp, copied, keyed, World, misses>>

\* The map is done: update_database returns.
Return ==
  /\ pc = "next" /\ todo = {}
  /\ pc' = "ready"
  /\ table' = NoOne
  /\ UNCHANGED <<db, todo, missing, surplus, temp, copied, keyed, World, misses>>

\* TableSet::create_table; it does not compile when the table was there and
\* table_exists had not seen it.
CreateTable ==
  /\ pc = "create"
  /\ \/ /\ ~db[table].exists
        /\ Executes([db EXCEPT ![table] = NewTable(ModelColumns(table), TRUE)])
        /\ GoesTo("next")
     \/ /\ db[table].exists
        /\ Throws
  /\ UNCHANGED <<World, misses>>

\* Table::add_field: the fields are added in the order the model declares
\* them, which may be any.  A column table_data had not seen is a duplicate,
\* with which ALTER TABLE does not compile.
AddField ==
  /\ pc = "fields"
  /\ \E f \in missing :
       \/ /\ db[table].exists /\ f \notin db[table].cols
          /\ Executes([db EXCEPT ![table].cols = @ \cup {f}])
          /\ missing' = missing \ {f}
          /\ UNCHANGED <<pc, todo, table, surplus, temp, copied, keyed>>
       \/ /\ ~db[table].exists \/ f \in db[table].cols
          /\ Throws
  /\ UNCHANGED <<World, misses>>

\* Both lists of update_table are done.
TableDone ==
  /\ pc = "fields" /\ missing = {} /\ surplus = {}
  /\ GoesTo("next")
  /\ UNCHANGED <<db, World, misses>>

-----------------------------------------------------------------------------
(* Sqlite3Connection::remove_field, statement by statement.                *)

\* Mutant: the same name whenever it is called.
FixedTempName == 0

\* Mutant: a second counted from one, as the month is.
NextSecondName == clock + 1

\* temp_table_name has the resolution of a second.
TempName == clock

\* Mutant: the test of the name inverted.
FieldsOnly(fields, f) == fields \cap {f}

\* The fields of the temporary table: all of the table's but one.
FieldsWithout(fields, f) == fields \ {f}

\* What was read leaves out a field the model wants, or the key.
Overlooks(d) ==
  \/ d.key # KeyOf(table)
  \/ ~(db[table].cols \cap wanted[table] \subseteq d.fields)

\* table_data once more, and the lists of columns: one for the new table and,
\* in the same order, one for the copy, each with the key first if one was read.
RemoveField ==
  /\ pc = "fields" /\ missing = {}
  /\ \E f \in surplus, d \in table_data(table) :
       /\ surplus' = surplus \ {f}
       /\ copied' = FieldsWithout(d.fields, f) \cup ({d.key} \ {NoOne})
       /\ keyed' = (d.key # NoOne)
       /\ misread' = (misread \/ Overlooks(d))
  /\ temp' = TempName
  /\ pc' = "create temp"
  /\ UNCHANGED <<db, todo, table, missing, World, miscopied>>

\* Mutant: a temporary table of that name is cleared instead of refused.
CompilesAlways(t) == copied # {}

\* CREATE TABLE does not compile when a table of that name is left over from
\* an earlier removal, or without a column: the table has lost its key and its
\* last field is to go, nothing of it could be read, or it is away altogether.
Compiles(t) == copied # {} /\ ~db[t].exists

CreateTemp ==
  /\ pc = "create temp"
  /\ \/ /\ Compiles(temp)
        /\ Executes([db EXCEPT ![temp] = NewTable(copied, keyed)])
        /\ GoesTo("copy")
     \/ /\ ~Compiles(temp)
        /\ Throws
  /\ UNCHANGED <<World, misses>>

\* A text key does not go into an INTEGER PRIMARY KEY: the step fails with
\* "datatype mismatch" and the temporary table stays empty.
CopyFits ==
  ~(keyed /\ db[table].key = "text" /\ \E x \in db[table].cells : x[2] = Pk)

\* INSERT INTO ... SELECT; there is no temporary table when CREATE failed.
CopyRows ==
  /\ pc = "copy"
  /\ \/ /\ db[temp].exists
        /\ \/ /\ CopyFits
              /\ db' = [db EXCEPT ![temp].cells = CellsIn(table, copied)]
              /\ UNCHANGED miscopied
           \/ /\ ~CopyFits \/ MayFail
              /\ miscopied' = TRUE
              /\ UNCHANGED db
        /\ GoesTo("drop")
     \/ /\ ~db[temp].exists
        /\ Throws
        /\ UNCHANGED miscopied
  /\ UNCHANGED <<World, misread>>

\* DROP TABLE.
DropTable ==
  /\ pc = "drop"
  /\ Executes([db EXCEPT ![table] = NoTable])
  /\ GoesTo("rename")
  /\ UNCHANGED <<World, misses>>

\* ALTER TABLE ... RENAME TO does not compile when DROP TABLE failed.
RenameTable ==
  /\ pc = "rename"
  /\ \/ /\ ~db[table].exists
        /\ Executes([db EXCEPT ![table] = db[temp], ![temp] = NoTable])
        /\ pc' = "fields"
        /\ copied' = {}
        /\ keyed' = FALSE
        /\ UNCHANGED <<todo, table, missing, surplus, temp>>
     \/ /\ db[table].exists
        /\ Throws
  /\ UNCHANGED <<World, misses>>

\* sqlite3_prepare_v2 itself fails: it could not read the schema.
Refused ==
  /\ MayFail
  /\ pc \notin {"idle", "ready", "threw"}
  /\ pc = "next" => todo # {}
  /\ pc = "fields" => missing \cup surplus # {}
  /\ Throws
  /\ UNCHANGED <<World, misses>>

-----------------------------------------------------------------------------
(* The program around it.                                                  *)

Stopped == /\ pc' = "idle"
           /\ todo' = {}
           /\ table' = NoOne
           /\ missing' = {}
           /\ surplus' = {}
           /\ copied' = {}
           /\ keyed' = FALSE
           /\ UNCHANGED <<db, temp, wanted, clock, keep, owner, misses,
                          releases>>

\* The program ends, after update_database returned or threw.
Stop ==
  /\ pc \in {"ready", "threw"}
  /\ Stopped
  /\ UNCHANGED crashes

\* The process dies between two statements.  Not in the last second: there
\* the clock of the model stands still and would keep a leftover's name.
Crash ==
  /\ pc \notin {"idle", "ready", "threw"}
  /\ crashes < MaxCrashes /\ clock < MaxSecond
  /\ Stopped
  /\ crashes' = crashes + 1

\* A release of the program with other fields in one of its models.  What a
\* field without a place in the model held may go.
Release ==
  /\ pc = "idle"
  /\ releases < MaxReleases
  /\ \E t \in Tables, w \in SUBSET Columns :
       /\ wanted' = [wanted EXCEPT ![t] = w]
       /\ keep' = [keep EXCEPT ![t] = {x \in @ : x[2] \in w \cup {Pk}}]
  /\ releases' = releases + 1
  /\ UNCHANGED <<db, clock, process, owner, misses, crashes>>

\* Once update_database has returned the program stores a row, with values
\* for some of the fields of its model; an INTEGER PRIMARY KEY gives it an id.
StoreRow(t, r, fields) ==
  LET new == {r} \X (fields \cup (IF db[t].key = "integer" THEN {Pk} ELSE {})) IN
  /\ db[t].exists /\ fields \subseteq db[t].cols
  /\ owner[r] = NoOne
  /\ owner' = [owner EXCEPT ![r] = t]
  /\ db' = [db EXCEPT ![t].cells = @ \cup new]
  /\ keep' = [keep EXCEPT ![t] = @ \cup new]

Store ==
  /\ pc = "ready"
  /\ \E t \in Tables, r \in Rows :
       \E fields \in SUBSET wanted[t] : StoreRow(t, r, fields)
  /\ UNCHANGED <<wanted, clock, process, misses, crashes, releases>>

Tick ==
  /\ clock < MaxSecond
  /\ clock' = clock + 1
  /\ UNCHANGED <<db, wanted, process, keep, owner, misses, crashes, releases>>

-----------------------------------------------------------------------------
\* The foreign tables are there, with rows; the others are not.
Init ==
  /\ wanted \in [Tables -> SUBSET Columns]
  /\ owner \in [Rows -> Foreign \cup {NoOne}]
  /\ \E cols \in [Foreign -> SUBSET Columns] :
       db = [t \in Tables \cup Seconds |->
               IF t \in Foreign
               THEN [exists |-> TRUE, key |-> "text", cols |-> cols[t] \cup {Pk},
                     cells |-> {r \in Rows : owner[r] = t}
                                 \X (cols[t] \cup {Pk})]
               ELSE NoTable]
  /\ keep = [t \in Tables |->
               {x \in db[t].cells : x[2] \in wanted[t] \cup {Pk}}]
  /\ clock = 0
  /\ pc = "idle"
  /\ todo = {} /\ table = NoOne
  /\ missing = {} /\ surplus = {} /\ copied = {} /\ keyed = FALSE
  /\ temp = 0
  /\ miscopied = FALSE /\ misread = FALSE /\ crashes = 0 /\ releases = 0

\* The statements of update_database, and the retry after it threw.
Update ==
  \/ Start \/ NextTable \/ Return \/ CreateTable \/ AddField \/ TableDone
  \/ RemoveField \/ CreateTemp \/ CopyRows \/ DropTable \/ RenameTable
  \/ Refused

Next == Update \/ Stop \/ Crash \/ Release \/ Store \/ Tick

Spec == Init /\ [][Next]_vars

\* The program runs once started, is started again after an exception, and
\* time passes.
FairSpec ==
  Spec /\ WF_vars(Update) /\ WF_vars(Stop /\ pc = "threw") /\ WF_vars(Tick)

-----------------------------------------------------------------------------
(* Properties.                                                             *)

\* Every cell the program stored in a field that is still in the model is in
\* its table or in a temporary table.
RowsSomewhere ==
  \A t \in Tables : \A x \in keep[t] :
    \E s \in {t} \cup Seconds : x \in db[s].cells

\* No crash between two statements of a removal, no exception, no leftover of
\* an earlier removal, no failed read of table_exists or update_table and no
\* statement that fails unnoticed loses a value: only a copy that failed, or a
\* read of remove_field that overlooked a field or the key, can.
NothingLost == ~miscopied /\ ~misread => RowsSomewhere

\* Unless the process died at some time, the rows are in the table itself
\* whenever update_database is not running, and it has not thrown.
RowsInPlace ==
  crashes = 0 /\ pc \in {"idle", "ready", "threw"}
    => /\ pc # "threw"
       /\ \A t \in Tables : keep[t] \subseteq db[t].cells

\* When update_database returns, each table has the fields of its model and
\* the key.
FollowsModel ==
  pc = "ready" =>
    \A t \in Tables :
      db[t].exists /\ db[t].cols \ Stamps = wanted[t] \cup {Pk}

\* The timestamps columns of a model that asks for them are there.
TimestampsKept ==
  pc = "ready" => \A t \in Timed : Stamps \subseteq db[t].cols

\* A table that has lost its key, to a misread, and whose model has no fields
\* left: the temporary table of its last removal would have no column.
Stuck == \E t \in Tables : wanted[t] = {} /\ db[t].exists /\ db[t].key = "none"

\* Whatever was released, whatever failed and whenever the process died,
\* update_database returns in the end, unless a table without a key is to
\* lose its last field.
Converges == []<>(pc = "ready" \/ Stuck)

=============================================================================
