# A verification project for cpp-active-record

TLA+ models of the C++ ActiveRecord library in this repository, checked with TLC
on small instances and, where it matters most, proved with TLAPS for all of
them. Line references are to the repository, in the form `file:line`.

## 1. Inventory

The library is single threaded and in-process. Its concurrency is of another
kind: several objects of one program stand for one row, several statements make
one operation, and the process may die, or a statement fail, between any two.

| Part | State | Operations | Talks to |
|---|---|---|---|
| `Base<T>` (`include/active_record/base.h`) | `state_` (blank, prepared, unsaved, loaded), `id_`, `attributes_`, names looked up by `prepare` | constructors, `init`, `operator[]`, typed getters, `save` (`create`, `update`), `to_string`, `has_many`, `belongs_to`, `setup` | the registry of its connection (`get_table`), `insert`, `execute`, `select_one`; `Query` for associations |
| `Query<T>` (`query.h`) | conditions, orderings, limit, offset | `where`, `order`, `limit`, `offset`, `all`, `first` | registry, `select_values`, `select_one`; makes `T(id)` objects |
| `Connection` (`connection.h`, `src/connection.cpp`) | the registry `tables_` (class name to `Table`) | `set_table`, `get_table`, `update_database`, `begin_transaction`, `commit` | `TableSet`, the adapter's `execute` |
| `TableSet`, `Table`, `Fields` (`src/table_set.cpp`, `src/table.cpp`, `field.h`) | fields, primary key, timestamps flag of each model | `create_table`, `update_table`, `update_database`, `add_field`, `remove_field`, `operator-` | `table_exists`, `table_data`, `execute`, `remove_field` of the adapter |
| SQLite adapter (`src/sqlite/`) | the handle `db_`; behind it the file: tables, rows, `last_insert_rowid`, open statements, an open transaction | `connect`, `disconnect`, `execute`, `insert`, `select_*`, `schema`, `table_data`, `remove_field`, private `prepare`, `bind_parameters`, `cleanup` | SQLite |
| PostgreSQL adapter (`src/postgres/`) | the handle `pgconn_` | the same, plus database creation | libpq |
| Values (`attribute.h`, `date.h`, `type.h`, `row.h`, `src/conversions.cpp`) | a variant and `initialised_`; a `struct tm` | comparison, `from_field`, `Date::parse`, `to_type` | - |
| Logging, exceptions, options, printing; build, examples, profiling, vendored headers | none that another part reads | - | - |

What makes it hard to test:

- **Hidden loads.** An accessor, `to_string` and `save` may each read the row
  and replace `attributes_` whole. Whether that throws an assignment away
  depends on the order of calls, on copies and on earlier failures.
- **Failures nobody reports.** `execute` and `insert` ignore the result of
  `sqlite3_step` (`sqlite3_connection.cpp:58`, `:74`), and `select_all` takes a
  failed one for the end of the rows (`:109`). A statement that does not
  *compile* throws; one that fails while it *runs* is taken for a success, or for
  an empty answer.
- **Procedures of several statements.** `update_database` is a series of
  autocommitted statements; `remove_field` creates, copies, drops and renames.
  A crash leaves a temporary table behind, and the next start has to cope.
- **Identity.** There is no identity map: copies and several objects of one row
  are normal. `last_insert_rowid` is state of the connection, and SQLite reuses
  the rowids of deleted rows.

What makes each part correct:

- *Records*: what is assigned is kept until saved; when `save` returns it is
  stored in the object's own row; an object inserts one row at most; the id is
  that of the inserted row.
- *Migration*: no value of a field that is still in the model is lost; when
  `update_database` returns the tables follow the models; it returns in the
  end, whatever interrupted it before.
- *Query*: `all` and `first` give what the calls on the query asked for.
- *Associations and registry*: `has_many` gives the books that refer to a
  library and `belongs_to` the library a book refers to; classes may be set up
  in any order.
- *Handle and transactions*: `connected()` means a usable handle of one's own;
  what is committed is stored; no lock and no handle stays for no reason.
- *PostgreSQL adapter*: the same as for the migration, and a transaction of the
  program is committed whole, when the program says so.
- *Values*: what is written is what is read back.

## 2. Modules

| Module | What it is |
|---|---|
| `BaseRecord` | the life of `Base<T>` objects over one SQLite table |
| `MCBaseRecord` | its small instances |
| `RecordStore` | abstract: what a program may take records for |
| `BaseRecordImplements` | the refinement mapping from `BaseRecord` to it |
| `BaseRecordProofs` | types; pending assignments are kept; one row per object, own id, what is saved is stored; `BaseRecord` implements `RecordStore` |
| `UpdateDatabase` | `update_database` on SQLite, statement by statement |
| `MCUpdateDatabase` | its small instances |
| `Migration` | abstract: what `update_database` may do to a table |
| `UpdateDatabaseImplements` | the refinement mapping from `UpdateDatabase` to it |
| `UpdateDatabaseProofs` | types; nothing is lost; the model is followed; rows are in place; `UpdateDatabase` implements `Migration` |
| `Postgres` | the PostgreSQL adapter: `update_database`, transactions, `insert`, `save` |
| `PostgresImplements` | the refinement mapping from `Postgres` to `Migration` |
| `MCPostgres` | its small instance |
| `PostgresProofs` | types; what is committed is kept; a transaction is whole, and stored by `commit`; the model is followed; `Postgres` implements `Migration` |
| `SqliteHandle` | connections to one SQLite file: handles, statements, transactions, locks |
| `MCSqliteHandle` | its small instance |
| `SqliteHandleProofs` | types; handles are a connection's own; what is told is stored; why locks and handles stay |
| `QueryClauses` | the SELECT a query writes and what the databases make of it (operators only) |
| `Query` | `Query<T>` objects: builders, copies, assignments, `all`, `first` |
| `MCQuery` | its small instance |
| `QueryClausesProofs` | lemmas only: what each clause says, when a SELECT compiles, what it answers |
| `QueryProofs` | types; what `all` and `first` give, for every query |
| `Associations` | registry, `setup`, `has_many`, `belongs_to`; uses `QueryClauses` for its queries |
| `MCAssociations` | its small instance |
| `AssociationsProofs` | types; setup is enough; `has_many` is exact; who is adopted; late reads |
| `Values` | a value on its way into a column and back, over both adapters |
| `MCValues` | its small instance |
| `ValuesProofs` | types; what survives, what can be read, what NULL does, that values settle |

Operators whose comment begins with *Mutant* are plausible bugs, one for the
definition that follows each. They are used by no specification: substituted for
that definition they break the property listed with them in `PROJECT.json`,
which shows that the property can fail.

### BaseRecord

One call of the public interface is one action, because nothing runs between two
of its steps but SQLite itself. `rec[r]` holds the members of an object; the table
is `stored` (ids), `cell` (columns) and `lastRowid`.

| Action | Code |
|---|---|
| `Construct`, `Copy` | `base.h:60` (also the objects `Query` makes), the implicit copy |
| `InitWith` | `init`, `base.h:70` |
| `Read`, `Assign` | `operator[]` and the getters, `base.h:83-116`; a read makes an entry for a name that has none |
| `to_string` | `base.h:259`, which loads behind a `const` |
| `AccessThrows` | any of these, when `load` throws |
| `Create`, `Update` | `save`, `base.h:149`, with every way it can end |
| `Delete` | a `DELETE` through `Connection::execute` |

A value is a word the program assigns, `Zero` (the integer 0 or its image `'0'`),
`Unset` (`Attribute()`), `Absent` (no entry) or, in a cell, `Null`. `Bind` and
`FromField` say what `bind_parameters` and `from_field` make of them: an `Unset`
is written as 0 because `bind_parameters` asks `which()` and never `has_data()`;
a `NULL` comes back as 0 from a numeric column and as `Unset` from the others; a
DATE column that holds 0 cannot be parsed and its row cannot be loaded.

`assigned`, `made` and `creator` are history: what the program assigned since
the last save, how many rows an object inserted, and whose insert made a row.

Left out: the entry of the primary key in `attributes_` (`create` and `update`
skip it), types of values that do not match their column, and values beyond 32
bits.

Three constants switch on parts of the environment: `StepsFail` (a step may fail
unnoticed), `RowsVanish` (rows are deleted), `InitIdentified` (`init` is called on
an object that has an id).

### RecordStore and BaseRecordImplements

`RecordStore` is the record a program has in mind: an id, the values assigned and
not saved yet, and a table of rows. `Insert` puts the pending values in a row
under an id no row has, `Write` in the object's own row; nothing else touches a row,
no read has an effect, and a call that throws has none. There is no `state_`, no
`attributes_` and no load. The mapping is short: `id` is `id_`, `pending` is
the history variable `assigned`, `rows` is the table. `ImplementsStore` says
that every step of `BaseRecord` is a step of the store or invisible.

Two things are weaker than one would wish, and the code needs both. `Write` may
leave any value in the columns the program did not assign, because `update`
writes all of `attributes_`: an older value if another object saved the row in
between, or 0 where there was `NULL`. `WriteNothing` lets a save succeed when the
row is gone, because `UPDATE` then matches nothing and `execute` returns true.

### UpdateDatabase

`pc` says which statement comes next; each statement is one action, because each
commits by itself. `db` holds the tables of the file: the registry's, and the
temporary ones, which are named by the second of the clock in which they were
made (`temp_table_name`). A cell is a pair of a row and a column.

| Action | Code |
|---|---|
| `Start`, `NextTable`, `Return` | `update_database`, `table_set.cpp:75`, with `table_exists`, `table_data` and both differences of `update_table` |
| `CreateTable` | `create_table`, `table_set.cpp:15` |
| `AddField`, `TableDone` | the loops of `update_table` |
| `RemoveField` | `remove_field` up to its first statement |
| `CreateTemp`, `CopyRows`, `DropTable`, `RenameTable` | its four statements, `sqlite3_connection.cpp:296-310` |
| `Crash`, `Stop`, `Tick`, `Release`, `Store` | the process, the clock, a new version of the models, the program storing a row once `update_database` returned |

A statement that does not compile throws out of `update_database` (`Throws`); one
whose step fails changes nothing and the procedure goes on (`Executes`). Both are
taken from what SQLite does: `CREATE TABLE` of a name in use and `ADD` of a column
that is there do not compile, a text does not fit an `INTEGER PRIMARY KEY` and fails
at its step.

Reads fail, too (`StepsFail`). `select_all` takes a failed step for the end of the
rows, so `table_exists` may not see a table, `primary_key` not the key, and
`table_data`, whose PRAGMA is another one, only some of the columns: each is the set
of answers the program may get. A column whose key was not found is a field like any
other. In `update_table` this leads to a `CREATE` or `ADD` that throws, or to columns
added or removed wrongly; in `remove_field` to a temporary table without some wanted
fields or without the key, whose rows are then all there is: `misread` records that.
A table that has lost its key stays without one (`key`), and when its last field is to
go, `CREATE TABLE` of no columns throws each time (`Stuck`). `Refused` is a
`sqlite3_prepare_v2` that fails by itself. The columns a failed read still gives may
be any, since their order in the table is left open; the value SQLite puts in the key
of a row that had none is not followed.

The registry is a `std::map` by class name and a model lists its fields in an
order: `NextTable`, `AddField` and `RemoveField` allow any order, which includes
it. `Foreign` tables were made by another tool with text keys. Not modelled:
models without a primary key, changes of a column's type, which `operator-` does
not see, and columns of a type the library does not know, for which
`table_data` throws.

`keep` is history: the cells stored in each table that no release has asked to
remove. Removing a field from the model is the request to drop its values.

### Migration, UpdateDatabaseImplements, PostgresImplements

`Migration` is what both adapters promise of a table while models change: it
stays, fields of the model keep their values, columns come only from the model,
and no other row appears. `Legal` relates a table before and after a step;
`Release` changes a model. SQLite's `remove_field` is not one step, so `Vanish`
lets a table disappear as a whole there (`Interruptible`): the process died
between DROP and RENAME. For PostgreSQL, whose `remove_field` is a transaction,
`Interruptible` is false. `KeyAtRisk` is the one weakness of its own: when the
SELECT of `primary_key` fails, the key's column looks like a field that no model
has and is dropped.

The mapping for SQLite takes the temporary table for the table between DROP and
RENAME; for PostgreSQL it takes the committed tables.

### Postgres

`db` is what is committed, `work` what the session sees, `tx` the state of its
transaction, `link` the pointer `pgconn_`. As in `UpdateDatabase`, `pc` says which
statement of `update_database` comes next.

| Action | Code |
|---|---|
| `Start`, `table_exists`, `create_table`, `TableDone`, `Return` | `TableSet::update_database`, `create_table`, `update_table` with `postgresql_connection.cpp:105` |
| `primary_key`, `table_data` | `postgresql_connection.cpp:262-336` |
| `add_field` | `table.cpp:11` |
| `remove_field`, `AlterTable`, `CommitRemoval` | `remove_field`, `postgresql_connection.cpp:338-349`, one statement each |
| `connect`, `disconnect`, `begin_transaction`, `commit` | `postgresql_connection.cpp:66-99`, `connection.cpp:28-34` |
| `insert` | `execute` and `insert` of a statement the program wrote |
| `save` | `Base<T>::create` over this adapter |
| `create_database`, `drop_database` | `postgresql_connection.cpp:19-50` over this session |
| `Lose`, `Restart`, `Release`, `CreateIndex` | the session, the process, a new version of the models, another client |

Of the server it has what the adapter runs into: a statement that fails in a
transaction makes every later one fail and its COMMIT roll back with success,
BEGIN in a transaction is a warning, DDL is transactional, CREATE and DROP
DATABASE are not. The adapter throws from `connect` only; every other error is
logged, and a query that fails is an empty answer. `keyless` are models that set
an empty primary key, `Timed` those that ask for timestamps, whose columns
`create_table` adds and `update_table` removes (`Stamped`). Fields are read once for each index (`FieldsRead`), as
the join with `pg_index` gives them; `surplus` therefore counts a field per index.

Whether the server stores a row depends on the statement (`Insertable`): the table and
its columns must be there, the key must get a value (the adapter declares it
`INTEGER PRIMARY KEY`, without a default) and the placeholders must be `$1`, `$2`
and so on (`Parses`). `insert` is the program's own statement and meets this; `save`
writes `?`. With `$1` in its place it would still give a table with a key no value
for it, so over this adapter `save` stores nothing for two reasons. `saved`
only records saves that had every chance: a session, no open transaction, a table
with the columns, a value to store.

### SqliteHandle

Several `Sqlite3Connection` objects over one file. `db_[c]` is the pointer; a
handle has its transaction, what it wrote, its lock, and the statements left on
it: `idle` ones at their end, `reading` ones in the middle of their rows. Handles
are addresses, which `sqlite3_open` may give out again after a close; a failed open
leaves such an address in `db_`.

| Action | Code |
|---|---|
| `connect`, `ConnectFails`, `disconnect` | `sqlite3_connection.cpp:11-28`, `:431` |
| `execute` | `execute` and `insert`, `:49-79` |
| `begin_transaction`, `commit` | `connection.cpp:28-34` |
| `select` | `select_one`, `select_all`, `select_values`, which finalize |
| `select_value` | `:137`, without a row: it returns and leaves its statement |
| `PrepareThrows`, `RowThrows` | exceptions out of `prepare` and out of `Row(ppStmt)` |
| `Restart` | the end of the process |

The locks are those of SQLite's rollback journal without a busy timeout: SHARED,
RESERVED and PENDING; EXCLUSIVE is held within one action only. A call on a
handle that was closed is refused (SQLite's own check); where the address was
given out again it works on the other connection's handle. `told`, `unit`,
`cause` and `trouble` are history.

### QueryClauses and Query

`QueryClauses` translates `query.h:132-230`: each clause is a sequence of terms, a
term a key word and what follows it, so that the comparison by which the first
condition is recognised gives a second WHERE when a condition is repeated.
`Compiles` is the grammar of the clauses, `Selected` the answers a database may give
(any order the ORDER BY allows). A condition has a placeholder, `?` or `$n`.

In `Query` an object is the record of its members. `Derive` calls a builder on `q`
and keeps the copy it returns in `r`; both changed. `Assign` is `operator=`, which
changes neither object. `asked` is history: what the calls would have asked for were
each builder a function of the object it is called on and did an assignment assign.
`builtOn` and `ignored` are the objects that differ from it for these two reasons. The
properties say nothing of what an object holds that something was assigned to: no
property requires `operator=` to do nothing. `all` and `first` change nothing, so they
are operators the properties evaluate in every state.

### Associations

Libraries have books, and books keep a `library_id`. `tables_` is the registry: a
class is absent, set, or *empty* after a `get_table` nobody had set it up for.
`connection_` is the static member `setup` sets; `down` says that a null pointer
was followed.

| Action | Code |
|---|---|
| `setup` | `base.h:242`, with classes whose `table()` gives no name |
| `Use` | a query or an object of another class |
| `update_database` | `table_set.cpp:75`, through the registry |
| `Construct`, `init`, `save`, `access` | a Library object: `base.h:59-116`, `:307`, with the look-up of `prepare` |
| `has_many` | `base.h:119`, over `Query::all` |
| `accessBook` | the late load of an object of the answer |
| `NewBook`, `MoveBook` | a book saved with a library's id |
| `InsertLibrary`, `DeleteLibrary`, `DeleteBook` | other statements on the rows |
| `Restart` | the process; the database stays |

`meant`, `row`, `dead`, `changed` and `early` are history: which library a program
meant by an id, which were deleted, which rows were written since an answer.
`belongs_to` has no effect and is an operator. What else happens to an object is
in `BaseRecord`; the statements here fail only when their table is not there or
its name is unknown.

### Values

One column of each type, rows, and every `Attribute` a program may pass or another
tool may store, through `bind_parameters`, the database's own conversions (column
affinity in SQLite, assignment casts in PostgreSQL) and `from_field`. Integers keep
a width: `IntHalf` stands for 2^31, and `AsInt` takes the low bits as `sqlite3_bind_int`
and `sqlite3_column_int` do. A text is a form and a content, a real a number of
quarters of which `%f` shows the halves, a `Date` a day and the fields of `struct tm`
that only `gmtime_r` fills in. `to_string` writes the year without zeros, so
`ServerDay` says what PostgreSQL reads when the year has one or two digits: with its
default `DateStyle` (`ISO, MDY`) month, day and a year from 1970 to 2069. Days have a
year from 0 and a month and a day of two digits at most; the calendar has leap years.

Actions: `Write` (`execute` and `insert`), `WriteBack` (what `update` does with what
`load` read), `select_one`, `select_all`, `OtherTool`.

## 3. Runs

| Run | Question | Instance |
|---|---|---|
| `record_alone` | Do assignments survive, are they stored, and does a record behave like the abstract store, on a table nobody else touches? | 2 objects, INTEGER and DATE column, 1 value, 2 rowids |
| `record_hostile` | What is left of it when statements fail, rows vanish and names are misspelt? | 2 objects, DATE column, 1 misspelt name |
| `update_crash` | Is anything lost, mixed up between tables or left wrong, by crashes and releases? | 2 tables, 2 fields, 2 rows, 3 seconds, 2 crashes, 2 releases |
| `update_steps_fail` | What does a statement or a read that fails unnoticed lose, and does `update_database` return in the end? | 1 foreign table, 2 fields, 1 row, 2 seconds, 1 crash, 1 release, failing steps and reads, fairness |
| `update_timestamps` | Do timestamps survive the second start? (no) | 1 table with timestamps |
| `sqlite_handle` | Is what the program takes for stored in the file; which locks and handles stay, and why? | 2 connections, 3 addresses, 1 row, 1 leaked statement per handle, failing opens |
| `query` | Does a query find what was asked, however it was put together? | 2 objects, 2 tables of 3 rows, 2 conditions, 2 orderings, limits 0, 1 and negative, offsets 1 and negative, 4 terms, both adapters |
| `associations` | What do `setup` in any order, late reads and reused rowids do to `has_many`? | 1 library object, 3 classes, 1 nameless, 2 rowids, 3 libraries in all |
| `associations_belongs_to` | Does `belongs_to` find the owner? (no) | the same |
| `postgres` | What do failing statements, lost sessions and the program's transactions leave in the database? | 1 table with timestamps, 2 fields, 1 row, 2 indexes, 1 release, failing steps |
| `postgres_save` | Is a saved record in the database? (no) | the same, no statement fails by itself |
| `values` | Which values survive the way into a column and back? | an int of 3 bits, 6 integers, 4 reals, 6 days, 2 rows, all column types of both adapters |

What the passing runs show, beyond the names of the properties:

- `ImplementsStore` holds though `save` may be called on a record without
  attributes, whose `update` reads `SET  WHERE` and throws (`base.h:371`): the store
  is not changed by a call that throws.
- `Durable`: the program may rely on what it wrote unless a step failed, an exception
  left a transaction, or an open failed; nothing tells it that one did.
  `LockHasReason` lists the five ways a lock stays behind.
- `NothingLost`, `Converges` where steps and reads fail: all that can be lost is what
  a failed copy did not copy or a misread of `remove_field` left out; and only a table
  that lost its key and is to lose its last field keeps `update_database` from
  returning.
- `AllAnswers`: a query whose first condition or ordering is repeated finds
  nothing (SQLite throws); a query from which others were derived has their
  conditions as well. `FirstIsAtOffset` counts rows instead of sorting them: which
  ones may stand behind as many others as the offset skips.
- `FollowsModel` of PostgreSQL: the fields of the model and the key, and no more
  besides than timestamps of a model that asks for them.
- `SetupSaves`: the program goes down, or an object is lost to an empty table name,
  only if a class was used before its setup had succeeded.
- `AdoptedFromTheDead`: rows that outlive their library come to the library that is
  given its rowid.
- `UnitWhole`, `CommitMeansStored`: a transaction of the program is cut in two by a
  `remove_field` inside it, and only by that; and its COMMIT may be believed unless
  something failed before.
- `RoundTrip` names exactly the values that survive (on PostgreSQL no `Date` before
  the year 100 does: `1-12-31` comes back as January 12th of 2031);
  `StoredIsReadable` the columns
  that cannot be read at all (a VARCHAR made by another tool on SQLite, the library's
  own FLOAT on PostgreSQL) and the DATE column that was given something else, among
  it an unset `Attribute`, which is bound as 0. `Settles`: values change at most once.

Runs with the answer *no* are expected to be violated; each is a disagreement of
the code with its own tests or documents:

- `update_table` removes `created_at` and `updated_at`, which are in no model's
  fields (`doc/GETTING_STARTED:24`, `test/table_set_test.cpp:71`).
- `belongs_to` looks the owner up by the item's own id; the test passes because both
  ids are 1 (`base.h:145`, `test/base/associations.cpp:98`).
- `create` writes `?` placeholders, which PostgreSQL does not parse; the error is
  logged and `save` returns true, with a session, a table and its columns there
  (`base.h:327`; `README.md:11-12` lists PostgreSQL, and `test/base/save.cpp:11-12`
  expects an id). The trace connects, runs `update_database` and saves.

Others that the models show, without a run of their own:

- `insert` returns whatever `last_insert_rowid` is when its step failed, and `save`
  returns true (`test/base/save.cpp:11-12` asserts an id): `InsertResult`.
- Reading a record and saving it writes `'0'` into a TEXT column that "hasn't been
  set" (`sqlite3_attribute.cpp:32`): `Bind`, `Binds`.
- A record without attributes can be created and not saved again
  (`test/base/save.cpp:15`): `Update`.
- `init` on an object with an id is undone by the load of the next access
  (`test/base/attributes.cpp:44`): `AssignedKept` fails if `InitIdentified` is TRUE.
- A failed PRAGMA in `remove_field` loses the values of wanted fields, or the key with
  its type (`sqlite3_connection.cpp:109`, `:181`): `NothingLost` excuses it as `misread`.
- `remove_field` on a table with text keys copies nothing and drops the table
  (`sqlite3_connection.cpp:302`): `RowsSomewhere` fails, `NothingLost` excuses it.

### Bounds

Two objects are enough for what objects do to each other: a copy, a second
object of one row, an id given to one of two inserts. Two rowids let one insert
follow another, let a deleted row's rowid come back and let an object be
constructed for a row that is not there. One INTEGER and one DATE column are the
two ways a `NULL` comes back; a TEXT column differs from a DATE column only in
that its 0 can be read.

Two fields let one be removed while another is kept, and let two be removed in
one call; three seconds let a removal meet a leftover with its own name or not;
two crashes let the second one hit the recovery from the first. A crash, and in
`update_steps_fail` a failing step (`MayFail`), is not allowed in the last second: the
clock of the model stands still there, so a leftover's name would be taken for
ever, which no real clock does. `update_steps_fail` has one row, one crash and one
release: with every read failing in every way that is enough for a removal, its
interruption and a second one, and one row is lost or not by itself.

Two connections and three addresses let a handle be forgotten or left unclosed
while both connections have another. One leaked statement per handle (`MaxLeaks`)
is what keeps `sqlite3_close` from working; a second changes nothing. One row
(`Keys`) is enough for a transaction to have something to commit.

In `query`, four terms over both objects let one of them hold a repeated condition
with a limit and an offset, or the two differ; three rows tie on either column or
on none. What was assigned to an object, and once more the assignment, count as terms. In `associations` two rowids and three libraries let a rowid be used
again while the other is taken; the third, nameless class is one whose
setup throws and whose name comes after the others. In `postgres` one table
suffices because the adapter treats tables one after the other; a second index is
what makes a field appear twice.

In `values` the integers include both ends of the int, one beyond each, and 0; the days
one of the year 1 that reads as another, one of the year 13 that reads as none, one
that is no day but reads as one, a leap day, a 29th of February of no leap year and
a 13th month in a year of three digits.

`MaxSecond`, `MaxCrashes`, `MaxReleases`, `MaxId`, `MaxLeaks`, `MaxTerms`, `MaxBorn` and
`MaxIndexes` are the only bounds.

Symmetry is used on objects, values, fields (in `postgres`, too), rows, connections and addresses where no
definition tells them apart; not in `update_steps_fail`, which checks liveness.

### Fairness

`FairSpec` of `UpdateDatabase` assumes that the program, once started, goes on to its
next statement (it is a sequence of C++ calls), that it is started again after an
exception, and that time passes. Nothing is assumed of crashes, releases or failing
steps and reads. `Converges` excepts `Stuck`, a table without a key that is to lose its
last field: no later start of the code gets past it. No other module has a liveness property: every other operation is a call that
returns.

## 4. Proofs

All theorems hold for every set of objects, columns, tables, fields, rows and values,
and for every bound. They rest on the named assumptions of the modules and, where a
theorem says so, on a switch of the environment being off.

| Assumption | Says |
|---|---|
| `SentinelAssumption`, `NamesDistinct`, `HandleAssumption` | the sentinels differ from each other and from the values; seconds are no table names |
| `KindAssumption`, `NameAssumption`, `SubsetAssumption`, `SwitchAssumption` | the constants are what they are named for |
| `PostgresAssumption` | the primary key and the timestamps are none of the columns, timed tables are tables, and the bounds are numbers |
| `AssociationsAssumption` | the classes Library and Book exist and have table names |
| `QueryAssumption` | a table has finitely many rows; a condition is a column and a value; limits and offsets are integers |
| `ValueAssumption` | an int has a positive half range, integers are integers, a day is a year from 0 and a month and a day of two digits at most |
| `BoundAssumption`, `LeakAssumption` | the bounds are natural numbers |

**Records** (`BaseRecordProofs`). `TypeCorrect`: one lemma per action.
`AssignedIsKept` (if `init` is called on new objects only): `AssignedKept` is not
inductive, since an object about to be loaded would lose its assignments. `KeptInv`
adds that an object with a pending assignment either has no id or is loaded, so no
load is about to happen. `InsertsAtMostOnce` (`OnceInv`): an object that inserted a
row has an id, even if it is 0 or another row's, so `save` never reaches `create`
again. `CreatedIdIsOwnRow` and `AssignedIsStored` (if no step fails and no row is
deleted) rest on `OwnInv`: an object that is loaded has a row, and one that inserted a
row has the id of that row and is its creator. `RecordsImplementStore` (if no step
fails and `init` is called on new objects only; rows may be deleted): each action of
`BaseRecord` maps to the operation of the store with the same name, or to a stutter.
Beyond `KeptInv` it needs `NewInv`, that an object without an id holds nothing the
program did not assign, so that the row `create` makes is blank elsewhere, and
`OwnInv` where nothing is deleted, so that `update` finds its row.

**Migration** (`UpdateDatabaseProofs`). `TypeCorrect`, with the strengthening `Typed`:
while a table is at hand it is one of the registry's. `NothingIsLost` uses `SafeInv`:
whatever `DROP TABLE` takes is in the temporary table by then. That needs that a
removal only removes what the model does not want (`SurplusUnwanted`), so that the
columns copied hold everything to be kept (`CopiedWanted`, `KeepWanted`); that the
temporary table was made for this copy and not left over from another one
(`FreshTarget`, from the failure of `CREATE TABLE` on an existing name); that the copy
was done (`CopyDone`); and, for the rename, that what is in the temporary table
belongs to the table it is renamed to (`Owned`). It holds whatever `table_exists` and
`update_table` fail to read, since a table taken for missing and a column taken for
missing are refused by SQLite and only what was read can be removed; what
`remove_field` fails to read is `misread`, its only excuse besides a failed copy.

`ModelIsFollowed` (if no step fails; crashes, exceptions, foreign tables and leftovers
are all allowed) uses `FollowInv`, which is `SafeInv`, `TurnInv` and `DoneInv`.
`DoneInv`: a table whose turn is over has the fields of its model. `TurnInv`: the
table whose turn it is is on its way there (`OnTheWay`: what is wanted is there or
still to be added, what is there and not wanted is still to be removed); during a
removal the same is true of the temporary table, which is there from its CREATE to its
RENAME. No crash disturbs this, because a start begins again from what is in the file.
`RowsAreInPlace` (also no foreign tables) adds that no key is a text (`KeysFit`), so
every copy succeeds, and that a program that never died has no temporary table but the
one it works on (`NoLeftover`), so every CREATE does; `NothingLost` and `FollowsModel`
give the rest. `UpdateImplementsMigration` (same hypotheses, any crashes) maps each
statement to a `Change`, or to nothing: the DROP TABLE because the mapping then looks
at the temporary table, which has the rows and the fields of the table it replaces,
the RENAME because it puts back what the mapping shows already, and a crash between
the two to `Vanish`.

**Connections of SQLite** (`SqliteHandleProofs`). `TypeCorrect` needs only that the
bound on leaks is a number. `HandleIsOwn`: `OwnHandle` is inductive with the types,
because `connect` takes an address no open handle has and `disconnect` resets `db_`.
`ToldIsStored`: `Durable` rests on `UnitKept`: while nothing has gone wrong, a
transaction open on a connection's handle is the program's unit and holds what the
program wrote in it, so the COMMIT that `commit` sends stores it. A unit may have no
transaction (the handle was replaced by a `connect`); then each write was committed by
itself or failed. `OwnHandle` is needed so that a step of one connection does not
touch the transaction of another. `LocksHaveReasons` uses `ReasonInv`: a lock belongs
to a transaction or to a statement in the middle of its rows (`LockOf`), and a
transaction to a unit under way or to one of the causes (`TxHasReason`), again while
handles are a connection's own. `HandlesAreClosed`: `NoOrphans` is inductive by
itself, failing opens included.

**PostgreSQL** (`PostgresProofs`). `ServerInv`: the session's view differs from the
committed tables only in a transaction, and a session that is gone has none; a table
that does not exist is empty. `ListInv`: what `update_table` is about to remove is not
in the model, and is the key only if the query for it failed by itself. A failed query
on a session that is dead or in a failed transaction is harmless, since every later
statement fails, too, and `table_data` then reads no fields. `KeepInv` adds that what
is kept, and what the unit stored, is in fields of the model, so a DROP COLUMN takes
none of it (`CommittedIsKept`). `UnitInv`: while nothing has gone wrong the unit's
rows are where the session sees them and, up to `remove_field`'s own COMMIT, nowhere
else (`UnitIsWhole`); only `commit` ends a unit over a living session
(`CommitStores`). `ModelIsFollowed` (for timed models: with timestamps or without) needs that nothing failed unnoticed (`Noticed`),
that a table with a key has an index for it, so that `table_data` lists its columns
(`KeyInv`), and `TurnInv`, the counterpart of SQLite's. `PostgresImplementsMigration`
has no hypothesis. Its `LegalInv` says that the session's view of each table is one
`Migration` may take the committed table to: so whoever sends the COMMIT, the program,
`remove_field` in the middle of the program's transaction, or nobody, the step is
legal. `UnreadMeans` confines the risk to the key to where a statement may fail by
itself.

**Queries** (`QueryClausesProofs`, `QueryProofs`). The lemmas say what the code's
tests for the first and the last element of a vector make of a whole clause: a list
whose first element is not repeated is written with one key word and commas or ANDs,
any other with a second WHERE or ORDER BY, which does not compile; from which follow
when a SELECT compiles and which rows it may answer. `Inv` says that a query that no
builder was called on in passing and nothing was assigned to is what was asked, that
PostgreSQL's placeholders of what was asked are numbered from 1 without a gap, and
that a query nothing was assigned to has every condition that was asked of it. From it
`AllIsAnswered` and `BuiltOnOnlyNarrows` follow for any number of clauses, where the
run has four terms. `FirstIsAtOffset`, which compares counts with positions in
arrangements, is only model-checked.

**Associations** (`AssociationsProofs`). `SetupIsEnough`: `SetupSaves` is inductive
with the types of the registry: a class is in the registry without a table name only
because it was used before its setup, which is what `early` records. `HasManyIsExact`
needs no history: the query that `has_many` builds is fruitful, and its answer is a
list without repetition of the rows that match, by the lemmas on clauses.
`OnlyTheDeadAreAdopted` uses `OwnerInv`: a loaded object has the row of some library
(`LoadedRows`), and what an object or a book has recorded as the n-th library still
has the rowid recorded with it, or is dead (`OwnersRecorded`); a rowid is given out
again only once the row that had it is gone. `LateReads` uses `ReadInv`: an object of
the answer whose row was not written since reads, whenever it loads, what the answer
was selected by.

**Values** (`ValuesProofs`). One lemma per conversion (`bind_parameters`, the
database's, `from_field`, of both adapters) says what it does to an attribute of each
type; the way of a value is their composition (`RoundTripIs`). `Inv` connects the
variables: what was read from a row is what its cell gives, and what was written to it
is what the cell was made of. `LowBits` is the arithmetic of an int of any width: the
low bits of an integer are an int, and an int's are itself. `ServerDayIs` says what
the server reads of a day: for a year below 100 never the same day. `ValuesSettle` is an
action property: a cell made of a value that was read gives that value again.

TLC finds the inductive invariants of records, migration, connections, associations
and PostgreSQL (`LegalInv` aside) to hold in every state of the runs above. The
theorems state every property of the passing runs but two: `FirstIsAtOffset`, which
needs an argument by counting, and `Converges`, that `update_database` returns in the
end, a liveness property under fairness, out of the prover's reach. So are `ENABLED` (TLC checks deadlock), induction over data, and
RECURSIVE operators, which no module here has. The violated properties are
counterexamples TLC finds, and have no proof to look for.

## 5. What is left

Done, in this order: records, their proofs, the migration of SQLite, its proofs, the
abstract store, `SqliteHandle`, `Query`, `Associations`, `Postgres`, `Values`,
`Migration`.

To prove next, where a theorem says less than it might: of a run of `update_database`
whose steps may fail (`StepsFail`), what a failed `ADD COLUMN` or copy leaves of
`FollowsModel` and of the refinement; and which of a record's stored values survive when
rows are deleted, for `AssignedIsStored`.

### Not modelled

- Logging, messages, printing, options, the wording of exceptions: no state another
  part reads. `src/field.cpp`, `src/active_record.cpp`, `src/exception.cpp`.
- `Base<T>::operator==` and the const getters of `Table` and `Query`, which change
  nothing; `schema()`, which is a `select_values` and leaves what that leaves.
- Columns whose type a model changes: `operator-` compares names (`field.h:47`),
  so nothing is ever migrated, and no document says otherwise. Lower-case types, which
  `from_field` knows and `table_data` refuses before the first statement.
- A primary key that is not an INTEGER column of the model, on SQLite, beyond the text
  keys of `Foreign` tables and the tables that lose theirs.
- Other settings of PostgreSQL's `DateStyle`, under which short dates are read in
  another order or refused.
- `connect` over a PostgreSQL session that is still open, which loses it
  (`postgresql_connection.cpp:84`); names that `table_exists` finds in `pg_class`
  although they are indexes or views (`:109`).
- The buffers of parameters in `bind_parameters`, and memory in general.
- Build files, examples, profiling and the vendored PostgreSQL headers (no logic).

Of the lines counted as implementation, 4141 are vendored PostgreSQL headers and
305 examples and profiling. The library itself has about 3200, of which the models
stand for more than half; most of what remains is declarations, logging and the wording
of errors.
