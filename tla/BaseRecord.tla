----------------------------- MODULE BaseRecord -----------------------------
(***************************************************************************)
(* The life of ActiveRecord::Base<T> objects (include/active_record/base.h)*)
(* of one model over one SQLite table: construction, init, the accessors,  *)
(* save (create or update) and the load that these perform behind the      *)
(* caller's back.  Several objects may stand for one row: the library has  *)
(* no identity map.  The table is reached through Sqlite3Connection, whose *)
(* insert and execute ignore the result of sqlite3_step.                   *)
(*                                                                         *)
(* The program is single threaded, so one call of the public interface is  *)
(* one action.  The entry attributes_[primary_key_] is left out: create    *)
(* and update skip it and no other decision looks at it.                   *)
(***************************************************************************)
EXTENDS Integers

CONSTANTS
  Records,        \* the Base<T> objects of the program
  Columns,        \* the columns of the table, without the primary key
  Kind,           \* the declared type of each column
  Strays,         \* names the program uses that are not columns
  Words,          \* the values the program assigns
  Zero,           \* the integer 0, or its image '0', that nobody assigned
  Unset,          \* Attribute(): has_data() is false, which() is 0
  Absent,         \* no entry in attributes_ for a name
  Null,           \* the SQL NULL of a cell
  MaxId,          \* bound: the largest rowid of the table
  StepsFail,      \* sqlite3_step may fail (a lock, a full disk, ...)
  RowsVanish,     \* rows are deleted with Connection::execute
  InitIdentified  \* the program calls init on an object that has an id

Kinds == {"INTEGER", "TEXT", "FLOAT", "DATE"}

ASSUME KindAssumption == Kind \in [Columns -> Kinds]

ASSUME SentinelAssumption ==
  /\ Zero \notin {Unset, Absent, Null}
  /\ Unset \notin {Absent, Null}
  /\ Absent # Null
  /\ Words \cap {Zero, Unset, Absent, Null} = {}
  /\ Absent \notin Records

ASSUME BoundAssumption == MaxId \in Nat \ {0}

ASSUME NameAssumption == Columns \cap Strays = {}

ASSUME SwitchAssumption ==
  /\ StepsFail \in BOOLEAN
  /\ RowsVanish \in BOOLEAN
  /\ InitIdentified \in BOOLEAN

-----------------------------------------------------------------------------
Unsaved == -1                          \* ACTIVE_RECORD_UNSAVED
Ids     == 1..MaxId                    \* the rowids the table can give out
AnyId   == Ids \cup {Unsaved, 0}       \* the values of Base::id_
Names   == Columns \cup Strays         \* the keys of Base::attributes_
Cells   == Words \cup {Zero, Null}     \* what a column of a row holds
Held    == Words \cup {Zero, Unset, Absent} \* attributes_ at a name
States  == {"blank", "prepared", "unsaved", "loaded"}

NoAttributes == [n \in Names |-> Absent]
NothingAssigned == [c \in Columns |-> Absent]
EmptyRow == [c \in Columns |-> Null]

VARIABLES
  rec,        \* the members state_, id_ and attributes_ of each object
  stored,     \* the ids of the rows of the table
  cell,       \* the columns of each row, all Null where there is no row
  lastRowid,  \* sqlite3_last_insert_rowid of the connection
  reply,      \* how the last call ended
  assigned,   \* history: what the program gave each object since its save
  made,       \* history: the rows each object has inserted, counted to 2
  creator     \* history: the object whose create() inserted the row

dbVars  == <<stored, cell, lastRowid>>
history == <<assigned, made, creator>>
vars == <<rec, stored, cell, lastRowid, reply, assigned, made, creator>>

Nobody == Absent
Idle         == [how |-> "returned", by |-> Nobody]
Saved(r)     == [how |-> "saved", by |-> r]
SaveThrew(r) == [how |-> "save threw", by |-> r]
Threw(r)     == [how |-> "threw", by |-> r]
Replies == [how : {"returned", "saved", "save threw", "threw"},
            by : Records \cup {Nobody}]

TypeOK ==
  /\ rec \in [Records -> [state : States, id : AnyId, attr : [Names -> Held]]]
  /\ stored \subseteq Ids
  /\ cell \in [Ids -> [Columns -> Cells]]
  /\ lastRowid \in 0..MaxId
  /\ reply \in Replies
  /\ assigned \in [Records -> [Columns -> Words \cup {Absent}]]
  /\ made \in [Records -> 0..2]
  /\ creator \in [Ids -> Records \cup {Nobody}]

-----------------------------------------------------------------------------
(* Values on their way to a cell and back.                                 *)

\* bind_parameters looks at which() only: an Attribute() is bound as the
\* integer 0, which a TEXT column keeps as '0'.
Bind(a) == IF a = Unset THEN Zero ELSE a

\* Mutant: NULL gets through as if it were a value.
FromFieldUnchecked(c, v) == v

\* Attribute::from_field: NULL is 0 in a numeric column and Attribute() in a
\* TEXT or DATE column.
FromField(c, v) ==
  IF v # Null THEN v
  ELSE IF Kind[c] \in {"TEXT", "DATE"} THEN Unset ELSE Zero

\* Date::parse throws on a text that is not a date.
Unreadable(i) == \E c \in Columns : Kind[c] = "DATE" /\ cell[i][c] = Zero

\* The attributes of Row(ppStmt) for the row with id i.
RowAttributes(i) ==
  [n \in Names |-> IF n \in Columns THEN FromField(n, cell[i][n]) ELSE Absent]

-----------------------------------------------------------------------------
(* The private steps of Base<T>, as functions of the object.               *)

\* Mutant: prepare without its early return.
PreparedAgain(x) == [x EXCEPT !.state = "prepared"]

\* prepare, ensure_prepared: look the table up, once.
Prepared(x) == IF x.state = "blank" THEN [x EXCEPT !.state = "prepared"] ELSE x

\* Mutant: ensure_loaded without its early return.
NeedsLoadAlways(x) == x.id # Unsaved

\* load_unless_new, ensure_loaded: an object with an id that is not loaded
\* is about to be read from its row.
NeedsLoad(x) == x.id # Unsaved /\ x.state # "loaded"

\* load throws "Record not found", or the row's DATE does not parse.
LoadThrows(x) == NeedsLoad(x) /\ (x.id \notin stored \/ Unreadable(x.id))

\* select_one takes a failed step for an empty result.
LoadMayThrow(x) == LoadThrows(x) \/ (NeedsLoad(x) /\ StepsFail)

\* load replaces attributes_ whole.
Loaded(x) ==
  IF NeedsLoad(x)
  THEN [x EXCEPT !.state = "loaded", !.attr = RowAttributes(x.id)]
  ELSE Prepared(x)

\* The names in the column list of INSERT and UPDATE.
Listed(x) == {n \in Names : x.attr[n] # Absent}

\* Mutant: create forgets to assign id_.
CreatedWithoutId(x, id) == [x EXCEPT !.state = "loaded"]

\* create's last lines: whatever insert returned is the id, and the object
\* counts as loaded without being read back.
Created(x, id) == [x EXCEPT !.id = id, !.state = "loaded"]

-----------------------------------------------------------------------------
(* The table behind Connection::insert and Connection::execute.            *)

\* INTEGER PRIMARY KEY without AUTOINCREMENT: one more than the largest rowid
\* in use, so that the rowid of a deleted row can come back.
NextRowid(i) ==
  /\ \A j \in stored : j < i
  /\ i = 1 \/ i - 1 \in stored

\* INSERT with these attributes, the rest of the row Null.
InsertRow(i, attr) ==
  /\ NextRowid(i)
  /\ stored' = stored \cup {i}
  /\ cell' = [cell EXCEPT ![i] =
                [c \in Columns |-> IF attr[c] = Absent THEN Null
                                   ELSE Bind(attr[c])]]
  /\ lastRowid' = i

\* Mutant: last_insert_rowid read before the step.
InsertResultEarly == lastRowid

\* What Connection::insert returns: last_insert_rowid after the step, even
\* when the step failed.
InsertResult == lastRowid'

\* Mutant: UPDATE without its WHERE.
UpdateEveryRow(i, attr) ==
  /\ cell' = [j \in Ids |-> [c \in Columns |->
                IF j \notin stored \/ attr[c] = Absent THEN cell[j][c]
                ELSE Bind(attr[c])]]
  /\ UNCHANGED <<stored, lastRowid>>

\* UPDATE ... WHERE id = ?: no row matches, or that one row is written.
UpdateRow(i, attr) ==
  /\ cell' = IF i \in stored
             THEN [cell EXCEPT ![i] =
                     [c \in Columns |-> IF attr[c] = Absent THEN @[c]
                                        ELSE Bind(attr[c])]]
             ELSE cell
  /\ UNCHANGED <<stored, lastRowid>>

-----------------------------------------------------------------------------
(* The public interface.                                                   *)

\* Base(id), or T(id) from Query::all and Query::first.  The object that
\* had the name r before is gone.
Construct(r, i) ==
  /\ rec' = [rec EXCEPT ![r] =
               [state |-> "blank", id |-> i, attr |-> NoAttributes]]
  /\ assigned' = [assigned EXCEPT ![r] = NothingAssigned]
  /\ made' = [made EXCEPT ![r] = 0]
  /\ reply' = Idle
  /\ UNCHANGED <<dbVars, creator>>

\* The implicit copy: s becomes a second object with the members of r.
Copy(r, s) ==
  /\ rec' = [rec EXCEPT ![s] = rec[r]]
  /\ assigned' = [assigned EXCEPT ![s] = assigned[r]]
  /\ made' = [made EXCEPT ![s] = 0]
  /\ reply' = Idle
  /\ UNCHANGED <<dbVars, creator>>

\* init with one pair; Base(attributes) is Construct(r, Unsaved), then this.
InitWith(r, c, v) ==
  /\ InitIdentified \/ rec[r].id = Unsaved
  /\ rec' = [rec EXCEPT ![r] =
               [Prepared(@) EXCEPT !.attr[c] = v, !.state = "unsaved"]]
  /\ assigned' = [assigned EXCEPT ![r][c] = v]
  /\ reply' = Idle
  /\ UNCHANGED <<dbVars, made, creator>>

\* operator[] and the typed getters: attributes_[name] makes an Attribute()
\* where there is no entry, even when the caller only reads.
Read(r, n) ==
  /\ ~LoadThrows(rec[r])
  /\ LET x == Loaded(rec[r]) IN
     rec' = [rec EXCEPT ![r] =
               IF x.attr[n] = Absent THEN [x EXCEPT !.attr[n] = Unset] ELSE x]
  /\ reply' = Idle
  /\ UNCHANGED <<dbVars, history>>

\* record[c] = v, through the reference that operator[] returns.
Assign(r, c, v) ==
  /\ ~LoadThrows(rec[r])
  /\ rec' = [rec EXCEPT ![r] = [Loaded(@) EXCEPT !.attr[c] = v]]
  /\ assigned' = [assigned EXCEPT ![r][c] = v]
  /\ reply' = Idle
  /\ UNCHANGED <<dbVars, made, creator>>

\* to_string is const for its callers, yet it loads.
to_string(r) ==
  /\ ~LoadThrows(rec[r])
  /\ rec' = [rec EXCEPT ![r] = Loaded(@)]
  /\ reply' = Idle
  /\ UNCHANGED <<dbVars, history>>

\* An accessor whose load throws: only prepare() has happened.
AccessThrows(r) ==
  /\ LoadMayThrow(rec[r])
  /\ rec' = [rec EXCEPT ![r] = Prepared(@)]
  /\ reply' = Threw(r)
  /\ UNCHANGED <<dbVars, history>>

\* save leaves by an exception, with the object as far as it got.
SaveThrows(r, x) ==
  /\ rec' = [rec EXCEPT ![r] = x]
  /\ reply' = SaveThrew(r)
  /\ UNCHANGED <<dbVars, history>>

\* save returns true: the program takes what it assigned for stored.
SaveReturns(r, x) ==
  /\ rec' = [rec EXCEPT ![r] = x]
  /\ reply' = Saved(r)
  /\ assigned' = [assigned EXCEPT ![r] = NothingAssigned]

\* create: INSERT every attribute.
Create(r) ==
  LET x == Prepared(rec[r]) IN
  /\ x.id = Unsaved
  /\ \/ /\ Listed(x) \cap Strays # {}          \* "no such column"
        /\ SaveThrows(r, x)
     \/ /\ Listed(x) \cap Strays = {}
        /\ \/ \E i \in Ids :
                /\ InsertRow(i, x.attr)
                /\ creator' = [creator EXCEPT ![i] = r]
                /\ made' = [made EXCEPT ![r] = IF @ = 0 THEN 1 ELSE 2]
           \/ StepsFail /\ UNCHANGED <<dbVars, creator, made>>
        /\ SaveReturns(r, Created(x, InsertResult))

\* update: load first unless loaded, then write every attribute.  With no
\* attribute the statement reads SET WHERE and does not compile.
Update(r) ==
  /\ rec[r].id # Unsaved
  /\ \/ /\ LoadMayThrow(rec[r])
        /\ SaveThrows(r, Prepared(rec[r]))
     \/ /\ ~LoadThrows(rec[r])
        /\ LET x == Loaded(rec[r]) IN
           \/ /\ Listed(x) = {} \/ Listed(x) \cap Strays # {}
              /\ SaveThrows(r, x)
           \/ /\ Listed(x) # {} /\ Listed(x) \cap Strays = {}
              /\ UpdateRow(x.id, x.attr) \/ (StepsFail /\ UNCHANGED dbVars)
              /\ SaveReturns(r, x)
              /\ UNCHANGED <<made, creator>>

Save(r) == Create(r) \/ Update(r)

\* DELETE FROM ... through Connection::execute: Base<T> has no destroy.
Delete(i) ==
  /\ RowsVanish
  /\ i \in stored
  /\ stored' = stored \ {i}
  /\ cell' = [cell EXCEPT ![i] = EmptyRow]
  /\ creator' = [creator EXCEPT ![i] = Nobody]
  /\ reply' = Idle
  /\ UNCHANGED <<rec, lastRowid, assigned, made>>

-----------------------------------------------------------------------------
Init ==
  /\ rec = [r \in Records |->
              [state |-> "blank", id |-> Unsaved, attr |-> NoAttributes]]
  /\ stored = {}
  /\ cell = [i \in Ids |-> EmptyRow]
  /\ lastRowid = 0
  /\ reply = Idle
  /\ assigned = [r \in Records |-> NothingAssigned]
  /\ made = [r \in Records |-> 0]
  /\ creator = [i \in Ids |-> Nobody]

Next ==
  \/ \E r \in Records :
       \/ \E i \in AnyId \ {0} : Construct(r, i)
       \/ \E s \in Records \ {r} : Copy(r, s)
       \/ \E c \in Columns, v \in Words : InitWith(r, c, v) \/ Assign(r, c, v)
       \/ \E n \in Names : Read(r, n)
       \/ to_string(r)
       \/ AccessThrows(r)
       \/ Save(r)
  \/ \E i \in Ids : Delete(i)

Spec == Init /\ [][Next]_vars

-----------------------------------------------------------------------------
(* Properties.                                                             *)

\* What the program assigned to an object, and did not save yet, is still in
\* attributes_: no load that an accessor or save makes behind the caller's
\* back throws it away, whatever fails in between.
AssignedKept ==
  \A r \in Records, c \in Columns :
    assigned[r][c] # Absent => rec[r].attr[c] = assigned[r][c]

\* When save returns true, every value the program assigned since the last
\* save is in the table, in the row of the object's id.
AssignedStored ==
  [][\A r \in Records, c \in Columns :
       reply' = Saved(r) /\ assigned[r][c] # Absent
         => /\ rec'[r].id \in stored'
            /\ cell'[rec'[r].id][c] = assigned[r][c]]_vars

\* The id create() takes from last_insert_rowid is that of the row it
\* inserted, and no other object's create() ever gets the same one.
IdIsOwnRow ==
  \A r \in Records :
    made[r] > 0 => /\ rec[r].id \in stored
                   /\ creator[rec[r].id] = r

\* However often save is called and however often it fails, one object
\* inserts one row at most: a retry never duplicates it.
InsertsOnce == \A r \in Records : made[r] <= 1

=============================================================================
