---------------------------- MODULE SqliteHandle ----------------------------
(***************************************************************************)
(* The life of Sqlite3Connection objects over one database file: connect   *)
(* and disconnect, statements that are finalized or left behind, and the   *)
(* transactions of Connection (src/sqlite/sqlite3_connection.cpp,          *)
(* src/connection.cpp).                                                    *)
(*                                                                         *)
(* A handle is a sqlite3 object: what connect opens and db_ points to.     *)
(* Its locks are those of SQLite's rollback journal, with no busy timeout, *)
(* which the library never sets: a statement that finds a lock fails at    *)
(* its step, and execute, insert and the selects say nothing.  One call is *)
(* one action.  Handles are addresses: one that was closed may be given    *)
(* out again by the next sqlite3_open.                                     *)
(***************************************************************************)
EXTENDS Naturals

CONSTANTS
  Conns,      \* the Sqlite3Connection objects of the program
  Handles,    \* the addresses sqlite3_open may return
  Keys,       \* the rows the program writes
  nullptr,    \* no handle
  MaxLeaks,   \* bound: statements left behind on one handle
  OpensFail   \* sqlite3_open may fail

ASSUME HandleAssumption == nullptr \notin Handles

ASSUME LeakAssumption == MaxLeaks \in Nat /\ OpensFail \in BOOLEAN

Locks    == {"none", "shared", "reserved", "pending"}
Causes   == {"unit left", "replaced", "commit failed"}
Troubles == {"step failed", "unit left", "open failed"}

VARIABLES
  db_,      \* the handle of each connection
  handle,   \* the handles
  file,     \* the rows in the file
  inUnit,   \* history: begin_transaction has returned, commit has not
  unit,     \* history: what was written since begin_transaction
  told,     \* history: the rows the program may take for stored
  cause,    \* history: why a transaction of a handle is still open
  trouble   \* history: what has gone wrong so far

program == <<inUnit, unit, told>>
vars == <<db_, handle, file, inUnit, unit, told, cause, trouble>>

Handle == [open : BOOLEAN, tx : BOOLEAN, wrote : SUBSET Keys, lock : Locks,
           idle : 0..MaxLeaks, reading : 0..MaxLeaks]

\* idle: statements that have ended but are not finalized; reading: those
\* left in the middle of their rows.
Closed == [open |-> FALSE, tx |-> FALSE, wrote |-> {}, lock |-> "none",
           idle |-> 0, reading |-> 0]
Opened == [Closed EXCEPT !.open = TRUE]

TypeOK ==
  /\ db_ \in [Conns -> Handles \cup {nullptr}]
  /\ handle \in [Handles -> Handle]
  /\ file \subseteq Keys
  /\ inUnit \in [Conns -> BOOLEAN]
  /\ unit \in [Conns -> SUBSET Keys]
  /\ told \subseteq Keys
  /\ cause \in [Handles -> SUBSET Causes]
  /\ trouble \subseteq Troubles

-----------------------------------------------------------------------------
(* SQLite: what the locks of the other handles allow.                      *)

Others(h) == {handle[g].lock : g \in Handles \ {h}}

MayRead(h)   == handle[h].lock # "none" \/ "pending" \notin Others(h)
MayWrite(h)  == MayRead(h) /\ Others(h) \cap {"reserved", "pending"} = {}
MayCommit(h) == Others(h) \subseteq {"none"}

\* The lock of a handle once its transaction is over.
LockLeft(x) == IF x.reading > 0 THEN "shared" ELSE "none"

\* A statement that reads, in a transaction or left in the middle of its
\* rows, keeps the lock.
Reads(x) == [x EXCEPT !.lock = IF @ = "none" THEN "shared" ELSE @]

Writes(x, k) ==
  [x EXCEPT !.wrote = @ \cup {k},
            !.lock = IF @ = "pending" THEN @ ELSE "reserved"]

Ended(x) == [x EXCEPT !.tx = FALSE, !.wrote = {}, !.lock = LockLeft(x)]

\* sqlite3_close: with a statement that is not finalized it returns
\* SQLITE_BUSY and the handle stays as it is, transaction and locks included.
Closes(x) == x.idle + x.reading = 0

-----------------------------------------------------------------------------
(* connect and disconnect.                                                 *)

Usable(c) == db_[c] # nullptr /\ handle[db_[c]].open

Blames(h, why) == cause' = [cause EXCEPT ![h] = @ \cup {why}]

\* connect does not look at db_: a handle that was there is only forgotten.
Forgets(c) ==
  IF Usable(c) THEN Blames(db_[c], "replaced") ELSE UNCHANGED cause

connect(c) ==
  \E h \in Handles :
    /\ ~handle[h].open
    /\ handle' = [handle EXCEPT ![h] = Opened]
    /\ db_' = [db_ EXCEPT ![c] = h]
    /\ Forgets(c)
    /\ UNCHANGED <<file, program, trouble>>

\* sqlite_initialize closes the handle it could not open, leaves its address
\* in db_ and throws.
ConnectFails(c) ==
  /\ OpensFail
  /\ \E h \in Handles :
       /\ ~handle[h].open
       /\ db_' = [db_ EXCEPT ![c] = h]
  /\ Forgets(c)
  /\ trouble' = trouble \cup {"open failed"}
  /\ UNCHANGED <<handle, file, program>>

\* Mutant: the destructor of the handle is left to SQLite.
NeverClosed(x) == x

\* What disconnect's sqlite3_close makes of the handle; what was not
\* committed is rolled back.
AfterClose(x) == IF Closes(x) THEN Closed ELSE x

\* Mutant: db_ is not reset.
KeepsPointer(c) == db_[c]

PointerAfterClose(c) == nullptr

\* disconnect, and the destructor.  A unit that was open is given up.
disconnect(c) ==
  /\ db_[c] # nullptr
  /\ LET h == db_[c] IN
     /\ handle' = IF handle[h].open
                  THEN [handle EXCEPT ![h] = AfterClose(handle[h])]
                  ELSE handle
     /\ cause' = IF handle'[h].open THEN cause ELSE [cause EXCEPT ![h] = {}]
  /\ db_' = [db_ EXCEPT ![c] = PointerAfterClose(c)]
  /\ inUnit' = [inUnit EXCEPT ![c] = FALSE]
  /\ unit' = [unit EXCEPT ![c] = {}]
  /\ UNCHANGED <<file, told, trouble>>

-----------------------------------------------------------------------------
(* Statements.                                                             *)

Fails == trouble' = trouble \cup {"step failed"}

\* The program takes what it wrote in a transaction for stored once commit
\* has returned, what it wrote otherwise at once.
Believes(c, k) ==
  IF inUnit[c]
  THEN unit' = [unit EXCEPT ![c] = @ \cup {k}] /\ UNCHANGED <<told, inUnit>>
  ELSE told' = told \cup {k} /\ UNCHANGED <<unit, inUnit>>

\* execute and insert of one row: in a transaction it is in the journal,
\* otherwise it is committed by itself.
execute(c, k) ==
  /\ Usable(c)
  /\ k \notin file \cup UNION {handle[h].wrote : h \in Handles}
  /\ LET h == db_[c] IN
     \/ /\ handle[h].tx /\ MayWrite(h)
        /\ handle' = [handle EXCEPT ![h] = Writes(@, k)]
        /\ UNCHANGED <<file, trouble>>
     \/ /\ ~handle[h].tx /\ MayWrite(h) /\ MayCommit(h)
        /\ file' = file \cup {k}
        /\ UNCHANGED <<handle, trouble>>
     \/ /\ ~(MayWrite(h) /\ (handle[h].tx \/ MayCommit(h)))
        /\ Fails
        /\ UNCHANGED <<handle, file>>
  /\ Believes(c, k)
  /\ UNCHANGED <<db_, cause>>

\* begin_transaction: BEGIN within a transaction fails at its step.
begin_transaction(c) ==
  /\ Usable(c) /\ ~inUnit[c]
  /\ LET h == db_[c] IN
     IF handle[h].tx
     THEN Fails /\ UNCHANGED handle
     ELSE handle' = [handle EXCEPT ![h].tx = TRUE] /\ UNCHANGED trouble
  /\ inUnit' = [inUnit EXCEPT ![c] = TRUE]
  /\ UNCHANGED <<db_, file, unit, told, cause>>

\* Mutant: COMMIT is not sent while a statement is open.
CommitsWhenIdle(h) ==
  IF handle[h].idle > 0
  THEN UNCHANGED <<handle, file, cause, trouble>>
  ELSE /\ file' = file \cup handle[h].wrote
       /\ handle' = [handle EXCEPT ![h] = Ended(@)]
       /\ cause' = [cause EXCEPT ![h] = @ \cap {"replaced"}]
       /\ UNCHANGED trouble

\* COMMIT fails when there is no transaction, or when there is something to
\* write and another handle reads: then the transaction stays open and its
\* lock keeps new readers out.
Commits(h) ==
  LET x == handle[h] IN
  \/ /\ x.tx /\ (x.wrote = {} \/ MayCommit(h))
     /\ file' = file \cup x.wrote
     /\ handle' = [handle EXCEPT ![h] = Ended(@)]
     /\ cause' = [cause EXCEPT ![h] = @ \cap {"replaced"}]
     /\ UNCHANGED trouble
  \/ /\ x.tx /\ x.wrote # {} /\ ~MayCommit(h)
     /\ handle' = [handle EXCEPT ![h].lock = "pending"]
     /\ Blames(h, "commit failed")
     /\ Fails
     /\ UNCHANGED file
  \/ /\ ~x.tx
     /\ Fails
     /\ UNCHANGED <<handle, file, cause>>

commit(c) ==
  /\ Usable(c) /\ inUnit[c]
  /\ Commits(db_[c])
  /\ told' = told \cup unit[c]
  /\ unit' = [unit EXCEPT ![c] = {}]
  /\ inUnit' = [inUnit EXCEPT ![c] = FALSE]
  /\ UNCHANGED db_

\* Mutant: the statement is reset but its lock is kept.
ReadsOn(x) == Reads(x)

\* A select that finalizes its statement.
ReadsToEnd(x) == IF x.tx THEN Reads(x) ELSE x

\* select_one, select_all, select_values; a failed step is an empty result.
select(c) ==
  /\ Usable(c)
  /\ LET h == db_[c] IN
     IF MayRead(h)
     THEN handle' = [handle EXCEPT ![h] = ReadsToEnd(@)] /\ UNCHANGED trouble
     ELSE Fails /\ UNCHANGED handle
  /\ UNCHANGED <<db_, file, program, cause>>

\* Mutant: a step that fails and one without a row leave a statement each.
LeavesTwo(x) == [x EXCEPT !.idle = @ + 2]

\* select_value returns without finalizing when its first step gives no row.
LeavesStatement(x) == [x EXCEPT !.idle = @ + 1]

MayLeave(c) ==
  LET x == handle[db_[c]] IN x.idle + x.reading < MaxLeaks

select_value(c) ==
  /\ Usable(c) /\ MayLeave(c)
  /\ LET h == db_[c] IN
     IF MayRead(h)
     THEN /\ handle' = [handle EXCEPT ![h] = LeavesStatement(ReadsToEnd(@))]
          /\ UNCHANGED trouble
     ELSE Fails /\ handle' = [handle EXCEPT ![h] = LeavesStatement(@)]
  /\ UNCHANGED <<db_, file, program, cause>>

\* An exception ends the unit for the program, not for the handle.
LeavesUnit(c) ==
  /\ inUnit' = [inUnit EXCEPT ![c] = FALSE]
  /\ unit' = [unit EXCEPT ![c] = {}]
  /\ IF inUnit[c]
     THEN /\ trouble' = trouble \cup {"unit left"}
          /\ IF Usable(c) THEN Blames(db_[c], "unit left")
             ELSE UNCHANGED cause
     ELSE UNCHANGED <<trouble, cause>>
  /\ UNCHANGED told

\* prepare throws: not connected, or the statement does not compile; and so
\* does SQLite's own check of a handle that was closed.
PrepareThrows(c) ==
  /\ LeavesUnit(c)
  /\ UNCHANGED <<db_, handle, file>>

LeavesInRows(x) == LET y == Reads(x) IN [y EXCEPT !.reading = @ + 1]

\* Row(ppStmt) or from_field throws: the statement stays in the middle of its
\* rows.
RowThrows(c) ==
  /\ Usable(c) /\ MayLeave(c) /\ MayRead(db_[c])
  /\ handle' = [handle EXCEPT ![db_[c]] = LeavesInRows(@)]
  /\ LeavesUnit(c)
  /\ UNCHANGED <<db_, file>>

\* The process ends or dies: SQLite rolls back what was not committed.
Restart ==
  /\ db_' = [c \in Conns |-> nullptr]
  /\ handle' = [h \in Handles |-> Closed]
  /\ inUnit' = [c \in Conns |-> FALSE]
  /\ unit' = [c \in Conns |-> {}]
  /\ cause' = [h \in Handles |-> {}]
  /\ UNCHANGED <<file, told, trouble>>

-----------------------------------------------------------------------------
Init ==
  /\ db_ = [c \in Conns |-> nullptr]
  /\ handle = [h \in Handles |-> Closed]
  /\ file = {}
  /\ inUnit = [c \in Conns |-> FALSE]
  /\ unit = [c \in Conns |-> {}]
  /\ told = {}
  /\ cause = [h \in Handles |-> {}]
  /\ trouble = {}

Next ==
  \/ \E c \in Conns :
       \/ connect(c) \/ ConnectFails(c) \/ disconnect(c)
       \/ \E k \in Keys : execute(c, k)
       \/ begin_transaction(c) \/ commit(c)
       \/ select(c) \/ select_value(c) \/ PrepareThrows(c) \/ RowThrows(c)
  \/ Restart

Spec == Init /\ [][Next]_vars

-----------------------------------------------------------------------------
(* Properties.                                                             *)

\* What the program may take for stored is in the file, after any sequence of
\* calls on several connections, reconnections, leaked statements and
\* restarts, unless a step failed, a transaction was left by an exception or
\* an open failed.
Durable == trouble = {} => told \subseteq file

InUnitOf(h)  == \E c \in Conns : db_[c] = h /\ inUnit[c]
Orphan(h)    == \A c \in Conns : db_[c] # h

\* As long as every open succeeds, a lock that makes the statements of
\* another connection fail has one of five reasons: a transaction that is
\* under way; a statement left in the middle of its rows by an exception; a
\* transaction that an exception or a failed COMMIT left open; a connect over
\* a connection; or a disconnect that could not close the handle because of
\* a leaked statement.
LockHasReason ==
  "open failed" \notin trouble =>
    \A h \in Handles :
      handle[h].lock # "none" =>
        \/ InUnitOf(h)
        \/ handle[h].reading > 0
        \/ cause[h] # {}
        \/ Orphan(h) /\ handle[h].idle > 0

\* A handle that no connection points to is closed, unless a statement was
\* left on it or a connect replaced it.
NoOrphans ==
  \A h \in Handles :
    handle[h].open /\ Orphan(h) =>
      ~Closes(handle[h]) \/ "replaced" \in cause[h]

\* As long as every open succeeds, connected() tells the truth: a connection
\* that has a handle has an open one, and no other connection has the same.
OwnHandle ==
  "open failed" \notin trouble =>
    /\ \A c \in Conns : db_[c] # nullptr => handle[db_[c]].open
    /\ \A c, d \in Conns : c # d /\ db_[c] # nullptr => db_[c] # db_[d]

=============================================================================
