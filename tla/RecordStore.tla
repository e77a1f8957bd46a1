---------------------------- MODULE RecordStore -----------------------------
(***************************************************************************)
(* What a program may take Base<T> objects for: each holds an id and the   *)
(* values assigned to it and not saved yet, and save puts those values in  *)
(* one row, its own, in one step.  There is no state_, no load and no      *)
(* attributes_ here: reading a record changes nothing, and neither does a  *)
(* call that throws.                                                       *)
(*                                                                         *)
(* One freedom is left to save, because the library needs it: a row is     *)
(* written whole, so that the columns the program did not assign may come  *)
(* out with any value (an older one of the row, or what a NULL became).    *)
(***************************************************************************)
CONSTANTS
  Records,     \* the objects
  Columns,     \* the columns of the table
  Words,       \* the values the program assigns
  Values,      \* the values a column of a row can have
  Blanks,      \* those of a new row's column that was not assigned
  Ids,         \* the ids of rows
  Unsaved,     \* the id of an object that was never saved
  Absent,      \* nothing is pending for a column
  RowsVanish   \* rows are deleted by other means

VARIABLES
  id,       \* the id of each object
  pending,  \* what was assigned to each object since its last save
  rows      \* the table: a function from the ids in use to rows

storeVars == <<id, pending, rows>>

NothingPending == [c \in Columns |-> Absent]

\* A row that a save of r may leave: what is pending is in it.
Carries(row, r) ==
  \A c \in Columns : pending[r][c] # Absent => row[c] = pending[r][c]

\* A new object: of no row yet, or of the row with the id i, if there is one.
Make(r, i) ==
  /\ id' = [id EXCEPT ![r] = i]
  /\ pending' = [pending EXCEPT ![r] = NothingPending]
  /\ UNCHANGED rows

\* s becomes a second object of the same row, with the same values pending.
CopyTo(r, s) ==
  /\ id' = [id EXCEPT ![s] = id[r]]
  /\ pending' = [pending EXCEPT ![s] = pending[r]]
  /\ UNCHANGED rows

Assign(r, c, v) ==
  /\ pending' = [pending EXCEPT ![r][c] = v]
  /\ UNCHANGED <<id, rows>>

\* The first save: a row under an id that no row has, which becomes the
\* object's.  Columns that were not assigned are blank.
Insert(r) ==
  /\ id[r] = Unsaved
  /\ \E i \in Ids \ DOMAIN rows, row \in [Columns -> Values] :
       /\ Carries(row, r)
       /\ \A c \in Columns : pending[r][c] = Absent => row[c] \in Blanks
       /\ id' = [id EXCEPT ![r] = i]
       /\ rows' = [j \in DOMAIN rows \cup {i} |-> IF j = i THEN row ELSE rows[j]]
  /\ pending' = [pending EXCEPT ![r] = NothingPending]

\* A later save: the row of the object, and no other.
Write(r) ==
  /\ id[r] \in DOMAIN rows
  /\ \E row \in [Columns -> Values] :
       /\ Carries(row, r)
       /\ rows' = [rows EXCEPT ![id[r]] = row]
  /\ pending' = [pending EXCEPT ![r] = NothingPending]
  /\ UNCHANGED id

\* A save of an object whose row is gone: it counts as saved all the same.
WriteNothing(r) ==
  /\ RowsVanish
  /\ id[r] \notin DOMAIN rows \cup {Unsaved}
  /\ pending' = [pending EXCEPT ![r] = NothingPending]
  /\ UNCHANGED <<id, rows>>

Vanish(i) ==
  /\ RowsVanish
  /\ i \in DOMAIN rows
  /\ rows' = [j \in DOMAIN rows \ {i} |-> rows[j]]
  /\ UNCHANGED <<id, pending>>

StoreInit ==
  /\ id = [r \in Records |-> Unsaved]
  /\ pending = [r \in Records |-> NothingPending]
  /\ rows = [i \in {} |-> NothingPending]

StoreNext ==
  \/ \E r \in Records :
       \/ \E i \in Ids \cup {Unsaved} : Make(r, i)
       \/ \E s \in Records \ {r} : CopyTo(r, s)
       \/ \E c \in Columns, v \in Words : Assign(r, c, v)
       \/ Insert(r) \/ Write(r) \/ WriteNothing(r)
  \/ \E i \in Ids : Vanish(i)

StoreSpec == StoreInit /\ [][StoreNext]_storeVars

=============================================================================
