------------------------ MODULE BaseRecordImplements ------------------------
(***************************************************************************)
(* BaseRecord implements RecordStore: state_ and attributes_ are there to  *)
(* hold pending values and a cache of the row, and never show.             *)
(***************************************************************************)
EXTENDS BaseRecord

idBar   == [r \in Records |-> rec[r].id]
rowsBar == [i \in stored |-> cell[i]]

Store == INSTANCE RecordStore
           WITH Values <- Cells, Blanks <- {Null, Zero},
                id <- idBar, pending <- assigned, rows <- rowsBar

\* Every call of the public interface, with the loads it makes behind the
\* caller's back, does to ids, pending values and rows what one operation of
\* the abstract store does, or nothing: no save reaches a row that is not the
\* object's, no pending value is dropped before it is in the row, no read and
\* no exception changes a row.
ImplementsStore == Store!StoreSpec

=============================================================================
