------------------------ MODULE UpdateDatabaseProofs ------------------------
(***************************************************************************)
(* Proofs about UpdateDatabase, for every set of tables, fields and rows   *)
(* and every bound on time, crashes and releases: types and rows whatever  *)
(* fails; and where no statement fails, that update_database brings each   *)
(* table to its model and implements Migration.                            *)
(***************************************************************************)
EXTENDS UpdateDatabaseImplements, TLAPS

\* What every statement leaves alone keeps its type.
LEMMA NewTableType ==
  ASSUME NEW cols \in SUBSET (Fields \cup {Pk}), NEW k \in BOOLEAN
  PROVE  NewTable(cols, k) \in TableState
BY DEF NewTable, TableState

LEMMA NoTableType == NoTable \in TableState
BY DEF NoTable, TableState

LEMMA InitType == Init => TypeOK
<1> SUFFICES ASSUME Init PROVE TypeOK
  OBVIOUS
<1>1. db \in [Tables \cup Seconds -> TableState]
  <2>1. PICK cols \in [Foreign -> SUBSET Columns] :
          db = [t \in Tables \cup Seconds |->
                  IF t \in Foreign
                  THEN [exists |-> TRUE, key |-> "text", cols |-> cols[t] \cup {Pk},
                        cells |-> {r \in Rows : owner[r] = t}
                                    \X (cols[t] \cup {Pk})]
                  ELSE NoTable]
    BY DEF Init
  <2>2. ASSUME NEW t \in Foreign
        PROVE  [exists |-> TRUE, key |-> "text", cols |-> cols[t] \cup {Pk},
                cells |-> {r \in Rows : owner[r] = t} \X (cols[t] \cup {Pk})]
                 \in TableState
    <3>1. cols[t] \subseteq Fields
      BY DEF Fields
    <3>2. {r \in Rows : owner[r] = t} \X (cols[t] \cup {Pk}) \subseteq Cell
      BY <3>1 DEF Cell
    <3> QED BY <3>1, <3>2 DEF TableState
  <2> QED BY <2>1, <2>2, NoTableType
<1>2. keep \in [Tables -> SUBSET Cell]
  BY <1>1 DEF Init, TableState
<1>3. owner \in [Rows -> Tables \cup {NoOne}]
  BY SubsetAssumption DEF Init
<1>4. 0 \in Seconds /\ 0 \in 0..MaxCrashes /\ 0 \in 0..MaxReleases
  BY BoundAssumption DEF Seconds
<1> QED BY <1>1, <1>2, <1>3, <1>4 DEF Init, TypeOK, Places

-----------------------------------------------------------------------------
(* Each statement leaves tables of the right type.                         *)

DbType == [Tables \cup Seconds -> TableState]

LEMMA ExecutesType ==
  ASSUME NEW db2 \in DbType, db \in DbType, Executes(db2)
  PROVE  db' \in DbType
BY DEF Executes

\* One table of the file replaced.
LEMMA ReplaceType ==
  ASSUME db \in DbType, NEW t \in Tables \cup Seconds, NEW s \in TableState
  PROVE  [db EXCEPT ![t] = s] \in DbType
BY DEF DbType

\* While a table is at hand, it is a table of the registry.
AtTable == {"create", "fields", "create temp", "copy", "drop", "rename"}
Typed == TypeOK /\ (pc \in AtTable => table \in Tables)

LEMMA StatementsType ==
  ASSUME Typed
  PROVE  /\ CreateTable => db' \in DbType
         /\ AddField => db' \in DbType
         /\ CreateTemp => db' \in DbType
         /\ CopyRows => db' \in DbType
         /\ DropTable => db' \in DbType
         /\ RenameTable => db' \in DbType
<1>0. db \in DbType /\ temp \in Tables \cup Seconds
  BY DEF Typed, TypeOK, DbType
<1>1. ASSUME CreateTable PROVE db' \in DbType
  <2>1. table \in Tables
    BY <1>1 DEF CreateTable, Typed, AtTable
  <2>2. ModelColumns(table) \in SUBSET (Fields \cup {Pk})
    BY <2>1 DEF ModelColumns, Typed, TypeOK, Fields
  <2>3. [db EXCEPT ![table] = NewTable(ModelColumns(table), TRUE)] \in DbType
    BY <1>0, <2>1, <2>2, NewTableType, ReplaceType
  <2> QED BY <1>0, <1>1, <2>3, ExecutesType DEF CreateTable, Throws
<1>2. ASSUME AddField PROVE db' \in DbType
  <2>1. table \in Tables
    BY <1>2 DEF AddField, Typed, AtTable
  <2>2. PICK f \in missing :
          Executes([db EXCEPT ![table].cols = @ \cup {f}]) \/ UNCHANGED db
    BY <1>2 DEF AddField, Throws
  <2>3. f \in Fields /\ db[table] \in TableState
    BY <1>0, <2>1 DEF Typed, TypeOK, DbType, Fields
  <2>4. [db[table] EXCEPT !.cols = @ \cup {f}] \in TableState
    BY <2>3 DEF TableState
  <2>5. [db EXCEPT ![table].cols = @ \cup {f}] \in DbType
    BY <1>0, <2>1, <2>4, ReplaceType DEF DbType
  <2> QED BY <1>0, <2>2, <2>5, ExecutesType
<1>3. ASSUME CreateTemp PROVE db' \in DbType
  <2>1. [db EXCEPT ![temp] = NewTable(copied, keyed)] \in DbType
    BY <1>0, NewTableType, ReplaceType DEF Typed, TypeOK
  <2> QED BY <1>0, <1>3, <2>1, ExecutesType DEF CreateTemp, Throws
<1>4. ASSUME CopyRows PROVE db' \in DbType
  <2>1. table \in Tables
    BY <1>4 DEF CopyRows, Typed, AtTable
  <2>2. CellsIn(table, copied) \subseteq Cell
    BY <1>0, <2>1 DEF CellsIn, DbType, TableState
  <2>3. [db[temp] EXCEPT !.cells = CellsIn(table, copied)] \in TableState
    BY <1>0, <2>2 DEF DbType, TableState
  <2>4. [db EXCEPT ![temp].cells = CellsIn(table, copied)] \in DbType
    BY <1>0, <2>3, ReplaceType DEF DbType
  <2> QED BY <1>0, <1>4, <2>4 DEF CopyRows, Throws
<1>5. ASSUME DropTable PROVE db' \in DbType
  <2>1. table \in Tables
    BY <1>5 DEF DropTable, Typed, AtTable
  <2>2. [db EXCEPT ![table] = NoTable] \in DbType
    BY <1>0, <2>1, NoTableType, ReplaceType
  <2> QED BY <1>0, <1>5, <2>2, ExecutesType DEF DropTable
<1>6. ASSUME RenameTable PROVE db' \in DbType
  <2>1. table \in Tables /\ db[temp] \in TableState
    BY <1>0, <1>6 DEF RenameTable, Typed, AtTable, DbType
  <2>2. [db EXCEPT ![table] = db[temp], ![temp] = NoTable] \in DbType
    BY <1>0, <2>1, NoTableType DEF DbType
  <2> QED BY <1>0, <1>6, <2>2, ExecutesType DEF RenameTable, Throws
<1> QED BY <1>1, <1>2, <1>3, <1>4, <1>5, <1>6

-----------------------------------------------------------------------------
(* What table_data answers.                                                *)

\* No more than there is; the key, if it was found, is not among the fields.
LEMMA TableDataType ==
  ASSUME db \in DbType, NEW t \in Tables \cup Seconds, NEW d \in table_data(t)
  PROVE  /\ d.key \in {Pk, NoOne}
         /\ d.fields \subseteq db[t].cols
         /\ d.fields \subseteq Fields \cup {Pk}
<1>1. PICK k \in primary_key(t), names \in TableInfo(t) :
        d = [key |-> k, fields |-> names \ {k}]
  BY DEF table_data
<1>2. k \in {Pk, NoOne}
  BY DEF primary_key, KeyOf
<1>3. names \subseteq db[t].cols /\ db[t].cols \subseteq Fields \cup {Pk}
  BY DEF TableInfo, DbType, TableState
<1> QED BY <1>1, <1>2, <1>3

\* Where no step fails, all there is.
LEMMA TableDataFull ==
  ASSUME ~StepsFail, NEW t, NEW d \in table_data(t)
  PROVE  d = [key |-> KeyOf(t), fields |-> db[t].cols \ {KeyOf(t)}]
BY DEF table_data, primary_key, TableInfo, MayFail

-----------------------------------------------------------------------------
(* The actions keep Typed.                                                 *)

LEMMA NextType ==
  ASSUME Typed, [Next]_vars
  PROVE  Typed'
<1> USE DEF Typed, TypeOK, Places, AtTable
<1>1. CASE Start
  BY <1>1 DEF Start, World, misses
<1>2. CASE NextTable
  <2>1. PICK t \in todo :
          /\ todo' = todo \ {t}
          /\ table' = t
          /\ \/ /\ \E d \in table_data(t) :
                     /\ missing' = Minus(wanted[t], d.fields)
                     /\ surplus' = Minus(d.fields, wanted[t])
                /\ pc' = "fields"
             \/ pc' = "create" /\ UNCHANGED <<missing, surplus>>
    BY <1>2 DEF NextTable
  <2>2. wanted[t] \subseteq Columns /\ db \in DbType
    BY DEF DbType
  <2>3. missing' \subseteq Columns /\ surplus' \subseteq Fields \cup {Pk}
    BY <2>1, <2>2, TableDataType DEF Minus
  <2> QED BY <1>2, <2>1, <2>3 DEF NextTable, World, misses
<1>3. CASE Return
  BY <1>3 DEF Return, World, misses
<1>4. CASE CreateTable
  BY <1>4, StatementsType DEF CreateTable, GoesTo, Throws, World, misses, DbType
<1>5. CASE AddField
  BY <1>5, StatementsType DEF AddField, Throws, World, misses, DbType
<1>6. CASE TableDone
  BY <1>6 DEF TableDone, GoesTo, World, misses
<1>7. CASE RemoveField
  <2>1. PICK f \in surplus, d \in table_data(table) :
          /\ surplus' = surplus \ {f}
          /\ copied' = FieldsWithout(d.fields, f) \cup ({d.key} \ {NoOne})
          /\ keyed' = (d.key # NoOne)
          /\ misread' = (misread \/ Overlooks(d))
    BY <1>7 DEF RemoveField
  <2>2. table \in Tables /\ db \in DbType
    BY <1>7 DEF RemoveField, DbType
  <2>3. d.fields \subseteq Fields \cup {Pk} /\ d.key \in {Pk, NoOne}
    BY <2>2, TableDataType
  <2>4. /\ copied' \subseteq Fields \cup {Pk}
        /\ surplus' \subseteq Fields \cup {Pk}
        /\ temp' \in Seconds
    BY <1>7, <2>1, <2>3 DEF RemoveField, FieldsWithout, TempName
  <2>5. keyed' \in BOOLEAN /\ misread' \in BOOLEAN
    BY <2>1
  <2> QED BY <1>7, <2>4, <2>5 DEF RemoveField, World
<1>8. CASE CreateTemp
  BY <1>8, StatementsType DEF CreateTemp, GoesTo, Throws, World, misses, DbType
<1>9. CASE CopyRows
  BY <1>9, StatementsType DEF CopyRows, GoesTo, Throws, World, DbType
<1>10. CASE DropTable
  BY <1>10, StatementsType DEF DropTable, GoesTo, World, misses, DbType
<1>11. CASE RenameTable
  BY <1>11, StatementsType DEF RenameTable, Throws, World, misses, DbType
<1>12. CASE Stop
  BY <1>12 DEF Stop, Stopped, misses
<1>13. CASE Crash
  <2>1. crashes' \in 0..MaxCrashes
    <3>1. crashes \in 0..MaxCrashes /\ crashes < MaxCrashes /\ crashes' = crashes + 1
      BY <1>13 DEF Crash
    <3> HIDE DEF Typed, TypeOK, Places, AtTable
    <3> QED BY <3>1, BoundAssumption
  <2> QED BY <1>13, <2>1 DEF Crash, Stopped, misses
<1>14. CASE Release
  <2>1. PICK t \in Tables, w \in SUBSET Columns :
          /\ wanted' = [wanted EXCEPT ![t] = w]
          /\ keep' = [keep EXCEPT ![t] = {x \in @ : x[2] \in w \cup {Pk}}]
    BY <1>14 DEF Release
  <2>2. wanted' \in [Tables -> SUBSET Columns]
    BY <2>1
  <2>3. keep' \in [Tables -> SUBSET Cell]
    BY <2>1
  <2>4. releases' \in 0..MaxReleases
    BY <1>14, BoundAssumption DEF Release
  <2> QED BY <1>14, <2>2, <2>3, <2>4 DEF Release, process, misses
<1>15. CASE Store
  <2>a. PICK t \in Tables, r \in Rows : \E fs \in SUBSET wanted[t] : StoreRow(t, r, fs)
    BY <1>15 DEF Store
  <2>b. PICK fs \in SUBSET wanted[t] : StoreRow(t, r, fs)
    BY <2>a
  <2> DEFINE new == {r} \X (fs \cup (IF db[t].key = "integer" THEN {Pk} ELSE {}))
  <2>1. /\ owner' = [owner EXCEPT ![r] = t]
        /\ db' = [db EXCEPT ![t].cells = @ \cup new]
        /\ keep' = [keep EXCEPT ![t] = @ \cup new]
    BY <2>b DEF StoreRow
  <2>2. fs \subseteq Fields
    BY <2>1 DEF Fields
  <2>3. new \subseteq Cell
    BY <2>2 DEF Cell
  <2> HIDE DEF new
  <2>4. keep' \in [Tables -> SUBSET Cell]
    BY <2>1, <2>3
  <2>5. [db[t] EXCEPT !.cells = @ \cup new] \in TableState
    <3>1. db[t] \in TableState
      OBVIOUS
    <3> HIDE DEF Typed, TypeOK, Places, AtTable
    <3> QED BY <2>3, <3>1 DEF TableState
  <2>6. db' \in [Tables \cup Seconds -> TableState]
    BY <2>1, <2>5
  <2>7. owner' \in [Rows -> Tables \cup {NoOne}]
    BY <2>1
  <2> QED BY <1>15, <2>4, <2>6, <2>7 DEF Store, process, misses
<1>16. CASE Tick
  <2>1. clock' \in Seconds
    <3>1. clock \in 0..MaxSecond /\ clock < MaxSecond /\ clock' = clock + 1
      BY <1>16 DEF Tick, Seconds
    <3> HIDE DEF Typed, TypeOK, Places, AtTable
    <3> QED BY <3>1, BoundAssumption DEF Seconds
  <2> QED BY <1>16, <2>1 DEF Tick, process, misses
<1>18. CASE Refused
  BY <1>18 DEF Refused, Throws, World, misses
<1>17. CASE UNCHANGED vars
  BY <1>17 DEF vars
<1> QED
  BY <1>1, <1>2, <1>3, <1>4, <1>5, <1>6, <1>7, <1>8, <1>9, <1>10, <1>11,
     <1>12, <1>13, <1>14, <1>15, <1>16, <1>17, <1>18 DEF Next, Update

LEMMA TypedInvariant == Spec => []Typed
<1>1. Init => Typed
  BY InitType DEF Typed, AtTable, Init
<1>2. Typed /\ [Next]_vars => Typed'
  <2> SUFFICES ASSUME Typed, [Next]_vars PROVE Typed'
    OBVIOUS
  <2> QED BY NextType
<1> QED BY <1>1, <1>2, PTL DEF Spec

\* Whatever is released, fails or crashes, the tables in the file and what
\* update_database is doing with them keep their types.
THEOREM TypeCorrect == Spec => []TypeOK
<1>1. Typed => TypeOK
  BY DEF Typed
<1> QED BY <1>1, TypedInvariant, PTL

-----------------------------------------------------------------------------
(* update_database loses no row, whatever fails, crashes or is released.   *)
(*                                                                         *)
(* Whatever a removal is going to drop is in the temporary table by then,  *)
(* because update_table removes only what the model does not want, the     *)
(* temporary table was made for this removal, and no row is in the tables  *)
(* of two models.                                                          *)

\* Only a table that exists has columns and cells, the cells are in its
\* columns, and the key is one of them.
WellFormed ==
  \A s \in Tables \cup Seconds :
    /\ ~db[s].exists => db[s] = NoTable
    /\ \A x \in db[s].cells : x[2] \in db[s].cols
    /\ db[s].key # "none" => Pk \in db[s].cols

\* Only a read that overlooked it makes a table without its key.
KeyStays == ~misread => \A s \in Tables \cup Seconds :
                          db[s].exists => db[s].key # "none"

KeepWanted == \A t \in Tables : \A x \in keep[t] : x[2] \in wanted[t] \cup {Pk}

\* Each row is in the table it was stored in, or in the temporary table that
\* is being filled from that table.
Owned ==
  /\ \A t \in Tables : \A x \in keep[t] \cup db[t].cells : owner[x[1]] = t
  /\ pc \in {"copy", "drop", "rename"} =>
       \A x \in db[temp].cells : owner[x[1]] = table

\* What update_table removes is not in the model.
SurplusUnwanted ==
  pc \in AtTable \ {"create"} => surplus \cap wanted[table] = {}

\* The columns of the temporary table are those that stay.
CopiedWanted ==
  pc \in {"create temp", "copy", "drop"} =>
    /\ keyed => Pk \in copied
    /\ ~misread => /\ db[table].cols \cap wanted[table] \subseteq copied
                   /\ keyed \/ (pc = "create temp" /\ copied = {})

\* The copy fills a temporary table that was made for it.
FreshTarget ==
  pc = "copy" /\ db[temp].exists => db[temp] = NewTable(copied, keyed)

\* Before the table is dropped, what stays has been copied.
CopyDone ==
  pc = "drop" /\ ~miscopied => CellsIn(table, copied) \subseteq db[temp].cells

SafeInv ==
  /\ Typed
  /\ WellFormed
  /\ KeyStays
  /\ KeepWanted
  /\ Owned
  /\ SurplusUnwanted
  /\ CopiedWanted
  /\ FreshTarget
  /\ CopyDone
  /\ NothingLost

-----------------------------------------------------------------------------
LEMMA InitSafe == Init => SafeInv
<1> SUFFICES ASSUME Init PROVE SafeInv
  OBVIOUS
<1>1. Typed
  BY InitType DEF Init, Typed, AtTable
<1>2. PICK cols \in [Foreign -> SUBSET Columns] :
        db = [t \in Tables \cup Seconds |->
                IF t \in Foreign
                THEN [exists |-> TRUE, key |-> "text", cols |-> cols[t] \cup {Pk},
                      cells |-> {r \in Rows : owner[r] = t}
                                  \X (cols[t] \cup {Pk})]
                ELSE NoTable]
  BY DEF Init
<1>3. WellFormed
  <2> SUFFICES ASSUME NEW s \in Tables \cup Seconds
               PROVE  /\ ~db[s].exists => db[s] = NoTable
                      /\ \A x \in db[s].cells : x[2] \in db[s].cols
                      /\ db[s].key # "none" => Pk \in db[s].cols
    BY DEF WellFormed
  <2> QED BY <1>2 DEF NoTable
<1>a. KeyStays
  BY <1>2 DEF KeyStays, NoTable
<1>4. \A t \in Tables : keep[t] = {x \in db[t].cells : x[2] \in wanted[t] \cup {Pk}}
  BY DEF Init
<1>5. KeepWanted
  BY <1>4 DEF KeepWanted
<1>6. Owned
  <2>1. \A t \in Tables : \A x \in db[t].cells : owner[x[1]] = t
    BY <1>2 DEF NoTable
  <2> QED BY <1>4, <2>1 DEF Init, Owned
<1>7. NothingLost
  BY <1>4 DEF NothingLost, RowsSomewhere
<1> QED
  BY <1>1, <1>3, <1>a, <1>5, <1>6, <1>7
  DEF Init, SafeInv, SurplusUnwanted, CopiedWanted, FreshTarget, CopyDone, AtTable

-----------------------------------------------------------------------------
(* The steps that leave the tables and the models alone.                   *)

Still ==
  UNCHANGED <<db, wanted, keep, owner, miscopied>> /\ (misread => misread')

LEMMA StillSafe ==
  ASSUME SafeInv, Still
  PROVE  /\ WellFormed' /\ KeyStays' /\ KeepWanted' /\ NothingLost'
         /\ \A t \in Tables : \A x \in (keep[t] \cup db[t].cells)' :
              owner'[x[1]] = t
BY DEF SafeInv, Still, WellFormed, KeyStays, KeepWanted, NothingLost,
       RowsSomewhere, Owned

\* Outside a table's turn nothing else has to hold.
LEMMA BetweenTables ==
  ASSUME SafeInv, Still, Typed', pc' \notin AtTable
  PROVE  SafeInv'
BY StillSafe
DEF SafeInv, Owned, SurplusUnwanted, CopiedWanted, FreshTarget, CopyDone, AtTable

LEMMA BetweenTablesSteps ==
  ASSUME SafeInv, Typed', Start \/ Return \/ TableDone \/ Stop \/ Crash
  PROVE  SafeInv'
<1>1. Still
  BY DEF Start, Return, TableDone, GoesTo, Stop, Crash, Stopped, World, Still,
         misses
<1>2. pc' \notin AtTable
  BY DEF Start, Return, TableDone, GoesTo, Stop, Crash, Stopped, AtTable
<1> QED BY <1>1, <1>2, BetweenTables

LEMMA NextTableSafe ==
  ASSUME SafeInv, Typed', NextTable
  PROVE  SafeInv'
<1>1. Still
  BY DEF NextTable, World, Still, misses
<1>2. PICK t \in todo :
        /\ table' = t
        /\ \/ /\ \E d \in table_data(t) : surplus' = Minus(d.fields, wanted[t])
              /\ pc' = "fields"
           \/ pc' = "create"
  BY DEF NextTable
<1>3. db' = db /\ wanted' = wanted /\ pc' \in {"fields", "create"}
  BY <1>1, <1>2 DEF Still
<1>4. SurplusUnwanted'
  BY <1>2, <1>3 DEF SurplusUnwanted, AtTable, Minus
<1> QED
  BY <1>1, <1>3, <1>4, StillSafe
  DEF SafeInv, Owned, CopiedWanted, FreshTarget, CopyDone

LEMMA RemoveFieldSafe ==
  ASSUME SafeInv, Typed', RemoveField
  PROVE  SafeInv'
<1>1. Still
  BY DEF RemoveField, World, Still
<1>2. PICK f \in surplus, d \in table_data(table) :
        /\ surplus' = surplus \ {f}
        /\ copied' = FieldsWithout(d.fields, f) \cup ({d.key} \ {NoOne})
        /\ keyed' = (d.key # NoOne)
        /\ misread' = (misread \/ Overlooks(d))
  BY DEF RemoveField
<1>3. /\ pc = "fields" /\ pc' = "create temp" /\ table' = table
      /\ db' = db /\ wanted' = wanted
  BY DEF RemoveField, World
<1>4. surplus \cap wanted[table] = {}
  BY <1>3 DEF SafeInv, SurplusUnwanted, AtTable
<1>5. table \in Tables /\ db \in DbType
  BY <1>3 DEF SafeInv, Typed, TypeOK, AtTable, DbType
<1>6. d.key \in {Pk, NoOne}
  BY <1>5, TableDataType
<1>7. keyed' => Pk \in copied'
  BY <1>2, <1>6
<1>8. ASSUME ~misread'
      PROVE  /\ db[table].cols \cap wanted[table] \subseteq copied'
             /\ keyed' \/ copied' = {}
  <2>1. ~misread /\ d.key = KeyOf(table)
        /\ db[table].cols \cap wanted[table] \subseteq d.fields
    BY <1>2, <1>8 DEF Overlooks
  <2>2. db[table].cols \cap wanted[table] \subseteq copied'
    BY <1>2, <1>4, <2>1 DEF FieldsWithout
  <2>3. CASE db[table].exists
    <3>1. d.key = Pk
      BY <1>5, <2>1, <2>3 DEF SafeInv, KeyStays, KeyOf
    <3> QED BY <1>2, <2>2, <3>1, NamesDistinct
  <2>4. CASE ~db[table].exists
    <3>1. db[table] = NoTable
      BY <1>5, <2>4 DEF SafeInv, WellFormed
    <3>2. d.fields = {} /\ d.key = NoOne
      BY <1>5, <2>1, <3>1, TableDataType DEF KeyOf, NoTable
    <3> QED BY <1>2, <2>2, <3>2 DEF FieldsWithout
  <2> QED BY <2>3, <2>4
<1>9. SurplusUnwanted' /\ CopiedWanted'
  BY <1>2, <1>3, <1>4, <1>7, <1>8 DEF SurplusUnwanted, CopiedWanted
<1> QED
  BY <1>1, <1>3, <1>9, StillSafe DEF SafeInv, Owned, FreshTarget, CopyDone

-----------------------------------------------------------------------------
(* The statements.                                                         *)

\* A statement that throws, or whose failure goes unnoticed outside a
\* removal, has changed nothing.
LEMMA ThrowsSafe ==
  ASSUME SafeInv, Typed', Throws, UNCHANGED <<World, misses>>
  PROVE  SafeInv'
<1>1. Still /\ pc' \notin AtTable
  BY DEF Throws, World, Still, AtTable, misses
<1> QED BY <1>1, BetweenTables

LEMMA NewTableEmpty ==
  ASSUME NEW cols, NEW k \in BOOLEAN
  PROVE  /\ NewTable(cols, k).cells = {} /\ NewTable(cols, k).cols = cols
         /\ NewTable(cols, k).exists
         /\ NewTable(cols, k).key = IF k THEN "integer" ELSE "none"
BY DEF NewTable

LEMMA CreateTableSafe ==
  ASSUME SafeInv, Typed', CreateTable
  PROVE  SafeInv'
<1>0. CASE Throws
  BY <1>0, ThrowsSafe DEF CreateTable
<1>1. CASE db' = db /\ GoesTo("next")
  <2>1. Still /\ pc' \notin AtTable
    BY <1>1 DEF CreateTable, GoesTo, World, Still, AtTable, misses
  <2> QED BY <2>1, BetweenTables
<1>2. CASE /\ ~db[table].exists /\ GoesTo("next")
           /\ db' = [db EXCEPT ![table] = NewTable(ModelColumns(table), TRUE)]
  <2>1. /\ pc = "create" /\ pc' = "next"
        /\ UNCHANGED <<wanted, keep, owner, miscopied, misread>>
    BY <1>2 DEF CreateTable, GoesTo, World, misses
  <2>2. table \in Tables /\ db[table].cells = {}
    BY <1>2, <2>1 DEF SafeInv, Typed, AtTable, WellFormed, NoTable
  <2>3. \A s \in Tables \cup Seconds :
          db'[s] = IF s = table THEN NewTable(ModelColumns(table), TRUE) ELSE db[s]
    BY <1>2 DEF SafeInv, Typed, TypeOK
  <2>a. LET new == NewTable(ModelColumns(table), TRUE) IN
        new.exists /\ new.cells = {} /\ new.key # "none" /\ Pk \in new.cols
    BY DEF NewTable, ModelColumns
  <2>4. \A s \in Tables \cup Seconds : db'[s].cells = db[s].cells
    BY <2>2, <2>3, <2>a
  <2>5. WellFormed'
    BY <2>2, <2>3, <2>4, <2>a DEF SafeInv, WellFormed
  <2>b. KeyStays'
    BY <2>1, <2>3, <2>a DEF SafeInv, KeyStays
  <2>6. Owned' /\ KeepWanted' /\ NothingLost'
    BY <2>1, <2>4
    DEF SafeInv, Owned, KeepWanted, NothingLost, RowsSomewhere
  <2> QED
    BY <2>1, <2>5, <2>6, <2>b
    DEF SafeInv, SurplusUnwanted, CopiedWanted, FreshTarget, CopyDone, AtTable
<1> QED BY <1>0, <1>1, <1>2 DEF CreateTable, Executes

LEMMA AddFieldSafe ==
  ASSUME SafeInv, Typed', AddField
  PROVE  SafeInv'
<1>0. CASE Throws
  BY <1>0, ThrowsSafe DEF AddField
<1> SUFFICES ASSUME ~Throws PROVE SafeInv'
  BY <1>0
<1>1. /\ pc = "fields" /\ pc' = "fields"
      /\ UNCHANGED <<wanted, keep, owner, miscopied, misread, table, surplus>>
  BY DEF AddField, World, misses
<1>2. /\ db[table].exists
      /\ \E f \in missing : Executes([db EXCEPT ![table].cols = @ \cup {f}])
  BY DEF AddField
<1>3. table \in Tables
  BY <1>1 DEF SafeInv, Typed, AtTable
<1>4. \A s \in Tables \cup Seconds :
        /\ db'[s].cells = db[s].cells
        /\ db'[s].exists = db[s].exists
        /\ db'[s].key = db[s].key
        /\ db[s].cols \subseteq db'[s].cols
        /\ ~db[s].exists => db'[s] = db[s]
  <2>1. CASE db' = db
    BY <2>1
  <2>2. ASSUME NEW f \in missing, db' = [db EXCEPT ![table].cols = @ \cup {f}]
        PROVE  \A s \in Tables \cup Seconds :
                 /\ db'[s].cells = db[s].cells
                 /\ db'[s].exists = db[s].exists
                 /\ db'[s].key = db[s].key
                 /\ db[s].cols \subseteq db'[s].cols
                 /\ ~db[s].exists => db'[s] = db[s]
    BY <2>2, <1>2, <1>3 DEF SafeInv, Typed, TypeOK, TableState
  <2> QED BY <1>2, <2>1, <2>2 DEF Executes
<1>5. WellFormed'
  <2> SUFFICES ASSUME NEW s \in Tables \cup Seconds
               PROVE  /\ ~db'[s].exists => db'[s] = NoTable
                      /\ \A x \in db'[s].cells : x[2] \in db'[s].cols
                      /\ db'[s].key # "none" => Pk \in db'[s].cols
    BY DEF WellFormed
  <2>1. /\ ~db[s].exists => db[s] = NoTable
        /\ \A x \in db[s].cells : x[2] \in db[s].cols
        /\ db[s].key # "none" => Pk \in db[s].cols
    BY DEF SafeInv, WellFormed
  <2> QED BY <1>4, <2>1
<1>6. Owned' /\ KeepWanted' /\ NothingLost' /\ KeyStays'
  BY <1>1, <1>4 DEF SafeInv, Owned, KeepWanted, NothingLost, RowsSomewhere, KeyStays
<1> QED
  BY <1>1, <1>5, <1>6
  DEF SafeInv, SurplusUnwanted, CopiedWanted, FreshTarget, CopyDone, AtTable

LEMMA CreateTempSafe ==
  ASSUME SafeInv, Typed', CreateTemp
  PROVE  SafeInv'
<1>1. CASE Throws
  BY <1>1, ThrowsSafe DEF CreateTemp
<1>2. CASE Compiles(temp) /\ Executes([db EXCEPT ![temp] = NewTable(copied, keyed)])
           /\ GoesTo("copy")
  <2>1. /\ pc = "create temp" /\ pc' = "copy"
        /\ UNCHANGED <<wanted, keep, owner, miscopied, misread, table, surplus,
                       temp, copied, keyed>>
    BY <1>2 DEF CreateTemp, GoesTo, World, misses
  <2>2. /\ table \in Tables /\ temp \in Seconds /\ temp # table
        /\ ~db[temp].exists /\ db[temp].cells = {} /\ copied # {}
        /\ keyed \in BOOLEAN
    <3>1. /\ table \in Tables /\ temp \in Seconds /\ temp # table
          /\ keyed \in BOOLEAN
      BY <2>1, NamesDistinct DEF SafeInv, Typed, TypeOK, AtTable
    <3>2. ~db[temp].exists /\ copied # {}
      BY <1>2 DEF Compiles
    <3>3. db[temp] = NoTable
      BY <3>1, <3>2 DEF SafeInv, WellFormed
    <3> QED BY <3>1, <3>2, <3>3 DEF NoTable
  <2>3. /\ \A s \in Tables \cup Seconds : s # temp => db'[s] = db[s]
        /\ db'[temp] = NewTable(copied, keyed) \/ db'[temp] = db[temp]
    BY <1>2, <2>2 DEF Executes, SafeInv, Typed, TypeOK
  <2>4. db'[temp].cells = {}
    BY <2>2, <2>3, NewTableEmpty
  <2>5. \A s \in Tables \cup Seconds : db'[s].cells = db[s].cells
    BY <2>2, <2>3, <2>4
  <2>a. keyed => Pk \in copied
    BY <2>1 DEF SafeInv, CopiedWanted
  <2>b. ~misread => keyed
    BY <2>1, <2>2 DEF SafeInv, CopiedWanted
  <2>6. WellFormed'
    <3>1. /\ ~NewTable(copied, keyed).exists => NewTable(copied, keyed) = NoTable
          /\ \A x \in NewTable(copied, keyed).cells : x[2] \in copied
          /\ NewTable(copied, keyed).key # "none" => Pk \in NewTable(copied, keyed).cols
      BY <2>a, <2>2, NewTableEmpty
    <3> QED BY <2>2, <2>3, <2>4, <3>1 DEF SafeInv, WellFormed
  <2>c. KeyStays'
    <3>1. keyed => NewTable(copied, keyed).key # "none"
      BY <2>2, NewTableEmpty
    <3> QED BY <2>1, <2>2, <2>3, <2>b, <3>1 DEF SafeInv, KeyStays
  <2>7. KeepWanted' /\ NothingLost'
    <3>1. KeepWanted'
      BY <2>1 DEF SafeInv, KeepWanted
    <3>2. ASSUME RowsSomewhere PROVE RowsSomewhere'
      <4> SUFFICES ASSUME NEW t \in Tables, NEW x \in keep[t]
                   PROVE  \E s \in {t} \cup Seconds : x \in db'[s].cells
        BY <2>1 DEF RowsSomewhere
      <4>1. PICK s \in {t} \cup Seconds : x \in db[s].cells
        BY <3>2 DEF RowsSomewhere
      <4> QED BY <2>5, <4>1
    <3> QED BY <2>1, <3>1, <3>2 DEF SafeInv, NothingLost
  <2>8. Owned'
    <3>1. \A t \in Tables : \A x \in (keep[t] \cup db[t].cells)' : owner'[x[1]] = t
      BY <2>1, <2>5 DEF SafeInv, Owned
    <3>2. (db[temp].cells)' = {}
      BY <2>1, <2>4
    <3> QED BY <3>1, <3>2 DEF Owned
  <2>9. SurplusUnwanted' /\ CopiedWanted'
    BY <2>1, <2>2, <2>3, <2>b DEF SafeInv, SurplusUnwanted, CopiedWanted, AtTable
  <2>10. FreshTarget'
    <3>1. db'[temp].exists => db'[temp] = NewTable(copied, keyed)
      BY <2>2, <2>3
    <3> QED BY <2>1, <3>1 DEF FreshTarget, NewTable
  <2> QED BY <2>1, <2>6, <2>7, <2>8, <2>9, <2>10, <2>c DEF SafeInv, CopyDone
<1> QED BY <1>1, <1>2 DEF CreateTemp

LEMMA CopyRowsSafe ==
  ASSUME SafeInv, Typed', CopyRows
  PROVE  SafeInv'
<1>1. CASE Throws /\ UNCHANGED miscopied
  BY <1>1, ThrowsSafe DEF CopyRows, misses
<1>2. CASE db[temp].exists /\ GoesTo("drop")
  <2>1. /\ pc = "copy" /\ pc' = "drop"
        /\ UNCHANGED <<wanted, keep, owner, misread, table, surplus, temp, copied,
                       keyed>>
    BY <1>2 DEF CopyRows, GoesTo, World
  <2>2. table \in Tables /\ temp \in Seconds /\ temp # table
    BY <2>1, NamesDistinct DEF SafeInv, Typed, TypeOK, AtTable
  <2>3. db[temp].cols = copied /\ db[temp].cells = {}
    BY <1>2, <2>1 DEF SafeInv, FreshTarget, NewTable
  <2>a. (keyed => Pk \in copied) /\ (~misread => keyed)
    BY <2>1 DEF SafeInv, CopiedWanted
  <2>4. CASE db' = db /\ miscopied'
    <3>1. WellFormed' /\ KeepWanted' /\ Owned' /\ NothingLost' /\ CopyDone' /\ KeyStays'
      BY <2>1, <2>4
      DEF SafeInv, WellFormed, KeepWanted, Owned, NothingLost, CopyDone, KeyStays
    <3>2. SurplusUnwanted' /\ CopiedWanted'
      BY <2>1, <2>4, <2>a DEF SafeInv, SurplusUnwanted, CopiedWanted, AtTable
    <3> QED BY <2>1, <3>1, <3>2 DEF SafeInv, FreshTarget
  <2>5. CASE /\ db' = [db EXCEPT ![temp].cells = CellsIn(table, copied)]
             /\ UNCHANGED miscopied
    <3>1. /\ \A s \in Tables \cup Seconds : s # temp => db'[s] = db[s]
          /\ db'[temp].cells = CellsIn(table, copied)
          /\ db'[temp].cols = copied /\ db'[temp].exists
          /\ db'[temp].key = db[temp].key
      BY <1>2, <2>2, <2>3, <2>5 DEF SafeInv, Typed, TypeOK, TableState
    <3>2. db'[table] = db[table]
      BY <2>2, <3>1
    <3>3. \A x \in CellsIn(table, copied) :
            x \in db[table].cells /\ x[2] \in copied
      BY DEF CellsIn
    <3>4. WellFormed' /\ KeyStays'
      BY <1>2, <2>1, <2>2, <2>3, <3>1, <3>3 DEF SafeInv, WellFormed, KeyStays
    <3>5. KeepWanted'
      BY <2>1 DEF SafeInv, KeepWanted
    <3>6. Owned'
      <4>1. \A t \in Tables : db'[t] = db[t]
        BY <2>2, <3>1, NamesDistinct
      <4>2. \A t \in Tables : \A x \in (keep[t] \cup db[t].cells)' : owner'[x[1]] = t
        BY <2>1, <4>1 DEF SafeInv, Owned
      <4>3. \A x \in db'[temp].cells : owner'[x[1]] = table
        BY <2>1, <2>2, <3>1, <3>3 DEF SafeInv, Owned
      <4> QED BY <2>1, <4>2, <4>3 DEF Owned
    <3>7. NothingLost'
      <4>1. \A s \in Tables \cup Seconds : db[s].cells \subseteq db'[s].cells
        BY <2>3, <3>1
      <4> QED BY <2>1, <2>5, <4>1 DEF SafeInv, NothingLost, RowsSomewhere
    <3>8. SurplusUnwanted' /\ CopiedWanted'
      BY <2>1, <2>a, <3>2 DEF SafeInv, SurplusUnwanted, CopiedWanted, AtTable
    <3>9. CopyDone'
      BY <2>1, <3>1, <3>2 DEF CopyDone, CellsIn
    <3> QED
      BY <2>1, <3>4, <3>5, <3>6, <3>7, <3>8, <3>9 DEF SafeInv, FreshTarget
  <2> QED
    BY <1>2, <2>1, <2>4, <2>5 DEF CopyRows
<1> QED BY <1>1, <1>2 DEF CopyRows

\* The removal is about to drop nothing that is not copied.
LEMMA DropKeeps ==
  ASSUME SafeInv, pc = "drop", ~miscopied, ~misread, NEW x \in keep[table],
         x \in db[table].cells
  PROVE  x \in db[temp].cells
<1>1. table \in Tables
  BY DEF SafeInv, Typed, AtTable
<1>2. x[2] \in db[table].cols /\ x[2] \in wanted[table] \cup {Pk}
  BY <1>1 DEF SafeInv, WellFormed, KeepWanted
<1>3. x[2] \in copied
  BY <1>2 DEF SafeInv, CopiedWanted
<1> QED BY <1>3 DEF SafeInv, CopyDone, CellsIn

LEMMA DropTableSafe ==
  ASSUME SafeInv, Typed', DropTable
  PROVE  SafeInv'
<1>1. /\ pc = "drop" /\ pc' = "rename"
      /\ UNCHANGED <<wanted, keep, owner, miscopied, misread, table, surplus, temp,
                     copied>>
  BY DEF DropTable, GoesTo, World, misses
<1>2. table \in Tables /\ temp \in Seconds /\ temp # table
  BY <1>1, NamesDistinct DEF SafeInv, Typed, TypeOK, AtTable
<1>3. /\ \A s \in Tables \cup Seconds : s # table => db'[s] = db[s]
      /\ db'[table] = NoTable \/ db'[table] = db[table]
  BY <1>2 DEF DropTable, Executes, SafeInv, Typed, TypeOK
<1>4. WellFormed' /\ KeyStays'
  <2>1. /\ NoTable.cells = {} /\ ~NoTable.exists /\ NoTable.key = "none"
    BY DEF NoTable
  <2> QED BY <1>1, <1>2, <1>3, <2>1 DEF SafeInv, WellFormed, KeyStays
<1>5. KeepWanted'
  BY <1>1 DEF SafeInv, KeepWanted
<1>6. Owned'
  <2>1. \A t \in Tables : db'[t].cells \subseteq db[t].cells
    BY <1>3 DEF NoTable
  <2>2. db'[temp] = db[temp]
    BY <1>2, <1>3
  <2> QED BY <1>1, <2>1, <2>2 DEF SafeInv, Owned
<1>7. NothingLost'
  <2> SUFFICES ASSUME ~miscopied, ~misread, NEW t \in Tables, NEW x \in keep[t]
               PROVE  \E s \in {t} \cup Seconds : x \in db'[s].cells
    BY <1>1 DEF NothingLost, RowsSomewhere
  <2>1. PICK s \in {t} \cup Seconds : x \in db[s].cells
    BY DEF SafeInv, NothingLost, RowsSomewhere
  <2>2. CASE s # table
    BY <2>1, <2>2, <1>3
  <2>3. CASE s = table
    <3>1. t = table
      BY <1>2, <2>3, NamesDistinct
    <3>2. x \in db[temp].cells
      BY <1>1, <2>1, <2>3, <3>1, DropKeeps
    <3> QED BY <1>2, <1>3, <3>2
  <2> QED BY <2>2, <2>3
<1> QED
  BY <1>1, <1>4, <1>5, <1>6, <1>7
  DEF SafeInv, SurplusUnwanted, CopiedWanted, FreshTarget, CopyDone, AtTable

LEMMA RenameTableSafe ==
  ASSUME SafeInv, Typed', RenameTable
  PROVE  SafeInv'
<1>1. CASE Throws
  BY <1>1, ThrowsSafe DEF RenameTable
<1>2. CASE ~db[table].exists /\ pc' = "fields"
           /\ UNCHANGED <<table, surplus>>
           /\ Executes([db EXCEPT ![table] = db[temp], ![temp] = NoTable])
  <2>1. pc = "rename" /\ UNCHANGED <<wanted, keep, owner, miscopied, misread>>
    BY DEF RenameTable, World, misses
  <2>2. table \in Tables /\ temp \in Seconds /\ temp # table
    BY <2>1, NamesDistinct DEF SafeInv, Typed, TypeOK, AtTable
  <2>3. db[table].cells = {}
    BY <1>2, <2>2 DEF SafeInv, WellFormed, NoTable
  <2>4. \A x \in db[temp].cells : owner[x[1]] = table
    BY <2>1 DEF SafeInv, Owned
  <2>5. \/ db' = db
        \/ /\ \A s \in (Tables \cup Seconds) \ {table, temp} : db'[s] = db[s]
           /\ db'[table] = db[temp]
           /\ db'[temp] = NoTable
    BY <1>2, <2>2 DEF Executes, SafeInv, Typed, TypeOK
  <2>6. WellFormed' /\ KeyStays'
    <3>1. \A s \in Tables \cup Seconds :
            db'[s] = NoTable \/ \E q \in Tables \cup Seconds : db'[s] = db[q]
      BY <2>2, <2>5
    <3>2. /\ NoTable.cells = {} /\ ~NoTable.exists /\ NoTable.key = "none"
      BY DEF NoTable
    <3> QED BY <2>1, <3>1, <3>2 DEF SafeInv, WellFormed, KeyStays
  <2>7. KeepWanted'
    BY <2>1 DEF SafeInv, KeepWanted
  <2>8. Owned'
    <3> SUFFICES ASSUME NEW t \in Tables, NEW x \in keep[t] \cup db'[t].cells
                 PROVE  owner[x[1]] = t
      BY <1>2, <2>1 DEF Owned
    <3>1. CASE x \in keep[t] \cup db[t].cells
      BY <3>1 DEF SafeInv, Owned
    <3>2. CASE x \in db'[t].cells /\ x \notin db[t].cells
      <4>1. t # temp
        BY <2>2, NamesDistinct
      <4>2. t = table /\ x \in db[temp].cells
        BY <2>5, <3>2, <4>1
      <4> QED BY <2>4, <4>2
    <3> QED BY <3>1, <3>2
  <2>9. NothingLost'
    <3> SUFFICES ASSUME ~miscopied, ~misread, NEW t \in Tables, NEW x \in keep[t]
                 PROVE  \E s \in {t} \cup Seconds : x \in db'[s].cells
      BY <2>1 DEF NothingLost, RowsSomewhere
    <3>1. PICK s \in {t} \cup Seconds : x \in db[s].cells
      BY DEF SafeInv, NothingLost, RowsSomewhere
    <3>2. owner[x[1]] = t
      BY DEF SafeInv, Owned
    <3>3. CASE s = temp
      <4>1. t = table
        BY <2>4, <3>1, <3>2, <3>3
      <4> QED BY <2>2, <2>5, <3>1, <3>3, <4>1
    <3>4. CASE s # temp
      <4>1. s # table
        BY <2>3, <3>1
      <4> QED BY <2>5, <3>1, <3>4, <4>1
    <3> QED BY <3>3, <3>4
  <2>10. SurplusUnwanted'
    BY <1>2, <2>1 DEF SafeInv, SurplusUnwanted, AtTable
  <2> QED
    BY <1>2, <2>6, <2>7, <2>8, <2>9, <2>10
    DEF SafeInv, CopiedWanted, FreshTarget, CopyDone
<1> QED BY <1>1, <1>2 DEF RenameTable

-----------------------------------------------------------------------------
(* The program around it.                                                  *)

LEMMA ReleaseSafe ==
  ASSUME SafeInv, Typed', Release
  PROVE  SafeInv'
<1>1. pc = "idle" /\ UNCHANGED <<db, pc, owner, miscopied, misread>>
  BY DEF Release, process, misses
<1>2. PICK t \in Tables, w \in SUBSET Columns :
        /\ wanted' = [wanted EXCEPT ![t] = w]
        /\ keep' = [keep EXCEPT ![t] = {x \in @ : x[2] \in w \cup {Pk}}]
  BY DEF Release
<1>3. \A u \in Tables :
        /\ wanted'[u] = IF u = t THEN w ELSE wanted[u]
        /\ keep'[u] = IF u = t THEN {x \in keep[t] : x[2] \in w \cup {Pk}}
                               ELSE keep[u]
  BY <1>2 DEF SafeInv, Typed, TypeOK
<1>4. \A u \in Tables : keep'[u] \subseteq keep[u]
  BY <1>3
<1>5. KeepWanted'
  BY <1>3 DEF SafeInv, KeepWanted
<1>6. WellFormed' /\ KeyStays' /\ Owned' /\ NothingLost'
  BY <1>1, <1>4
  DEF SafeInv, WellFormed, KeyStays, Owned, NothingLost, RowsSomewhere
<1> QED
  BY <1>1, <1>5, <1>6
  DEF SafeInv, SurplusUnwanted, CopiedWanted, FreshTarget, CopyDone, AtTable

LEMMA StoreSafe ==
  ASSUME SafeInv, Typed', Store
  PROVE  SafeInv'
<1>1. pc = "ready" /\ UNCHANGED <<pc, wanted, miscopied, misread>>
  BY DEF Store, process, misses
<1>2. PICK t \in Tables, r \in Rows : \E fs \in SUBSET wanted[t] : StoreRow(t, r, fs)
  BY DEF Store
<1>3. PICK fs \in SUBSET wanted[t] : StoreRow(t, r, fs)
  BY <1>2
<1> DEFINE new == {r} \X (fs \cup (IF db[t].key = "integer" THEN {Pk} ELSE {}))
<1>4. /\ db[t].exists /\ fs \subseteq db[t].cols /\ owner[r] = NoOne
      /\ owner' = [owner EXCEPT ![r] = t]
      /\ db' = [db EXCEPT ![t].cells = @ \cup new]
      /\ keep' = [keep EXCEPT ![t] = @ \cup new]
  BY <1>3 DEF StoreRow
<1>a. db[t].key = "integer" => Pk \in db[t].cols
  BY DEF SafeInv, WellFormed
<1>5. \A x \in new : x[1] = r /\ x[2] \in fs \cup {Pk} /\ x[2] \in db[t].cols
  BY <1>4, <1>a
<1> HIDE DEF new
<1>6. \A s \in Tables \cup Seconds :
        /\ db'[s].exists = db[s].exists
        /\ db'[s].cols = db[s].cols
        /\ db'[s].key = db[s].key
        /\ ~db[s].exists => db'[s] = db[s]
        /\ db'[s].cells = IF s = t THEN db[s].cells \cup new ELSE db[s].cells
  <2>1. db[t] \in TableState
    BY DEF SafeInv, Typed, TypeOK
  <2>2. /\ db'[t] = [db[t] EXCEPT !.cells = @ \cup new]
        /\ \A s \in Tables \cup Seconds : s # t => db'[s] = db[s]
    BY <1>4 DEF SafeInv, Typed, TypeOK
  <2>3. /\ db'[t].exists = db[t].exists
        /\ db'[t].cols = db[t].cols
        /\ db'[t].key = db[t].key
        /\ db'[t].cells = db[t].cells \cup new
    BY <2>1, <2>2 DEF TableState
  <2>4. db[t].exists
    BY <1>4
  <2> QED BY <2>2, <2>3, <2>4
<1>7. \A u \in Tables : keep'[u] = IF u = t THEN keep[u] \cup new ELSE keep[u]
  BY <1>4 DEF SafeInv, Typed, TypeOK
<1>8. WellFormed' /\ KeyStays'
  <2>1. ASSUME NEW s \in Tables \cup Seconds, NEW x \in db'[s].cells
        PROVE  x[2] \in db'[s].cols
    BY <1>5, <1>6 DEF SafeInv, WellFormed
  <2> QED BY <1>1, <1>6, <2>1 DEF SafeInv, WellFormed, KeyStays
<1>9. KeepWanted'
  BY <1>1, <1>5, <1>7 DEF SafeInv, KeepWanted
<1>10. Owned'
  <2> SUFFICES ASSUME NEW u \in Tables, NEW x \in keep'[u] \cup db'[u].cells
               PROVE  owner'[x[1]] = u
    BY <1>1 DEF Owned
  <2>1. owner'[r] = t
    BY <1>4 DEF SafeInv, Typed, TypeOK
  <2>2. CASE x \in keep[u] \cup db[u].cells
    <3>1. owner[x[1]] = u
      BY <2>2 DEF SafeInv, Owned
    <3>2. x[1] # r
      BY <3>1, <1>4, NamesDistinct
    <3> QED BY <1>4, <3>1, <3>2 DEF SafeInv, Typed, TypeOK
  <2>3. CASE x \notin keep[u] \cup db[u].cells
    <3>1. x \in new /\ u = t
      BY <1>6, <1>7, <2>3
    <3> QED BY <1>5, <2>1, <3>1
  <2> QED BY <2>2, <2>3
<1>11. NothingLost'
  <2> SUFFICES ASSUME ~miscopied, ~misread, NEW u \in Tables, NEW x \in keep'[u]
               PROVE  \E s \in {u} \cup Seconds : x \in db'[s].cells
    BY <1>1 DEF NothingLost, RowsSomewhere
  <2>1. CASE x \in keep[u]
    <3>1. PICK s \in {u} \cup Seconds : x \in db[s].cells
      BY <2>1 DEF SafeInv, NothingLost, RowsSomewhere
    <3> QED BY <1>6, <3>1
  <2>2. CASE x \notin keep[u]
    <3>1. x \in new /\ u = t
      BY <1>7, <2>2
    <3> QED BY <1>6, <3>1
  <2> QED BY <2>1, <2>2
<1> QED
  BY <1>1, <1>8, <1>9, <1>10, <1>11
  DEF SafeInv, SurplusUnwanted, CopiedWanted, FreshTarget, CopyDone, AtTable

\* Nothing but the clock and the counters changes.
LEMMA IdleSafe ==
  ASSUME SafeInv, Typed', Still, UNCHANGED process
  PROVE  SafeInv'
<1>1. UNCHANGED <<pc, table, surplus, temp, copied, keyed, db, wanted, owner,
                  miscopied>> /\ (misread => misread')
  BY DEF Still, process
<1>2. Owned' /\ SurplusUnwanted'
  BY <1>1, StillSafe DEF SafeInv, Owned, SurplusUnwanted
<1>3. CopiedWanted' /\ FreshTarget'
  BY <1>1 DEF SafeInv, CopiedWanted, FreshTarget, NewTable
<1>4. CopyDone'
  BY <1>1 DEF SafeInv, CopyDone, CellsIn
<1> QED BY <1>2, <1>3, <1>4, StillSafe DEF SafeInv

LEMMA NextSafe ==
  ASSUME SafeInv, [Next]_vars
  PROVE  SafeInv'
<1>1. Typed'
  BY NextType DEF SafeInv
<1>2. ASSUME Tick \/ UNCHANGED vars PROVE SafeInv'
  <2>1. Still /\ UNCHANGED process
    BY <1>2 DEF Tick, vars, Still, process, misses
  <2> QED BY <1>1, <2>1, IdleSafe
<1> QED
  BY <1>1, <1>2, BetweenTablesSteps, NextTableSafe, RemoveFieldSafe,
     CreateTableSafe, AddFieldSafe, CreateTempSafe, CopyRowsSafe,
     DropTableSafe, RenameTableSafe, ReleaseSafe, StoreSafe, ThrowsSafe
  DEF Next, Update, Refused

\* Unless a copy itself failed, or remove_field overlooked a field the model
\* wants or the key because its own reads failed, every value the program
\* stored in a field that is still in its model is in the table or in a
\* temporary table: no crash between two statements of a removal, no exception,
\* no leftover of an earlier removal, no failed read of table_exists or
\* update_table and no other statement that fails unnoticed loses it.
THEOREM NothingIsLost == Spec => []NothingLost
<1>1. Init => SafeInv
  BY InitSafe
<1>2. SafeInv /\ [Next]_vars => SafeInv'
  <2> SUFFICES ASSUME SafeInv, [Next]_vars PROVE SafeInv'
    OBVIOUS
  <2> QED BY NextSafe
<1>3. SafeInv => NothingLost
  BY DEF SafeInv
<1> QED BY <1>1, <1>2, <1>3, PTL DEF Spec

-----------------------------------------------------------------------------
(* Where no statement fails: the invariant.                                *)

\* Where a temporary table is or is about to be.
Removing == {"create temp", "copy", "drop", "rename"}

Done(t) == db[t].exists /\ db[t].cols \ Stamps = wanted[t] \cup {Pk}

\* The tables update_database has been through have the fields of their
\* models.
DoneInv ==
  /\ pc = "next" => \A t \in Tables \ todo : Done(t)
  /\ pc \in AtTable => \A t \in Tables \ (todo \cup {table}) : Done(t)
  /\ FollowsModel

\* Fields on their way to those of the model: what the model wants is there
\* or is going to be added, what it does not want is going to be removed.
OnTheWay(fields) ==
  /\ missing \subseteq wanted[table] \ fields
  /\ wanted[table] \subseteq fields \cup missing
  /\ fields \subseteq wanted[table] \cup surplus

\* A table to create is not there.  One that is there is on its way; during a
\* removal so is the temporary table, which is there from its CREATE to its
\* RENAME, while the table is there until its DROP.
TurnInv ==
  /\ pc = "create" => ~db[table].exists
  /\ pc = "fields" => db[table].exists /\ OnTheWay(db[table].cols \ {Pk})
  /\ pc \in Removing => missing = {} /\ Pk \in copied /\ OnTheWay(copied \ {Pk})
  /\ pc \in Removing \ {"rename"} =>
       db[table].exists /\ copied \subseteq db[table].cols
  /\ pc \in Removing \ {"create temp"} =>
       db[temp].exists /\ db[temp].cols = copied
  /\ pc = "drop" => db[temp].cells \subseteq db[table].cells
  /\ pc = "rename" => db[table] = NoTable

\* No key is a text, so no copy failed.
KeysFit == ~miscopied /\ \A s \in Tables \cup Seconds : db[s].key # "text"

\* Unless the process died, a temporary table is that of the removal under
\* way, so no CREATE finds one that is left over.
NoLeftover ==
  crashes = 0 =>
    /\ pc # "threw"
    /\ \A s \in Seconds :
         db[s].exists => pc \in Removing \ {"create temp"} /\ s = temp

-----------------------------------------------------------------------------
(* What a statement that runs changes.                                     *)

LEMMA Runs ==
  ASSUME ~StepsFail, NEW db2, Executes(db2)
  PROVE  db' = db2
BY DEF Executes, MayFail

LEMMA AtHand ==
  ASSUME Typed, pc \in AtTable
  PROVE  /\ table \in Tables /\ temp \in Seconds /\ temp # table
         /\ \A t \in Tables : t # temp
         /\ db[table] \in TableState /\ db[temp] \in TableState
BY NamesDistinct DEF Typed, TypeOK

LEMMA CreateTableDoes ==
  ASSUME ~StepsFail, Typed, CreateTable, ~Throws
  PROVE  /\ GoesTo("next") /\ table \in Tables
         /\ db'[table] = NewTable(ModelColumns(table), TRUE)
         /\ \A s \in Tables \cup Seconds : s # table => db'[s] = db[s]
<1>1. /\ db' = [db EXCEPT ![table] = NewTable(ModelColumns(table), TRUE)]
      /\ GoesTo("next")
  BY Runs DEF CreateTable
<1>2. table \in Tables
  BY AtHand DEF CreateTable, AtTable
<1> QED BY <1>1, <1>2 DEF Typed, TypeOK

LEMMA AddFieldDoes ==
  ASSUME ~StepsFail, Typed, AddField, ~Throws
  PROVE  \E f \in missing :
           /\ missing' = missing \ {f}
           /\ UNCHANGED <<pc, table, surplus>>
           /\ db'[table] = [db[table] EXCEPT !.cols = db[table].cols \cup {f}]
           /\ \A s \in Tables \cup Seconds : s # table => db'[s] = db[s]
<1>1. PICK f \in missing :
        /\ Executes([db EXCEPT ![table].cols = @ \cup {f}])
        /\ missing' = missing \ {f}
        /\ UNCHANGED <<pc, table, surplus>>
  BY DEF AddField
<1>2. db' = [db EXCEPT ![table].cols = @ \cup {f}]
  BY <1>1, Runs
<1>3. table \in Tables
  BY AtHand DEF AddField, AtTable
<1> QED BY <1>1, <1>2, <1>3 DEF Typed, TypeOK

LEMMA CreateTempDoes ==
  ASSUME ~StepsFail, Typed, CreateTemp, ~Throws
  PROVE  /\ GoesTo("copy")
         /\ db'[temp] = NewTable(copied, keyed)
         /\ \A s \in Tables \cup Seconds : s # temp => db'[s] = db[s]
<1>1. /\ Executes([db EXCEPT ![temp] = NewTable(copied, keyed)])
      /\ GoesTo("copy")
  BY DEF CreateTemp
<1>2. db' = [db EXCEPT ![temp] = NewTable(copied, keyed)]
  BY <1>1, Runs
<1>3. temp \in Seconds
  BY DEF Typed, TypeOK
<1> QED BY <1>1, <1>2, <1>3 DEF Typed, TypeOK

LEMMA CopyRowsDoes ==
  ASSUME ~StepsFail, Typed, CopyRows, ~Throws
  PROVE  /\ GoesTo("drop")
         /\ \/ db'[temp] = [db[temp] EXCEPT !.cells = CellsIn(table, copied)]
            \/ db'[temp] = db[temp] /\ ~CopyFits
         /\ \A s \in Tables \cup Seconds : s # temp => db'[s] = db[s]
<1>1. /\ GoesTo("drop")
      /\ \/ db' = [db EXCEPT ![temp].cells = CellsIn(table, copied)]
         \/ db' = db /\ ~CopyFits
  BY DEF CopyRows, MayFail
<1>2. temp \in Seconds
  BY DEF Typed, TypeOK
<1> QED BY <1>1, <1>2 DEF Typed, TypeOK

LEMMA DropTableDoes ==
  ASSUME ~StepsFail, Typed, DropTable
  PROVE  /\ db'[table] = NoTable
         /\ \A s \in Tables \cup Seconds : s # table => db'[s] = db[s]
<1>1. db' = [db EXCEPT ![table] = NoTable]
  BY Runs DEF DropTable
<1>2. table \in Tables
  BY AtHand DEF DropTable, AtTable
<1> QED BY <1>1, <1>2 DEF Typed, TypeOK

LEMMA RenameTableDoes ==
  ASSUME ~StepsFail, Typed, RenameTable, ~Throws
  PROVE  /\ pc' = "fields" /\ UNCHANGED <<todo, table, missing, surplus>>
         /\ db'[table] = db[temp] /\ db'[temp] = NoTable
         /\ \A s \in (Tables \cup Seconds) \ {table, temp} : db'[s] = db[s]
<1>1. /\ Executes([db EXCEPT ![table] = db[temp], ![temp] = NoTable])
      /\ pc' = "fields" /\ UNCHANGED <<todo, table, missing, surplus>>
  BY DEF RenameTable
<1>2. db' = [db EXCEPT ![table] = db[temp], ![temp] = NoTable]
  BY <1>1, Runs
<1>3. table \in Tables /\ temp \in Seconds /\ table # temp
  BY AtHand DEF RenameTable, AtTable
<1> QED BY <1>1, <1>2, <1>3 DEF Typed, TypeOK

\* Storing a row adds its cells to one table and nothing else.
LEMMA StoredCells ==
  ASSUME Typed, Store
  PROVE  \A s \in Tables \cup Seconds :
           /\ db'[s].exists = db[s].exists
           /\ db'[s].cols = db[s].cols
           /\ db'[s].key = db[s].key
<1>1. PICK t \in Tables, r \in Rows : \E fs \in SUBSET wanted[t] : StoreRow(t, r, fs)
  BY DEF Store
<1>2. PICK fs \in SUBSET wanted[t] : StoreRow(t, r, fs)
  BY <1>1
<1> DEFINE new == {r} \X (fs \cup (IF db[t].key = "integer" THEN {Pk} ELSE {}))
<1>3. db' = [db EXCEPT ![t].cells = @ \cup new]
  BY <1>2 DEF StoreRow
<1> HIDE DEF new
<1>4. /\ db'[t] = [db[t] EXCEPT !.cells = @ \cup new]
      /\ \A s \in Tables \cup Seconds : s # t => db'[s] = db[s]
      /\ db[t] \in TableState
  BY <1>3 DEF Typed, TypeOK
<1> QED BY <1>4 DEF TableState

\* A statement changes no table of the registry but the one at hand.
LEMMA OnlyTableAtHand ==
  ASSUME ~StepsFail, Typed,
         \/ CreateTable \/ AddField \/ CreateTemp \/ CopyRows \/ DropTable
         \/ RenameTable
  PROVE  \A t \in Tables : t # table => db'[t] = db[t]
<1>1. pc \in AtTable
  BY DEF CreateTable, AddField, CreateTemp, CopyRows, DropTable, RenameTable, AtTable
<1>2. \A t \in Tables : t # temp
  BY <1>1, AtHand
<1>3. Throws => db' = db
  BY DEF Throws
<1>4. \A t \in Tables \ {table} : t \in (Tables \cup Seconds) \ {table, temp}
  BY <1>2
<1> QED
  BY <1>2, <1>3, <1>4, CreateTableDoes, AddFieldDoes, CreateTempDoes, CopyRowsDoes,
     DropTableDoes, RenameTableDoes

-----------------------------------------------------------------------------
(* The table at hand is brought to its model.                              *)

\* Nothing is overlooked.
LEMMA ReadSteps ==
  ASSUME ~StepsFail, SafeInv, ~misread, Next
  PROVE  ~misread'
<1>1. ASSUME NEW d \in table_data(table), table \in Tables PROVE ~Overlooks(d)
  <2>1. d = [key |-> KeyOf(table), fields |-> db[table].cols \ {KeyOf(table)}]
    BY TableDataFull
  <2>2. KeyOf(table) \notin wanted[table]
    BY <1>1, NamesDistinct DEF KeyOf, SafeInv, Typed, TypeOK, Fields
  <2> QED BY <2>1, <2>2 DEF Overlooks
<1>2. CASE RemoveField
  <2>1. table \in Tables
    BY <1>2 DEF RemoveField, SafeInv, Typed, AtTable
  <2> QED BY <1>1, <1>2, <2>1 DEF RemoveField
<1>3. CASE ~RemoveField
  BY <1>3 DEF Next, Update, Start, NextTable, Return, CreateTable, AddField, TableDone,
      CreateTemp, CopyRows, DropTable, RenameTable, Refused, Stop, Crash, Stopped,
      Release, Store, Tick, misses
<1> QED BY <1>2, <1>3

\* So no table is without its key.
LEMMA KeyThere ==
  ASSUME SafeInv, ~misread, NEW t \in Tables \cup Seconds, db[t].exists
  PROVE  db[t].key # "none" /\ Pk \in db[t].cols
BY DEF SafeInv, KeyStays, WellFormed

LEMMA TurnSteps ==
  ASSUME ~StepsFail, SafeInv, ~misread, TurnInv, Next
  PROVE  TurnInv'
<1> USE DEF Removing
<1>0. Typed
  BY DEF SafeInv
<1>1. ASSUME pc' \notin Removing \cup {"create", "fields"} PROVE TurnInv'
  BY <1>1 DEF TurnInv
<1>2. CASE Start \/ Return \/ CreateTable \/ TableDone \/ Stop \/ Crash
  BY <1>1, <1>2 DEF Start, Return, CreateTable, TableDone, GoesTo, Throws, Stop,
                    Crash, Stopped
<1>3. CASE Release \/ Store
  BY <1>1, <1>3 DEF Release, Store, process
<1>4. CASE Throws \/ Refused
  BY <1>1, <1>4 DEF Throws, Refused
<1>5. CASE NextTable
  <2>1. PICK t \in todo :
          /\ table' = t
          /\ \/ /\ db[t].exists
                /\ \E d \in table_data(t) :
                     /\ missing' = Minus(wanted[t], d.fields)
                     /\ surplus' = Minus(d.fields, wanted[t])
                /\ pc' = "fields"
             \/ /\ ~db[t].exists
                /\ pc' = "create"
    BY <1>5 DEF NextTable, table_exists, MayFail
  <2>2. UNCHANGED <<db, wanted>>
    BY <1>5 DEF NextTable, World
  <2>3. CASE ~db[t].exists
    BY <2>1, <2>2, <2>3 DEF TurnInv
  <2>4. CASE db[t].exists
    <3>1. PICK d \in table_data(t) :
            /\ missing' = Minus(wanted[t], d.fields)
            /\ surplus' = Minus(d.fields, wanted[t])
      BY <2>1, <2>4
    <3>2. t \in Tables
      BY <1>0 DEF Typed, TypeOK
    <3>3. d.fields = db[t].cols \ {Pk}
      BY <2>4, <3>2, TableDataFull, KeyThere DEF KeyOf
    <3> QED BY <2>1, <2>2, <2>4, <3>1, <3>3 DEF TurnInv, OnTheWay, Minus
  <2> QED BY <2>3, <2>4
<1>6. CASE AddField /\ ~Throws
  <2>1. pc = "fields" /\ UNCHANGED wanted
    BY <1>6 DEF AddField, World
  <2>2. db[table] \in TableState
    BY <1>0, <2>1, AtHand DEF AtTable
  <2>3. PICK f \in missing :
          /\ missing' = missing \ {f}
          /\ UNCHANGED <<pc, table, surplus>>
          /\ db'[table] = [db[table] EXCEPT !.cols = db[table].cols \cup {f}]
    BY <1>0, <1>6, AddFieldDoes
  <2>4. db'[table].exists = db[table].exists
        /\ db'[table].cols = db[table].cols \cup {f}
    BY <2>2, <2>3 DEF TableState
  <2>5. db[table].exists /\ OnTheWay(db[table].cols \ {Pk})
    BY <2>1 DEF TurnInv
  <2>6. f # Pk
    BY <1>0, NamesDistinct DEF Typed, TypeOK, Fields
  <2>7. (db[table].cols)' \ {Pk} = (db[table].cols \ {Pk}) \cup {f}
    BY <2>3, <2>4, <2>6
  <2>8. OnTheWay(db[table].cols \ {Pk})'
    BY <2>1, <2>3, <2>5, <2>7 DEF OnTheWay
  <2> QED BY <2>1, <2>3, <2>4, <2>5, <2>8 DEF TurnInv
<1>7. CASE RemoveField
  <2>1. PICK f \in surplus, d \in table_data(table) :
          /\ surplus' = surplus \ {f}
          /\ copied' = FieldsWithout(d.fields, f) \cup ({d.key} \ {NoOne})
    BY <1>7 DEF RemoveField
  <2>2. /\ pc = "fields" /\ missing = {} /\ pc' = "create temp"
        /\ UNCHANGED <<db, wanted, table, missing>>
    BY <1>7 DEF RemoveField, World
  <2>3. db[table].exists /\ OnTheWay(db[table].cols \ {Pk})
    BY <2>2 DEF TurnInv
  <2>4. f \notin wanted[table] /\ table \in Tables
    BY <1>0, <2>1, <2>2, AtHand DEF SafeInv, SurplusUnwanted, AtTable
  <2>5. d.fields = db[table].cols \ {Pk} /\ d.key = Pk
    BY <2>3, <2>4, TableDataFull, KeyThere DEF KeyOf
  <2>6. copied' \subseteq db[table].cols
    BY <2>1, <2>3, <2>4, <2>5, KeyThere DEF FieldsWithout
  <2>a. Pk \in copied'
    BY <2>1, <2>5, NamesDistinct
  <2>7. copied' \ {Pk} = (db[table].cols \ {Pk}) \ {f}
    BY <2>1, <2>5 DEF FieldsWithout
  <2>8. OnTheWay(copied \ {Pk})'
    BY <2>1, <2>2, <2>3, <2>4, <2>7 DEF OnTheWay
  <2> QED BY <2>2, <2>3, <2>6, <2>8, <2>a DEF TurnInv
<1>8. CASE CreateTemp /\ ~Throws
  <2>1. /\ pc = "create temp" /\ pc' = "copy"
        /\ UNCHANGED <<wanted, table, missing, surplus, temp, copied, keyed>>
        /\ db'[temp] = NewTable(copied, keyed)
        /\ \A s \in Tables \cup Seconds : s # temp => db'[s] = db[s]
    BY <1>0, <1>8, CreateTempDoes DEF CreateTemp, GoesTo, World
  <2>2. db'[table] = db[table]
    BY <1>0, <2>1, AtHand DEF AtTable
  <2>3. db'[temp].exists /\ db'[temp].cols = copied
    <3>1. NewTable(copied, keyed).exists /\ NewTable(copied, keyed).cols = copied
      BY DEF NewTable
    <3> QED BY <2>1, <3>1
  <2> QED BY <2>1, <2>2, <2>3 DEF TurnInv, OnTheWay
<1>9. CASE CopyRows /\ ~Throws
  <2>1. /\ pc = "copy" /\ pc' = "drop"
        /\ UNCHANGED <<wanted, table, missing, surplus, temp, copied>>
        /\ \/ db'[temp] = [db[temp] EXCEPT !.cells = CellsIn(table, copied)]
           \/ db'[temp] = db[temp]
        /\ \A s \in Tables \cup Seconds : s # temp => db'[s] = db[s]
    BY <1>0, <1>9, CopyRowsDoes DEF CopyRows, GoesTo, World
  <2>2. /\ db'[table] = db[table] /\ db[temp] \in TableState
        /\ table \in Tables
    BY <1>0, <2>1, AtHand DEF AtTable
  <2>3. db[temp].exists /\ db[temp].cols = copied
    BY <2>1 DEF TurnInv
  <2>4. db[temp].cells = {}
    BY <2>1, <2>3 DEF SafeInv, FreshTarget, NewTable
  <2>5. /\ db'[temp].exists /\ db'[temp].cols = copied
        /\ db'[temp].cells \in {{}, CellsIn(table, copied)}
    BY <2>1, <2>2, <2>3, <2>4 DEF TableState
  <2>6. db'[temp].cells \subseteq db'[table].cells
    BY <2>2, <2>5 DEF CellsIn
  <2> QED BY <2>1, <2>2, <2>5, <2>6 DEF TurnInv, OnTheWay
<1>10. CASE DropTable
  <2>1. /\ pc = "drop" /\ pc' = "rename"
        /\ UNCHANGED <<wanted, table, missing, surplus, temp, copied>>
        /\ db'[table] = NoTable
        /\ \A s \in Tables \cup Seconds : s # table => db'[s] = db[s]
    BY <1>0, <1>10, DropTableDoes DEF DropTable, GoesTo, World
  <2>2. db'[temp] = db[temp]
    BY <1>0, <2>1, AtHand DEF AtTable
  <2> QED BY <2>1, <2>2 DEF TurnInv, OnTheWay
<1>11. CASE RenameTable /\ ~Throws
  <2>1. /\ pc = "rename" /\ pc' = "fields" /\ db'[table] = db[temp]
        /\ UNCHANGED <<wanted, table, missing, surplus>>
    BY <1>0, <1>11, RenameTableDoes DEF RenameTable, World
  <2>2. db[temp].exists /\ db[temp].cols = copied /\ OnTheWay(copied \ {Pk})
    BY <2>1 DEF TurnInv
  <2> QED BY <2>1, <2>2 DEF TurnInv, OnTheWay
<1>12. CASE Tick
  BY <1>12 DEF Tick, process, TurnInv, OnTheWay
<1> QED
  BY <1>2, <1>3, <1>4, <1>5, <1>6, <1>7, <1>8, <1>9, <1>10, <1>11, <1>12 DEF Next, Update

\* A table whose turn is over has the fields of its model.
LEMMA TurnOver ==
  ASSUME SafeInv, ~misread, pc = "fields", TurnInv, missing = {}, surplus = {}
  PROVE  Done(table)
<1>0. Typed
  BY DEF SafeInv
<1>1. db[table].exists /\ OnTheWay(db[table].cols \ {Pk})
  BY DEF TurnInv
<1>2. db[table].cols \ {Pk} = wanted[table]
  BY <1>1 DEF OnTheWay
<1>3. table \in Tables
  BY <1>0, AtHand DEF AtTable
<1>4. (wanted[table] \cup {Pk}) \cap Stamps = {}
  BY <1>0, <1>3, NamesDistinct DEF Typed, TypeOK, Fields
<1>5. Pk \in db[table].cols
  BY <1>1, <1>3, KeyThere
<1> QED BY <1>1, <1>2, <1>4, <1>5 DEF Done

LEMMA CreatedDone ==
  ASSUME ~StepsFail, Typed, CreateTable, ~Throws
  PROVE  Done(table)'
<1>1. /\ table \in Tables /\ db'[table] = NewTable(ModelColumns(table), TRUE)
      /\ UNCHANGED <<wanted, table>>
  BY CreateTableDoes DEF CreateTable, GoesTo, World
<1>2. ModelColumns(table) \ Stamps = wanted[table] \cup {Pk}
  BY <1>1, NamesDistinct DEF ModelColumns, Typed, TypeOK, Fields
<1> QED BY <1>1, <1>2 DEF Done, NewTable

\* Tables that are not at hand stay done.
LEMMA StaysDone ==
  ASSUME UNCHANGED wanted, NEW t \in Tables, db'[t] = db[t], Done(t)
  PROVE  Done(t)'
BY DEF Done

LEMMA DoneSteps ==
  ASSUME ~StepsFail, SafeInv, ~misread, TurnInv, DoneInv, Next
  PROVE  DoneInv'
<1> USE DEF AtTable
<1>0. Typed
  BY DEF SafeInv
<1>1. ASSUME pc' \in {"idle", "threw"} PROVE DoneInv'
  BY <1>1 DEF DoneInv, FollowsModel
<1>2. CASE Stop \/ Crash \/ Throws \/ Refused \/ Release
  BY <1>1, <1>2 DEF Stop, Crash, Stopped, Throws, Refused, Release, process
<1>3. CASE Start
  BY <1>3 DEF Start, DoneInv, FollowsModel
<1>4. CASE NextTable
  <2>1. PICK t \in todo :
          /\ todo' = todo \ {t} /\ table' = t
          /\ pc' \in {"fields", "create"}
    BY <1>4 DEF NextTable
  <2>2. pc = "next" /\ UNCHANGED <<db, wanted>>
    BY <1>4 DEF NextTable, World
  <2>3. \A u \in Tables \ todo : Done(u)
    BY <2>2 DEF DoneInv
  <2> QED BY <2>1, <2>2, <2>3 DEF DoneInv, FollowsModel, Done
<1>5. CASE Return
  <2>1. /\ pc = "next" /\ todo = {} /\ pc' = "ready"
        /\ UNCHANGED <<db, wanted>>
    BY <1>5 DEF Return, World
  <2>2. \A u \in Tables : Done(u)
    BY <2>1 DEF DoneInv
  <2> QED BY <2>1, <2>2 DEF DoneInv, FollowsModel, Done
<1>6. CASE CreateTable /\ ~Throws
  <2>1. /\ pc = "create" /\ pc' = "next"
        /\ UNCHANGED <<wanted, todo, table>>
    BY <1>0, <1>6, CreateTableDoes DEF CreateTable, GoesTo, World
  <2>2. Done(table)'
    BY <1>0, <1>6, CreatedDone
  <2>3. ASSUME NEW t \in Tables \ todo, t # table PROVE Done(t)'
    <3>1. db'[t] = db[t]
      BY <1>0, <1>6, <2>3, OnlyTableAtHand
    <3>2. Done(t)
      BY <2>1, <2>3 DEF DoneInv
    <3> QED BY <2>1, <3>1, <3>2, StaysDone
  <2>4. \A t \in Tables \ todo : Done(t)'
    BY <2>1, <2>2, <2>3
  <2> QED BY <2>1, <2>4 DEF DoneInv, FollowsModel
<1>7. CASE TableDone
  <2>1. /\ pc = "fields" /\ missing = {} /\ surplus = {} /\ pc' = "next"
        /\ UNCHANGED <<db, wanted, todo, table>>
    BY <1>7 DEF TableDone, GoesTo, World
  <2>2. Done(table)
    BY <2>1, TurnOver
  <2>3. \A t \in Tables \ todo : Done(t)
    BY <2>1, <2>2 DEF DoneInv
  <2> QED BY <2>1, <2>3 DEF DoneInv, FollowsModel, Done
<1>8. CASE /\ AddField \/ CreateTemp \/ CopyRows \/ DropTable \/ RenameTable
           /\ ~Throws
  <2>1. /\ pc \in AtTable /\ pc' \in AtTable /\ UNCHANGED <<wanted, todo, table>>
    BY <1>8 DEF AddField, CreateTemp, CopyRows, DropTable, RenameTable, GoesTo, World
  <2>2. ASSUME NEW t \in Tables \ (todo \cup {table}) PROVE Done(t)'
    <3>1. db'[t] = db[t]
      BY <1>0, <1>8, OnlyTableAtHand
    <3>2. Done(t)
      BY <2>1 DEF DoneInv
    <3> QED BY <2>1, <3>1, <3>2, StaysDone
  <2> QED BY <2>1, <2>2 DEF DoneInv, FollowsModel
<1>9. CASE RemoveField
  <2>1. /\ pc = "fields" /\ pc' = "create temp"
        /\ UNCHANGED <<db, wanted, todo, table>>
    BY <1>9 DEF RemoveField, World
  <2> QED BY <2>1 DEF DoneInv, FollowsModel, Done
<1>10. CASE Store
  <2>1. pc = "ready" /\ pc' = "ready" /\ UNCHANGED wanted
    BY <1>10 DEF Store, process
  <2>2. \A t \in Tables : db'[t].exists = db[t].exists /\ db'[t].cols = db[t].cols
    BY <1>0, <1>10, StoredCells
  <2> QED BY <2>1, <2>2 DEF DoneInv, FollowsModel
<1>11. CASE Tick
  BY <1>11 DEF Tick, process, DoneInv, FollowsModel, Done
<1> QED
  BY <1>2, <1>3, <1>4, <1>5, <1>6, <1>7, <1>8, <1>9, <1>10, <1>11 DEF Next, Update

FollowInv == SafeInv /\ ~misread /\ TurnInv /\ DoneInv

LEMMA FollowInvariant ==
  ASSUME ~StepsFail
  PROVE  Spec => []FollowInv
<1>1. Init => FollowInv
  BY InitSafe DEF Init, FollowInv, TurnInv, DoneInv, FollowsModel, AtTable, Removing
<1>2. FollowInv /\ [Next]_vars => FollowInv'
  <2> SUFFICES ASSUME FollowInv, [Next]_vars PROVE FollowInv'
    OBVIOUS
  <2>1. SafeInv'
    BY NextSafe DEF FollowInv
  <2>2. CASE Next
    BY <2>1, <2>2, ReadSteps, TurnSteps, DoneSteps DEF FollowInv
  <2>3. CASE UNCHANGED vars
    BY <2>1, <2>3 DEF FollowInv, TurnInv, OnTheWay, DoneInv, FollowsModel, Done, vars
  <2> QED BY <2>2, <2>3
<1> QED BY <1>1, <1>2, PTL DEF Spec

\* Where no statement fails, each table has exactly the fields of its model and
\* the key, the timestamps aside, whenever update_database has returned:
\* whatever the tables had before, whatever was released and wherever earlier
\* runs died.
THEOREM ModelIsFollowed ==
  ASSUME ~StepsFail
  PROVE  Spec => []FollowsModel
<1>1. FollowInv => FollowsModel
  BY DEF FollowInv, DoneInv
<1> QED BY <1>1, FollowInvariant, PTL

-----------------------------------------------------------------------------
(* The rows are in place.                                                  *)

LEMMA FitSteps ==
  ASSUME ~StepsFail, FollowInv, KeysFit, Next
  PROVE  KeysFit'
<1> DEFINE All == Tables \cup Seconds
<1>0. Typed
  BY DEF FollowInv, SafeInv
<1>1. ASSUME UNCHANGED <<db, miscopied>> PROVE KeysFit'
  BY <1>1 DEF KeysFit
<1>2. CASE \/ Start \/ NextTable \/ Return \/ TableDone \/ RemoveField \/ Stop
           \/ Crash \/ Release \/ Tick \/ Refused
  BY <1>1, <1>2
  DEF Start, NextTable, Return, TableDone, RemoveField, GoesTo, Stop, Crash, Stopped,
      Release, Tick, Refused, Throws, misses
<1>3. /\ NoTable.key # "text" /\ NewTable(copied, keyed).key # "text"
      /\ NewTable(ModelColumns(table), TRUE).key # "text"
  BY DEF NoTable, NewTable
<1>4. CASE CreateTable
  <2>1. CASE Throws
    BY <1>1, <1>4, <2>1 DEF Throws, CreateTable, misses
  <2>2. CASE ~Throws
    BY <1>0, <1>3, <1>4, <2>2, CreateTableDoes DEF CreateTable, KeysFit, misses
  <2> QED BY <2>1, <2>2
<1>5. CASE AddField
  <2>1. CASE Throws
    BY <1>1, <1>5, <2>1 DEF Throws, AddField, misses
  <2>2. CASE ~Throws
    <3>1. db[table] \in TableState /\ table \in Tables
      BY <1>0, <1>5, AtHand DEF AddField, AtTable
    <3>2. PICK f \in missing :
            /\ db'[table] = [db[table] EXCEPT !.cols = db[table].cols \cup {f}]
            /\ \A s \in All : s # table => db'[s] = db[s]
      BY <1>0, <1>5, <2>2, AddFieldDoes
    <3>3. db'[table].key = db[table].key
      BY <3>1, <3>2 DEF TableState
    <3> QED BY <1>5, <3>1, <3>2, <3>3 DEF AddField, KeysFit, misses
  <2> QED BY <2>1, <2>2
<1>6. CASE CreateTemp
  <2>1. CASE Throws
    BY <1>1, <1>6, <2>1 DEF Throws, CreateTemp, misses
  <2>2. CASE ~Throws
    BY <1>0, <1>3, <1>6, <2>2, CreateTempDoes DEF CreateTemp, KeysFit, misses
  <2> QED BY <2>1, <2>2
<1>7. CASE CopyRows
  <2>1. pc = "copy" /\ table \in Tables /\ temp \in Seconds /\ db[temp] \in TableState
    BY <1>0, <1>7, AtHand DEF CopyRows, AtTable
  <2>2. CopyFits
    BY <2>1 DEF CopyFits, KeysFit
  <2>3. db[temp].exists
    BY <2>1 DEF FollowInv, TurnInv, Removing
  <2>4. UNCHANGED miscopied
    BY <1>7, <2>2, <2>3 DEF CopyRows, MayFail
  <2>5. ~Throws
    BY <1>7, <2>3 DEF CopyRows, GoesTo, Throws
  <2>6. /\ db'[temp] = [db[temp] EXCEPT !.cells = CellsIn(table, copied)]
        /\ \A s \in All : s # temp => db'[s] = db[s]
    BY <1>0, <1>7, <2>2, <2>5, CopyRowsDoes
  <2>7. db'[temp].key = db[temp].key
    BY <2>1, <2>6 DEF TableState
  <2> QED BY <2>1, <2>4, <2>6, <2>7 DEF KeysFit
<1>8. CASE DropTable
  BY <1>0, <1>3, <1>8, DropTableDoes DEF DropTable, KeysFit, misses
<1>9. CASE RenameTable
  <2>1. CASE Throws
    BY <1>1, <1>9, <2>1 DEF Throws, RenameTable, misses
  <2>2. CASE ~Throws
    <3>1. temp \in Seconds
      BY <1>0 DEF Typed, TypeOK
    <3> QED BY <1>0, <1>3, <1>9, <2>2, <3>1, RenameTableDoes DEF RenameTable, KeysFit, misses
  <2> QED BY <2>1, <2>2
<1>10. CASE Store
  BY <1>0, <1>10, StoredCells DEF Store, misses, KeysFit
<1> QED
  BY <1>2, <1>4, <1>5, <1>6, <1>7, <1>8, <1>9, <1>10 DEF Next, Update

LEMMA LeftoverSteps ==
  ASSUME ~StepsFail, FollowInv, NoLeftover, Next
  PROVE  NoLeftover'
<1> USE DEF Removing
<1>0. Typed /\ TurnInv
  BY DEF FollowInv, SafeInv
<1>1. CASE Crash
  <2>1. crashes' # 0
    BY <1>0, <1>1 DEF Crash, Typed, TypeOK
  <2> QED BY <2>1 DEF NoLeftover
<1> SUFFICES ASSUME ~Crash, crashes = 0, crashes' = 0
             PROVE  NoLeftover'
  <2>1. ~Crash => UNCHANGED crashes
    BY DEF Next, Update, Start, NextTable, Return, CreateTable, AddField, TableDone,
           RemoveField, CreateTemp, CopyRows, DropTable, RenameTable, Refused, World,
           Stop, Release, Store, Tick
  <2> QED BY <1>1, <2>1 DEF NoLeftover
<1>2. /\ pc # "threw"
      /\ \A s \in Seconds :
           db[s].exists => pc \in {"copy", "drop", "rename"} /\ s = temp
  BY DEF NoLeftover
<1>3. ASSUME pc' # "threw", \A s \in Seconds : ~db'[s].exists
      PROVE  NoLeftover'
  BY <1>3 DEF NoLeftover
<1>4. ASSUME pc \notin {"copy", "drop", "rename"}, pc' # "threw",
             \A s \in Seconds : db'[s].exists = db[s].exists
      PROVE  NoLeftover'
  BY <1>2, <1>3, <1>4
<1>5. CASE Start \/ NextTable \/ Return \/ TableDone \/ RemoveField \/ Stop \/ Release
  <2>1. UNCHANGED db /\ pc \notin {"copy", "drop", "rename"} /\ pc' # "threw"
    BY <1>5 DEF Start, NextTable, Return, TableDone, RemoveField, GoesTo, Stop, Stopped,
                Release, process
  <2> QED BY <1>4, <2>1
<1>6. CASE CreateTable
  <2>1. pc = "create" /\ ~db[table].exists
    BY <1>0, <1>6 DEF CreateTable, TurnInv
  <2>2. ~Throws
    BY <1>6, <2>1 DEF CreateTable, GoesTo, Throws
  <2>3. \A s \in Seconds : s # table
    BY <1>0, <1>6, <2>2, CreateTableDoes, NamesDistinct
  <2> QED BY <1>0, <1>4, <1>6, <2>1, <2>2, <2>3, CreateTableDoes DEF GoesTo
<1>7. CASE AddField
  <2>1. /\ pc = "fields" /\ db[table].exists
        /\ missing \cap (db[table].cols \ {Pk}) = {}
    BY <1>0, <1>7 DEF AddField, TurnInv, OnTheWay
  <2>2. Pk \notin missing
    BY <1>0, NamesDistinct DEF Typed, TypeOK, Fields
  <2>3. ~Throws
    BY <1>7, <2>1, <2>2 DEF AddField, Throws
  <2>4. \A s \in Seconds : s # table
    BY <1>0, <2>1, AtHand, NamesDistinct DEF AtTable
  <2>5. pc' = "fields" /\ \A s \in Seconds : db'[s] = db[s]
    BY <1>0, <1>7, <2>1, <2>3, <2>4, AddFieldDoes
  <2> QED BY <1>4, <2>1, <2>5
<1>8. CASE CreateTemp
  <2>1. pc = "create temp" /\ copied # {}
    BY <1>0, <1>8 DEF CreateTemp, TurnInv
  <2>2. temp \in Seconds
    BY <1>0 DEF Typed, TypeOK
  <2>3. ~Throws
    BY <1>2, <1>8, <2>1, <2>2 DEF CreateTemp, Compiles, GoesTo, Throws
  <2>4. /\ pc' = "copy" /\ temp' = temp
        /\ \A s \in Tables \cup Seconds : s # temp => db'[s] = db[s]
    BY <1>0, <1>8, <2>3, CreateTempDoes DEF GoesTo
  <2> QED BY <1>2, <2>1, <2>4 DEF NoLeftover
<1>9. CASE CopyRows
  <2>1. pc = "copy" /\ db[temp].exists
    BY <1>0, <1>9 DEF CopyRows, TurnInv
  <2>2. ~Throws
    BY <1>9, <2>1 DEF CopyRows, GoesTo, Throws
  <2>3. /\ pc' = "drop" /\ temp' = temp
        /\ \A s \in Tables \cup Seconds : s # temp => db'[s] = db[s]
    BY <1>0, <1>9, <2>2, CopyRowsDoes DEF GoesTo
  <2> QED BY <1>2, <2>3 DEF NoLeftover
<1>10. CASE DropTable
  <2>1. pc = "drop" /\ pc' = "rename" /\ temp' = temp
    BY <1>10 DEF DropTable, GoesTo
  <2>2. \A s \in Seconds : s # table
    BY <1>0, <2>1, AtHand, NamesDistinct DEF AtTable
  <2>3. \A s \in Seconds : db'[s] = db[s]
    BY <1>0, <1>10, <2>2, DropTableDoes
  <2> QED BY <1>2, <2>1, <2>3 DEF NoLeftover
<1>11. CASE RenameTable
  <2>1. pc = "rename" /\ db[table] = NoTable
    BY <1>0, <1>11 DEF RenameTable, TurnInv
  <2>2. ~Throws
    BY <1>11, <2>1 DEF RenameTable, NoTable, Throws
  <2>3. /\ pc' = "fields" /\ db'[temp] = NoTable
        /\ \A s \in (Tables \cup Seconds) \ {table, temp} : db'[s] = db[s]
    BY <1>0, <1>11, <2>2, RenameTableDoes
  <2>4. \A s \in Seconds : s # table
    BY <1>0, <2>1, AtHand, NamesDistinct DEF AtTable
  <2>5. \A s \in Seconds : ~db'[s].exists
    BY <1>2, <2>3, <2>4 DEF NoTable
  <2> QED BY <1>3, <2>3, <2>5
<1>12. CASE Store
  <2>1. pc = "ready" /\ pc' = "ready"
    BY <1>12 DEF Store, process
  <2> QED BY <1>0, <1>4, <1>12, <2>1, StoredCells
<1>13. CASE Tick
  BY <1>2, <1>13 DEF Tick, process, NoLeftover
<1>14. CASE Refused
  BY <1>14 DEF Refused, MayFail
<1> QED
  BY <1>5, <1>6, <1>7, <1>8, <1>9, <1>10, <1>11, <1>12, <1>13, <1>14 DEF Next, Update

PlaceInv == FollowInv /\ KeysFit /\ NoLeftover

LEMMA PlaceInvariant ==
  ASSUME ~StepsFail, Foreign = {}
  PROVE  Spec => []PlaceInv
<1>1. Init => KeysFit /\ NoLeftover
  <2> SUFFICES ASSUME Init PROVE KeysFit /\ NoLeftover
    OBVIOUS
  <2>1. db = [t \in Tables \cup Seconds |-> NoTable]
    BY DEF Init
  <2> QED BY <2>1 DEF Init, KeysFit, NoLeftover, NoTable
<1>2. FollowInv /\ KeysFit /\ NoLeftover /\ [Next]_vars => KeysFit' /\ NoLeftover'
  <2> SUFFICES ASSUME FollowInv, KeysFit, NoLeftover, [Next]_vars
               PROVE  KeysFit' /\ NoLeftover'
    OBVIOUS
  <2>1. CASE Next
    BY <2>1, FitSteps, LeftoverSteps
  <2>2. CASE UNCHANGED vars
    BY <2>2 DEF KeysFit, NoLeftover, vars
  <2> QED BY <2>1, <2>2
<1> QED BY <1>1, <1>2, FollowInvariant, PTL DEF Spec, PlaceInv

\* Where no statement fails and no table was made by another tool, a program
\* that never died in update_database finds every value it stored in its table
\* whenever update_database is not running, and update_database never throws.
THEOREM RowsAreInPlace ==
  ASSUME ~StepsFail, Foreign = {}
  PROVE  Spec => []RowsInPlace
<1>1. PlaceInv => RowsInPlace
  <2> SUFFICES ASSUME PlaceInv, crashes = 0, pc \in {"idle", "ready", "threw"}
               PROVE  /\ pc # "threw"
                      /\ \A t \in Tables : keep[t] \subseteq db[t].cells
    BY DEF RowsInPlace
  <2>1. pc # "threw" /\ \A s \in Seconds : ~db[s].exists
    BY DEF PlaceInv, NoLeftover, Removing
  <2>2. \A s \in Seconds : db[s].cells = {}
    BY <2>1 DEF PlaceInv, FollowInv, SafeInv, WellFormed, NoTable
  <2>3. RowsSomewhere
    BY DEF PlaceInv, FollowInv, SafeInv, KeysFit, NothingLost
  <2>4. ASSUME NEW t \in Tables, NEW x \in keep[t] PROVE x \in db[t].cells
    <3>1. PICK s \in {t} \cup Seconds : x \in db[s].cells
      BY <2>3 DEF RowsSomewhere
    <3> QED BY <2>2, <3>1
  <2> QED BY <2>1, <2>4
<1> QED BY <1>1, PlaceInvariant, PTL

-----------------------------------------------------------------------------
(* The tables are those of Migration.                                      *)

AbsOf(x) == [exists |-> x.exists, cols |-> x.cols \ {Pk}, cells |-> x.cells]

AbsTables == [t \in Tables |-> AbsOf(TableOf(t))]

\* The tables as Migration sees them: db, but for the one that is away.
LEMMA AbsSees ==
  ASSUME FollowInv, NEW t \in Tables
  PROVE  /\ pc # "rename" => TableOf(t) = db[t]
         /\ t # table => TableOf(t) = db[t]
         /\ pc = "rename" /\ t = table => TableOf(t) = db[temp]
<1>1. pc = "rename" => ~db[table].exists
  BY DEF FollowInv, TurnInv, NoTable
<1> QED BY <1>1 DEF TableOf, Renaming

LEMMA AbsSeesNext ==
  ASSUME FollowInv', NEW t \in Tables
  PROVE  /\ pc' # "rename" => TableOf(t)' = db'[t]
         /\ t # table' => TableOf(t)' = db'[t]
         /\ pc' = "rename" /\ t = table' => TableOf(t)' = db'[temp']
<1>1. pc' = "rename" => ~db'[table'].exists
  BY DEF FollowInv, TurnInv, NoTable
<1> QED BY <1>1 DEF TableOf, Renaming

LEMMA AbsNoTable == AbsOf(NoTable) = Promise!Absent
BY DEF AbsOf, NoTable, Promise!Absent

LEMMA LegalSame ==
  ASSUME NEW x, NEW model
  PROVE  Promise!Legal(x, x, model)
BY DEF Promise!Legal, Promise!Kept

\* A step that leaves every table as it was is no step of Migration.
LEMMA SameTables ==
  ASSUME UNCHANGED wanted, \A t \in Tables : TableOf(t)' = TableOf(t)
  PROVE  UNCHANGED <<AbsTables, wanted>>
BY DEF AbsTables, AbsOf

\* A step that changes the table at hand as a migration may change it.
LEMMA OneLegal ==
  ASSUME UNCHANGED wanted, NEW u \in Tables,
         \A t \in Tables : t # u => TableOf(t)' = TableOf(t),
         Promise!Legal(AbsOf(TableOf(u)), AbsOf(TableOf(u)'), wanted[u])
  PROVE  Promise!Change
<1> SUFFICES ASSUME NEW t \in Tables
             PROVE  Promise!Legal(AbsOf(TableOf(t)), AbsOf(TableOf(t)'), wanted[t])
  BY DEF Promise!Change, AbsOf
<1>1. CASE t = u
  BY <1>1
<1>2. CASE t # u
  BY <1>2, LegalSame
<1> QED BY <1>1, <1>2

\* The same when no table is being renamed.
LEMMA OneInPlace ==
  ASSUME UNCHANGED wanted, NEW u \in Tables,
         \A t \in Tables : TableOf(t) = db[t] /\ TableOf(t)' = db'[t],
         \A t \in Tables : t # u => db'[t] = db[t],
         Promise!Legal(AbsOf(db[u]), AbsOf(db'[u]), wanted[u])
  PROVE  Promise!Change
<1>1. \A t \in Tables : t # u => TableOf(t)' = TableOf(t)
  OBVIOUS
<1>2. TableOf(u) = db[u] /\ TableOf(u)' = db'[u]
  OBVIOUS
<1>3. Promise!Legal(AbsOf(TableOf(u)), AbsOf(TableOf(u)'), wanted[u])
  BY <1>2
<1> QED BY <1>1, <1>3, OneLegal

LEMMA ImplementsStep ==
  ASSUME ~StepsFail, PlaceInv, FollowInv', Next
  PROVE  Promise!Next \/ UNCHANGED <<AbsTables, wanted>>
<1>0. FollowInv /\ SafeInv /\ Typed /\ TurnInv
  BY DEF PlaceInv, FollowInv, SafeInv
<1>1. ASSUME UNCHANGED <<db, wanted>>, pc # "rename", pc' # "rename"
      PROVE  UNCHANGED <<AbsTables, wanted>>
  <2>1. \A t \in Tables : TableOf(t) = db[t] /\ TableOf(t)' = db'[t]
    BY <1>0, <1>1, AbsSees, AbsSeesNext
  <2> QED BY <1>1, <2>1, SameTables
<1>2. CASE \/ Start \/ NextTable \/ Return \/ TableDone \/ RemoveField \/ Stop
           \/ Crash /\ pc # "rename"
  <2>1. UNCHANGED <<db, wanted>> /\ pc # "rename" /\ pc' # "rename"
    BY <1>2 DEF Start, NextTable, Return, TableDone, RemoveField, GoesTo, Stop, Crash,
                Stopped, World
  <2> QED BY <1>1, <2>1
<1>3. CASE Tick
  <2>1. UNCHANGED <<db, wanted, pc, table, temp>>
    BY <1>3 DEF Tick, process
  <2> QED BY <2>1 DEF AbsTables, TableOf, Renaming
<1>4. CASE Release
  <2>1. /\ pc = "idle" /\ UNCHANGED <<db, pc, table, temp>>
        /\ \E t \in Tables, w \in SUBSET Columns : wanted' = [wanted EXCEPT ![t] = w]
    BY <1>4 DEF Release, process
  <2>2. AbsTables' = AbsTables
    BY <2>1 DEF AbsTables, TableOf, Renaming
  <2> QED BY <2>1, <2>2 DEF Promise!Next, Promise!Release, AbsTables, AbsOf
<1>5. CASE Crash /\ pc = "rename"
  <2>1. UNCHANGED <<db, wanted>> /\ pc' = "idle"
    BY <1>5 DEF Crash, Stopped
  <2>2. table \in Tables /\ db[table] = NoTable /\ db[temp].exists
    BY <1>0, <1>5, AtHand DEF AtTable, TurnInv, Removing
  <2>3. \A t \in Tables : TableOf(t)' = db[t] /\ (t # table => TableOf(t) = db[t])
    BY <1>0, <2>1, AbsSees, AbsSeesNext
  <2>4. TableOf(table) = db[temp]
    BY <1>0, <1>5, <2>2, AbsSees, AbsSeesNext
  <2>5. AbsTables[table].exists
    BY <2>2, <2>4 DEF AbsTables, AbsOf
  <2>6. AbsTables' = [AbsTables EXCEPT ![table] = Promise!Absent]
    <3>1. AbsTables' = [t \in Tables |-> AbsOf(TableOf(t)')]
      BY DEF AbsTables, AbsOf
    <3>2. \A t \in Tables : t = table => AbsOf(TableOf(t)') = Promise!Absent
      BY <2>2, <2>3, AbsNoTable
    <3>3. \A t \in Tables : t # table => AbsOf(TableOf(t)') = AbsOf(TableOf(t))
      BY <2>3
    <3> QED BY <2>2, <3>1, <3>2, <3>3 DEF AbsTables
  <2> QED BY <2>1, <2>2, <2>5, <2>6 DEF Promise!Next, Promise!Vanish, AbsTables, AbsOf
<1>a. ~Refused
  BY DEF Refused, MayFail
<1>b. CASE (CreateTable \/ AddField) /\ Throws
  <2>1. UNCHANGED <<db, wanted>> /\ pc # "rename" /\ pc' # "rename"
    BY <1>b DEF CreateTable, AddField, Throws, World
  <2> QED BY <1>1, <2>1
<1>6. CASE CreateTable /\ ~Throws
  <2>1. /\ table \in Tables /\ pc = "create" /\ pc' = "next"
        /\ UNCHANGED wanted
        /\ db'[table] = NewTable(ModelColumns(table), TRUE)
        /\ \A t \in Tables : t # table => db'[t] = db[t]
    BY <1>0, <1>6, CreateTableDoes DEF CreateTable, GoesTo, World
  <2>2. ~db[table].exists
    BY <1>0, <2>1 DEF TurnInv
  <2>3. db[table] = NoTable
    BY <1>0, <2>1, <2>2 DEF SafeInv, WellFormed
  <2>4. \A t \in Tables : TableOf(t) = db[t] /\ TableOf(t)' = db'[t]
    BY <1>0, <2>1, AbsSees, AbsSeesNext
  <2>5. ModelColumns(table) \ {Pk} \subseteq wanted[table] \cup Stamps
    BY DEF ModelColumns
  <2>6. Promise!Legal(AbsOf(db[table]), AbsOf(db'[table]), wanted[table])
    BY <2>1, <2>2, <2>3, <2>5
    DEF Promise!Legal, Promise!Kept, AbsOf, NewTable, NoTable
  <2>7. \A v \in Tables : v # table => db'[v] = db[v]
    BY <2>1
  <2>8. Promise!Change
    BY <2>1, <2>4, <2>6, <2>7, OneInPlace
  <2> QED BY <2>8 DEF Promise!Next
<1>7. CASE AddField /\ ~Throws
  <2>1. pc = "fields" /\ pc' = "fields" /\ UNCHANGED wanted
    BY <1>0, <1>7, AddFieldDoes DEF AddField, World
  <2>2. table \in Tables /\ db[table] \in TableState
    BY <1>0, <2>1, AtHand DEF AtTable
  <2>3. PICK f \in missing :
          /\ db'[table] = [db[table] EXCEPT !.cols = db[table].cols \cup {f}]
          /\ \A s \in Tables \cup Seconds : s # table => db'[s] = db[s]
    BY <1>0, <1>7, AddFieldDoes
  <2>4. /\ db'[table].exists = db[table].exists
        /\ db'[table].cols = db[table].cols \cup {f}
        /\ db'[table].cells = db[table].cells
    BY <2>2, <2>3 DEF TableState
  <2>5. f \in wanted[table]
    BY <1>0, <2>1 DEF TurnInv, OnTheWay
  <2>6. \A t \in Tables : TableOf(t) = db[t] /\ TableOf(t)' = db'[t]
    BY <1>0, <2>1, AbsSees, AbsSeesNext
  <2>7. Promise!Legal(AbsOf(db[table]), AbsOf(db'[table]), wanted[table])
    BY <2>4, <2>5 DEF Promise!Legal, Promise!Kept, AbsOf
  <2>8. \A v \in Tables : v # table => db'[v] = db[v]
    BY <2>3
  <2>9. Promise!Change
    BY <2>1, <2>2, <2>6, <2>7, <2>8, OneInPlace
  <2> QED BY <2>9 DEF Promise!Next
<1>8. CASE CreateTemp \/ CopyRows
  <2>1. /\ pc # "rename" /\ pc' # "rename" /\ UNCHANGED wanted
        /\ pc \in AtTable
    BY <1>8 DEF CreateTemp, CopyRows, GoesTo, Throws, World, AtTable
  <2>2. \A t \in Tables : t # temp
    BY <1>0, <2>1, AtHand
  <2>3. \A t \in Tables : db'[t] = db[t]
    BY <1>0, <1>8, <2>2, CreateTempDoes, CopyRowsDoes DEF Throws
  <2>4. \A t \in Tables : TableOf(t) = db[t] /\ TableOf(t)' = db'[t]
    BY <1>0, <2>1, AbsSees, AbsSeesNext
  <2> QED BY <2>1, <2>3, <2>4, SameTables
<1>9. CASE DropTable
  <2>1. /\ pc = "drop" /\ pc' = "rename"
        /\ UNCHANGED <<wanted, table, temp>>
    BY <1>9 DEF DropTable, GoesTo, World
  <2>2. /\ table \in Tables /\ temp \in Seconds /\ temp # table
        /\ db[table] \in TableState /\ db[temp] \in TableState
    BY <1>0, <2>1, AtHand DEF AtTable
  <2>3. \A s \in Tables \cup Seconds : s # table => db'[s] = db[s]
    BY <1>0, <1>9, DropTableDoes
  <2>4. \A t \in Tables : TableOf(t) = db[t] /\ (t # table => TableOf(t)' = db'[t])
    BY <1>0, <2>1, AbsSees, AbsSeesNext
  <2>5. TableOf(table)' = db[temp]
    BY <1>0, <2>1, <2>2, <2>3, AbsSees, AbsSeesNext
  <2>6. /\ db[table].exists /\ copied \subseteq db[table].cols
        /\ db[temp].exists /\ db[temp].cols = copied
        /\ db[temp].cells \subseteq db[table].cells
        /\ Pk \in copied
    BY <1>0, <2>1 DEF TurnInv, Removing
  <2>7. db[table].cols \cap wanted[table] \subseteq copied
    BY <1>0, <2>1 DEF FollowInv, SafeInv, CopiedWanted
  <2>8. CellsIn(table, copied) \subseteq db[temp].cells
    BY <1>0, <2>1 DEF PlaceInv, KeysFit, SafeInv, CopyDone, FollowInv
  <2>9. ASSUME NEW x \in db[table].cells, x[2] \in wanted[table] \/ x[2] = Pk
        PROVE  x \in db[temp].cells
    <3>1. x[2] \in db[table].cols
      BY <1>0, <2>2 DEF SafeInv, WellFormed
    <3>2. x[2] \in copied
      BY <2>6, <2>7, <2>9, <3>1
    <3> QED BY <2>8, <3>2 DEF CellsIn
  <2>10. Promise!Legal(AbsOf(db[table]), AbsOf(db[temp]), wanted[table])
    BY <2>6, <2>7, <2>9 DEF Promise!Legal, Promise!Kept, AbsOf
  <2>11. \A t \in Tables : t # table => TableOf(t)' = TableOf(t)
    BY <2>3, <2>4
  <2>12. Promise!Change
    BY <2>1, <2>2, <2>4, <2>5, <2>10, <2>11, OneLegal
  <2> QED BY <2>12 DEF Promise!Next
<1>10. CASE RenameTable
  <2>1. pc = "rename" /\ db[table] = NoTable
    BY <1>0, <1>10 DEF RenameTable, TurnInv
  <2>2. ~Throws
    BY <1>10, <2>1 DEF RenameTable, NoTable, Throws
  <2>3. /\ pc' = "fields" /\ table' = table
        /\ db'[table] = db[temp]
        /\ \A s \in (Tables \cup Seconds) \ {table, temp} : db'[s] = db[s]
        /\ UNCHANGED wanted
    BY <1>0, <1>10, <2>2, RenameTableDoes DEF RenameTable, World
  <2>4. table \in Tables /\ \A t \in Tables : t # temp
    BY <1>0, <2>1, AtHand DEF AtTable
  <2>5. TableOf(table) = db[temp] /\ \A t \in Tables : TableOf(t)' = db'[t]
    BY <1>0, <2>1, <2>3, <2>4, AbsSees, AbsSeesNext
  <2>6. \A t \in Tables : t # table => TableOf(t) = db[t]
    BY <1>0, AbsSees, AbsSeesNext
  <2>7. \A t \in Tables : TableOf(t)' = TableOf(t)
    BY <2>3, <2>4, <2>5, <2>6
  <2> QED BY <2>3, <2>7, SameTables
<1>11. CASE Store
  <2>1. pc = "ready" /\ pc' = "ready" /\ UNCHANGED wanted
    BY <1>11 DEF Store, process
  <2>2. PICK t \in Tables, r \in Rows : \E fs \in SUBSET wanted[t] : StoreRow(t, r, fs)
    BY <1>11 DEF Store
  <2>3. PICK fs \in SUBSET wanted[t] : StoreRow(t, r, fs)
    BY <2>2
  <2> DEFINE new == {r} \X (fs \cup (IF db[t].key = "integer" THEN {Pk} ELSE {}))
  <2>4. db' = [db EXCEPT ![t].cells = @ \cup new] /\ owner[r] = NoOne
    BY <2>3 DEF StoreRow
  <2>5. \A x \in new : x[1] = r
    OBVIOUS
  <2> HIDE DEF new
  <2>6. /\ db'[t] = [db[t] EXCEPT !.cells = @ \cup new]
        /\ \A u \in Tables : u # t => db'[u] = db[u]
        /\ db[t] \in TableState
    BY <1>0, <2>4 DEF Typed, TypeOK
  <2>7. /\ db'[t].exists = db[t].exists
        /\ db'[t].cols = db[t].cols
        /\ db'[t].cells = db[t].cells \cup new
    BY <2>6 DEF TableState
  <2>8. \A x \in db[t].cells : x[1] # r
    BY <1>0, <2>4, NamesDistinct DEF SafeInv, Owned
  <2>9. Promise!Legal(AbsOf(db[t]), AbsOf(db'[t]), wanted[t])
    BY <2>5, <2>7, <2>8 DEF Promise!Legal, Promise!Kept, Promise!RowsOf, AbsOf
  <2>10. \A u \in Tables : TableOf(u) = db[u] /\ TableOf(u)' = db'[u]
    BY <1>0, <2>1, AbsSees, AbsSeesNext
  <2>11. \A v \in Tables : v # t => db'[v] = db[v]
    BY <2>6
  <2>12. Promise!Change
    BY <2>1, <2>9, <2>10, <2>11, OneInPlace
  <2> QED BY <2>12 DEF Promise!Next
<1> QED
  BY <1>2, <1>3, <1>4, <1>5, <1>6, <1>7, <1>8, <1>9, <1>10, <1>11, <1>a, <1>b
  DEF Next, Update

LEMMA ImplementsInit ==
  ASSUME Foreign = {}, Init
  PROVE  Promise!Init
<1>1. db = [t \in Tables \cup Seconds |-> NoTable] /\ pc = "idle"
  BY DEF Init
<1>2. \A t \in Tables : TableOf(t) = NoTable
  BY <1>1 DEF TableOf, Renaming
<1>3. ASSUME NEW t \in Tables PROVE AbsOf(TableOf(t)) = Promise!Absent
  BY <1>2, AbsNoTable
<1>4. wanted \in [Tables -> SUBSET Columns]
  BY DEF Init
<1> QED BY <1>3, <1>4 DEF Promise!Init, AbsOf

\* Where no statement fails and no table was made by another tool, each
\* statement of update_database either leaves the tables as they are or changes
\* them as a migration may; a table that is away between DROP TABLE and RENAME
\* is its temporary table, and only a crash there makes it vanish.
THEOREM UpdateImplementsMigration ==
  ASSUME ~StepsFail, Foreign = {}
  PROVE  Spec => ImplementsMigration
<1>1. Init => Promise!Init
  BY ImplementsInit
<1>2. PlaceInv /\ PlaceInv' /\ [Next]_vars
        => Promise!Next \/ UNCHANGED <<AbsTables, wanted>>
  <2> SUFFICES ASSUME PlaceInv, PlaceInv', [Next]_vars
               PROVE  Promise!Next \/ UNCHANGED <<AbsTables, wanted>>
    OBVIOUS
  <2>1. CASE Next
    BY <2>1, ImplementsStep DEF PlaceInv
  <2>2. CASE UNCHANGED vars
    BY <2>2 DEF vars, AbsTables, TableOf, Renaming
  <2> QED BY <2>1, <2>2
<1> QED
  BY <1>1, <1>2, PlaceInvariant, PTL
  DEF Spec, ImplementsMigration, Promise!MigrationSpec, AbsTables, AbsOf

=============================================================================
