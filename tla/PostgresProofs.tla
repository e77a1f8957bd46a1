--------------------------- MODULE PostgresProofs ---------------------------
(***************************************************************************)
(* Proofs about Postgres, for every set of tables, fields and rows and     *)
(* every bound on indexes and releases.                                    *)
(***************************************************************************)
EXTENDS PostgresImplements, FiniteSetTheorems, TLAPS

DbType == [Tables -> TableState]

\* A table that is not there has nothing, and the key has its index.
Sound(x) ==
  /\ ~x.exists => x.cols = {} /\ x.cells = {}
  /\ Pk \in x.cols => x.indexes >= 1

AllSound(tables) == \A t \in Tables : Sound(tables[t])

\* The tables as committed and as the session sees them are the same but in a
\* transaction, which ends with its session.
ServerInv ==
  /\ db \in DbType /\ work \in DbType
  /\ AllSound(db) /\ AllSound(work)
  /\ tx \in {"idle", "inTx", "failed"}
  /\ link \in {"null", "up", "lost"}
  /\ trouble \subseteq Troubles
  /\ tx = "idle" => work = db
  /\ link # "up" => tx = "idle"

\* Where update_database is: the table at hand is one of the registry's, the
\* fields to remove are not the model's, and the key is not among them unless
\* the query for it failed.
ListInv ==
  /\ pc \in {"create", "key", "columns", "fields", "alter", "commit"} =>
       table \in Tables
  /\ pc = "columns" /\ key = NoOne /\ Runs =>
       Pk \notin work[table].cols \/ "key unread" \in trouble
  /\ pc \in {"fields", "alter", "commit"} =>
       \A x \in surplus : /\ x[1] \notin wanted[table]
                          /\ x[1] = Pk => "key unread" \in trouble

Excused(c) == c[2] = Pk /\ "key unread" \in trouble

Holds(tables) ==
  \A t \in Tables : \A c \in keep[t] : c \in tables[t].cells \/ Excused(c)

\* What is kept, and what the unit stored, is in a field of the model.
OfModel ==
  \A t \in Tables : \A c \in keep[t] \cup unit[t] : c[2] \in wanted[t] \cup {Pk}

\* What is kept is kept in the session, too; what the unit stored will be when
\* it is committed, and without a session there is no unit.
KeepInv ==
  /\ Holds(db) /\ Holds(work)
  /\ OfModel
  /\ link = "null" => \A t \in Tables : unit[t] = {}

-----------------------------------------------------------------------------
(* The server.                                                             *)

LEMMA MakesServer ==
  ASSUME ServerInv, NEW tables \in DbType, AllSound(tables),
         Runs \/ tx = "idle", Makes(tables),
         UNCHANGED link, trouble' \subseteq Troubles
  PROVE  ServerInv'
BY DEF ServerInv, AllSound, Makes, Runs

LEMMA FailsServer ==
  ASSUME ServerInv, NEW more \in SUBSET Troubles, FailsTo(more), UNCHANGED link
  PROVE  ServerInv'
<1>1. tx' \in {"idle", "inTx", "failed"} /\ (tx' = "idle" <=> tx = "idle")
  BY DEF ServerInv, FailsTo
<1>2. trouble' \subseteq Troubles
  BY DEF ServerInv, FailsTo, Troubles
<1> QED BY <1>1, <1>2 DEF ServerInv, AllSound, FailsTo

LEMMA RollsBackServer ==
  ASSUME ServerInv, RollsBack, link' \in {"null", "up", "lost"},
         trouble' \subseteq Troubles
  PROVE  ServerInv'
BY DEF ServerInv, AllSound, RollsBack

LEMMA SameServer ==
  ASSUME ServerInv, UNCHANGED <<server, link, trouble>>
  PROVE  ServerInv'
BY DEF ServerInv, AllSound, server

LEMMA ExecutesServer ==
  ASSUME ServerInv, NEW tables \in DbType, AllSound(tables), Executes(tables),
         UNCHANGED link
  PROVE  ServerInv'
<1>1. CASE Runs /\ Makes(tables) /\ UNCHANGED trouble
  BY <1>1, MakesServer DEF ServerInv
<1>2. CASE Fails
  BY <1>2, FailsServer DEF Fails
<1> QED BY <1>1, <1>2 DEF Executes

LEMMA BeginsServer ==
  ASSUME ServerInv, Begins, UNCHANGED link
  PROVE  ServerInv'
<1>1. CASE Runs /\ tx = "idle" /\ tx' = "inTx" /\ UNCHANGED <<db, work, trouble>>
  BY <1>1 DEF ServerInv, AllSound, Runs
<1>2. CASE UNCHANGED <<server, trouble>>
  BY <1>2, SameServer
<1>3. CASE Fails
  BY <1>3, FailsServer DEF Fails
<1> QED BY <1>1, <1>2, <1>3 DEF Begins

LEMMA CommitsServer ==
  ASSUME ServerInv, Commits, UNCHANGED link
  PROVE  ServerInv'
<1>1. CASE link # "up"
  BY <1>1, FailsServer DEF Commits, Fails
<1>2. CASE link = "up" /\ tx = "failed"
  BY <1>2, RollsBackServer DEF Commits, ServerInv
<1>3. CASE link = "up" /\ tx # "failed"
  BY <1>3 DEF Commits, ServerInv, AllSound
<1> QED BY <1>1, <1>2, <1>3

\* Tables with one table replaced.
LEMMA ReplaceSound ==
  ASSUME NEW tables \in DbType, AllSound(tables), NEW t \in Tables,
         NEW x \in TableState, Sound(x)
  PROVE  /\ [tables EXCEPT ![t] = x] \in DbType
         /\ AllSound([tables EXCEPT ![t] = x])
BY DEF DbType, AllSound

LEMMA CreatedSound ==
  ASSUME NEW k \in {{}, {Pk}}, NEW fields \in SUBSET Columns, NEW t
  PROVE  LET x == [exists |-> TRUE, cols |-> fields \cup k \cup Stamped(t),
                   indexes |-> Cardinality(k), cells |-> {}]
         IN x \in TableState /\ Sound(x)
<1>1. Cardinality({}) = 0 /\ Cardinality({Pk}) = 1
  BY FS_EmptySet, FS_Singleton
<1>2. Cardinality(k) \in 0..MaxIndexes /\ (Pk \in k => Cardinality(k) >= 1)
  BY <1>1, PostgresAssumption
<1>3. Stamped(t) \subseteq Stamps
  BY DEF Stamped
<1>4. fields \cup k \cup Stamped(t) \subseteq Columns \cup Stamps \cup {Pk}
  BY <1>3
<1>5. Pk \in fields \cup k \cup Stamped(t) => Pk \in k
  BY <1>3, PostgresAssumption
<1> QED BY <1>2, <1>4, <1>5 DEF TableState, Sound

LEMMA AddedSound ==
  ASSUME NEW x \in TableState, Sound(x), x.exists, NEW f \in Columns
  PROVE  LET y == [x EXCEPT !.cols = @ \cup {f}] IN y \in TableState /\ Sound(y)
BY PostgresAssumption DEF TableState, Sound

LEMMA DroppedSound ==
  ASSUME NEW x \in TableState, Sound(x), NEW f \in x.cols
  PROVE  /\ DropsColumn(x, f) \in TableState /\ Sound(DropsColumn(x, f))
         /\ DropsColumn(x, f).cells = {c \in x.cells : c[2] # f}
<1> DEFINE y == DropsColumn(x, f)
<1>1. y.cols = x.cols \ {f} /\ y.cells = {c \in x.cells : c[2] # f}
      /\ y.exists = x.exists
      /\ y.indexes = IF f = Pk THEN x.indexes - 1 ELSE x.indexes
  BY DEF DropsColumn, TableState
<1>2. y.indexes \in 0..MaxIndexes
  <2>1. x.indexes \in 0..MaxIndexes /\ (f = Pk => x.indexes >= 1)
    BY DEF Sound, TableState
  <2> QED BY <1>1, <2>1, PostgresAssumption
<1>3. y \in TableState
  <2>1. (IF f = Pk THEN x.indexes - 1 ELSE x.indexes) \in 0..MaxIndexes
    BY <1>1, <1>2
  <2>2. {c \in x.cells : c[2] # f} \in SUBSET Cell
    BY DEF TableState
  <2> QED BY <2>1, <2>2 DEF DropsColumn, TableState
<1>4. Sound(y)
  <2>1. ~y.exists => y.cols = {} /\ y.cells = {}
    BY <1>1 DEF Sound
  <2>2. Pk \in y.cols => f # Pk /\ Pk \in x.cols
    BY <1>1
  <2> QED BY <1>1, <2>1, <2>2 DEF Sound
<1> QED BY <1>1, <1>3, <1>4

LEMMA StoredSound ==
  ASSUME NEW x \in TableState, Sound(x), x.exists, NEW new \in SUBSET Cell
  PROVE  LET y == [x EXCEPT !.cells = @ \cup new] IN y \in TableState /\ Sound(y)
BY DEF TableState, Sound

LEMMA IndexedSound ==
  ASSUME NEW x \in TableState, Sound(x), x.exists, x.indexes < MaxIndexes
  PROVE  LET y == [x EXCEPT !.indexes = @ + 1] IN y \in TableState /\ Sound(y)
<1>1. x.indexes + 1 \in 0..MaxIndexes /\ (x.indexes >= 1 => x.indexes + 1 >= 1)
  BY PostgresAssumption DEF TableState
<1> QED BY <1>1 DEF TableState, Sound

LEMMA NothingSound == NoTable \in TableState /\ Sound(NoTable)
<1>1. 0 \in 0..MaxIndexes
  BY PostgresAssumption
<1> QED BY <1>1 DEF NoTable, TableState, Sound

-----------------------------------------------------------------------------
(* Each step of the server's.                                              *)

USE DEF server, process, program, around, Apart, Locals, Calls

LEMMA InitInv == Init => TypeOK /\ ServerInv /\ ListInv /\ KeepInv
<1> SUFFICES ASSUME Init PROVE TypeOK /\ ServerInv /\ ListInv /\ KeepInv
  OBVIOUS
<1>1. db \in DbType /\ work = db /\ AllSound(db)
  BY NothingSound DEF Init, DbType, AllSound
<1>2. ServerInv
  BY <1>1 DEF Init, ServerInv
<1>3. TypeOK
  <2>1. 0 \in 0..MaxReleases
    BY PostgresAssumption
  <2>2. /\ db \in [Tables -> TableState] /\ work \in [Tables -> TableState]
        /\ tx \in {"idle", "inTx", "failed"} /\ link \in {"null", "up", "lost"}
        /\ keyless \in SUBSET Tables /\ wanted \in [Tables -> SUBSET Columns]
    BY <1>1 DEF Init, DbType
  <2>3. /\ pc \in Places /\ todo \subseteq Tables /\ table \in Tables \cup {NoOne}
        /\ key \in {Pk, NoOne} /\ missing \subseteq Columns
        /\ surplus \subseteq (Columns \cup Stamps \cup {Pk}) \X (1..MaxIndexes)
    BY DEF Init, Places
  <2>4. unit \in [Tables -> SUBSET Cell] /\ keep \in [Tables -> SUBSET Cell]
    BY DEF Init
  <2>5. /\ inUnit \in BOOLEAN /\ cut \in BOOLEAN /\ saved \subseteq Tables \X Rows
        /\ database_ \in BOOLEAN /\ trouble \subseteq Troubles
        /\ releases \in 0..MaxReleases
    BY <2>1 DEF Init
  <2> QED BY <2>2, <2>3, <2>4, <2>5 DEF TypeOK
<1>4. ListInv
  BY DEF Init, ListInv
<1>5. KeepInv
  <2>1. \A t \in Tables : unit[t] = {} /\ keep[t] = {}
    BY DEF Init
  <2> QED BY <2>1 DEF KeepInv, Holds, OfModel
<1> QED BY <1>2, <1>3, <1>4, <1>5

\* What update_database makes of the table at hand.
LEMMA AtHandServer ==
  ASSUME ServerInv, UNCHANGED link, table \in Tables,
         NEW x \in TableState, Sound(x),
         Executes([work EXCEPT ![table] = x])
  PROVE  ServerInv'
<1>1. /\ [work EXCEPT ![table] = x] \in DbType
      /\ AllSound([work EXCEPT ![table] = x])
  BY ReplaceSound DEF ServerInv
<1> QED BY <1>1, ExecutesServer

\* The server does not parse the statement of create.
LEMMA SaveFails ==
  ASSUME save
  PROVE  Fails /\ UNCHANGED <<link, inUnit, cut, unit, keep, Apart>>
<1>1. PICK t \in Tables, r \in Rows :
        \E fields \in SUBSET wanted[t] : StoreRow(t, r, fields, "?")
  BY DEF save
<1>2. \A listed : ~Insertable(t, listed, "?")
  BY DEF Insertable, Parses
<1>3. Fails /\ UNCHANGED <<unit, keep>>
  BY <1>1, <1>2 DEF StoreRow
<1> QED BY <1>3 DEF save

\* A step of the server for each action.
LEMMA ServerStep ==
  TypeOK /\ ServerInv /\ ListInv /\ [Next]_vars => ServerInv'
<1> SUFFICES ASSUME TypeOK, ServerInv, ListInv, [Next]_vars PROVE ServerInv'
  OBVIOUS
<1>1. CASE Start \/ TableDone \/ Return \/ Release
  BY <1>1, SameServer DEF Start, TableDone, Return, Release
<1>2. CASE table_exists
  BY <1>2, SameServer, FailsServer DEF table_exists, Answers, Fails
<1>3. CASE create_table
  <2> DEFINE k == IF table \in keyless THEN {} ELSE {Pk}
  <2> DEFINE x == [exists |-> TRUE, cols |-> wanted[table] \cup k \cup Stamped(table),
                   indexes |-> Cardinality(k), cells |-> {}]
  <2>1. table \in Tables /\ wanted[table] \in SUBSET Columns /\ k \in {{}, {Pk}}
    BY <1>3 DEF create_table, ListInv, TypeOK
  <2>2. x \in TableState /\ Sound(x)
    BY <2>1, CreatedSound
  <2>3. Fails \/ Executes([work EXCEPT ![table] = x])
    BY <1>3 DEF create_table
  <2>4. UNCHANGED link
    BY <1>3 DEF create_table
  <2> QED BY <2>1, <2>2, <2>3, <2>4, AtHandServer, FailsServer DEF Fails
<1>4. CASE primary_key
  <2>1. {"key unread"} \in SUBSET Troubles /\ {} \in SUBSET Troubles
    BY DEF Troubles
  <2>2. Answers \/ \E more \in SUBSET Troubles : FailsTo(more)
    BY <1>4, <2>1 DEF primary_key, select_value
  <2> QED BY <1>4, <2>2, SameServer, FailsServer DEF primary_key, Answers
<1>5. CASE table_data
  BY <1>5, SameServer, FailsServer DEF table_data, Answers, Fails
<1>6. CASE add_field
  <2>1. PICK f \in missing :
          IF f \in work[table].cols \/ ~work[table].exists THEN Fails
          ELSE Executes([work EXCEPT ![table].cols = @ \cup {f}])
    BY <1>6 DEF add_field
  <2>2. table \in Tables /\ f \in Columns /\ UNCHANGED link
    BY <1>6, <2>1 DEF add_field, ListInv, TypeOK
  <2> DEFINE x == [work[table] EXCEPT !.cols = @ \cup {f}]
  <2>3. work[table] \in TableState /\ Sound(work[table])
    BY <2>2 DEF ServerInv, AllSound, DbType
  <2>4. CASE Fails
    BY <2>2, <2>4, FailsServer DEF Fails
  <2>5. CASE work[table].exists /\ Executes([work EXCEPT ![table].cols = @ \cup {f}])
    <3>1. x \in TableState /\ Sound(x)
      BY <2>2, <2>3, <2>5, AddedSound
    <3>2. Executes([work EXCEPT ![table] = x])
      BY <2>5
    <3> HIDE DEF x
    <3> QED BY <2>2, <3>1, <3>2, AtHandServer
  <2> QED BY <2>1, <2>4, <2>5
<1>7. CASE remove_field
  BY <1>7, BeginsServer DEF remove_field
<1>8. CASE AlterTable
  <2>1. PICK s \in surplus :
          IF s[1] \in work[table].cols
          THEN Executes([work EXCEPT ![table] = DropsColumn(@, s[1])])
          ELSE Fails
    BY <1>8 DEF AlterTable
  <2>2. table \in Tables /\ UNCHANGED link
    BY <1>8 DEF AlterTable, ListInv
  <2>3. work[table] \in TableState /\ Sound(work[table])
    BY <2>2 DEF ServerInv, AllSound, DbType
  <2> DEFINE x == DropsColumn(work[table], s[1])
  <2>4. CASE Fails
    BY <2>2, <2>4, FailsServer DEF Fails
  <2>5. CASE /\ s[1] \in work[table].cols
             /\ Executes([work EXCEPT ![table] = DropsColumn(@, s[1])])
    <3>1. x \in TableState /\ Sound(x)
      BY <2>3, <2>5, DroppedSound
    <3>2. Executes([work EXCEPT ![table] = x])
      BY <2>5
    <3> HIDE DEF x
    <3> QED BY <2>2, <3>1, <3>2, AtHandServer
  <2> QED BY <2>1, <2>4, <2>5
<1>9. CASE CommitRemoval \/ commit
  BY <1>9, CommitsServer DEF CommitRemoval, commit
<1>10. CASE connect
  BY <1>10 DEF connect, ServerInv, AllSound
<1>11. CASE disconnect
  BY <1>11, RollsBackServer DEF disconnect, ServerInv
<1>12. CASE Lose
  BY <1>12, RollsBackServer DEF Lose, ServerInv, Troubles
<1>13. CASE begin_transaction
  BY <1>13, BeginsServer DEF begin_transaction
<1>14. CASE insert
  <2>0. PICK t \in Tables, r \in Rows :
          \E fields \in SUBSET wanted[t] :
            StoreRow(t, r, fields \cup (work[t].cols \cap {Pk}), "$")
    BY <1>14 DEF insert
  <2>1. PICK fields \in SUBSET wanted[t] :
          StoreRow(t, r, fields \cup (work[t].cols \cap {Pk}), "$")
    BY <2>0
  <2> DEFINE new == {r} \X (fields \cup (work[t].cols \cap {Pk}))
  <2>2. UNCHANGED link
    BY <1>14 DEF insert
  <2>3. work[t] \in TableState /\ Sound(work[t]) /\ new \in SUBSET Cell
    BY <2>1 DEF ServerInv, AllSound, DbType, TypeOK, Cell
  <2>4. CASE /\ Runs /\ work[t].exists /\ UNCHANGED trouble
             /\ Makes([work EXCEPT ![t].cells = @ \cup new])
    <3> DEFINE x == [work[t] EXCEPT !.cells = @ \cup new]
    <3>1. x \in TableState /\ Sound(x)
      BY <2>3, <2>4, StoredSound
    <3>2. Makes([work EXCEPT ![t] = x])
      BY <2>4
    <3> HIDE DEF x
    <3>3. [work EXCEPT ![t] = x] \in DbType /\ AllSound([work EXCEPT ![t] = x])
      BY <3>1, ReplaceSound DEF ServerInv
    <3>4. trouble' \subseteq Troubles
      BY <2>4 DEF ServerInv
    <3> QED BY <2>2, <2>4, <3>2, <3>3, <3>4, MakesServer
  <2>5. CASE Fails
    BY <2>2, <2>5, FailsServer DEF Fails
  <2> QED BY <2>1, <2>4, <2>5 DEF StoreRow, Insertable, HasColumns
<1>15. CASE save
  BY <1>15, SaveFails, FailsServer DEF Fails
<1>16. CASE create_database \/ drop_database
  BY <1>16, SameServer, FailsServer
    DEF create_database, drop_database, MakesDatabase, Fails
<1>17. CASE Restart
  BY <1>17, RollsBackServer DEF Restart, ServerInv
<1>18. CASE CreateIndex
  <2>1. PICK t \in Tables : /\ db[t].exists /\ db[t].indexes < MaxIndexes
                            /\ Makes([db EXCEPT ![t].indexes = @ + 1])
    BY <1>18 DEF CreateIndex
  <2> DEFINE x == [db[t] EXCEPT !.indexes = @ + 1]
  <2>2. x \in TableState /\ Sound(x)
    BY <2>1, IndexedSound DEF ServerInv, AllSound, DbType
  <2>3. Makes([db EXCEPT ![t] = x])
    BY <2>1
  <2> HIDE DEF x
  <2>4. [db EXCEPT ![t] = x] \in DbType /\ AllSound([db EXCEPT ![t] = x])
    BY <2>2, ReplaceSound DEF ServerInv
  <2> QED BY <1>18, <2>3, <2>4, MakesServer DEF CreateIndex, ServerInv
<1>19. CASE UNCHANGED vars
  BY <1>19, SameServer DEF vars
<1> QED
  BY <1>1, <1>2, <1>3, <1>4, <1>5, <1>6, <1>7, <1>8, <1>9, <1>10, <1>11, <1>12,
     <1>13, <1>14, <1>15, <1>16, <1>17, <1>18, <1>19 DEF Next

-----------------------------------------------------------------------------
(* Type correctness.                                                       *)

\* What the server keeps has its type by ServerInv; each step keeps the rest.
LEMMA TypeStep == TypeOK /\ ServerInv' /\ ListInv /\ [Next]_vars => TypeOK'
<1> SUFFICES ASSUME TypeOK, ServerInv', ListInv, [Next]_vars PROVE TypeOK'
  OBVIOUS
<1> DEFINE
      AroundType == /\ keyless \in SUBSET Tables
                    /\ wanted \in [Tables -> SUBSET Columns]
                    /\ database_ \in BOOLEAN /\ releases \in 0..MaxReleases
      ProcessType == /\ pc \in Places /\ todo \subseteq Tables
                     /\ table \in Tables \cup {NoOne}
                     /\ key \in {Pk, NoOne} /\ missing \subseteq Columns
                     /\ surplus \subseteq (Columns \cup Stamps \cup {Pk}) \X (1..MaxIndexes)
      ProgramType == /\ inUnit \in BOOLEAN /\ cut \in BOOLEAN
                     /\ unit \in [Tables -> SUBSET Cell]
                     /\ keep \in [Tables -> SUBSET Cell]
                     /\ saved \subseteq Tables \X Rows
<1>a. AroundType /\ ProcessType /\ ProgramType
  BY DEF TypeOK
<1>b. AroundType' /\ ProcessType' /\ ProgramType' => TypeOK'
  BY DEF TypeOK, ServerInv, DbType
<1>c. (UNCHANGED <<around, releases>> => AroundType') /\ (UNCHANGED process => ProcessType')
      /\ (UNCHANGED program => ProgramType')
  BY <1>a
<1> HIDE DEF AroundType, ProgramType
<1>1. CASE Start
  BY <1>1, <1>a, <1>b, <1>c DEF Start, Places
<1>2. CASE table_exists
  BY <1>2, <1>a, <1>b, <1>c DEF table_exists, Places
<1>3. CASE create_table
  BY <1>3, <1>a, <1>b, <1>c DEF create_table, Places
<1>4. CASE primary_key
  BY <1>4, <1>a, <1>b, <1>c DEF primary_key, select_value, Places
<1>5. CASE table_data
  <2>1. PICK read \in {FieldsRead, {}} :
          /\ missing' = wanted[table] \ {x[1] : x \in read}
          /\ surplus' = {x \in read : x[1] \notin wanted[table]}
    BY <1>5 DEF table_data
  <2>2. table \in Tables
    BY <1>5 DEF table_data, ListInv
  <2>3. missing' \subseteq Columns
    BY <2>1, <2>2 DEF TypeOK
  <2>4. FieldsRead \subseteq (Columns \cup Stamps \cup {Pk}) \X (1..MaxIndexes)
    <3>1. /\ work[table].cols \subseteq Columns \cup Stamps \cup {Pk}
          /\ work[table].indexes \in 0..MaxIndexes
      BY <2>2 DEF TypeOK, TableState
    <3>2. 1..work[table].indexes \subseteq 1..MaxIndexes
      BY <3>1, PostgresAssumption
    <3> QED BY <3>1, <3>2 DEF FieldsRead
  <2>5. surplus' \subseteq (Columns \cup Stamps \cup {Pk}) \X (1..MaxIndexes)
    BY <2>1, <2>4
  <2> QED BY <1>5, <2>3, <2>5, <1>a, <1>b, <1>c DEF table_data, Places
<1>6. CASE add_field
  BY <1>6, <1>a, <1>b, <1>c DEF add_field, Places
<1>7. CASE remove_field
  BY <1>7, <1>a, <1>b, <1>c DEF remove_field, Places
<1>8. CASE AlterTable
  BY <1>8, <1>a, <1>b, <1>c DEF AlterTable, Places
<1>9. CASE CommitRemoval \/ commit
  <2>1. keep' \in [Tables -> SUBSET Cell]
    BY <1>9 DEF CommitRemoval, commit, KeepsCommitted, TypeOK
  <2>2. ProgramType'
    BY <1>9, <1>a, <2>1 DEF CommitRemoval, commit, ProgramType
  <2>3. ProcessType'
    BY <1>9, <1>a, <1>c DEF CommitRemoval, commit, Places
  <2> QED BY <1>9, <2>2, <2>3, <1>b, <1>c DEF CommitRemoval, commit
<1>10. CASE TableDone \/ Return
  BY <1>10, <1>a, <1>b, <1>c DEF TableDone, Return, Places
<1>11. CASE connect \/ Lose \/ CreateIndex
  BY <1>11, <1>a, <1>b, <1>c DEF connect, Lose, CreateIndex
<1>12. CASE disconnect \/ begin_transaction
  <2>1. ProgramType'
    BY <1>12, <1>a DEF disconnect, begin_transaction, ProgramType
  <2> QED BY <1>12, <2>1, <1>b, <1>c DEF disconnect, begin_transaction
<1>18. CASE save
  <2>1. saved' \subseteq Tables \X Rows
    <3>1. PICK t \in Tables, r \in Rows :
            saved' = saved \/ saved' = saved \cup {<<t, r>>}
      BY <1>18 DEF save
    <3> QED BY <3>1, <1>a DEF ProgramType
  <2>2. ProgramType'
    BY <1>18, <1>a, <2>1, SaveFails DEF ProgramType
  <2> QED BY <1>18, <2>2, <1>b, <1>c DEF save
<1>13. CASE insert
  <2>0. PICK t \in Tables, r \in Rows :
          \E fields \in SUBSET wanted[t] :
            StoreRow(t, r, fields \cup (work[t].cols \cap {Pk}), "$")
    BY <1>13 DEF insert
  <2>1. PICK fields \in SUBSET wanted[t] :
          StoreRow(t, r, fields \cup (work[t].cols \cap {Pk}), "$")
    BY <2>0
  <2> DEFINE new == {r} \X (fields \cup (work[t].cols \cap {Pk}))
  <2>2. new \in SUBSET Cell
    BY <2>1 DEF TypeOK, Cell
  <2>3. \/ unit' = unit \/ unit' = [unit EXCEPT ![t] = @ \cup new]
    BY <2>1 DEF StoreRow
  <2>4. \/ keep' = keep \/ keep' = [keep EXCEPT ![t] = @ \cup new]
    BY <2>1 DEF StoreRow
  <2> HIDE DEF new
  <2>5. unit' \in [Tables -> SUBSET Cell] /\ keep' \in [Tables -> SUBSET Cell]
    BY <2>2, <2>3, <2>4 DEF TypeOK
  <2>6. ProgramType'
    BY <1>13, <1>a, <2>5 DEF insert, ProgramType
  <2> QED BY <1>13, <2>6, <1>b, <1>c DEF insert
<1>14. CASE create_database \/ drop_database
  <2>1. AroundType'
    BY <1>14, <1>a DEF create_database, drop_database, MakesDatabase, AroundType
  <2> QED BY <1>14, <2>1, <1>b, <1>c DEF create_database, drop_database, MakesDatabase
<1>15. CASE Restart
  <2>1. ProgramType'
    BY <1>15, <1>a DEF Restart, ProgramType
  <2>2. ProcessType'
    BY <1>15 DEF Restart, Places
  <2> QED BY <1>15, <2>1, <2>2, <1>b, <1>c DEF Restart
<1>16. CASE Release
  <2>1. PICK t \in Tables, w \in SUBSET Columns :
          /\ wanted' = [wanted EXCEPT ![t] = w]
          /\ keep' = [keep EXCEPT ![t] = {c \in @ : c[2] \in w \cup {Pk}}]
    BY <1>16 DEF Release
  <2>2. releases' \in 0..MaxReleases
    BY <1>16, PostgresAssumption DEF Release, TypeOK
  <2>3. wanted' \in [Tables -> SUBSET Columns] /\ keep' \in [Tables -> SUBSET Cell]
    BY <2>1 DEF TypeOK
  <2>4. AroundType'
    BY <1>16, <1>a, <2>2, <2>3 DEF Release, AroundType
  <2>5. ProgramType'
    BY <1>16, <1>a, <2>3 DEF Release, ProgramType
  <2> QED BY <1>16, <2>4, <2>5, <1>b, <1>c DEF Release
<1>17. CASE UNCHANGED vars
  BY <1>17, <1>a, <1>b, <1>c DEF vars
<1> QED
  BY <1>1, <1>2, <1>3, <1>4, <1>5, <1>6, <1>7, <1>8, <1>9, <1>10, <1>11, <1>12,
     <1>13, <1>14, <1>15, <1>16, <1>17, <1>18 DEF Next

-----------------------------------------------------------------------------
(* The lists of update_table.                                              *)

UnreadKept == "key unread" \in trouble => "key unread" \in trouble'

LEMMA StepKeepsUnread == [Next]_vars => UnreadKept
<1> SUFFICES ASSUME [Next]_vars PROVE UnreadKept
  OBVIOUS
<1>1. \A more : FailsTo(more) => UnreadKept
  BY DEF FailsTo, UnreadKept
<1>2. UNCHANGED trouble => UnreadKept
  BY DEF UnreadKept
<1>3. Begins \/ Commits => UnreadKept
  BY <1>1, <1>2 DEF Begins, Commits, Fails
<1>4. \A tables : Executes(tables) => UnreadKept
  BY <1>1, <1>2 DEF Executes, Fails
<1>5. CASE \/ Start \/ table_exists \/ table_data \/ TableDone \/ Return \/ Release
           \/ connect \/ disconnect \/ save \/ CreateIndex \/ UNCHANGED vars
  BY <1>5, <1>1, <1>2, SaveFails
    DEF Start, table_exists, table_data, TableDone, Return, Release, connect,
        disconnect, CreateIndex, vars, Answers, Fails
<1>6. CASE create_table
  BY <1>6, <1>1, <1>4 DEF create_table, Fails
<1>7. CASE add_field
  BY <1>7, <1>1, <1>4 DEF add_field, Fails
<1>8. CASE AlterTable
  BY <1>8, <1>1, <1>4 DEF AlterTable, Fails
<1>9. CASE primary_key
  BY <1>9, <1>1, <1>2 DEF primary_key, select_value, Answers
<1>10. CASE remove_field \/ CommitRemoval \/ begin_transaction \/ commit
  BY <1>10, <1>3 DEF remove_field, CommitRemoval, begin_transaction, commit
<1>11. CASE Lose \/ Restart
  BY <1>11 DEF Lose, Restart, UnreadKept
<1>12. CASE insert
  BY <1>12, <1>1, <1>2 DEF insert, StoreRow, Fails
<1>13. CASE create_database \/ drop_database
  BY <1>13, <1>1, <1>2 DEF create_database, drop_database, MakesDatabase, Fails
<1> QED
  BY <1>5, <1>6, <1>7, <1>8, <1>9, <1>10, <1>11, <1>12, <1>13 DEF Next

\* A step that leaves the procedure alone leaves the lists right.
LEMMA ListAlone ==
  ASSUME ListInv, UnreadKept, UNCHANGED <<process, wanted>>,
         pc = "columns" =>
           (Runs' => Runs /\ (Pk \notin work[table].cols => Pk \notin work'[table].cols))
  PROVE  ListInv'
BY DEF ListInv, UnreadKept

LEMMA ListCalls ==
  ASSUME UNCHANGED pc, Calls
  PROVE  ListInv'
BY DEF ListInv

LEMMA ListStep ==
  TypeOK /\ ServerInv /\ ListInv /\ [Next]_vars => ListInv'
<1> SUFFICES ASSUME TypeOK, ServerInv, ListInv, [Next]_vars PROVE ListInv'
  OBVIOUS
<1>a. UnreadKept
  BY StepKeepsUnread
<1>1. CASE Start \/ create_table \/ TableDone \/ Return \/ Restart
  BY <1>1 DEF Start, create_table, TableDone, Return, Restart, ListInv
<1>2. CASE table_exists
  BY <1>2 DEF table_exists, ListInv, TypeOK
<1>3. CASE primary_key
  <2>1. table' = table /\ table \in Tables /\ pc' = "columns" /\ link' = link
    BY <1>3 DEF primary_key, ListInv
  <2>2. ASSUME key' = NoOne, Runs'
        PROVE  Pk \notin work'[table'].cols \/ "key unread" \in trouble'
    <3>1. CASE Answers /\ key' = IF Pk \in work[table].cols THEN Pk ELSE NoOne
      BY <3>1, <2>1, <2>2, PostgresAssumption DEF Answers
    <3>2. CASE FailsTo(IF Runs THEN {"key unread"} ELSE {})
      <4>1. Runs' => Runs
        BY <3>2, <2>1 DEF FailsTo, Runs
      <4> QED BY <3>2, <2>2, <4>1 DEF FailsTo
    <3> QED BY <1>3, <3>1, <3>2 DEF primary_key, select_value
  <2> QED BY <2>1, <2>2 DEF ListInv
<1>4. CASE table_data
  <2>1. PICK read \in {FieldsRead, {}} :
          /\ \/ read = FieldsRead /\ Answers
             \/ read = {} /\ MayFail /\ Fails
          /\ surplus' = {x \in read : x[1] \notin wanted[table]}
    BY <1>4 DEF table_data
  <2>2. UNCHANGED <<table, wanted>> /\ table \in Tables /\ pc' = "fields"
    BY <1>4 DEF table_data, ListInv
  <2>3. ASSUME NEW x \in surplus'
        PROVE  x[1] \notin wanted[table] /\ (x[1] = Pk => "key unread" \in trouble')
    <3>1. x \in FieldsRead /\ Answers /\ x[1] \notin wanted[table]
      BY <2>1
    <3>2. x[1] = Pk => key # Pk /\ Pk \in work[table].cols
      BY <3>1 DEF FieldsRead
    <3>3. x[1] = Pk => "key unread" \in trouble
      BY <1>4, <3>1, <3>2 DEF Answers, table_data, ListInv, TypeOK
    <3> QED BY <3>1, <3>3, <1>a DEF UnreadKept
  <2> QED BY <2>2, <2>3 DEF ListInv
<1>5. CASE add_field \/ remove_field \/ AlterTable \/ CommitRemoval
  <2>1. /\ pc \in {"fields", "alter", "commit"} /\ pc' \in {"fields", "alter", "commit"}
        /\ UNCHANGED <<table, wanted>> /\ surplus' \subseteq surplus
    BY <1>5 DEF add_field, remove_field, AlterTable, CommitRemoval
  <2> QED BY <2>1, <1>a DEF ListInv, UnreadKept
<1>6. CASE Lose
  BY <1>6, <1>a, ListAlone DEF Lose, Runs
<1>7. CASE CreateIndex
  <2>1. PICK t \in Tables : Makes([db EXCEPT ![t].indexes = @ + 1])
    BY <1>7 DEF CreateIndex
  <2>2. \A u \in Tables : work'[u].cols = work[u].cols
    BY <1>7, <2>1 DEF CreateIndex, Makes, ServerInv, DbType, TableState
  <2>3. pc = "columns" => table \in Tables
    BY DEF ListInv
  <2>4. Runs' <=> Runs
    BY <1>7, <2>1 DEF CreateIndex, Makes, Runs
  <2> QED BY <1>7, <1>a, <2>2, <2>3, <2>4, ListAlone DEF CreateIndex
<1>8. CASE \/ connect \/ disconnect \/ begin_transaction \/ commit \/ insert \/ save
           \/ create_database \/ drop_database
  BY <1>8, ListCalls
    DEF connect, disconnect, begin_transaction, commit, insert, save,
        create_database, drop_database, MakesDatabase
<1>9. CASE Release
  BY <1>9 DEF Release, ListInv
<1>10. CASE UNCHANGED vars
  BY <1>10, <1>a, ListAlone DEF vars, Runs
<1> QED
  BY <1>1, <1>2, <1>3, <1>4, <1>5, <1>6, <1>7, <1>8, <1>9, <1>10 DEF Next

-----------------------------------------------------------------------------
(* What is kept.                                                           *)

BothHold == Holds(db) /\ Holds(work)

LEMMA SameHolds ==
  ASSUME BothHold, UnreadKept, UNCHANGED <<db, work, keep>>
  PROVE  BothHold'
BY DEF BothHold, Holds, Excused, UnreadKept

LEMMA RollsBackHolds ==
  ASSUME BothHold, UnreadKept, RollsBack, UNCHANGED keep
  PROVE  BothHold'
BY DEF BothHold, Holds, Excused, UnreadKept, RollsBack

LEMMA MakesHolds ==
  ASSUME BothHold, UnreadKept, NEW tables \in DbType, Makes(tables),
         Holds(tables), UNCHANGED keep
  PROVE  BothHold'
<1>1. work' = tables /\ (db' = tables \/ db' = db)
  BY DEF Makes
<1> QED BY <1>1 DEF BothHold, Holds, Excused, UnreadKept

LEMMA ExecutesHolds ==
  ASSUME BothHold, UnreadKept, NEW tables \in DbType, Executes(tables),
         Holds(tables), UNCHANGED keep
  PROVE  BothHold'
BY MakesHolds, SameHolds DEF Executes, Fails, FailsTo

\* A COMMIT, whatever becomes of the transaction, leaves what it keeps.
LEMMA CommitsHolds ==
  ASSUME BothHold, ServerInv, UnreadKept, Commits, KeepsCommitted,
         keep \in [Tables -> SUBSET Cell]
  PROVE  BothHold'
<1>1. db' = work' /\ (db' = db \/ db' = work)
  BY DEF Commits, RollsBack, Fails, FailsTo, ServerInv
<1>2. \A t \in Tables : keep'[t] = keep[t] \cup (unit[t] \cap db'[t].cells)
  BY DEF KeepsCommitted
<1> QED BY <1>1, <1>2 DEF BothHold, Holds, Excused, UnreadKept

\* Tables with one table replaced hold what is kept when the new one does.
LEMMA ReplaceHolds ==
  ASSUME NEW tables \in DbType, Holds(tables), NEW t \in Tables,
         NEW x \in TableState,
         \A c \in keep[t] : c \in tables[t].cells => c \in x.cells \/ Excused(c)
  PROVE  Holds([tables EXCEPT ![t] = x])
BY DEF DbType, Holds

LEMMA KeepStep ==
  TypeOK /\ ServerInv /\ ListInv /\ KeepInv /\ [Next]_vars => KeepInv'
<1> SUFFICES ASSUME TypeOK, ServerInv, ListInv, KeepInv, [Next]_vars
             PROVE  KeepInv'
  OBVIOUS
<1>a. UnreadKept
  BY StepKeepsUnread
<1>b. BothHold
  BY DEF KeepInv, BothHold
<1> DEFINE NoUnit == link = "null" => \A t \in Tables : unit[t] = {}
<1>c. BothHold' /\ OfModel' /\ NoUnit' => KeepInv'
  BY DEF KeepInv, BothHold
<1>d. UNCHANGED <<keep, unit, wanted>> => OfModel'
  BY DEF KeepInv, OfModel
<1>e. UNCHANGED unit /\ (link' = "null" => link = "null") => NoUnit'
  BY DEF KeepInv
<1>1. CASE \/ Start \/ table_exists \/ primary_key \/ table_data \/ TableDone \/ Return
           \/ connect \/ UNCHANGED vars
  <2>1. UNCHANGED <<db, work, keep, unit, wanted>> /\ (link' = "null" => link = "null")
    BY <1>1 DEF Start, table_exists, primary_key, select_value, table_data, TableDone,
                Return, connect, vars, Answers, Fails, FailsTo
  <2> QED BY <2>1, <1>a, <1>b, <1>c, <1>d, <1>e, SameHolds
<1>2. CASE create_table
  <2> DEFINE x == [exists |-> TRUE,
                   cols |-> wanted[table] \cup (IF table \in keyless THEN {} ELSE {Pk})
                              \cup Stamped(table),
                   indexes |-> Cardinality(IF table \in keyless THEN {} ELSE {Pk}),
                   cells |-> {}]
  <2>1. table \in Tables /\ wanted[table] \in SUBSET Columns
        /\ UNCHANGED <<link, keep, unit, wanted>>
    BY <1>2 DEF create_table, ListInv, TypeOK
  <2>2. CASE Fails
    BY <2>1, <2>2, <1>a, <1>b, <1>c, <1>d, <1>e, SameHolds DEF Fails, FailsTo
  <2>3. CASE ~work[table].exists /\ Executes([work EXCEPT ![table] = x])
    <3>1. x \in TableState /\ Sound(x)
      BY <2>1, CreatedSound
    <3>2. work[table].cells = {}
      BY <2>1, <2>3 DEF ServerInv, AllSound, Sound
    <3> HIDE DEF x
    <3>3. [work EXCEPT ![table] = x] \in DbType
      BY <2>1, <3>1, ReplaceSound DEF ServerInv
    <3>4. Holds([work EXCEPT ![table] = x])
      BY <2>1, <3>1, <3>2, <1>b, ReplaceHolds DEF BothHold, ServerInv
    <3> QED BY <2>1, <2>3, <3>3, <3>4, <1>a, <1>b, <1>c, <1>d, <1>e, ExecutesHolds
  <2> QED BY <1>2, <2>2, <2>3 DEF create_table
<1>3. CASE add_field
  <2>1. PICK f \in missing :
          IF f \in work[table].cols \/ ~work[table].exists THEN Fails
          ELSE Executes([work EXCEPT ![table].cols = @ \cup {f}])
    BY <1>3 DEF add_field
  <2>2. table \in Tables /\ f \in Columns /\ UNCHANGED <<link, keep, unit, wanted>>
    BY <1>3, <2>1 DEF add_field, ListInv, TypeOK
  <2> DEFINE x == [work[table] EXCEPT !.cols = @ \cup {f}]
  <2>3. CASE Fails
    BY <2>2, <2>3, <1>a, <1>b, <1>c, <1>d, <1>e, SameHolds DEF Fails, FailsTo
  <2>4. CASE work[table].exists /\ Executes([work EXCEPT ![table].cols = @ \cup {f}])
    <3>1. work[table] \in TableState /\ Sound(work[table])
      BY <2>2 DEF ServerInv, AllSound, DbType
    <3>2. x \in TableState /\ Sound(x)
      BY <2>2, <2>4, <3>1, AddedSound
    <3>3. x.cells = work[table].cells
      BY <3>1 DEF TableState
    <3>4. Executes([work EXCEPT ![table] = x])
      BY <2>4
    <3> HIDE DEF x
    <3>5. [work EXCEPT ![table] = x] \in DbType
      BY <2>2, <3>2, ReplaceSound DEF ServerInv
    <3>6. Holds([work EXCEPT ![table] = x])
      BY <2>2, <3>2, <3>3, <1>b, ReplaceHolds DEF BothHold, ServerInv
    <3> QED BY <2>2, <3>4, <3>5, <3>6, <1>a, <1>b, <1>c, <1>d, <1>e, ExecutesHolds
  <2> QED BY <2>1, <2>3, <2>4
<1>4. CASE remove_field \/ begin_transaction
  <2>1. UNCHANGED <<db, work, link, keep, unit, wanted>>
    BY <1>4 DEF remove_field, begin_transaction, Begins, Fails, FailsTo
  <2> QED BY <2>1, <1>a, <1>b, <1>c, <1>d, <1>e, SameHolds
<1>5. CASE AlterTable
  <2>1. PICK s \in surplus :
          IF s[1] \in work[table].cols
          THEN Executes([work EXCEPT ![table] = DropsColumn(@, s[1])])
          ELSE Fails
    BY <1>5 DEF AlterTable
  <2>2. table \in Tables /\ UNCHANGED <<link, keep, unit, wanted>>
        /\ s[1] \notin wanted[table] /\ (s[1] = Pk => "key unread" \in trouble)
    BY <1>5, <2>1 DEF AlterTable, ListInv
  <2> DEFINE x == DropsColumn(work[table], s[1])
  <2>3. CASE Fails
    BY <2>2, <2>3, <1>a, <1>b, <1>c, <1>d, <1>e, SameHolds DEF Fails, FailsTo
  <2>4. CASE /\ s[1] \in work[table].cols
             /\ Executes([work EXCEPT ![table] = DropsColumn(@, s[1])])
    <3>1. work[table] \in TableState /\ Sound(work[table])
      BY <2>2 DEF ServerInv, AllSound, DbType
    <3>2. /\ x \in TableState /\ Sound(x)
          /\ x.cells = {c \in work[table].cells : c[2] # s[1]}
      BY <2>4, <3>1, DroppedSound
    <3>3. Executes([work EXCEPT ![table] = x])
      BY <2>4
    <3> HIDE DEF x
    <3>4. ASSUME NEW c \in keep[table], c \in work[table].cells
          PROVE  c \in x.cells \/ Excused(c)
      <4>1. c[2] \in wanted[table] \cup {Pk}
        BY <2>2 DEF KeepInv, OfModel
      <4>2. c[2] = s[1] => Excused(c)
        BY <2>2, <4>1 DEF Excused
      <4> QED BY <3>2, <3>4, <4>2
    <3>5. [work EXCEPT ![table] = x] \in DbType
      BY <2>2, <3>2, ReplaceSound DEF ServerInv
    <3>6. Holds([work EXCEPT ![table] = x])
      BY <2>2, <3>2, <3>4, <1>b, ReplaceHolds DEF BothHold, ServerInv
    <3> QED BY <2>2, <3>3, <3>5, <3>6, <1>a, <1>b, <1>c, <1>d, <1>e, ExecutesHolds
  <2> QED BY <2>1, <2>3, <2>4
<1>6. CASE CommitRemoval \/ commit
  <2>1. Commits /\ KeepsCommitted /\ UNCHANGED <<link, wanted>>
    BY <1>6 DEF CommitRemoval, commit
  <2>2. BothHold'
    BY <2>1, <1>a, <1>b, CommitsHolds DEF TypeOK
  <2>3. unit' = unit \/ unit' = [t \in Tables |-> {}]
    BY <1>6 DEF CommitRemoval, commit
  <2>4. \A t \in Tables : keep'[t] \subseteq keep[t] \cup unit[t] /\ unit'[t] \subseteq unit[t]
    BY <2>1, <2>3 DEF KeepsCommitted
  <2>5. OfModel'
    BY <2>1, <2>4 DEF KeepInv, OfModel
  <2>6. NoUnit'
    BY <2>1, <2>4 DEF KeepInv
  <2> QED BY <2>2, <2>5, <2>6, <1>c
<1>7. CASE disconnect \/ Restart
  <2>1. RollsBack /\ UNCHANGED <<keep, wanted>> /\ unit' = [t \in Tables |-> {}]
    BY <1>7 DEF disconnect, Restart
  <2>2. OfModel' /\ NoUnit'
    BY <2>1 DEF KeepInv, OfModel
  <2>3. BothHold'
    BY <2>1, <1>a, <1>b, RollsBackHolds
  <2> QED BY <2>2, <2>3, <1>c
<1>8. CASE Lose
  <2>1. RollsBack /\ UNCHANGED <<keep, unit, wanted>> /\ (link' = "null" => link = "null")
    BY <1>8 DEF Lose
  <2>2. BothHold'
    BY <2>1, <1>a, <1>b, RollsBackHolds
  <2> QED BY <2>1, <2>2, <1>c, <1>d, <1>e
<1>9. CASE insert
  <2>0. PICK t \in Tables, r \in Rows :
          \E fields \in SUBSET wanted[t] :
            StoreRow(t, r, fields \cup (work[t].cols \cap {Pk}), "$")
    BY <1>9 DEF insert
  <2>1. PICK fields \in SUBSET wanted[t] :
          StoreRow(t, r, fields \cup (work[t].cols \cap {Pk}), "$")
    BY <2>0
  <2> DEFINE new == {r} \X (fields \cup (work[t].cols \cap {Pk}))
  <2>2. UNCHANGED <<link, wanted>>
    BY <1>9 DEF insert
  <2>3. CASE Fails /\ UNCHANGED <<unit, keep>>
    BY <2>2, <2>3, <1>a, <1>b, <1>c, <1>d, <1>e, SameHolds DEF Fails, FailsTo
  <2>4. CASE /\ Runs /\ work[t].exists
             /\ Makes([work EXCEPT ![t].cells = @ \cup new])
             /\ unit' = IF inUnit THEN [unit EXCEPT ![t] = @ \cup new] ELSE unit
             /\ keep' = IF tx = "idle" THEN [keep EXCEPT ![t] = @ \cup new] ELSE keep
    <3>1. work[t] \in TableState /\ Sound(work[t]) /\ new \in SUBSET Cell
      BY <2>0, <2>1 DEF ServerInv, AllSound, DbType, TypeOK, Cell
    <3>2. \A c \in new : c[2] \in wanted[t] \cup {Pk}
      BY <2>1
    <3> DEFINE y == [work EXCEPT ![t].cells = @ \cup new]
    <3>3. /\ \A u \in Tables : work[u].cells \subseteq y[u].cells
          /\ new \subseteq y[t].cells
      BY <2>0, <3>1 DEF ServerInv, DbType, TableState
    <3>4. work' = y /\ db' = IF tx = "idle" THEN y ELSE db
      BY <2>4 DEF Makes
    <3> HIDE DEF y, new
    <3>5. ASSUME tx = "idle" PROVE BothHold'
      <4>1. keep' = [keep EXCEPT ![t] = @ \cup new]
        BY <2>4, <3>5
      <4>2. \A u \in Tables : \A c \in keep'[u] : c \in keep[u] \/ (u = t /\ c \in new)
        BY <2>0, <4>1 DEF TypeOK
      <4>3. db' = y /\ work' = y
        BY <3>4, <3>5
      <4> QED BY <4>2, <4>3, <3>3, <1>a, <1>b DEF BothHold, Holds, Excused, UnreadKept
    <3>6. ASSUME tx # "idle" PROVE BothHold'
      <4>1. keep' = keep /\ db' = db /\ work' = y
        BY <2>4, <3>4, <3>6
      <4> QED BY <4>1, <3>3, <1>a, <1>b DEF BothHold, Holds, Excused, UnreadKept
    <3>7. OfModel'
      <4>1. \A u \in Tables : \A c \in keep'[u] \cup unit'[u] :
              c \in keep[u] \cup unit[u] \/ (u = t /\ c \in new)
        BY <2>0, <2>4 DEF TypeOK
      <4> QED BY <2>2, <3>2, <4>1 DEF KeepInv, OfModel
    <3>8. NoUnit'
      BY <2>2, <2>4 DEF Runs
    <3>9. BothHold'
      BY <3>5, <3>6
    <3> QED BY <3>7, <3>8, <3>9, <1>c
  <2> QED BY <2>1, <2>3, <2>4 DEF StoreRow, Insertable, HasColumns
<1>10. CASE save \/ create_database \/ drop_database
  <2>1. UNCHANGED <<db, work, link, keep, unit, wanted>>
    BY <1>10, SaveFails
      DEF create_database, drop_database, MakesDatabase, Fails, FailsTo, Apart, around
  <2> QED BY <2>1, <1>a, <1>b, <1>c, <1>d, <1>e, SameHolds
<1>11. CASE Release
  <2>1. PICK t \in Tables, w \in SUBSET Columns :
          /\ wanted' = [wanted EXCEPT ![t] = w]
          /\ keep' = [keep EXCEPT ![t] = {c \in @ : c[2] \in w \cup {Pk}}]
    BY <1>11 DEF Release
  <2>2. UNCHANGED <<db, work, link, unit>> /\ link = "null"
    BY <1>11 DEF Release
  <2>3. \A u \in Tables :
          /\ unit'[u] = {}
          /\ keep'[u] \subseteq keep[u]
          /\ u # t => wanted'[u] = wanted[u]
    BY <2>1, <2>2 DEF KeepInv, TypeOK
  <2>4. wanted'[t] = w /\ \A c \in keep'[t] : c[2] \in w \cup {Pk}
    BY <2>1 DEF TypeOK
  <2>5. \A u \in Tables : \A c \in keep'[u] : c \in keep[u]
    BY <2>3
  <2>6. OfModel'
    <3> SUFFICES ASSUME NEW u \in Tables, NEW c \in keep'[u] \cup unit'[u]
                 PROVE  c[2] \in wanted'[u] \cup {Pk}
      BY DEF OfModel
    <3>1. c \in keep'[u] /\ c \in keep[u]
      <4>1. unit'[u] = {}
        BY <2>3
      <4>2. c \in keep'[u]
        BY <4>1
      <4> QED BY <4>2, <2>5
    <3>2. CASE u = t
      BY <3>1, <3>2, <2>4
    <3>3. CASE u # t
      BY <3>1, <3>3, <2>3 DEF KeepInv, OfModel
    <3> QED BY <3>2, <3>3
  <2>7. BothHold'
    BY <2>2, <2>5, <1>a, <1>b DEF BothHold, Holds, Excused, UnreadKept
  <2> QED BY <2>2, <2>6, <2>7, <1>c, <1>e
<1>12. CASE CreateIndex
  <2>1. PICK t \in Tables : Makes([db EXCEPT ![t].indexes = @ + 1])
    BY <1>12 DEF CreateIndex
  <2> DEFINE y == [db EXCEPT ![t].indexes = @ + 1]
  <2>2. db' = y /\ work' = y /\ UNCHANGED <<link, keep, unit, wanted>>
    BY <1>12, <2>1 DEF CreateIndex, Makes
  <2>3. \A u \in Tables : y[u].cells = db[u].cells
    BY DEF ServerInv, DbType, TableState
  <2> HIDE DEF y
  <2>4. BothHold'
    BY <2>2, <2>3, <1>a, <1>b DEF BothHold, Holds, Excused, UnreadKept
  <2> QED BY <2>2, <2>4, <1>c, <1>d, <1>e
<1> QED
  BY <1>1, <1>2, <1>3, <1>4, <1>5, <1>6, <1>7, <1>8, <1>9, <1>10, <1>11, <1>12
     DEF Next

-----------------------------------------------------------------------------
(* The program's transaction.                                              *)

\* As long as nothing went wrong, what the unit stored is where the session
\* sees it, and, until remove_field's own COMMIT, only there.
UnitInv ==
  /\ ~inUnit => \A t \in Tables : unit[t] = {}
  /\ tx = "failed" => trouble # {}
  /\ trouble = {} => \A t \in Tables : unit[t] \subseteq work[t].cells
  /\ trouble = {} /\ inUnit /\ ~cut =>
       /\ tx = "inTx"
       /\ \A t \in Tables : unit[t] \cap db[t].cells = {}

LEMMA FailedUnit ==
  ASSUME UnitInv, NEW more, FailsTo(more), UNCHANGED <<inUnit, unit>>
  PROVE  UnitInv'
<1>1. trouble' # {}
  BY DEF FailsTo
<1> QED BY <1>1 DEF UnitInv

LEMMA SameUnit ==
  ASSUME UnitInv, UNCHANGED <<db, work, tx, trouble, inUnit, cut, unit>>
  PROVE  UnitInv'
BY DEF UnitInv

\* A statement that takes no cell of the unit's.
LEMMA ExecutesUnit ==
  ASSUME UnitInv, NEW tables \in DbType, Executes(tables),
         UNCHANGED <<inUnit, cut, unit>>,
         trouble = {} =>
           \A t \in Tables : unit[t] \subseteq work[t].cells => unit[t] \subseteq tables[t].cells
  PROVE  UnitInv'
<1>1. CASE Makes(tables) /\ UNCHANGED trouble
  <2>1. work' = tables /\ (tx = "inTx" => db' = db) /\ tx' = tx
    BY <1>1 DEF Makes
  <2> QED BY <1>1, <2>1 DEF UnitInv
<1>2. CASE Fails
  BY <1>2, FailedUnit DEF Fails
<1> QED BY <1>1, <1>2 DEF Executes

LEMMA UnitStep ==
  TypeOK /\ ServerInv /\ ListInv /\ KeepInv /\ UnitInv /\ [Next]_vars => UnitInv'
<1> SUFFICES ASSUME TypeOK, ServerInv, ListInv, KeepInv, UnitInv, [Next]_vars
             PROVE  UnitInv'
  OBVIOUS
<1>1. CASE \/ Start \/ TableDone \/ Return \/ connect \/ Release \/ UNCHANGED vars
  BY <1>1, SameUnit DEF Start, TableDone, Return, connect, Release, vars
<1>2. CASE table_exists \/ table_data
  <2>1. UNCHANGED <<inUnit, cut, unit>> /\ (Answers \/ Fails)
    BY <1>2 DEF table_exists, table_data
  <2> QED BY <2>1, SameUnit, FailedUnit DEF Answers, Fails
<1>3. CASE primary_key
  <2>1. UNCHANGED <<inUnit, cut, unit>> /\ (Answers \/ \E more : FailsTo(more))
    BY <1>3 DEF primary_key, select_value
  <2> QED BY <2>1, SameUnit, FailedUnit DEF Answers
<1>4. CASE create_table
  <2> DEFINE k == IF table \in keyless THEN {} ELSE {Pk}
             x == [exists |-> TRUE, cols |-> wanted[table] \cup k \cup Stamped(table),
                   indexes |-> Cardinality(k), cells |-> {}]
  <2>1. table \in Tables /\ wanted[table] \in SUBSET Columns /\ k \in {{}, {Pk}}
        /\ UNCHANGED <<inUnit, cut, unit>>
    BY <1>4 DEF create_table, ListInv, TypeOK
  <2>2. CASE Fails
    BY <2>1, <2>2, FailedUnit DEF Fails
  <2>3. CASE ~work[table].exists /\ Executes([work EXCEPT ![table] = x])
    <3>1. x \in TableState /\ Sound(x)
      BY <2>1, CreatedSound
    <3>2. work[table].cells = {}
      BY <2>1, <2>3 DEF ServerInv, AllSound, Sound
    <3>3. x.cells = {}
      OBVIOUS
    <3> HIDE DEF x
    <3> DEFINE y == [work EXCEPT ![table] = x]
    <3>4. y \in DbType
      BY <2>1, <3>1, ReplaceSound DEF ServerInv
    <3>5. \A t \in Tables : y[t].cells = work[t].cells
      BY <2>1, <3>2, <3>3 DEF ServerInv, DbType
    <3> QED BY <2>1, <2>3, <3>4, <3>5, ExecutesUnit
  <2> QED BY <1>4, <2>2, <2>3 DEF create_table
<1>5. CASE add_field
  <2>1. PICK f \in missing :
          IF f \in work[table].cols \/ ~work[table].exists THEN Fails
          ELSE Executes([work EXCEPT ![table].cols = @ \cup {f}])
    BY <1>5 DEF add_field
  <2>2. table \in Tables /\ f \in Columns /\ UNCHANGED <<inUnit, cut, unit>>
    BY <1>5, <2>1 DEF add_field, ListInv, TypeOK
  <2> DEFINE x == [work[table] EXCEPT !.cols = @ \cup {f}]
  <2>3. CASE Fails
    BY <2>2, <2>3, FailedUnit DEF Fails
  <2>4. CASE work[table].exists /\ Executes([work EXCEPT ![table].cols = @ \cup {f}])
    <3>1. work[table] \in TableState /\ Sound(work[table])
      BY <2>2 DEF ServerInv, AllSound, DbType
    <3>2. x \in TableState /\ Sound(x)
      BY <2>2, <2>4, <3>1, AddedSound
    <3>3. x.cells = work[table].cells
      BY <3>1 DEF TableState
    <3>4. Executes([work EXCEPT ![table] = x])
      BY <2>4
    <3> HIDE DEF x
    <3> DEFINE y == [work EXCEPT ![table] = x]
    <3>5. y \in DbType
      BY <2>2, <3>2, ReplaceSound DEF ServerInv
    <3>6. \A t \in Tables : y[t].cells = work[t].cells
      BY <2>2, <3>3 DEF ServerInv, DbType
    <3> QED BY <2>2, <3>4, <3>5, <3>6, ExecutesUnit
  <2> QED BY <2>1, <2>3, <2>4
<1>6. CASE remove_field
  <2>1. UNCHANGED <<inUnit, cut, unit>> /\ Begins
    BY <1>6 DEF remove_field
  <2>2. CASE Fails
    BY <2>1, <2>2, FailedUnit DEF Fails
  <2>3. CASE /\ UNCHANGED <<db, work, trouble>>
             /\ tx # "failed" /\ tx' = "inTx"
    BY <2>1, <2>3 DEF UnitInv
  <2> QED BY <2>1, <2>2, <2>3 DEF Begins
<1>7. CASE AlterTable
  <2>1. PICK s \in surplus :
          IF s[1] \in work[table].cols
          THEN Executes([work EXCEPT ![table] = DropsColumn(@, s[1])])
          ELSE Fails
    BY <1>7 DEF AlterTable
  <2>2. table \in Tables /\ UNCHANGED <<inUnit, cut, unit>>
        /\ s[1] \notin wanted[table] /\ (s[1] = Pk => trouble # {})
    BY <1>7, <2>1 DEF AlterTable, ListInv
  <2> DEFINE x == DropsColumn(work[table], s[1])
  <2>3. CASE Fails
    BY <2>2, <2>3, FailedUnit DEF Fails
  <2>4. CASE /\ s[1] \in work[table].cols
             /\ Executes([work EXCEPT ![table] = DropsColumn(@, s[1])])
    <3>1. work[table] \in TableState /\ Sound(work[table])
      BY <2>2 DEF ServerInv, AllSound, DbType
    <3>2. /\ x \in TableState /\ Sound(x)
          /\ x.cells = {c \in work[table].cells : c[2] # s[1]}
      BY <2>4, <3>1, DroppedSound
    <3>3. Executes([work EXCEPT ![table] = x])
      BY <2>4
    <3> HIDE DEF x
    <3> DEFINE y == [work EXCEPT ![table] = x]
    <3>4. y \in DbType
      BY <2>2, <3>2, ReplaceSound DEF ServerInv
    <3>5. ASSUME trouble = {}, NEW c \in unit[table] PROVE c[2] # s[1]
      BY <2>2, <3>5 DEF KeepInv, OfModel
    <3>6. ASSUME trouble = {}, NEW t \in Tables, unit[t] \subseteq work[t].cells
          PROVE  unit[t] \subseteq y[t].cells
      BY <2>2, <3>2, <3>5, <3>6 DEF ServerInv, DbType
    <3> HIDE DEF y
    <3> QED BY <2>2, <3>3, <3>4, <3>6, ExecutesUnit DEF y
  <2> QED BY <2>1, <2>3, <2>4
<1>8. CASE CommitRemoval
  <2>1. Commits /\ UNCHANGED <<inUnit, unit>> /\ cut' = inUnit
    BY <1>8 DEF CommitRemoval
  <2>2. CASE Fails
    BY <2>1, <2>2, FailedUnit DEF Fails
  <2>3. CASE UNCHANGED trouble /\ tx' = "idle" /\ (tx # "failed" => work' = work)
    BY <2>1, <2>3 DEF UnitInv
  <2> QED BY <2>1, <2>2, <2>3 DEF Commits, RollsBack
<1>9. CASE disconnect \/ commit \/ Restart
  <2>1. ~inUnit' /\ unit' = [t \in Tables |-> {}]
    BY <1>9 DEF disconnect, commit, Restart
  <2>2. tx' = "failed" => trouble' # {}
    BY <1>9 DEF disconnect, commit, Restart, Commits, RollsBack, Fails, FailsTo, UnitInv
  <2> QED BY <2>1, <2>2 DEF UnitInv
<1>10. CASE Lose
  <2>1. trouble' # {} /\ UNCHANGED <<inUnit, unit>>
    BY <1>10 DEF Lose
  <2> QED BY <2>1 DEF UnitInv
<1>11. CASE begin_transaction
  <2>1. UNCHANGED <<cut, unit>> /\ ~inUnit /\ Begins
    BY <1>11 DEF begin_transaction
  <2>2. \A t \in Tables : unit'[t] = {}
    BY <2>1 DEF UnitInv
  <2>3. inUnit' /\ (trouble' # {} \/ tx' = "inTx") /\ (tx' = "failed" => trouble' # {})
    BY <1>11, <2>1 DEF begin_transaction, Begins, Fails, FailsTo, UnitInv
  <2> QED BY <2>2, <2>3 DEF UnitInv
<1>12. CASE insert
  <2>0. PICK t \in Tables, r \in Rows :
          /\ NewRow(r)
          /\ \E fields \in SUBSET wanted[t] :
               StoreRow(t, r, fields \cup (work[t].cols \cap {Pk}), "$")
    BY <1>12 DEF insert
  <2>1. PICK fields \in SUBSET wanted[t] :
          StoreRow(t, r, fields \cup (work[t].cols \cap {Pk}), "$")
    BY <2>0
  <2> DEFINE new == {r} \X (fields \cup (work[t].cols \cap {Pk}))
  <2>2. UNCHANGED <<inUnit, cut>>
    BY <1>12 DEF insert
  <2>3. CASE Fails /\ UNCHANGED <<unit, keep>>
    BY <2>2, <2>3, FailedUnit DEF Fails
  <2>4. CASE /\ Runs /\ UNCHANGED trouble
             /\ Makes([work EXCEPT ![t].cells = @ \cup new])
             /\ unit' = IF inUnit THEN [unit EXCEPT ![t] = @ \cup new] ELSE unit
    <3> DEFINE y == [work EXCEPT ![t].cells = @ \cup new]
    <3>1. /\ \A u \in Tables : work[u].cells \subseteq y[u].cells
          /\ new \subseteq y[t].cells
      BY <2>0 DEF ServerInv, DbType, TableState
    <3>2. \A u \in Tables : new \cap db[u].cells = {}
      BY <2>0 DEF NewRow
    <3>3. work' = y /\ (tx = "inTx" => db' = db) /\ tx' = tx
      BY <2>4 DEF Makes
    <3> HIDE DEF y, new
    <3>4. \A u \in Tables : unit'[u] = unit[u] \/ (inUnit /\ u = t /\ unit'[u] = unit[u] \cup new)
      BY <2>0, <2>4 DEF TypeOK
    <3>5. trouble = {} => \A u \in Tables : unit'[u] \subseteq work'[u].cells
      BY <3>1, <3>3, <3>4 DEF UnitInv
    <3>6. trouble = {} /\ inUnit /\ ~cut =>
            tx' = "inTx" /\ \A u \in Tables : unit'[u] \cap db'[u].cells = {}
      BY <3>2, <3>3, <3>4 DEF UnitInv
    <3>7. ~inUnit => \A u \in Tables : unit'[u] = {}
      BY <3>4 DEF UnitInv
    <3>8. tx' = "failed" => trouble # {}
      BY <3>3 DEF UnitInv
    <3> QED BY <2>2, <2>4, <3>5, <3>6, <3>7, <3>8 DEF UnitInv
  <2> QED BY <2>1, <2>3, <2>4 DEF StoreRow, Insertable, HasColumns
<1>13. CASE save
  BY <1>13, SaveFails, FailedUnit DEF Fails
<1>14. CASE create_database \/ drop_database
  <2>1. UNCHANGED <<inUnit, cut, unit>> /\ (UNCHANGED <<server, trouble>> \/ Fails)
    BY <1>14 DEF create_database, drop_database, MakesDatabase
  <2> QED BY <2>1, SameUnit, FailedUnit DEF Fails
<1>15. CASE CreateIndex
  <2>1. PICK t \in Tables : Makes([db EXCEPT ![t].indexes = @ + 1])
    BY <1>15 DEF CreateIndex
  <2> DEFINE y == [db EXCEPT ![t].indexes = @ + 1]
  <2>2. work' = y /\ work = db /\ tx = "idle" /\ UNCHANGED <<tx, trouble, inUnit, cut, unit>>
    BY <1>15, <2>1 DEF CreateIndex, Makes, ServerInv
  <2>3. \A u \in Tables : y[u].cells = db[u].cells
    BY DEF ServerInv, DbType, TableState
  <2> HIDE DEF y
  <2> QED BY <2>2, <2>3 DEF UnitInv
<1> QED
  BY <1>1, <1>2, <1>3, <1>4, <1>5, <1>6, <1>7, <1>8, <1>9, <1>10, <1>11, <1>12,
     <1>13, <1>14, <1>15 DEF Next

\* Only commit ends a unit while the session is there.
LEMMA CommitStep ==
  TypeOK /\ UnitInv /\ [Next]_vars =>
    (inUnit /\ ~inUnit' /\ link' = "up" /\ trouble' = {} =>
       \A t \in Tables : unit[t] \subseteq db'[t].cells)
<1> SUFFICES ASSUME UnitInv, [Next]_vars, inUnit, ~inUnit', link' = "up", trouble' = {}
             PROVE  \A t \in Tables : unit[t] \subseteq db'[t].cells
  OBVIOUS
<1>1. commit
  BY DEF Next, Start, table_exists, create_table, primary_key, table_data, add_field,
         remove_field, AlterTable, CommitRemoval, TableDone, Return, connect, disconnect,
         Lose, begin_transaction, insert, save, create_database, drop_database,
         MakesDatabase, Restart, Release, CreateIndex, vars
<1>2. Commits /\ link = "up"
  BY <1>1 DEF commit
<1>3. trouble = {} /\ tx # "failed"
  BY <1>2 DEF Commits, UnitInv
<1>4. db' = work
  BY <1>2, <1>3 DEF Commits
<1> QED BY <1>3, <1>4 DEF UnitInv

-----------------------------------------------------------------------------
(* What a step makes of the tables.                                        *)

\* Only the end of the process takes troubles away.
LEMMA TroubleGrows ==
  ASSUME Next, ~Restart
  PROVE  trouble \subseteq trouble'
<1>1. \A more : FailsTo(more) => trouble \subseteq trouble'
  BY DEF FailsTo
<1>2. Begins \/ Commits => trouble \subseteq trouble'
  BY <1>1 DEF Begins, Commits, Fails
<1>3. \A tables : Executes(tables) => trouble \subseteq trouble'
  BY <1>1 DEF Executes, Fails
<1>4. CASE \/ Start \/ table_exists \/ table_data \/ TableDone \/ Return \/ Release
           \/ connect \/ disconnect \/ Lose \/ save \/ CreateIndex
  BY <1>4, <1>1, SaveFails
    DEF Start, table_exists, table_data, TableDone, Return, Release, connect,
        disconnect, Lose, CreateIndex, Answers, Fails
<1>5. CASE create_table
  BY <1>5, <1>1, <1>3 DEF create_table, Fails
<1>6. CASE add_field
  BY <1>6, <1>1, <1>3 DEF add_field, Fails
<1>7. CASE AlterTable
  BY <1>7, <1>1, <1>3 DEF AlterTable, Fails
<1>8. CASE primary_key
  BY <1>8, <1>1 DEF primary_key, select_value, Answers
<1>9. CASE remove_field \/ CommitRemoval \/ begin_transaction \/ commit
  BY <1>9, <1>2 DEF remove_field, CommitRemoval, begin_transaction, commit
<1>10. CASE insert
  BY <1>10, <1>1 DEF insert, StoreRow, Fails
<1>11. CASE create_database \/ drop_database
  BY <1>11, <1>1 DEF create_database, drop_database, MakesDatabase, Fails
<1> QED BY <1>4, <1>5, <1>6, <1>7, <1>8, <1>9, <1>10, <1>11 DEF Next

\* update_table adds nothing but fields of the model.
MissingWanted ==
  pc \in {"fields", "alter", "commit"} => missing \subseteq wanted[table]

LEMMA MissingStep ==
  ASSUME TypeOK, MissingWanted, [Next]_vars
  PROVE  MissingWanted'
<1>1. CASE \/ Start \/ table_exists \/ create_table \/ primary_key \/ TableDone
           \/ Return \/ Restart
  BY <1>1 DEF Start, table_exists, create_table, primary_key, TableDone, Return, Restart,
              MissingWanted
<1>2. CASE table_data
  <2>1. missing' \subseteq wanted[table] /\ UNCHANGED <<table, wanted>>
    BY <1>2 DEF table_data
  <2> QED BY <2>1 DEF MissingWanted
<1>3. CASE add_field
  <2>1. pc = "fields" /\ missing' \subseteq missing /\ UNCHANGED <<table, wanted>>
    BY <1>3 DEF add_field
  <2> QED BY <2>1 DEF MissingWanted
<1>4. CASE remove_field \/ AlterTable \/ CommitRemoval
  BY <1>4 DEF remove_field, AlterTable, CommitRemoval, MissingWanted
<1>5. CASE Lose \/ CreateIndex \/ UNCHANGED vars
  BY <1>5 DEF Lose, CreateIndex, vars, MissingWanted
<1>6. CASE \/ connect \/ disconnect \/ begin_transaction \/ commit \/ insert \/ save
           \/ create_database \/ drop_database \/ Release
  BY <1>6 DEF connect, disconnect, begin_transaction, commit, insert, save,
              create_database, drop_database, MakesDatabase, Release, MissingWanted
<1> QED BY <1>1, <1>2, <1>3, <1>4, <1>5, <1>6 DEF Next

\* What a statement that runs may make of a table.
Reshapes(t, x) ==
  \/ /\ ~work[t].exists /\ x.exists /\ x.cells = {}
     /\ x.cols = wanted[t] \cup (IF t \in keyless THEN {} ELSE {Pk}) \cup Stamped(t)
  \/ /\ x.exists = work[t].exists
     /\ \/ /\ \E f \in wanted[t] : x.cols = work[t].cols \cup {f}
           /\ x.cells = work[t].cells
        \/ \E f \in work[t].cols \ wanted[t] :
             /\ f = Pk => "key unread" \in trouble
             /\ x.cols = work[t].cols \ {f}
             /\ x.cells = {c \in work[t].cells : c[2] # f}
        \/ /\ x.cols = work[t].cols
           /\ work[t].cells \subseteq x.cells
           /\ \A c \in x.cells \ work[t].cells : \A d \in db[t].cells : d[1] # c[1]

\* A step leaves the tables alone, ends a transaction one way or the other, or
\* makes something of one table.
Moves ==
  \/ UNCHANGED <<db, work>>
  \/ db' = db /\ work' = db
  \/ db' = work /\ work' = work
  \/ \E t \in Tables, x \in TableState :
       Makes([work EXCEPT ![t] = x]) /\ Reshapes(t, x)

LEMMA ExecutesMoves ==
  ASSUME NEW t \in Tables, NEW x \in TableState, Reshapes(t, x),
         Executes([work EXCEPT ![t] = x])
  PROVE  Moves
BY DEF Executes, Fails, FailsTo, Moves

LEMMA CreateMoves ==
  ASSUME TypeOK, ServerInv, ListInv, create_table
  PROVE  Moves
<1> DEFINE k == IF table \in keyless THEN {} ELSE {Pk}
           x == [exists |-> TRUE, cols |-> wanted[table] \cup k \cup Stamped(table),
                 indexes |-> Cardinality(k), cells |-> {}]
<1>1. table \in Tables /\ wanted[table] \in SUBSET Columns
  BY DEF create_table, ListInv, TypeOK
<1>2. CASE Fails
  BY <1>2 DEF Fails, FailsTo, Moves
<1>3. CASE ~work[table].exists /\ Executes([work EXCEPT ![table] = x])
  <2>1. k \in {{}, {Pk}}
    OBVIOUS
  <2>2. x \in TableState
    <3> HIDE DEF k
    <3> QED BY <1>1, <2>1, CreatedSound
  <2>3. Reshapes(table, x)
    BY <1>3 DEF Reshapes
  <2> HIDE DEF x
  <2> QED BY <1>1, <1>3, <2>2, <2>3, ExecutesMoves
<1> QED BY <1>2, <1>3 DEF create_table

LEMMA AddMoves ==
  ASSUME TypeOK, ServerInv, ListInv, MissingWanted, add_field
  PROVE  Moves
<1>1. PICK f \in missing :
        IF f \in work[table].cols \/ ~work[table].exists THEN Fails
        ELSE Executes([work EXCEPT ![table].cols = @ \cup {f}])
  BY DEF add_field
<1>2. table \in Tables /\ f \in Columns /\ f \in wanted[table]
  BY DEF add_field, ListInv, TypeOK, MissingWanted
<1>3. CASE Fails
  BY <1>3 DEF Fails, FailsTo, Moves
<1>4. CASE work[table].exists /\ Executes([work EXCEPT ![table].cols = @ \cup {f}])
  <2> DEFINE x == [work[table] EXCEPT !.cols = @ \cup {f}]
  <2>1. work[table] \in TableState /\ Sound(work[table])
    BY <1>2 DEF ServerInv, DbType, AllSound
  <2>2. x \in TableState
    BY <1>2, <1>4, <2>1, AddedSound
  <2>3. /\ x.exists = work[table].exists /\ x.cols = work[table].cols \cup {f}
        /\ x.cells = work[table].cells
    BY <2>1 DEF TableState
  <2>4. [work EXCEPT ![table].cols = @ \cup {f}] = [work EXCEPT ![table] = x]
    OBVIOUS
  <2> HIDE DEF x
  <2>5. Reshapes(table, x)
    BY <1>2, <2>3 DEF Reshapes
  <2> QED BY <1>2, <1>4, <2>2, <2>4, <2>5, ExecutesMoves
<1> QED BY <1>1, <1>3, <1>4

LEMMA AlterMoves ==
  ASSUME TypeOK, ServerInv, ListInv, AlterTable
  PROVE  Moves
<1>1. PICK y \in surplus :
        IF y[1] \in work[table].cols
        THEN Executes([work EXCEPT ![table] = DropsColumn(@, y[1])])
        ELSE Fails
  BY DEF AlterTable
<1>2. /\ table \in Tables
      /\ y[1] \notin wanted[table] /\ (y[1] = Pk => "key unread" \in trouble)
  BY DEF AlterTable, ListInv
<1>3. CASE Fails
  BY <1>3 DEF Fails, FailsTo, Moves
<1>4. CASE /\ y[1] \in work[table].cols
           /\ Executes([work EXCEPT ![table] = DropsColumn(@, y[1])])
  <2> DEFINE x == DropsColumn(work[table], y[1])
  <2>1. work[table] \in TableState /\ Sound(work[table])
    BY <1>2 DEF ServerInv, DbType, AllSound
  <2>2. x \in TableState /\ x.cells = {c \in work[table].cells : c[2] # y[1]}
    BY <1>4, <2>1, DroppedSound
  <2>3. x.exists = work[table].exists /\ x.cols = work[table].cols \ {y[1]}
    BY <2>1 DEF DropsColumn, TableState
  <2>4. Executes([work EXCEPT ![table] = x])
    BY <1>4
  <2> HIDE DEF x
  <2>5. Reshapes(table, x)
    BY <1>2, <1>4, <2>2, <2>3 DEF Reshapes
  <2> QED BY <1>2, <2>2, <2>4, <2>5, ExecutesMoves
<1> QED BY <1>1, <1>3, <1>4

LEMMA InsertMoves ==
  ASSUME TypeOK, ServerInv, insert
  PROVE  Moves
<1>1. PICK t \in Tables, r \in Rows :
        /\ NewRow(r)
        /\ \E fs \in SUBSET wanted[t] :
             StoreRow(t, r, fs \cup (work[t].cols \cap {Pk}), "$")
  BY DEF insert
<1>2. PICK fs \in SUBSET wanted[t] :
        StoreRow(t, r, fs \cup (work[t].cols \cap {Pk}), "$")
  BY <1>1
<1> DEFINE new == {r} \X (fs \cup (work[t].cols \cap {Pk}))
           x == [work[t] EXCEPT !.cells = @ \cup new]
<1>3. CASE Fails
  BY <1>3 DEF Fails, FailsTo, Moves
<1>4. CASE work[t].exists /\ Makes([work EXCEPT ![t].cells = @ \cup new])
  <2>1. work[t] \in TableState /\ Sound(work[t])
    BY DEF ServerInv, DbType, AllSound
  <2>2. new \in SUBSET Cell
    BY DEF Cell, TypeOK
  <2>3. \A c \in new : c[1] = r
    OBVIOUS
  <2>4. [work EXCEPT ![t].cells = @ \cup new] = [work EXCEPT ![t] = x]
    OBVIOUS
  <2> HIDE DEF new
  <2>5. x \in TableState
    BY <1>4, <2>1, <2>2, StoredSound
  <2>6. /\ x.exists = work[t].exists /\ x.cols = work[t].cols
        /\ x.cells = work[t].cells \cup new
    BY <2>1 DEF TableState
  <2> HIDE DEF x
  <2>7. \A d \in db[t].cells : d[1] # r
    BY <1>1 DEF NewRow
  <2>8. Reshapes(t, x)
    BY <2>3, <2>6, <2>7 DEF Reshapes
  <2> QED BY <1>4, <2>4, <2>5, <2>8 DEF Moves
<1> QED BY <1>2, <1>3, <1>4 DEF StoreRow, Insertable, HasColumns

LEMMA IndexMoves ==
  ASSUME TypeOK, ServerInv, CreateIndex
  PROVE  Moves
<1>1. PICK t \in Tables :
        /\ db[t].exists /\ db[t].indexes < MaxIndexes
        /\ Makes([db EXCEPT ![t].indexes = @ + 1])
  BY DEF CreateIndex
<1> DEFINE x == [work[t] EXCEPT !.indexes = @ + 1]
<1>2. work = db /\ work[t] \in TableState /\ Sound(work[t])
  BY DEF CreateIndex, ServerInv, DbType, AllSound
<1>3. x \in TableState
  BY <1>1, <1>2, IndexedSound
<1>4. x.exists = work[t].exists /\ x.cols = work[t].cols /\ x.cells = work[t].cells
  BY <1>2 DEF TableState
<1>5. [db EXCEPT ![t].indexes = @ + 1] = [work EXCEPT ![t] = x]
  BY <1>2
<1> HIDE DEF x
<1>6. Reshapes(t, x)
  BY <1>4 DEF Reshapes
<1> QED BY <1>1, <1>3, <1>5, <1>6 DEF Moves

LEMMA StepMoves ==
  ASSUME TypeOK, ServerInv, ListInv, MissingWanted, Next
  PROVE  Moves
<1>1. CASE \/ Start \/ table_exists \/ primary_key \/ table_data \/ TableDone \/ Return
           \/ connect \/ save \/ create_database \/ drop_database \/ Release
  BY <1>1, SaveFails
    DEF Start, table_exists, primary_key, select_value, table_data, TableDone,
        Return, connect, create_database, drop_database, MakesDatabase,
        Release, Answers, Fails, FailsTo, Moves
<1>2. CASE disconnect \/ Lose \/ Restart
  BY <1>2 DEF disconnect, Lose, Restart, RollsBack, Moves
<1>3. CASE remove_field \/ begin_transaction
  BY <1>3 DEF remove_field, begin_transaction, Begins, Fails, FailsTo, Moves
<1>4. CASE CommitRemoval \/ commit
  BY <1>4 DEF CommitRemoval, commit, Commits, RollsBack, Fails, FailsTo, Moves
<1> QED
  BY <1>1, <1>2, <1>3, <1>4, CreateMoves, AddMoves, AlterMoves, InsertMoves, IndexMoves
  DEF Next

-----------------------------------------------------------------------------
(* The table at hand is brought to its model.                              *)

Keyed(tables) == \A t \in Tables \ keyless : tables[t].exists => Pk \in tables[t].cols

\* A table of a model with a key has it until the query for the key fails.
KeyInv == "key unread" \notin trouble => Keyed(db) /\ Keyed(work)

LEMMA KeyStep ==
  ASSUME TypeOK, ServerInv, ListInv, MissingWanted, KeyInv, [Next]_vars
  PROVE  KeyInv'
<1>1. UnreadKept
  BY StepKeepsUnread
<1>2. UNCHANGED keyless
  BY DEF Next, Start, table_exists, create_table, primary_key, table_data, add_field,
         remove_field, AlterTable, CommitRemoval, TableDone, Return, connect, disconnect,
         Lose, begin_transaction, commit, insert, save, create_database, drop_database,
         MakesDatabase, Restart, Release, CreateIndex, vars
<1> SUFFICES ASSUME "key unread" \notin trouble PROVE Keyed(db)' /\ Keyed(work)'
  BY <1>1 DEF KeyInv, UnreadKept
<1>3. Keyed(db) /\ Keyed(work)
  BY DEF KeyInv
<1>4. CASE \E t \in Tables, x \in TableState :
             Makes([work EXCEPT ![t] = x]) /\ Reshapes(t, x)
  <2>1. PICK t \in Tables, x \in TableState :
          Makes([work EXCEPT ![t] = x]) /\ Reshapes(t, x)
    BY <1>4
  <2>2. work' = [work EXCEPT ![t] = x] /\ (db' = work' \/ db' = db)
    BY <2>1 DEF Makes
  <2>3. t \notin keyless /\ x.exists => Pk \in x.cols
    BY <1>3, <2>1 DEF Reshapes, Keyed
  <2>4. \A u \in Tables : work'[u] = IF u = t THEN x ELSE work[u]
    BY <2>2 DEF ServerInv, DbType
  <2>5. Keyed(work)'
    BY <1>2, <1>3, <2>3, <2>4 DEF Keyed
  <2> QED BY <1>2, <1>3, <2>2, <2>5 DEF Keyed
<1>5. CASE UNCHANGED vars
  BY <1>3, <1>5 DEF Keyed, vars
<1> QED BY <1>2, <1>3, <1>4, <1>5, StepMoves DEF Moves, Keyed

\* A transaction that has failed has been noticed.
Noticed == tx = "failed" => trouble # {}

LEMMA NoticedStep ==
  ASSUME Noticed, [Next]_vars
  PROVE  Noticed'
<1>1. CASE Restart
  BY <1>1 DEF Restart, RollsBack, Noticed
<1>2. CASE UNCHANGED vars
  BY <1>2 DEF vars, Noticed
<1>3. CASE Next /\ ~Restart
  <2>1. trouble \subseteq trouble'
    BY <1>3, TroubleGrows
  <2>2. \A more : FailsTo(more) => trouble' # {}
    BY DEF FailsTo
  <2>3. \A tables : Makes(tables) => UNCHANGED tx
    BY DEF Makes
  <2>4. tx' # "failed" \/ tx' = tx \/ \E more : FailsTo(more)
    <3>1. CASE \/ Start \/ table_exists \/ table_data \/ TableDone \/ Return \/ Release
               \/ connect \/ disconnect \/ Lose \/ save
      BY <1>3, <3>1, SaveFails
        DEF Start, table_exists, table_data, TableDone, Return, Release, connect,
            disconnect, Lose, Answers, Fails, RollsBack
    <3>2. \A tables : Executes(tables) => tx' = tx \/ \E more : FailsTo(more)
      BY <2>3 DEF Executes, Fails
    <3>3. CASE create_table
      BY <3>2, <3>3 DEF create_table, Fails
    <3>4. CASE add_field
      BY <3>2, <3>4 DEF add_field, Fails
    <3>5. CASE AlterTable
      BY <3>2, <3>5 DEF AlterTable, Fails
    <3>6. CASE primary_key
      BY <3>6 DEF primary_key, select_value, Answers
    <3>7. CASE remove_field \/ begin_transaction
      BY <3>7 DEF remove_field, begin_transaction, Begins, Fails
    <3>8. CASE CommitRemoval \/ commit
      BY <3>8 DEF CommitRemoval, commit, Commits, RollsBack, Fails
    <3>9. CASE insert
      BY <2>3, <3>9 DEF insert, StoreRow, Fails
    <3>10. CASE create_database \/ drop_database
      BY <3>10 DEF create_database, drop_database, MakesDatabase, Fails
    <3>11. CASE CreateIndex
      BY <2>3, <3>11 DEF CreateIndex
    <3> QED
      BY <1>3, <3>1, <3>3, <3>4, <3>5, <3>6, <3>7, <3>8, <3>9, <3>10, <3>11 DEF Next
  <2> QED BY <2>1, <2>2, <2>4 DEF Noticed
<1> QED BY <1>1, <1>2, <1>3

Done(t) ==
  work[t].exists /\ (t \notin keyless =>
    /\ wanted[t] \cup {Pk} \subseteq work[t].cols
    /\ work[t].cols \subseteq wanted[t] \cup {Pk} \cup Stamped(t))

\* What the model wants is there or is going to be added, what it does not
\* want is going to be removed.
OnTheWay ==
  /\ wanted[table] \cup {Pk} \subseteq work[table].cols \cup missing
  /\ work[table].cols \subseteq wanted[table] \cup {Pk} \cup {x[1] : x \in surplus}

AtTable == {"create", "key", "columns", "fields", "alter", "commit"}

\* The tables update_database has been through have the fields of their
\* models, and the one at hand is on its way there.
Turned ==
  /\ pc = "next" => \A t \in Tables \ todo : Done(t)
  /\ pc \in AtTable => \A t \in Tables \ (todo \cup {table}) : Done(t)
  /\ pc \in AtTable \ {"create"} => work[table].exists
  /\ pc = "columns" /\ table \notin keyless => key = Pk
  /\ pc \in {"fields", "alter", "commit"} /\ table \notin keyless => OnTheWay

TurnInv == trouble = {} => Turned

LEMMA Ran ==
  ASSUME NEW tables, Executes(tables), trouble' = {}
  PROVE  work' = tables
BY DEF Executes, Fails, FailsTo, Makes

LEMMA Trouble ==
  ASSUME NEW more, FailsTo(more)
  PROVE  trouble' # {}
BY DEF FailsTo

\* Steps that leave update_database where it is, and the fields of the tables
\* as they are.
LEMMA TurnedSame ==
  ASSUME Turned, UNCHANGED <<process, keyless, wanted, table>>, table \in Tables,
         \A t \in Tables : work'[t].exists = work[t].exists /\ work'[t].cols = work[t].cols
  PROVE  Turned'
<1>1. \A t \in Tables : Done(t) => Done(t)'
  BY DEF Done
<1>2. OnTheWay => OnTheWay'
  BY DEF OnTheWay
<1> QED BY <1>1, <1>2 DEF Turned

\* The other tables when a statement has made something of the table at hand.
LEMMA OthersStay ==
  ASSUME ServerInv, table \in Tables, NEW x, work' = [work EXCEPT ![table] = x],
         UNCHANGED <<keyless, wanted>>
  PROVE  /\ work'[table] = x
         /\ \A t \in Tables : t # table /\ Done(t) => Done(t)'
BY DEF ServerInv, DbType, Done

LEMMA CreateTurns ==
  ASSUME TypeOK, ServerInv, ListInv, Turned, create_table, trouble' = {}
  PROVE  Turned'
<1> DEFINE k == IF table \in keyless THEN {} ELSE {Pk}
           x == [exists |-> TRUE, cols |-> wanted[table] \cup k \cup Stamped(table),
                 indexes |-> Cardinality(k), cells |-> {}]
<1>1. /\ pc = "create" /\ pc' = "next" /\ table \in Tables
      /\ UNCHANGED <<keyless, wanted, todo, table>>
  BY DEF create_table, ListInv
<1>2. ~work[table].exists /\ Executes([work EXCEPT ![table] = x])
  BY Trouble DEF create_table, Fails
<1>3. /\ x.exists
      /\ table \notin keyless => x.cols = wanted[table] \cup {Pk} \cup Stamped(table)
  OBVIOUS
<1> HIDE DEF x
<1>4. work' = [work EXCEPT ![table] = x]
  BY <1>2, Ran
<1>5. Done(table)'
  BY <1>1, <1>3, <1>4, OthersStay DEF Done
<1>6. \A t \in Tables \ (todo \cup {table}) : Done(t)'
  BY <1>1, <1>4, OthersStay DEF Turned, AtTable
<1>7. \A t \in Tables \ todo : Done(t)'
  BY <1>1, <1>5, <1>6
<1> QED BY <1>1, <1>7 DEF Turned, AtTable

LEMMA AddTurns ==
  ASSUME TypeOK, ServerInv, ListInv, MissingWanted, Turned, add_field, trouble' = {}
  PROVE  Turned'
<1>1. /\ pc = "fields" /\ table \in Tables
      /\ UNCHANGED <<pc, keyless, wanted, todo, table, surplus>>
  BY DEF add_field, ListInv
<1>2. PICK f \in missing :
        /\ IF f \in work[table].cols \/ ~work[table].exists THEN Fails
           ELSE Executes([work EXCEPT ![table].cols = @ \cup {f}])
        /\ missing' = missing \ {f}
  BY DEF add_field
<1>3. Executes([work EXCEPT ![table].cols = @ \cup {f}])
  BY <1>2, Trouble DEF Fails
<1> DEFINE x == [work[table] EXCEPT !.cols = @ \cup {f}]
<1>4. work' = [work EXCEPT ![table] = x]
  BY <1>3, Ran
<1>5. x.exists = work[table].exists /\ x.cols = work[table].cols \cup {f}
  BY <1>1 DEF ServerInv, DbType, TableState
<1> HIDE DEF x
<1>6. \A t \in Tables \ (todo \cup {table}) : Done(t)'
  BY <1>1, <1>4, OthersStay DEF Turned, AtTable
<1>7. work[table].exists /\ (table \notin keyless => OnTheWay)
  BY <1>1 DEF Turned, AtTable
<1>8. work'[table].exists /\ work'[table].cols = work[table].cols \cup {f}
  BY <1>1, <1>4, <1>5, <1>7, OthersStay
<1>9. OnTheWay => OnTheWay'
  <2>1. f \in wanted[table]
    BY <1>1 DEF MissingWanted
  <2>2. ASSUME OnTheWay
        PROVE  /\ wanted[table] \cup {Pk} \subseteq work'[table].cols \cup missing'
               /\ work'[table].cols \subseteq wanted[table] \cup {Pk} \cup {y[1] : y \in surplus}
    BY <1>2, <1>8, <2>1, <2>2 DEF OnTheWay
  <2> QED BY <1>1, <2>2 DEF OnTheWay
<1> QED BY <1>1, <1>6, <1>7, <1>8, <1>9 DEF Turned, AtTable

LEMMA KeyTurns ==
  ASSUME TypeOK, ListInv, Turned, Keyed(work), primary_key, trouble' = {}
  PROVE  Turned'
<1>1. /\ pc = "key" /\ pc' = "columns" /\ table \in Tables
      /\ UNCHANGED <<keyless, wanted, todo, table>>
  BY DEF primary_key, ListInv
<1>2. /\ key' = IF Pk \in work[table].cols THEN Pk ELSE NoOne
      /\ UNCHANGED work
  BY Trouble DEF primary_key, select_value, Answers
<1>3. work[table].exists /\ \A t \in Tables \ (todo \cup {table}) : Done(t)
  BY <1>1 DEF Turned, AtTable
<1>4. table \notin keyless => key' = Pk
  BY <1>1, <1>2, <1>3 DEF Keyed
<1> QED BY <1>1, <1>2, <1>3, <1>4 DEF Turned, AtTable, Done

LEMMA ReadTurns ==
  ASSUME TypeOK, ServerInv, ListInv, Turned, Keyed(work), table_data, trouble' = {}
  PROVE  Turned'
<1>1. /\ pc = "columns" /\ pc' = "fields" /\ table \in Tables
      /\ UNCHANGED <<keyless, wanted, todo, table>>
  BY DEF table_data, ListInv
<1>2. /\ missing' = wanted[table] \ {x[1] : x \in FieldsRead}
      /\ surplus' = {x \in FieldsRead : x[1] \notin wanted[table]}
      /\ UNCHANGED work
  BY Trouble DEF table_data, Answers, Fails
<1>3. /\ work[table].exists /\ (table \notin keyless => key = Pk)
      /\ \A t \in Tables \ (todo \cup {table}) : Done(t)
  BY <1>1 DEF Turned, AtTable
<1>4. ASSUME table \notin keyless PROVE OnTheWay'
  <2>1. key = Pk /\ Pk \in work[table].cols
    BY <1>1, <1>3, <1>4 DEF Keyed
  <2>2. 1 \in 1..work[table].indexes
    <3>1. work[table].indexes \in Nat /\ work[table].indexes >= 1
      BY <1>1, <2>1 DEF ServerInv, DbType, TableState, AllSound, Sound
    <3> QED BY <3>1
  <2>3. \A f \in work[table].cols \ {Pk} : <<f, 1>> \in FieldsRead
    BY <2>1, <2>2 DEF FieldsRead
  <2>4. \A x \in FieldsRead : x[1] \in work[table].cols \ {Pk}
    BY <2>1 DEF FieldsRead
  <2>5. \A f \in work[table].cols \ {Pk} :
          f \notin wanted[table] => f \in {x[1] : x \in surplus'}
    <3> TAKE f \in work[table].cols \ {Pk}
    <3> HAVE f \notin wanted[table]
    <3>1. <<f, 1>> \in surplus' /\ <<f, 1>>[1] = f
      BY <1>2, <2>3
    <3> QED BY <3>1
  <2>6. wanted[table] \cup {Pk} \subseteq work[table].cols \cup missing'
    BY <1>2, <2>1, <2>4
  <2> QED BY <1>1, <1>2, <2>5, <2>6 DEF OnTheWay
<1> QED BY <1>1, <1>2, <1>3, <1>4 DEF Turned, AtTable, Done

LEMMA AlterTurns ==
  ASSUME TypeOK, ServerInv, ListInv, Turned, AlterTable, trouble = {}, trouble' = {}
  PROVE  Turned'
<1>1. /\ pc = "alter" /\ pc' = "commit" /\ table \in Tables
      /\ UNCHANGED <<keyless, wanted, todo, table, missing>>
  BY DEF AlterTable, ListInv
<1>2. PICK y \in surplus :
        /\ IF y[1] \in work[table].cols
           THEN Executes([work EXCEPT ![table] = DropsColumn(@, y[1])])
           ELSE Fails
        /\ surplus' = surplus \ {y}
  BY DEF AlterTable
<1> DEFINE x == DropsColumn(work[table], y[1])
<1>3. Executes([work EXCEPT ![table] = x])
  BY <1>2, Trouble DEF Fails
<1>4. y[1] \notin wanted[table] /\ y[1] # Pk
  BY <1>1 DEF ListInv
<1>5. x.exists = work[table].exists /\ x.cols = work[table].cols \ {y[1]}
  BY <1>1 DEF ServerInv, DbType, TableState, DropsColumn
<1> HIDE DEF x
<1>6. work' = [work EXCEPT ![table] = x]
  BY <1>3, Ran
<1>7. \A t \in Tables \ (todo \cup {table}) : Done(t)'
  BY <1>1, <1>6, OthersStay DEF Turned, AtTable
<1>8. work[table].exists /\ (table \notin keyless => OnTheWay)
  BY <1>1 DEF Turned, AtTable
<1>9. work'[table].exists /\ work'[table].cols = work[table].cols \ {y[1]}
  BY <1>1, <1>5, <1>6, <1>8, OthersStay
<1>10. ASSUME OnTheWay PROVE OnTheWay'
  <2>1. wanted[table] \cup {Pk} \subseteq work'[table].cols \cup missing
    BY <1>4, <1>9, <1>10 DEF OnTheWay
  <2>2. ASSUME NEW f \in work'[table].cols, f \notin wanted[table] \cup {Pk}
        PROVE  f \in {z[1] : z \in surplus'}
    <3>1. PICK z \in surplus : f = z[1]
      BY <1>9, <1>10, <2>2 DEF OnTheWay
    <3>2. z \in surplus'
      BY <1>2, <1>9, <2>2, <3>1
    <3> QED BY <3>1, <3>2
  <2> QED BY <1>1, <2>1, <2>2 DEF OnTheWay
<1> QED BY <1>1, <1>7, <1>8, <1>9, <1>10 DEF Turned, AtTable

\* A table whose turn is over has the fields of its model.
LEMMA TurnOver ==
  ASSUME TypeOK, ListInv, Turned, pc = "fields", missing = {}, surplus = {}
  PROVE  \A t \in Tables \ todo : Done(t)
<1>1. work[table].exists /\ (table \notin keyless => OnTheWay)
  BY DEF Turned, AtTable
<1>2. OnTheWay => work[table].cols = wanted[table] \cup {Pk}
  BY DEF OnTheWay
<1>3. Done(table)
  BY <1>1, <1>2 DEF Done
<1> QED BY <1>3 DEF Turned, AtTable

LEMMA TurnStep ==
  ASSUME TypeOK, ServerInv, ListInv, MissingWanted, KeyInv, Noticed, TurnInv, [Next]_vars
  PROVE  TurnInv'
<1> SUFFICES ASSUME trouble' = {} PROVE Turned'
  BY DEF TurnInv
<1>1. ASSUME pc' \in {"idle", "ready"} PROVE Turned'
  BY <1>1 DEF Turned, AtTable
<1>2. CASE Restart
  BY <1>1, <1>2 DEF Restart
<1>3. CASE UNCHANGED vars
  <2>1. UNCHANGED <<work, trouble, keyless, wanted, pc, todo, table, key, missing, surplus>>
    BY <1>3 DEF vars
  <2> QED BY <2>1 DEF TurnInv, Turned, OnTheWay, Done
<1>4. CASE Next /\ ~Restart
  <2>1. trouble = {} /\ Turned /\ Keyed(work) /\ tx # "failed"
    BY <1>4, TroubleGrows DEF TurnInv, KeyInv, Noticed
  <2>2. CASE create_table \/ add_field \/ primary_key \/ table_data \/ AlterTable
    BY <2>1, <2>2, CreateTurns, AddTurns, KeyTurns, ReadTurns, AlterTurns
  <2>3. CASE \/ Return \/ connect \/ disconnect \/ begin_transaction \/ commit \/ insert
             \/ save \/ create_database \/ drop_database \/ Release
    BY <1>1, <2>3 DEF Return, connect, disconnect, begin_transaction, commit, insert, save,
                      create_database, drop_database, MakesDatabase, Release
  <2>4. CASE Lose
    BY <2>4 DEF Lose
  <2>5. CASE Start
    BY <2>5 DEF Start, Turned, AtTable
  <2>6. CASE table_exists
    <3>1. PICK t \in todo :
            /\ todo' = todo \ {t} /\ table' = t
            /\ pc' = IF work[t].exists THEN "key" ELSE "create"
      BY <2>6, Trouble DEF table_exists, Fails
    <3>2. pc = "next" /\ UNCHANGED <<work, keyless, wanted>>
      BY <2>6, Trouble DEF table_exists, Answers, Fails, FailsTo
    <3>3. \A u \in Tables \ (todo' \cup {table'}) : Done(u)'
      BY <2>1, <3>1, <3>2 DEF Turned, Done
    <3> QED BY <3>1, <3>2, <3>3 DEF Turned, AtTable
  <2>7. CASE remove_field
    <3>1. /\ pc = "fields" /\ pc' = "alter"
          /\ UNCHANGED <<work, keyless, wanted, todo, table, missing, surplus>>
      BY <2>7 DEF remove_field, Begins, Fails, FailsTo
    <3> QED BY <2>1, <3>1 DEF Turned, AtTable, Done, OnTheWay
  <2>8. CASE CommitRemoval
    <3>1. /\ pc = "commit" /\ pc' = "fields"
          /\ UNCHANGED <<work, keyless, wanted, todo, table, missing, surplus>>
      BY <2>1, <2>8, Trouble DEF CommitRemoval, Commits, Fails
    <3> QED BY <2>1, <3>1 DEF Turned, AtTable, Done, OnTheWay
  <2>9. CASE TableDone
    <3>1. /\ pc = "fields" /\ missing = {} /\ surplus = {} /\ pc' = "next"
          /\ UNCHANGED <<work, keyless, wanted, todo, table>>
      BY <2>9 DEF TableDone
    <3>2. \A t \in Tables \ todo : Done(t)
      BY <2>1, <3>1, TurnOver
    <3> QED BY <3>1, <3>2 DEF Turned, AtTable, Done
  <2>10. CASE CreateIndex
    <3>1. PICK t \in Tables : Makes([db EXCEPT ![t].indexes = @ + 1])
      BY <2>10 DEF CreateIndex
    <3>2. UNCHANGED <<process, keyless, wanted>> /\ db = work
      BY <2>10 DEF CreateIndex, ServerInv
    <3>3. work' = [work EXCEPT ![t].indexes = @ + 1]
      BY <3>1, <3>2 DEF Makes
    <3>4. \A u \in Tables :
            work'[u].exists = work[u].exists /\ work'[u].cols = work[u].cols
      BY <3>3 DEF ServerInv, DbType, TableState
    <3>5. CASE table \in Tables
      BY <2>1, <3>2, <3>4, <3>5, TurnedSame
    <3>6. CASE table \notin Tables
      <4>1. pc \notin AtTable
        BY <3>6 DEF ListInv, AtTable
      <4> QED BY <2>1, <3>2, <3>4, <4>1 DEF Turned, Done, AtTable
    <3> QED BY <3>5, <3>6
  <2> QED
    BY <1>4, <2>2, <2>3, <2>4, <2>5, <2>6, <2>7, <2>8, <2>9, <2>10 DEF Next
<1> QED BY <1>2, <1>3, <1>4

\* Only Return ends update_database.
LEMMA ReturnFollows ==
  ASSUME Turned, [Next]_vars, pc = "next", pc' = "ready"
  PROVE  \A t \in Tables : Done(t)
<1>1. Return
  BY DEF Next, Start, table_exists, create_table, primary_key, table_data, add_field,
         remove_field, AlterTable, CommitRemoval, TableDone, connect, disconnect,
         Lose, begin_transaction, commit, insert, save, create_database, drop_database,
         MakesDatabase, Restart, Release, CreateIndex, vars
<1>2. todo = {}
  BY <1>1 DEF Return
<1> QED BY <1>2 DEF Turned

-----------------------------------------------------------------------------
(* The committed tables are those of Migration.                            *)

\* The query for the key fails by itself, or not at all.
UnreadMeans == "key unread" \in trouble => StepsFail

LEMMA UnreadStep ==
  ASSUME UnreadMeans, [Next]_vars
  PROVE  UnreadMeans'
<1> SUFFICES ASSUME ~StepsFail, "key unread" \notin trouble
             PROVE  "key unread" \notin trouble'
  BY DEF UnreadMeans
<1>1. ASSUME Fails PROVE "key unread" \notin trouble'
  <2>1. trouble' = trouble \cup {"statement failed"}
    BY <1>1 DEF Fails, FailsTo
  <2> QED BY <2>1
<1>2. \A tables : Executes(tables) => "key unread" \notin trouble'
  BY <1>1 DEF Executes
<1>3. CASE \/ Start \/ table_exists \/ table_data \/ TableDone \/ Return \/ Release
           \/ connect \/ disconnect \/ save \/ CreateIndex \/ Restart
  BY <1>1, <1>3, SaveFails
    DEF Start, table_exists, table_data, TableDone, Return, Release, connect, disconnect,
        CreateIndex, Restart, Answers
<1>4. CASE Lose
  BY <1>4 DEF Lose
<1>5. CASE create_table
  BY <1>1, <1>2, <1>5 DEF create_table
<1>6. CASE add_field
  BY <1>1, <1>2, <1>6 DEF add_field
<1>7. CASE AlterTable
  BY <1>1, <1>2, <1>7 DEF AlterTable
<1>8. CASE primary_key
  <2>1. Answers \/ (~Runs /\ FailsTo({}))
    BY <1>8 DEF primary_key, select_value, MayFail
  <2> QED BY <1>1, <2>1 DEF Answers, Fails
<1>9. CASE remove_field \/ CommitRemoval \/ begin_transaction \/ commit
  BY <1>1, <1>9 DEF remove_field, CommitRemoval, begin_transaction, commit, Begins, Commits
<1>10. CASE insert
  BY <1>1, <1>10 DEF insert, StoreRow
<1>11. CASE create_database \/ drop_database
  BY <1>1, <1>11 DEF create_database, drop_database, MakesDatabase
<1>12. CASE UNCHANGED vars
  BY <1>12 DEF vars
<1> QED
  BY <1>3, <1>4, <1>5, <1>6, <1>7, <1>8, <1>9, <1>10, <1>11, <1>12 DEF Next

AbsOf(x) == [exists |-> x.exists, cols |-> x.cols \ {Pk}, cells |-> x.cells]

LegalTo(tables) ==
  \A t \in Tables : Promise!Legal(AbsOf(db[t]), AbsOf(tables[t]), wanted[t])

\* What an open transaction is about to commit is a migration of what is
\* committed.
LegalInv == LegalTo(work)

LEMMA LegalSame ==
  ASSUME NEW x, NEW model
  PROVE  Promise!Legal(x, x, model)
BY DEF Promise!Legal, Promise!Kept

LEMMA ReshapedLegal ==
  ASSUME TypeOK, ServerInv, UnreadMeans, LegalInv,
         NEW t \in Tables, NEW x \in TableState, Reshapes(t, x)
  PROVE  Promise!Legal(AbsOf(db[t]), AbsOf(x), wanted[t])
<1>1. Promise!Legal(AbsOf(db[t]), AbsOf(work[t]), wanted[t])
  BY DEF LegalInv, LegalTo
<1>2. /\ db[t].exists => work[t].exists
      /\ (db[t].cols \ {Pk}) \cap wanted[t] \subseteq work[t].cols
      /\ work[t].cols \ {Pk}
           \subseteq db[t].cols \cup wanted[t] \cup (IF db[t].exists THEN {} ELSE Stamps)
      /\ \A c \in db[t].cells :
           c[2] \in wanted[t] \/ (c[2] = Pk /\ ~StepsFail) => c \in work[t].cells
      /\ \A c \in work[t].cells \ db[t].cells : \A d \in db[t].cells : d[1] # c[1]
  BY <1>1 DEF Promise!Legal, Promise!Kept, Promise!RowsOf, AbsOf
<1>3. Pk \notin wanted[t]
  BY PostgresAssumption DEF TypeOK
<1> SUFFICES
      /\ db[t].exists => x.exists
      /\ (db[t].cols \ {Pk}) \cap wanted[t] \subseteq x.cols
      /\ x.cols \ {Pk}
           \subseteq db[t].cols \cup wanted[t] \cup (IF db[t].exists THEN {} ELSE Stamps)
      /\ \A c \in db[t].cells :
           c[2] \in wanted[t] \/ (c[2] = Pk /\ ~StepsFail) => c \in x.cells
      /\ \A c \in x.cells \ db[t].cells : \A d \in db[t].cells : d[1] # c[1]
  BY <1>3 DEF Promise!Legal, Promise!Kept, Promise!RowsOf, AbsOf
<1>4. CASE /\ ~work[t].exists /\ x.exists /\ x.cells = {}
           /\ x.cols = wanted[t] \cup (IF t \in keyless THEN {} ELSE {Pk}) \cup Stamped(t)
  <2>1. ~db[t].exists /\ db[t].cols = {} /\ db[t].cells = {}
    BY <1>2, <1>4 DEF ServerInv, AllSound, Sound
  <2>2. Stamped(t) \subseteq Stamps
    BY DEF Stamped
  <2> QED BY <1>4, <2>1, <2>2
<1>5. CASE /\ x.exists = work[t].exists /\ x.cells = work[t].cells
           /\ \E f \in wanted[t] : x.cols = work[t].cols \cup {f}
  BY <1>2, <1>5
<1>6. CASE /\ x.exists = work[t].exists
           /\ \E f \in work[t].cols \ wanted[t] :
                /\ f = Pk => "key unread" \in trouble
                /\ x.cols = work[t].cols \ {f}
                /\ x.cells = {c \in work[t].cells : c[2] # f}
  <2>1. PICK f \in work[t].cols \ wanted[t] :
          /\ f = Pk => StepsFail
          /\ x.cols = work[t].cols \ {f}
          /\ x.cells = {c \in work[t].cells : c[2] # f}
    BY <1>6 DEF UnreadMeans
  <2> QED BY <1>2, <1>6, <2>1
<1>7. CASE /\ x.exists = work[t].exists /\ x.cols = work[t].cols
           /\ work[t].cells \subseteq x.cells
           /\ \A c \in x.cells \ work[t].cells : \A d \in db[t].cells : d[1] # c[1]
  BY <1>2, <1>7
<1> QED BY <1>4, <1>5, <1>6, <1>7 DEF Reshapes

\* Another release finds no session, and nothing uncommitted.
LEMMA ReleaseApart ==
  ASSUME ServerInv, Next
  PROVE  UNCHANGED wanted \/ (Release /\ UNCHANGED <<db, work>> /\ work = db)
<1>1. CASE Release
  BY <1>1 DEF Release, ServerInv
<1>2. CASE ~Release
  BY <1>2 DEF Next, Start, table_exists, create_table, primary_key, table_data, add_field,
         remove_field, AlterTable, CommitRemoval, TableDone, Return, connect, disconnect,
         Lose, begin_transaction, commit, insert, save, create_database, drop_database,
         MakesDatabase, Restart, CreateIndex
<1> QED BY <1>1, <1>2

AbsTables == [t \in Tables |-> AbsOf(db[t])]

LEMMA LegalStep ==
  ASSUME TypeOK, ServerInv, ListInv, MissingWanted, UnreadMeans, LegalInv, [Next]_vars
  PROVE  /\ LegalInv'
         /\ Promise!Next \/ UNCHANGED <<AbsTables, wanted>>
<1>1. ASSUME UNCHANGED db PROVE UNCHANGED AbsTables
  BY <1>1 DEF AbsTables, AbsOf
<1>2. ASSUME work' = db' PROVE LegalInv'
  BY <1>2, LegalSame DEF LegalInv, LegalTo, AbsOf
<1>3. ASSUME UNCHANGED wanted, LegalTo(db') PROVE Promise!Next
  BY <1>3 DEF Promise!Next, Promise!Change, LegalTo, AbsOf
<1>4. CASE UNCHANGED vars
  <2>1. UNCHANGED <<db, work, wanted>>
    BY <1>4 DEF vars
  <2> QED BY <1>1, <2>1 DEF LegalInv, LegalTo, AbsOf
<1>5. CASE Release
  <2>1. UNCHANGED <<db, work>> /\ work = db
    BY <1>5, ReleaseApart DEF Release, ServerInv
  <2>2. Promise!Release
    BY <1>5, <2>1 DEF Release, Promise!Release, AbsTables, AbsOf
  <2> QED BY <1>2, <2>1, <2>2 DEF Promise!Next
<1>6. CASE Next /\ UNCHANGED wanted
  <2>1. CASE UNCHANGED <<db, work>>
    BY <1>1, <1>6, <2>1 DEF LegalInv, LegalTo, AbsOf
  <2>2. CASE db' = db /\ work' = db
    BY <1>1, <1>2, <1>6, <2>2
  <2>3. CASE db' = work /\ work' = work
    BY <1>2, <1>3, <1>6, <2>3 DEF LegalInv
  <2>4. CASE \E t \in Tables, x \in TableState :
               Makes([work EXCEPT ![t] = x]) /\ Reshapes(t, x)
    <3>1. PICK t \in Tables, x \in TableState :
            Makes([work EXCEPT ![t] = x]) /\ Reshapes(t, x)
      BY <2>4
    <3>2. LegalTo(work')
      <4>1. Promise!Legal(AbsOf(db[t]), AbsOf(x), wanted[t])
        BY <3>1, ReshapedLegal
      <4>2. \A u \in Tables : work'[u] = IF u = t THEN x ELSE work[u]
        BY <3>1 DEF Makes, ServerInv, DbType
      <4> QED BY <4>1, <4>2 DEF LegalInv, LegalTo
    <3>3. CASE tx = "idle"
      BY <1>2, <1>3, <1>6, <3>1, <3>2, <3>3 DEF Makes
    <3>4. CASE tx # "idle"
      BY <1>1, <1>6, <3>1, <3>2, <3>4 DEF Makes, LegalInv, LegalTo, AbsOf
    <3> QED BY <3>3, <3>4
  <2> QED BY <1>6, <2>1, <2>2, <2>3, <2>4, StepMoves DEF Moves
<1> QED BY <1>4, <1>5, <1>6, ReleaseApart

-----------------------------------------------------------------------------
(* The theorems.                                                           *)

\* The invariant each theorem rests on.
Inv == TypeOK /\ ServerInv /\ ListInv /\ KeepInv /\ UnitInv

LEMMA Inductive ==
  Spec => [](Inv /\ MissingWanted /\ KeyInv /\ Noticed /\ TurnInv /\ UnreadMeans /\ LegalInv)
<1> DEFINE Safe == Inv /\ MissingWanted /\ KeyInv /\ Noticed /\ TurnInv /\ UnreadMeans /\ LegalInv
<1>1. Init => Safe
  <2>1. Init => Inv
    BY InitInv DEF Init, Inv, UnitInv
  <2>2. ASSUME Init PROVE MissingWanted /\ Noticed /\ TurnInv /\ UnreadMeans
    BY <2>2 DEF Init, MissingWanted, Noticed, TurnInv, Turned, UnreadMeans, AtTable
  <2>3. ASSUME Init PROVE db = work /\ \A t \in Tables : ~db[t].exists
    BY <2>3 DEF Init, NoTable
  <2>4. Init => KeyInv /\ LegalInv
    BY <2>3, LegalSame DEF KeyInv, Keyed, LegalInv, LegalTo
  <2> QED BY <2>1, <2>2, <2>4
<1>2. Safe /\ [Next]_vars => Safe'
  <2> SUFFICES ASSUME Safe, [Next]_vars PROVE Safe'
    OBVIOUS
  <2>1. TypeOK /\ ServerInv /\ ListInv /\ KeepInv /\ UnitInv
    BY DEF Inv
  <2>2. Inv'
    BY <2>1, ServerStep, TypeStep, ListStep, KeepStep, UnitStep DEF Inv
  <2>3. MissingWanted' /\ KeyInv' /\ Noticed'
    BY <2>1, MissingStep, KeyStep, NoticedStep
  <2>4. TurnInv' /\ UnreadMeans' /\ LegalInv'
    BY <2>1, TurnStep, UnreadStep, LegalStep
  <2> QED BY <2>2, <2>3, <2>4
<1> HIDE DEF Safe
<1>3. Spec => []Safe
  BY <1>1, <1>2, PTL DEF Spec
<1> QED BY <1>3 DEF Safe

\* TypeOK: the tables, as committed and as the session sees them, the
\* session's state and update_database's variables keep their types, for every
\* registry and whatever fails.
THEOREM TypeCorrect == Spec => []TypeOK
<1>1. Inv => TypeOK
  BY DEF Inv
<1> QED BY <1>1, Inductive, PTL

\* KeptCommitted: whatever statement fails and whenever the session or the
\* process ends, update_database keeps every committed value of a field that
\* is in the model, but for a key whose query failed by itself.
THEOREM CommittedIsKept == Spec => []KeptCommitted
<1>1. Inv => KeptCommitted
  BY DEF Inv, KeepInv, Holds, Excused, KeptCommitted
<1> QED BY <1>1, Inductive, PTL

\* UnitWhole: what the program stores in a transaction is in no committed
\* table before commit, unless something failed or remove_field's own COMMIT
\* came between.
THEOREM UnitIsWhole == Spec => []UnitWhole
<1>1. Inv => UnitWhole
  BY DEF Inv, UnitInv, UnitWhole
<1> QED BY <1>1, Inductive, PTL

\* CommitMeansStored: when commit returns over a living session and nothing
\* has failed, everything stored in the transaction is committed.
THEOREM CommitStores == Spec => CommitMeansStored
<1>1. Inv /\ [Next]_vars =>
        [inUnit /\ ~inUnit' /\ link' = "up" /\ trouble' = {} =>
           \A t \in Tables : unit[t] \subseteq db'[t].cells]_vars
  BY CommitStep DEF Inv
<1> QED BY <1>1, Inductive, PTL DEF Spec, CommitMeansStored

\* FollowsModel: when update_database returns and nothing has failed, each
\* table exists and, unless its model has no key, has the fields of the model
\* and the key, and no others but the timestamps of a model that has them:
\* create_table has made it so, or table_data has listed each column of a
\* table it found, for the key has an index, and update_table has added and
\* removed the rest.
THEOREM ModelIsFollowed == Spec => FollowsModel
<1>1. TurnInv /\ [Next]_vars =>
        [pc = "next" /\ pc' = "ready" /\ trouble = {} =>
           \A t \in Tables :
             work[t].exists /\ (t \notin keyless =>
               /\ wanted[t] \cup {Pk} \subseteq work[t].cols
               /\ work[t].cols \subseteq wanted[t] \cup {Pk} \cup Stamped(t))]_vars
  BY ReturnFollows DEF TurnInv, Done
<1> QED BY <1>1, Inductive, PTL DEF Spec, FollowsModel

\* ImplementsMigration: whatever fails, each step leaves the committed tables
\* as they are or changes them as a migration may.  A transaction that is open
\* holds no more than that, whoever commits it, and only the key is at risk, if
\* a statement may fail by itself.
THEOREM PostgresImplementsMigration == Spec => ImplementsMigration
<1>1. Init => Promise!Init
  <2> SUFFICES ASSUME Init PROVE Promise!Init
    OBVIOUS
  <2>1. \A t \in Tables : AbsOf(db[t]) = Promise!Absent
    BY DEF Init, NoTable, AbsOf, Promise!Absent
  <2>2. wanted \in [Tables -> SUBSET Columns]
    BY DEF Init
  <2> QED BY <2>1, <2>2 DEF Promise!Init, AbsOf
<1>2. Inv /\ MissingWanted /\ UnreadMeans /\ LegalInv /\ [Next]_vars
        => Promise!Next \/ UNCHANGED <<AbsTables, wanted>>
  BY LegalStep DEF Inv
<1> QED
  BY <1>1, <1>2, Inductive, PTL
  DEF Spec, ImplementsMigration, Promise!MigrationSpec, AbsTables, AbsOf

=============================================================================
