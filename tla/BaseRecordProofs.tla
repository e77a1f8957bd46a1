-------------------------- MODULE BaseRecordProofs --------------------------
(***************************************************************************)
(* Proofs about BaseRecord, for every set of objects, columns, names and   *)
(* values and every bound on the rowids: types; what the objects and their *)
(* table have to do with each other, one row per object and what save      *)
(* stores; and that BaseRecord implements RecordStore while no step fails  *)
(* and init is called on objects without an id only; rows may vanish.      *)
(***************************************************************************)
EXTENDS BaseRecordImplements, TLAPS

USE DEF Unsaved

RecType == [state : States, id : AnyId, attr : [Names -> Held]]

\* A row read into attributes_ gives an entry of the right type to each name.
LEMMA RowAttributesType ==
  ASSUME TypeOK, NEW i \in Ids
  PROVE  RowAttributes(i) \in [Names -> Held]
BY DEF TypeOK, RowAttributes, FromField, Cells, Held, Names

\* The private steps of Base<T> keep the members of an object in their types.
LEMMA PreparedType ==
  ASSUME NEW x \in RecType
  PROVE  /\ Prepared(x) \in RecType
         /\ Prepared(x).id = x.id
         /\ Prepared(x).attr = x.attr
BY DEF Prepared, RecType, States

LEMMA LoadedType ==
  ASSUME TypeOK, NEW x \in RecType, ~LoadThrows(x)
  PROVE  /\ Loaded(x) \in RecType
         /\ Loaded(x).id = x.id
<1>1. CASE NeedsLoad(x)
  <2>1. x.id \in Ids
    BY <1>1 DEF LoadThrows, TypeOK
  <2>2. RowAttributes(x.id) \in [Names -> Held]
    BY <2>1, RowAttributesType
  <2> QED BY <1>1, <2>2 DEF Loaded, RecType, States
<1>2. CASE ~NeedsLoad(x)
  BY <1>2, PreparedType DEF Loaded
<1> QED BY <1>1, <1>2

-----------------------------------------------------------------------------
(* The actions, in the order of Next, each shown to keep TypeOK.           *)

LEMMA InitType == Init => TypeOK
BY BoundAssumption
   DEF Init, TypeOK, States, AnyId, Held, NoAttributes, NothingAssigned,
       EmptyRow, Cells, Idle, Replies, Nobody

LEMMA ConstructType ==
  ASSUME TypeOK, NEW r \in Records, NEW i \in AnyId, Construct(r, i)
  PROVE  TypeOK'
<1>1. [state |-> "blank", id |-> i, attr |-> NoAttributes] \in RecType
  BY DEF RecType, States, Held, NoAttributes
<1>2. rec' \in [Records -> RecType]
  BY <1>1 DEF TypeOK, Construct, RecType
<1>3. NothingAssigned \in [Columns -> Words \cup {Absent}]
  BY DEF NothingAssigned
<1>4. assigned' \in [Records -> [Columns -> Words \cup {Absent}]]
  BY <1>3 DEF TypeOK, Construct
<1>5. made' \in [Records -> 0..2]
  BY DEF TypeOK, Construct
<1> QED
  BY <1>2, <1>4, <1>5 DEF TypeOK, Construct, dbVars, RecType, Idle, Replies, Nobody

LEMMA CopyType ==
  ASSUME TypeOK, NEW r \in Records, NEW s \in Records, Copy(r, s)
  PROVE  TypeOK'
<1>1. rec' \in [Records -> RecType]
  BY DEF TypeOK, Copy, RecType
<1>2. assigned' \in [Records -> [Columns -> Words \cup {Absent}]]
  BY DEF TypeOK, Copy
<1>3. made' \in [Records -> 0..2]
  BY DEF TypeOK, Copy
<1> QED
  BY <1>1, <1>2, <1>3 DEF TypeOK, Copy, dbVars, RecType, Idle, Replies, Nobody

\* An entry of attributes_ overwritten with a value of its type.
LEMMA AttrType ==
  ASSUME NEW x \in RecType, NEW n \in Names, NEW v \in Held
  PROVE  /\ [x EXCEPT !.attr[n] = v] \in RecType
         /\ [x EXCEPT !.attr[n] = v].id = x.id
         /\ [x EXCEPT !.attr[n] = v].state = x.state
BY DEF RecType

LEMMA InitWithType ==
  ASSUME TypeOK, NEW r \in Records, NEW c \in Columns, NEW v \in Words,
         InitWith(r, c, v)
  PROVE  TypeOK'
<1>1. rec[r] \in RecType /\ c \in Names /\ v \in Held
  BY DEF TypeOK, RecType, Names, Held
<1>2. Prepared(rec[r]) \in RecType
  BY <1>1, PreparedType
<1>3. [Prepared(rec[r]) EXCEPT !.attr[c] = v, !.state = "unsaved"] \in RecType
  BY <1>1, <1>2 DEF RecType, States
<1>4. rec' \in [Records -> RecType]
  BY <1>3 DEF TypeOK, InitWith, RecType
<1> QED BY <1>4 DEF TypeOK, InitWith, dbVars, RecType, Idle, Replies, Nobody

LEMMA AssignType ==
  ASSUME TypeOK, NEW r \in Records, NEW c \in Columns, NEW v \in Words,
         Assign(r, c, v)
  PROVE  TypeOK'
<1>1. rec[r] \in RecType /\ c \in Names /\ v \in Held
  BY DEF TypeOK, RecType, Names, Held
<1>2. Loaded(rec[r]) \in RecType
  BY <1>1, LoadedType DEF Assign
<1>3. [Loaded(rec[r]) EXCEPT !.attr[c] = v] \in RecType
  BY <1>1, <1>2, AttrType
<1>4. rec' \in [Records -> RecType]
  BY <1>3 DEF TypeOK, Assign, RecType
<1> QED BY <1>4 DEF TypeOK, Assign, dbVars, RecType, Idle, Replies, Nobody

LEMMA ReadType ==
  ASSUME TypeOK, NEW r \in Records, NEW n \in Names, Read(r, n)
  PROVE  TypeOK'
<1>1. rec[r] \in RecType /\ Unset \in Held
  BY DEF TypeOK, RecType, Held
<1>2. Loaded(rec[r]) \in RecType
  BY <1>1, LoadedType DEF Read
<1>3. [Loaded(rec[r]) EXCEPT !.attr[n] = Unset] \in RecType
  BY <1>1, <1>2, AttrType
<1>4. rec' \in [Records -> RecType]
  BY <1>2, <1>3 DEF TypeOK, Read, RecType
<1> QED BY <1>4 DEF TypeOK, Read, dbVars, history, RecType, Idle, Replies, Nobody

LEMMA ToStringType ==
  ASSUME TypeOK, NEW r \in Records, to_string(r)
  PROVE  TypeOK'
<1>1. Loaded(rec[r]) \in RecType
  BY LoadedType DEF TypeOK, RecType, to_string
<1>2. rec' \in [Records -> RecType]
  BY <1>1 DEF TypeOK, to_string, RecType
<1> QED
  BY <1>2 DEF TypeOK, to_string, dbVars, history, RecType, Idle, Replies, Nobody

LEMMA AccessThrowsType ==
  ASSUME TypeOK, NEW r \in Records, AccessThrows(r)
  PROVE  TypeOK'
<1>1. Prepared(rec[r]) \in RecType
  BY PreparedType DEF TypeOK, RecType
<1>2. rec' \in [Records -> RecType]
  BY <1>1 DEF TypeOK, AccessThrows, RecType
<1> QED
  BY <1>2 DEF TypeOK, AccessThrows, dbVars, history, RecType, Threw, Replies

\* A save that throws, and one that returns, with an object of the right type.
LEMMA SaveThrowsType ==
  ASSUME TypeOK, NEW r \in Records, NEW x \in RecType, SaveThrows(r, x)
  PROVE  TypeOK'
<1>1. rec' \in [Records -> RecType]
  BY DEF TypeOK, SaveThrows, RecType
<1> QED
  BY <1>1 DEF TypeOK, SaveThrows, dbVars, history, RecType, SaveThrew, Replies

LEMMA SaveReturnsType ==
  ASSUME TypeOK, NEW r \in Records, NEW x \in RecType, SaveReturns(r, x)
  PROVE  /\ rec' \in [Records -> RecType]
         /\ reply' \in Replies
         /\ assigned' \in [Records -> [Columns -> Words \cup {Absent}]]
BY DEF TypeOK, SaveReturns, RecType, Saved, Replies, NothingAssigned

\* INSERT and UPDATE leave a table of the right type.
LEMMA InsertRowType ==
  ASSUME TypeOK, NEW i \in Ids, NEW attr \in [Names -> Held],
         InsertRow(i, attr)
  PROVE  /\ stored' \subseteq Ids
         /\ cell' \in [Ids -> [Columns -> Cells]]
         /\ lastRowid' \in 0..MaxId
<1>1. \A c \in Columns : (IF attr[c] = Absent THEN Null ELSE Bind(attr[c])) \in Cells
  BY DEF Names, Held, Cells, Bind
<1> QED BY <1>1, BoundAssumption DEF TypeOK, InsertRow, Ids

LEMMA UpdateRowType ==
  ASSUME TypeOK, NEW i \in AnyId, NEW attr \in [Names -> Held],
         UpdateRow(i, attr)
  PROVE  /\ stored' \subseteq Ids
         /\ cell' \in [Ids -> [Columns -> Cells]]
         /\ lastRowid' \in 0..MaxId
<1>1. CASE i \notin stored
  BY <1>1 DEF TypeOK, UpdateRow
<1>2. CASE i \in stored
  <2>1. i \in Ids /\ cell[i] \in [Columns -> Cells]
    BY <1>2 DEF TypeOK
  <2>2. \A c \in Columns :
          (IF attr[c] = Absent THEN cell[i][c] ELSE Bind(attr[c])) \in Cells
    BY <2>1 DEF Names, Held, Cells, Bind
  <2>3. [c \in Columns |-> IF attr[c] = Absent THEN cell[i][c]
                           ELSE Bind(attr[c])] \in [Columns -> Cells]
    BY <2>2
  <2> QED BY <1>2, <2>1, <2>3 DEF TypeOK, UpdateRow
<1> QED BY <1>1, <1>2

LEMMA CreateType ==
  ASSUME TypeOK, NEW r \in Records, Create(r)
  PROVE  TypeOK'
<1> DEFINE x == Prepared(rec[r])
<1>1. x \in RecType
  BY PreparedType DEF TypeOK, RecType
<1>2. CASE SaveThrows(r, x)
  BY <1>1, <1>2, SaveThrowsType
<1>3. CASE /\ \/ \E i \in Ids :
                   /\ InsertRow(i, x.attr)
                   /\ creator' = [creator EXCEPT ![i] = r]
                   /\ made' = [made EXCEPT ![r] = IF @ = 0 THEN 1 ELSE 2]
              \/ StepsFail /\ UNCHANGED <<dbVars, creator, made>>
           /\ SaveReturns(r, Created(x, InsertResult))
  <2>1. x.attr \in [Names -> Held]
    BY <1>1 DEF RecType
  <2>2. /\ stored' \subseteq Ids
        /\ cell' \in [Ids -> [Columns -> Cells]]
        /\ lastRowid' \in 0..MaxId
        /\ made' \in [Records -> 0..2]
        /\ creator' \in [Ids -> Records \cup {Nobody}]
    <3>1. CASE \E i \in Ids :
                 /\ InsertRow(i, x.attr)
                 /\ creator' = [creator EXCEPT ![i] = r]
                 /\ made' = [made EXCEPT ![r] = IF @ = 0 THEN 1 ELSE 2]
      <4>1. PICK i \in Ids :
              /\ InsertRow(i, x.attr)
              /\ creator' = [creator EXCEPT ![i] = r]
              /\ made' = [made EXCEPT ![r] = IF @ = 0 THEN 1 ELSE 2]
        BY <3>1
      <4>2. creator' \in [Ids -> Records \cup {Nobody}]
        BY <4>1 DEF TypeOK
      <4>3. made' \in [Records -> 0..2]
        BY <4>1 DEF TypeOK
      <4> QED BY <2>1, <4>1, <4>2, <4>3, InsertRowType
    <3>2. CASE UNCHANGED <<dbVars, creator, made>>
      BY <3>2 DEF TypeOK, dbVars
    <3> QED BY <1>3, <3>1, <3>2
  <2>3. Created(x, InsertResult) \in RecType
    <3>1. InsertResult \in AnyId
      BY <2>2, BoundAssumption DEF InsertResult, AnyId, Ids
    <3> HIDE DEF x
    <3> QED BY <1>1, <3>1 DEF RecType, Created, States
  <2> QED BY <1>3, <2>2, <2>3, SaveReturnsType DEF TypeOK, RecType
<1> QED BY <1>2, <1>3 DEF Create

LEMMA UpdateType ==
  ASSUME TypeOK, NEW r \in Records, Update(r)
  PROVE  TypeOK'
<1>1. rec[r] \in RecType
  BY DEF TypeOK, RecType
<1>2. CASE SaveThrows(r, Prepared(rec[r]))
  BY <1>1, <1>2, PreparedType, SaveThrowsType
<1>3. CASE ~LoadThrows(rec[r])
  <2> DEFINE x == Loaded(rec[r])
  <2>1. x \in RecType /\ x.attr \in [Names -> Held] /\ x.id \in AnyId
    BY <1>1, <1>3, LoadedType DEF RecType
  <2>2. CASE SaveThrows(r, x)
    BY <2>1, <2>2, SaveThrowsType
  <2>3. CASE /\ UpdateRow(x.id, x.attr) \/ (StepsFail /\ UNCHANGED dbVars)
             /\ SaveReturns(r, x)
             /\ UNCHANGED <<made, creator>>
    <3>1. /\ stored' \subseteq Ids
          /\ cell' \in [Ids -> [Columns -> Cells]]
          /\ lastRowid' \in 0..MaxId
      BY <2>1, <2>3, UpdateRowType DEF TypeOK, dbVars
    <3> QED BY <2>1, <2>3, <3>1, SaveReturnsType DEF TypeOK, RecType
  <2> QED BY <1>2, <1>3, <2>2, <2>3 DEF Update
<1> QED BY <1>2, <1>3 DEF Update

LEMMA DeleteType ==
  ASSUME TypeOK, NEW i \in Ids, Delete(i)
  PROVE  TypeOK'
BY DEF TypeOK, Delete, EmptyRow, Cells, Idle, Replies, Nobody

LEMMA NextType == TypeOK /\ [Next]_vars => TypeOK'
<1> SUFFICES ASSUME TypeOK, [Next]_vars PROVE TypeOK'
  OBVIOUS
<1>1. ASSUME NEW r \in Records, NEW i \in AnyId \ {0}, Construct(r, i)
      PROVE TypeOK'
  BY <1>1, ConstructType
<1>2. ASSUME NEW r \in Records, NEW s \in Records \ {r}, Copy(r, s)
      PROVE TypeOK'
  BY <1>2, CopyType
<1>3. ASSUME NEW r \in Records, NEW c \in Columns, NEW v \in Words,
             InitWith(r, c, v) \/ Assign(r, c, v)
      PROVE TypeOK'
  BY <1>3, InitWithType, AssignType
<1>4. ASSUME NEW r \in Records, NEW n \in Names, Read(r, n)
      PROVE TypeOK'
  BY <1>4, ReadType
<1>5. ASSUME NEW r \in Records, to_string(r) \/ AccessThrows(r) \/ Save(r)
      PROVE TypeOK'
  BY <1>5, ToStringType, AccessThrowsType, CreateType, UpdateType DEF Save
<1>6. ASSUME NEW i \in Ids, Delete(i)
      PROVE TypeOK'
  BY <1>6, DeleteType
<1>7. CASE UNCHANGED vars
  BY <1>7 DEF TypeOK, vars
<1> QED BY <1>1, <1>2, <1>3, <1>4, <1>5, <1>6, <1>7 DEF Next

\* Every member of every object, and the table, keep their types: no load,
\* failed step or exception leaves an entry that is neither a value nor
\* Attribute().
THEOREM TypeCorrect == Spec => []TypeOK
BY InitType, NextType, PTL DEF Spec

-----------------------------------------------------------------------------
(* AssignedKept.  Alone it is not inductive: an object with an id that is  *)
(* not loaded would lose what it holds at its next access.  Unless init is *)
(* called on such an object there is none that holds assigned values.      *)

\* What the program assigned is in attributes_, and no load will replace it.
KeptIn(x, a) ==
  \A c \in Columns :
    a[c] # Absent => /\ x.attr[c] = a[c]
                     /\ x.id # Unsaved => x.state = "loaded"

KeptInv == TypeOK /\ \A r \in Records : KeptIn(rec[r], assigned[r])

LEMMA KeptInvImplies == KeptInv => AssignedKept
BY DEF KeptInv, KeptIn, AssignedKept

LEMMA PreparedKeeps ==
  ASSUME NEW x \in RecType, NEW a, KeptIn(x, a)
  PROVE  KeptIn(Prepared(x), a)
BY DEF RecType, KeptIn, Prepared

LEMMA LoadedKeeps ==
  ASSUME NEW x \in RecType, NEW a, KeptIn(x, a)
  PROVE  KeptIn(Loaded(x), a)
<1>1. CASE NeedsLoad(x)
  BY <1>1 DEF KeptIn, NeedsLoad
<1>2. CASE ~NeedsLoad(x)
  BY <1>2, PreparedKeeps DEF Loaded
<1> QED BY <1>1, <1>2

\* An object that has an id is loaded once an accessor has reached it.
LEMMA LoadedIsLoaded ==
  ASSUME NEW x \in RecType, x.id # Unsaved
  PROVE  Loaded(x).state = "loaded"
BY DEF RecType, Loaded, NeedsLoad, Prepared

\* A step that replaces one object and what it was assigned.
LEMMA KeptStep ==
  ASSUME KeptInv, NEW r \in Records, NEW x, NEW a,
         rec' = [rec EXCEPT ![r] = x],
         assigned' = [assigned EXCEPT ![r] = a],
         KeptIn(x, a)
  PROVE  \A s \in Records : KeptIn(rec'[s], assigned'[s])
BY DEF KeptInv, TypeOK

\* A step that replaces one object and leaves what it was assigned.
LEMMA KeptStepSame ==
  ASSUME KeptInv, NEW r \in Records, NEW x,
         rec' = [rec EXCEPT ![r] = x],
         assigned' = assigned,
         KeptIn(x, assigned[r])
  PROVE  \A s \in Records : KeptIn(rec'[s], assigned'[s])
BY DEF KeptInv, TypeOK

LEMMA KeptNext ==
  ASSUME ~InitIdentified, KeptInv, [Next]_vars
  PROVE  KeptInv'
<1>0. TypeOK /\ TypeOK'
  BY NextType DEF KeptInv
<1> DEFINE Goal == \A s \in Records : KeptIn(rec'[s], assigned'[s])
<1>a. ASSUME NEW r \in Records
      PROVE  rec[r] \in RecType /\ KeptIn(rec[r], assigned[r])
  BY DEF KeptInv, TypeOK, RecType
<1>b. ASSUME NEW x PROVE KeptIn(x, NothingAssigned)
  BY DEF KeptIn, NothingAssigned
<1>1. ASSUME NEW r \in Records, NEW i \in AnyId \ {0}, Construct(r, i)
      PROVE Goal
  BY <1>1, <1>b, KeptStep DEF Construct
<1>2. ASSUME NEW r \in Records, NEW s \in Records \ {r}, Copy(r, s)
      PROVE Goal
  BY <1>2, <1>a, KeptStep DEF Copy
<1>3. ASSUME NEW r \in Records, NEW c \in Columns, NEW v \in Words,
             InitWith(r, c, v)
      PROVE Goal
  <2> DEFINE y == [Prepared(rec[r]) EXCEPT !.attr[c] = v, !.state = "unsaved"]
             b == [assigned[r] EXCEPT ![c] = v]
  <2>1. rec[r] \in RecType /\ KeptIn(rec[r], assigned[r]) /\ rec[r].id = Unsaved
    BY <1>3, <1>a DEF InitWith
  <2>2. /\ Prepared(rec[r]) \in RecType
        /\ Prepared(rec[r]).id = Unsaved
        /\ KeptIn(Prepared(rec[r]), assigned[r])
    BY <2>1, PreparedType, PreparedKeeps
  <2>3. KeptIn(y, b)
    <3>1. assigned[r] \in [Columns -> Words \cup {Absent}] /\ c \in Names
      BY <1>0 DEF TypeOK, Names
    <3> QED BY <2>2, <3>1 DEF KeptIn, RecType, Names
  <2>4. rec' = [rec EXCEPT ![r] = y] /\ assigned' = [assigned EXCEPT ![r] = b]
    BY <1>3 DEF InitWith
  <2> HIDE DEF y, b
  <2> QED BY <2>3, <2>4, KeptStep
<1>4. ASSUME NEW r \in Records, NEW c \in Columns, NEW v \in Words,
             Assign(r, c, v)
      PROVE Goal
  <2> DEFINE y == [Loaded(rec[r]) EXCEPT !.attr[c] = v]
             b == [assigned[r] EXCEPT ![c] = v]
  <2>1. /\ Loaded(rec[r]) \in RecType
        /\ Loaded(rec[r]).id = rec[r].id
        /\ KeptIn(Loaded(rec[r]), assigned[r])
    BY <1>0, <1>4, <1>a, LoadedType, LoadedKeeps DEF Assign
  <2>2. Loaded(rec[r]).id # Unsaved => Loaded(rec[r]).state = "loaded"
    BY <1>a, <2>1, LoadedIsLoaded
  <2>3. KeptIn(y, b)
    <3>1. assigned[r] \in [Columns -> Words \cup {Absent}] /\ c \in Names
      BY <1>0 DEF TypeOK, Names
    <3> QED BY <2>1, <2>2, <3>1 DEF KeptIn, RecType, Names
  <2>4. rec' = [rec EXCEPT ![r] = y] /\ assigned' = [assigned EXCEPT ![r] = b]
    BY <1>4 DEF Assign
  <2> HIDE DEF y, b
  <2> QED BY <2>3, <2>4, KeptStep
<1>5. ASSUME NEW r \in Records, NEW n \in Names, Read(r, n)
      PROVE Goal
  <2> DEFINE x == Loaded(rec[r])
             y == IF x.attr[n] = Absent THEN [x EXCEPT !.attr[n] = Unset] ELSE x
  <2>1. x \in RecType /\ KeptIn(x, assigned[r])
    BY <1>0, <1>5, <1>a, LoadedType, LoadedKeeps DEF Read
  <2>2. KeptIn(y, assigned[r])
    <3> HIDE DEF x
    <3> QED BY <2>1 DEF KeptIn, RecType, Names
  <2>3. rec' = [rec EXCEPT ![r] = y] /\ assigned' = assigned
    BY <1>5 DEF Read, history
  <2> HIDE DEF y
  <2> QED BY <2>2, <2>3, KeptStepSame
<1>6. ASSUME NEW r \in Records, to_string(r)
      PROVE Goal
  BY <1>6, <1>a, LoadedKeeps, KeptStepSame DEF to_string, history
<1>7. ASSUME NEW r \in Records, AccessThrows(r)
      PROVE Goal
  BY <1>7, <1>a, PreparedKeeps, KeptStepSame DEF AccessThrows, history
<1>8. ASSUME NEW r \in Records, Save(r)
      PROVE Goal
  <2>1. ASSUME NEW x, SaveReturns(r, x) PROVE Goal
    BY <2>1, <1>b, KeptStep DEF SaveReturns
  <2>2. ASSUME NEW x, KeptIn(x, assigned[r]), SaveThrows(r, x) PROVE Goal
    BY <2>2, KeptStepSame DEF SaveThrows, history
  <2>3. /\ KeptIn(Prepared(rec[r]), assigned[r])
        /\ KeptIn(Loaded(rec[r]), assigned[r])
    BY <1>a, PreparedKeeps, LoadedKeeps
  <2> QED BY <1>8, <2>1, <2>2, <2>3 DEF Save, Create, Update
<1>9. ASSUME NEW i \in Ids, Delete(i)
      PROVE Goal
  BY <1>9, <1>a DEF Delete
<1>10. ASSUME UNCHANGED vars
       PROVE Goal
  BY <1>10, <1>a DEF vars
<1>11. Goal
  BY <1>1, <1>2, <1>3, <1>4, <1>5, <1>6, <1>7, <1>8, <1>9, <1>10 DEF Next
<1> QED BY <1>0, <1>11 DEF KeptInv

\* As long as the program calls init only on objects without an id, no value
\* it assigned is lost from attributes_ before it is saved, whatever steps
\* fail, whatever rows vanish and whichever calls throw in between.
THEOREM AssignedIsKept ==
  ASSUME ~InitIdentified
  PROVE  Spec => []AssignedKept
<1>1. Init => KeptInv
  <2> SUFFICES ASSUME Init PROVE KeptInv
    OBVIOUS
  <2>1. TypeOK
    BY InitType
  <2>2. \A r \in Records : KeptIn(rec[r], assigned[r])
    BY DEF Init, KeptIn, NothingAssigned
  <2> QED BY <2>1, <2>2 DEF KeptInv
<1>2. KeptInv /\ [Next]_vars => KeptInv'
  <2> SUFFICES ASSUME KeptInv, [Next]_vars PROVE KeptInv'
    OBVIOUS
  <2> QED BY KeptNext
<1> QED BY <1>1, <1>2, KeptInvImplies, PTL DEF Spec

-----------------------------------------------------------------------------
(* The objects and their table.                                           *)

\* The id of an accessor's result is the id it started with.
LEMMA LoadedId ==
  ASSUME NEW x \in RecType
  PROVE  Loaded(x).id = x.id /\ Prepared(x).id = x.id
BY DEF RecType, Loaded, Prepared

-----------------------------------------------------------------------------
(* InsertsOnce: an object that has inserted a row has an id, so that save  *)
(* never reaches create again.                                             *)

OnceInv ==
  /\ TypeOK
  /\ \A r \in Records :
       made[r] <= 1 /\ (made[r] > 0 => rec[r].id # Unsaved)

LEMMA OnceNext ==
  ASSUME OnceInv, [Next]_vars
  PROVE  OnceInv'
<1>0. TypeOK /\ TypeOK'
  BY NextType DEF OnceInv
<1> DEFINE Goal == \A s \in Records :
                     made'[s] <= 1 /\ (made'[s] > 0 => rec'[s].id # Unsaved)
<1>a. ASSUME NEW r \in Records
      PROVE  /\ rec[r] \in RecType /\ made[r] \in 0..2 /\ made[r] <= 1
             /\ made[r] > 0 => rec[r].id # Unsaved
  BY DEF OnceInv, TypeOK, RecType
<1>b. ASSUME NEW r \in Records, NEW x, x.id = rec[r].id,
             rec' = [rec EXCEPT ![r] = x], made' = made
      PROVE  Goal
  BY <1>b, <1>a, <1>0 DEF TypeOK
<1>1. ASSUME NEW r \in Records, NEW i \in AnyId \ {0}, Construct(r, i)
      PROVE Goal
  BY <1>0, <1>1, <1>a DEF Construct, TypeOK
<1>2. ASSUME NEW r \in Records, NEW s \in Records \ {r}, Copy(r, s)
      PROVE Goal
  BY <1>0, <1>2, <1>a DEF Copy, TypeOK
<1>3. ASSUME NEW r \in Records, NEW c \in Columns, NEW v \in Words,
             InitWith(r, c, v) \/ Assign(r, c, v)
      PROVE Goal
  <2>1. CASE InitWith(r, c, v)
    <3> DEFINE y == [Prepared(rec[r]) EXCEPT !.attr[c] = v, !.state = "unsaved"]
    <3>1. y.id = rec[r].id
      BY <1>a, PreparedType, LoadedId DEF RecType
    <3> QED BY <1>b, <2>1, <3>1 DEF InitWith
  <2>2. CASE Assign(r, c, v)
    <3> DEFINE y == [Loaded(rec[r]) EXCEPT !.attr[c] = v]
    <3>1. Loaded(rec[r]) \in RecType
      BY <1>0, <1>a, <2>2, LoadedType DEF Assign
    <3>2. y.id = rec[r].id
      BY <1>a, <3>1, LoadedId DEF RecType
    <3> QED BY <1>b, <2>2, <3>2 DEF Assign
  <2> QED BY <1>3, <2>1, <2>2
<1>4. ASSUME NEW r \in Records, NEW n \in Names, Read(r, n)
      PROVE Goal
  <2> DEFINE x == Loaded(rec[r])
             y == IF x.attr[n] = Absent THEN [x EXCEPT !.attr[n] = Unset] ELSE x
  <2>1. x \in RecType
    BY <1>0, <1>a, <1>4, LoadedType DEF Read
  <2>2. y.id = rec[r].id
    BY <1>a, <2>1, LoadedId DEF RecType
  <2> QED BY <1>b, <1>4, <2>2 DEF Read, history
<1>5. ASSUME NEW r \in Records, to_string(r) \/ AccessThrows(r)
      PROVE Goal
  BY <1>5, <1>a, <1>b, LoadedId DEF to_string, AccessThrows, history
<1>6. ASSUME NEW r \in Records, Create(r)
      PROVE Goal
  <2> DEFINE x == Prepared(rec[r])
  <2>1. x \in RecType /\ x.id = rec[r].id
    BY <1>a, PreparedType
  <2>2. CASE SaveThrows(r, x)
    BY <1>b, <2>1, <2>2 DEF SaveThrows, history
  <2>3. CASE /\ \/ \E i \in Ids :
                     /\ InsertRow(i, x.attr)
                     /\ creator' = [creator EXCEPT ![i] = r]
                     /\ made' = [made EXCEPT ![r] = IF @ = 0 THEN 1 ELSE 2]
                \/ StepsFail /\ UNCHANGED <<dbVars, creator, made>>
             /\ SaveReturns(r, Created(x, InsertResult))
    <3>1. made[r] = 0
      BY <1>6, <1>a, <2>1 DEF Create
    <3>2. Created(x, InsertResult).id = lastRowid' /\ lastRowid' \in 0..MaxId
      <4> HIDE DEF x
      <4> QED BY <1>0, <2>1 DEF Created, InsertResult, RecType, TypeOK
    <3>3. lastRowid' # Unsaved
      BY <3>2, BoundAssumption DEF Unsaved
    <3>4. rec' = [rec EXCEPT ![r] = Created(x, InsertResult)]
      BY <2>3 DEF SaveReturns
    <3>5. made' \in {made, [made EXCEPT ![r] = 1]}
      BY <2>3, <3>1, <1>0 DEF TypeOK
    <3> HIDE DEF x
    <3>6. \A s \in Records : s # r => rec'[s] = rec[s]
      BY <3>4, <1>0 DEF TypeOK
    <3>7. rec'[r].id # Unsaved
      BY <3>2, <3>3, <3>4, <1>0 DEF TypeOK
    <3>8. ASSUME NEW s \in Records
          PROVE  made'[s] <= 1 /\ (made'[s] > 0 => rec'[s].id # Unsaved)
      <4>1. CASE s = r
        BY <1>0, <3>1, <3>5, <3>7, <4>1 DEF TypeOK
      <4>2. CASE s # r
        <5>1. made'[s] = made[s] /\ rec'[s] = rec[s]
          BY <1>0, <3>5, <3>6, <4>2 DEF TypeOK
        <5> QED BY <1>a, <5>1
      <4> QED BY <4>1, <4>2
    <3> QED BY <3>8
  <2> QED BY <1>6, <2>2, <2>3 DEF Create
<1>7. ASSUME NEW r \in Records, Update(r)
      PROVE Goal
  BY <1>7, <1>a, <1>b, LoadedId DEF Update, SaveThrows, SaveReturns, history
<1>8. ASSUME NEW i \in Ids, Delete(i)
      PROVE Goal
  BY <1>8, <1>a DEF Delete
<1>9. ASSUME UNCHANGED vars
      PROVE Goal
  BY <1>9, <1>a DEF vars
<1>10. Goal
  BY <1>1, <1>2, <1>3, <1>4, <1>5, <1>6, <1>7, <1>8, <1>9 DEF Next, Save
<1> QED BY <1>0, <1>10 DEF OnceInv

\* However often save is called on one object, and whatever fails, at most
\* one row is ever inserted for it.
THEOREM InsertsAtMostOnce == Spec => []InsertsOnce
<1>1. Init => OnceInv
  BY InitType DEF Init, OnceInv
<1>2. OnceInv /\ [Next]_vars => OnceInv'
  <2> SUFFICES ASSUME OnceInv, [Next]_vars PROVE OnceInv'
    OBVIOUS
  <2> QED BY OnceNext
<1>3. OnceInv => InsertsOnce
  BY DEF OnceInv, InsertsOnce
<1> QED BY <1>1, <1>2, <1>3, PTL DEF Spec

-----------------------------------------------------------------------------
(* IdIsOwnRow and AssignedStored hold while every step succeeds and no row *)
(* is deleted.  Then an object that is loaded has a row, always.           *)

OwnIn(x, m, r) ==
  /\ x.state = "loaded" => x.id \in stored
  /\ m > 0 => x.id \in stored /\ creator[x.id] = r

OwnInv == TypeOK /\ \A r \in Records : OwnIn(rec[r], made[r], r)

LEMMA LoadedHasRow ==
  ASSUME TypeOK, NEW x \in RecType, ~LoadThrows(x),
         x.state = "loaded" => x.id \in stored
  PROVE  /\ Loaded(x).state = "loaded" => Loaded(x).id \in stored
         /\ Prepared(x).state = "loaded" => Prepared(x).id \in stored
BY DEF RecType, Loaded, LoadThrows, NeedsLoad, Prepared

\* prepare alone makes no object loaded.
LEMMA PreparedHasRow ==
  ASSUME NEW x \in RecType, x.state = "loaded" => x.id \in stored
  PROVE  Prepared(x).state = "loaded" => Prepared(x).id \in stored
BY DEF RecType, Prepared

LEMMA OwnNext ==
  ASSUME ~StepsFail, ~RowsVanish, OwnInv, [Next]_vars
  PROVE  OwnInv'
<1>0. TypeOK /\ TypeOK'
  BY NextType DEF OwnInv
<1> DEFINE Goal == \A s \in Records : OwnIn(rec[s], made[s], s)'
<1>a. ASSUME NEW r \in Records
      PROVE  /\ rec[r] \in RecType /\ made[r] \in 0..2
             /\ OwnIn(rec[r], made[r], r)
             /\ rec[r].state = "loaded" => rec[r].id \in stored
  BY DEF OwnInv, OwnIn, TypeOK, RecType
<1>b. ASSUME NEW r \in Records, NEW x, x.id = rec[r].id,
             x.state = "loaded" => x.id \in stored,
             rec' = [rec EXCEPT ![r] = x], made' = made,
             stored' = stored, creator' = creator
      PROVE  Goal
  BY <1>b, <1>a, <1>0 DEF TypeOK, OwnIn
<1>1. ASSUME NEW r \in Records, NEW i \in AnyId \ {0}, Construct(r, i)
      PROVE Goal
  BY <1>0, <1>1, <1>a DEF Construct, TypeOK, OwnIn, dbVars
<1>2. ASSUME NEW r \in Records, NEW s \in Records \ {r}, Copy(r, s)
      PROVE Goal
  BY <1>0, <1>2, <1>a DEF Copy, TypeOK, OwnIn, dbVars
<1>3. ASSUME NEW r \in Records, NEW c \in Columns, NEW v \in Words,
             InitWith(r, c, v)
      PROVE Goal
  <2> DEFINE y == [Prepared(rec[r]) EXCEPT !.attr[c] = v, !.state = "unsaved"]
  <2>1. y.id = rec[r].id /\ y.state # "loaded"
    BY <1>a, PreparedType DEF RecType
  <2> QED BY <1>3, <1>b, <2>1 DEF InitWith, dbVars
<1>4. ASSUME NEW r \in Records, NEW c \in Columns, NEW v \in Words,
             Assign(r, c, v)
      PROVE Goal
  <2> DEFINE y == [Loaded(rec[r]) EXCEPT !.attr[c] = v]
  <2>1. Loaded(rec[r]) \in RecType /\ Loaded(rec[r]).id = rec[r].id
    BY <1>0, <1>4, <1>a, LoadedType DEF Assign
  <2>2. Loaded(rec[r]).state = "loaded" => Loaded(rec[r]).id \in stored
    BY <1>0, <1>4, <1>a, LoadedHasRow DEF Assign
  <2>3. y.id = rec[r].id /\ (y.state = "loaded" => y.id \in stored)
    BY <2>1, <2>2 DEF RecType
  <2> QED BY <1>4, <1>b, <2>3 DEF Assign, dbVars
<1>5. ASSUME NEW r \in Records, NEW n \in Names, Read(r, n)
      PROVE Goal
  <2> DEFINE x == Loaded(rec[r])
             y == IF x.attr[n] = Absent THEN [x EXCEPT !.attr[n] = Unset] ELSE x
  <2>1. x \in RecType /\ x.id = rec[r].id
    BY <1>0, <1>5, <1>a, LoadedType DEF Read
  <2>2. x.state = "loaded" => x.id \in stored
    BY <1>0, <1>5, <1>a, LoadedHasRow DEF Read
  <2>3. y.id = rec[r].id /\ (y.state = "loaded" => y.id \in stored)
    BY <2>1, <2>2 DEF RecType
  <2> QED BY <1>5, <1>b, <2>3 DEF Read, dbVars, history
<1>6. ASSUME NEW r \in Records, to_string(r) \/ AccessThrows(r)
      PROVE Goal
  BY <1>0, <1>6, <1>a, <1>b, LoadedId, LoadedHasRow, PreparedHasRow
     DEF to_string, AccessThrows, dbVars, history
<1>7. ASSUME NEW r \in Records, Create(r)
      PROVE Goal
  <2> DEFINE x == Prepared(rec[r])
  <2>1. /\ x \in RecType
        /\ x.id = rec[r].id
        /\ x.state = "loaded" => x.id \in stored
    BY <1>a, PreparedType, PreparedHasRow
  <2>2. CASE SaveThrows(r, x)
    BY <1>b, <2>1, <2>2 DEF SaveThrows, dbVars, history
  <2>3. ASSUME NEW i \in Ids, InsertRow(i, x.attr),
               creator' = [creator EXCEPT ![i] = r],
               made' = [made EXCEPT ![r] = IF @ = 0 THEN 1 ELSE 2],
               SaveReturns(r, Created(x, InsertResult))
        PROVE  Goal
    <3>1. i \notin stored /\ stored' = stored \cup {i} /\ lastRowid' = i
      BY <2>3, BoundAssumption DEF InsertRow, NextRowid, Ids
    <3> HIDE DEF x
    <3>2. Created(x, InsertResult).id = i
      BY <2>1, <3>1 DEF Created, InsertResult, RecType
    <3>3. rec'[r].id = i /\ \A s \in Records : s # r => rec'[s] = rec[s]
      BY <1>0, <2>3, <3>2 DEF SaveReturns, TypeOK
    <3>4. creator'[i] = r /\ \A j \in Ids : j # i => creator'[j] = creator[j]
      BY <1>0, <2>3 DEF TypeOK
    <3>5. \A s \in Records : s # r => made'[s] = made[s]
      BY <1>0, <2>3 DEF TypeOK
    <3>6. OwnIn(rec[r], made[r], r)'
      BY <3>1, <3>3, <3>4 DEF OwnIn
    <3>7. ASSUME NEW s \in Records, s # r
          PROVE  OwnIn(rec[s], made[s], s)'
      <4>1. rec'[s] = rec[s] /\ made'[s] = made[s]
        BY <3>3, <3>5, <3>7
      <4>2. rec[s].id \in stored => creator'[rec[s].id] = creator[rec[s].id]
        BY <1>0, <3>1, <3>4 DEF TypeOK
      <4> QED BY <1>a, <3>1, <4>1, <4>2 DEF OwnIn
    <3> QED BY <3>6, <3>7
  <2> QED BY <1>7, <2>2, <2>3 DEF Create
<1>8. ASSUME NEW r \in Records, Update(r)
      PROVE Goal
  <2>1. CASE SaveThrows(r, Prepared(rec[r]))
    BY <1>a, <1>b, <2>1, LoadedId, PreparedHasRow DEF SaveThrows, dbVars, history
  <2>2. CASE /\ ~LoadThrows(rec[r])
             /\ SaveThrows(r, Loaded(rec[r]))
    BY <1>0, <1>a, <1>b, <2>2, LoadedId, LoadedHasRow
       DEF SaveThrows, dbVars, history
  <2>3. CASE /\ ~LoadThrows(rec[r])
             /\ UNCHANGED <<stored, made, creator>>
             /\ SaveReturns(r, Loaded(rec[r]))
    BY <1>0, <1>a, <1>b, <2>3, LoadedId, LoadedHasRow DEF SaveReturns
  <2> QED BY <1>8, <2>1, <2>2, <2>3 DEF Update, UpdateRow
<1>9. ASSUME NEW i \in Ids, Delete(i)
      PROVE Goal
  BY <1>9 DEF Delete
<1>10. ASSUME UNCHANGED vars
       PROVE Goal
  BY <1>10, <1>a DEF vars, OwnIn
<1>11. Goal
  BY <1>1, <1>2, <1>3, <1>4, <1>5, <1>6, <1>7, <1>8, <1>9, <1>10 DEF Next, Save
<1> QED BY <1>0, <1>11 DEF OwnInv

LEMMA InitOwn == Init => OwnInv
<1> SUFFICES ASSUME Init PROVE OwnInv
  OBVIOUS
<1>1. TypeOK
  BY InitType
<1>2. \A r \in Records : rec[r].state = "blank" /\ made[r] = 0
  BY DEF Init
<1> QED BY <1>1, <1>2 DEF OwnInv, OwnIn

\* While steps succeed and rows stay, the id an object got from create is
\* that of the row it inserted, and no two objects get the same.
THEOREM CreatedIdIsOwnRow ==
  ASSUME ~StepsFail, ~RowsVanish
  PROVE  Spec => []IdIsOwnRow
<1>1. OwnInv /\ [Next]_vars => OwnInv'
  <2> SUFFICES ASSUME OwnInv, [Next]_vars PROVE OwnInv'
    OBVIOUS
  <2> QED BY OwnNext
<1>2. OwnInv => IdIsOwnRow
  BY DEF OwnInv, OwnIn, IdIsOwnRow
<1> QED BY InitOwn, <1>1, <1>2, PTL DEF Spec

\* Only a save of r that returns true ends in the reply Saved(r).
LEMMA SavedReply ==
  ASSUME TypeOK, NEW r \in Records, Next, reply' = Saved(r)
  PROVE  \E x : /\ SaveReturns(r, x)
                /\ Create(r) \/ Update(r)
<1>1. ASSUME NEW s \in Records, NEW x, SaveReturns(s, x)
      PROVE  s = r
  BY <1>1 DEF SaveReturns, Saved
<1>2. Idle # Saved(r)
  BY DEF Idle, Saved
<1>3. ASSUME NEW s \in Records PROVE Threw(s) # Saved(r) /\ SaveThrew(s) # Saved(r)
  BY DEF Threw, SaveThrew, Saved
<1>4. \E s \in Records : Save(s)
  BY <1>2, <1>3
     DEF Next, Construct, Copy, InitWith, Assign, Read, to_string,
         AccessThrows, Delete
<1>5. PICK s \in Records : Save(s)
  BY <1>4
<1>6. \E x : SaveReturns(s, x)
  BY <1>3, <1>5 DEF Save, Create, Update, SaveThrows
<1> QED BY <1>1, <1>5, <1>6 DEF Save

\* The attributes that reach a row are those the object holds.
LEMMA BindWord ==
  ASSUME NEW a \in Words \cup {Absent}, a # Absent
  PROVE  Bind(a) = a
BY SentinelAssumption DEF Bind

LEMMA AssignedStoredStep ==
  ASSUME ~StepsFail, KeptInv, OwnInv, Next,
         NEW r \in Records, NEW c \in Columns,
         reply' = Saved(r), assigned[r][c] # Absent
  PROVE  /\ rec'[r].id \in stored'
         /\ cell'[rec'[r].id][c] = assigned[r][c]
<1> DEFINE v == assigned[r][c]
<1>1. /\ TypeOK
      /\ rec[r] \in RecType
      /\ v \in Words
      /\ KeptIn(rec[r], assigned[r])
      /\ rec[r].state = "loaded" => rec[r].id \in stored
  BY DEF KeptInv, OwnInv, OwnIn, TypeOK, RecType
<1>2. Bind(v) = v
  BY <1>1, BindWord
<1>3. PICK z : SaveReturns(r, z) /\ (Create(r) \/ Update(r))
  BY <1>1, SavedReply
<1>4. reply' # SaveThrew(r)
  BY DEF Saved, SaveThrew
<1>5. CASE Create(r)
  <2> DEFINE x == Prepared(rec[r])
  <2>1. x \in RecType /\ x.attr[c] = v
    BY <1>1, PreparedType, PreparedKeeps DEF KeptIn
  <2>2. PICK i \in Ids : /\ InsertRow(i, x.attr)
                         /\ SaveReturns(r, Created(x, InsertResult))
    BY <1>4, <1>5 DEF Create, SaveThrows
  <2> HIDE DEF x
  <2>3. Created(x, InsertResult).id = i
    BY <2>1, <2>2 DEF Created, InsertResult, InsertRow, RecType
  <2>4. rec'[r].id = i
    BY <1>1, <2>2, <2>3 DEF SaveReturns, TypeOK
  <2>5. cell'[i][c] = Bind(x.attr[c])
    BY <1>1, <2>1, <2>2 DEF InsertRow, TypeOK
  <2> QED BY <1>2, <2>1, <2>2, <2>4, <2>5 DEF InsertRow
<1>6. CASE Update(r)
  <2> DEFINE x == Loaded(rec[r])
  <2>1. /\ ~LoadThrows(rec[r])
        /\ UpdateRow(x.id, x.attr)
        /\ SaveReturns(r, x)
    BY <1>4, <1>6 DEF Update, SaveThrows
  <2>2. x \in RecType /\ x.id = rec[r].id /\ x.attr[c] = v
    BY <1>1, <2>1, LoadedType, LoadedKeeps DEF KeptIn
  <2>3. x.state = "loaded"
    BY <1>1, <1>6, LoadedIsLoaded DEF Update
  <2>4. x.id \in stored
    BY <1>1, <2>1, <2>3, LoadedHasRow
  <2> HIDE DEF x
  <2>5. rec'[r].id = x.id
    BY <1>1, <2>1 DEF SaveReturns, TypeOK
  <2>6. cell'[x.id][c] = Bind(x.attr[c])
    BY <1>1, <2>1, <2>2, <2>4 DEF UpdateRow, TypeOK
  <2> QED BY <1>2, <2>1, <2>2, <2>4, <2>5, <2>6 DEF UpdateRow
<1> QED BY <1>3, <1>5, <1>6

\* While steps succeed, rows stay and init is called only on objects without
\* an id: when save returns true, every value assigned since the last save is
\* in the row of the object.
THEOREM AssignedIsStored ==
  ASSUME ~StepsFail, ~RowsVanish, ~InitIdentified
  PROVE  Spec => AssignedStored
<1> DEFINE Stored == \A r \in Records, c \in Columns :
                       reply' = Saved(r) /\ assigned[r][c] # Absent
                         => /\ rec'[r].id \in stored'
                            /\ cell'[rec'[r].id][c] = assigned[r][c]
<1>1. Init => KeptInv
  <2> SUFFICES ASSUME Init PROVE KeptInv
    OBVIOUS
  <2>1. \A r \in Records : KeptIn(rec[r], assigned[r])
    BY DEF Init, KeptIn, NothingAssigned
  <2> QED BY <2>1, InitType DEF KeptInv
<1>2. KeptInv /\ OwnInv /\ [Next]_vars => KeptInv' /\ OwnInv'
  <2> SUFFICES ASSUME KeptInv, OwnInv, [Next]_vars PROVE KeptInv' /\ OwnInv'
    OBVIOUS
  <2> QED BY KeptNext, OwnNext
<1>3. KeptInv /\ OwnInv /\ [Next]_vars => [Stored]_vars
  <2> SUFFICES ASSUME KeptInv, OwnInv, Next PROVE Stored
    OBVIOUS
  <2> QED BY AssignedStoredStep
<1> QED BY InitOwn, <1>1, <1>2, <1>3, PTL DEF Spec, AssignedStored

-----------------------------------------------------------------------------
(* BaseRecord implements RecordStore.                                      *)
(*                                                                         *)
(* What the abstract first save needs beyond KeptInv: an object without an *)
(* id holds nothing at a column but what the program assigned, or the      *)
(* Attribute() that a read left there.                                     *)

NewIn(x, a) ==
  x.id = Unsaved =>
    \A c \in Columns : a[c] = Absent => x.attr[c] \in {Absent, Unset}

NewInv == \A r \in Records : NewIn(rec[r], assigned[r])

\* create() leaves the id it was given.
LEMMA CreatedId ==
  ASSUME NEW x \in RecType, NEW i
  PROVE  Created(x, i).id = i
BY DEF Created, RecType

LEMMA LoadedNew ==
  ASSUME NEW x \in RecType, NEW a, NewIn(x, a)
  PROVE  NewIn(Loaded(x), a) /\ NewIn(Prepared(x), a)
BY DEF RecType, NewIn, Loaded, NeedsLoad, Prepared

\* A step that replaces one object and, perhaps, what it was assigned.
LEMMA NewStep ==
  ASSUME TypeOK, NewInv, NEW r \in Records, NEW x, NEW a, NewIn(x, a),
         rec' = [rec EXCEPT ![r] = x],
         assigned' = [assigned EXCEPT ![r] = a]
  PROVE  NewInv'
BY DEF TypeOK, NewInv

LEMMA NewStepSame ==
  ASSUME TypeOK, NewInv, NEW r \in Records, NEW x, NewIn(x, assigned[r]),
         rec' = [rec EXCEPT ![r] = x],
         assigned' = assigned
  PROVE  NewInv'
BY DEF TypeOK, NewInv

LEMMA NewNext ==
  ASSUME ~StepsFail, TypeOK, NewInv, [Next]_vars
  PROVE  NewInv'
<1>a. ASSUME NEW r \in Records
      PROVE  /\ rec[r] \in RecType
             /\ assigned[r] \in [Columns -> Words \cup {Absent}]
             /\ NewIn(rec[r], assigned[r])
             /\ NewIn(Loaded(rec[r]), assigned[r])
             /\ NewIn(Prepared(rec[r]), assigned[r])
  <2>1. rec[r] \in RecType /\ NewIn(rec[r], assigned[r])
    BY DEF TypeOK, RecType, NewInv
  <2> QED BY <2>1, LoadedNew DEF TypeOK
<1>1. ASSUME NEW r \in Records, NEW i \in AnyId \ {0}, Construct(r, i)
      PROVE NewInv'
  <2> DEFINE x == [state |-> "blank", id |-> i, attr |-> NoAttributes]
  <2>1. NewIn(x, NothingAssigned)
    BY DEF NewIn, NoAttributes, Names
  <2> HIDE DEF x
  <2> QED BY <1>1, <2>1, NewStep DEF Construct, x
<1>2. ASSUME NEW r \in Records, NEW s \in Records \ {r}, Copy(r, s)
      PROVE NewInv'
  BY <1>2, <1>a, NewStep DEF Copy
<1>3. ASSUME NEW r \in Records, NEW c \in Columns, NEW v \in Words,
             NEW x \in RecType, NewIn(x, assigned[r]),
             NEW y, y.id = x.id, y.attr = [x.attr EXCEPT ![c] = v],
             rec' = [rec EXCEPT ![r] = y],
             assigned' = [assigned EXCEPT ![r][c] = v]
      PROVE  NewInv'
  <2> DEFINE b == [assigned[r] EXCEPT ![c] = v]
  <2>1. c \in Names /\ v # Absent
    BY SentinelAssumption DEF Names
  <2>2. NewIn(y, b)
    BY <1>3, <1>a, <2>1 DEF NewIn, RecType, Names
  <2>3. assigned' = [assigned EXCEPT ![r] = b]
    BY <1>3
  <2> HIDE DEF b
  <2> QED BY <1>3, <2>2, <2>3, NewStep
<1>4. ASSUME NEW r \in Records, NEW c \in Columns, NEW v \in Words,
             InitWith(r, c, v)
      PROVE NewInv'
  <2> DEFINE x == Prepared(rec[r])
             y == [x EXCEPT !.attr[c] = v, !.state = "unsaved"]
  <2>1. x \in RecType /\ NewIn(x, assigned[r])
    BY <1>a, PreparedType
  <2>2. y.id = x.id /\ y.attr = [x.attr EXCEPT ![c] = v]
    <3> HIDE DEF x
    <3> QED BY <2>1 DEF RecType
  <2>3. rec' = [rec EXCEPT ![r] = y] /\ assigned' = [assigned EXCEPT ![r][c] = v]
    BY <1>4 DEF InitWith
  <2> HIDE DEF x, y
  <2> QED BY <1>3, <2>1, <2>2, <2>3
<1>5. ASSUME NEW r \in Records, NEW c \in Columns, NEW v \in Words,
             Assign(r, c, v)
      PROVE NewInv'
  <2> DEFINE x == Loaded(rec[r])
             y == [x EXCEPT !.attr[c] = v]
  <2>1. x \in RecType /\ NewIn(x, assigned[r])
    BY <1>5, <1>a, LoadedType DEF Assign
  <2>2. y.id = x.id /\ y.attr = [x.attr EXCEPT ![c] = v]
    <3> HIDE DEF x
    <3> QED BY <2>1 DEF RecType
  <2>3. rec' = [rec EXCEPT ![r] = y] /\ assigned' = [assigned EXCEPT ![r][c] = v]
    BY <1>5 DEF Assign
  <2> HIDE DEF x, y
  <2> QED BY <1>3, <2>1, <2>2, <2>3
<1>6. ASSUME NEW r \in Records, NEW n \in Names, Read(r, n)
      PROVE NewInv'
  <2> DEFINE x == Loaded(rec[r])
             y == IF x.attr[n] = Absent THEN [x EXCEPT !.attr[n] = Unset] ELSE x
  <2>1. x \in RecType /\ NewIn(x, assigned[r])
    BY <1>6, <1>a, LoadedType DEF Read
  <2>2. NewIn(y, assigned[r])
    <3> HIDE DEF x
    <3> QED BY <2>1 DEF NewIn, RecType, Names
  <2>3. rec' = [rec EXCEPT ![r] = y] /\ assigned' = assigned
    BY <1>6 DEF Read, history
  <2> HIDE DEF y
  <2> QED BY <2>2, <2>3, NewStepSame
<1>7. ASSUME NEW r \in Records, to_string(r) \/ AccessThrows(r)
      PROVE NewInv'
  BY <1>7, <1>a, NewStepSame DEF to_string, AccessThrows, history
<1>8. ASSUME NEW r \in Records, Create(r)
      PROVE NewInv'
  <2> DEFINE x == Prepared(rec[r])
             z == Created(x, InsertResult)
  <2>1. CASE SaveThrows(r, x)
    BY <1>a, <2>1, NewStepSame DEF SaveThrows, history
  <2>2. ASSUME NEW i \in Ids, InsertRow(i, x.attr), SaveReturns(r, z)
        PROVE  NewInv'
    <3>1. x \in RecType
      BY <1>a, PreparedType
    <3>2. z.id = i
      <4>1. lastRowid' = i
        BY <2>2 DEF InsertRow
      <4>2. z = Created(x, i)
        BY <4>1 DEF InsertResult
      <4> HIDE DEF z
      <4> QED BY <3>1, <4>2, CreatedId
    <3> HIDE DEF z
    <3>3. NewIn(z, NothingAssigned)
      BY <3>2, BoundAssumption DEF NewIn, Ids, Unsaved
    <3> QED BY <2>2, <3>3, NewStep DEF SaveReturns, z
  <2> QED BY <1>8, <2>1, <2>2 DEF Create
<1>9. ASSUME NEW r \in Records, Update(r)
      PROVE NewInv'
  <2>1. CASE SaveThrows(r, Prepared(rec[r])) \/ SaveThrows(r, Loaded(rec[r]))
    BY <1>a, <2>1, NewStepSame DEF SaveThrows, history
  <2>2. CASE SaveReturns(r, Loaded(rec[r]))
    <3>1. Loaded(rec[r]).id # Unsaved
      BY <1>9, <1>a, LoadedId DEF Update
    <3>2. NewIn(Loaded(rec[r]), NothingAssigned)
      BY <3>1 DEF NewIn
    <3> QED BY <2>2, <3>2, NewStep DEF SaveReturns
  <2> QED BY <1>9, <2>1, <2>2 DEF Update
<1>10. ASSUME NEW i \in Ids, Delete(i)
       PROVE NewInv'
  BY <1>10 DEF Delete, NewInv
<1>11. CASE UNCHANGED vars
  BY <1>11 DEF vars, NewInv
<1> QED
  BY <1>1, <1>2, <1>4, <1>5, <1>6, <1>7, <1>8, <1>9, <1>10, <1>11 DEF Next, Save

-----------------------------------------------------------------------------
(* What the steps of Base<T> are under the refinement mapping.             *)

\* Replacing one object moves idBar at that object, or leaves it alone.
LEMMA IdBarStep ==
  ASSUME TypeOK, NEW r \in Records, NEW x, rec' = [rec EXCEPT ![r] = x]
  PROVE  /\ idBar' = [idBar EXCEPT ![r] = x.id]
         /\ x.id = rec[r].id => idBar' = idBar
BY DEF TypeOK, idBar

\* A step that leaves the table leaves rowsBar.
LEMMA RowsBarSame ==
  ASSUME stored' = stored, cell' = cell
  PROVE  rowsBar' = rowsBar
BY DEF rowsBar

LEMMA NothingPendingIs == Store!NothingPending = NothingAssigned
BY DEF Store!NothingPending, NothingAssigned

\* A call that only replaces an object's state_ and attributes_ stutters.
LEMMA Stutters ==
  ASSUME TypeOK, NEW r \in Records, NEW x, rec' = [rec EXCEPT ![r] = x],
         x.id = rec[r].id, UNCHANGED dbVars, assigned' = assigned
  PROVE  UNCHANGED Store!storeVars
BY IdBarStep, RowsBarSame DEF Store!storeVars, dbVars

\* InitWith and Assign: one more pending value.
LEMMA AssignMaps ==
  ASSUME TypeOK, NEW r \in Records, NEW x, NEW c \in Columns, NEW v \in Words,
         rec' = [rec EXCEPT ![r] = x], x.id = rec[r].id, UNCHANGED dbVars,
         assigned' = [assigned EXCEPT ![r][c] = v]
  PROVE  Store!Assign(r, c, v)
BY IdBarStep, RowsBarSame DEF Store!Assign, dbVars

LEMMA ConstructMaps ==
  ASSUME TypeOK, NEW r \in Records, NEW i \in AnyId \ {0}, Construct(r, i)
  PROVE  Store!Make(r, i)
<1> DEFINE x == [state |-> "blank", id |-> i, attr |-> NoAttributes]
<1>1. rec' = [rec EXCEPT ![r] = x] /\ x.id = i
  BY DEF Construct
<1> HIDE DEF x
<1>2. idBar' = [idBar EXCEPT ![r] = i]
  BY <1>1, IdBarStep
<1> QED
  BY <1>2, RowsBarSame, NothingPendingIs DEF Construct, Store!Make, dbVars

LEMMA CopyMaps ==
  ASSUME TypeOK, NEW r \in Records, NEW s \in Records \ {r}, Copy(r, s)
  PROVE  Store!CopyTo(r, s)
<1>1. idBar' = [idBar EXCEPT ![s] = rec[r].id]
  BY IdBarStep DEF Copy
<1>2. idBar[r] = rec[r].id
  BY DEF idBar
<1> QED BY <1>1, <1>2, RowsBarSame DEF Copy, Store!CopyTo, dbVars

\* The row that INSERT makes of an object's attributes.
LEMMA InsertMaps ==
  ASSUME TypeOK, NEW r \in Records, NEW x \in RecType, NEW i \in Ids,
         x.id = Unsaved, rec[r].id = Unsaved,
         KeptIn(x, assigned[r]), NewIn(x, assigned[r]),
         InsertRow(i, x.attr),
         assigned' = [assigned EXCEPT ![r] = NothingAssigned],
         idBar' = [idBar EXCEPT ![r] = i]
  PROVE  Store!Insert(r)
<1> DEFINE row == [c \in Columns |-> IF x.attr[c] = Absent THEN Null
                                     ELSE Bind(x.attr[c])]
<1>1. i \notin stored /\ stored' = stored \cup {i}
  BY BoundAssumption DEF InsertRow, NextRowid, Ids
<1>2. row \in [Columns -> Cells]
  BY DEF RecType, Names, Held, Cells, Bind
<1>3. cell'[i] = row /\ \A j \in stored : cell'[j] = cell[j]
  BY <1>1 DEF InsertRow, TypeOK
<1>4. ASSUME NEW c \in Columns
      PROVE  /\ assigned[r][c] # Absent => row[c] = assigned[r][c]
             /\ assigned[r][c] = Absent => row[c] \in {Null, Zero}
  <2>1. assigned[r][c] \in Words \cup {Absent}
    BY DEF TypeOK
  <2>2. CASE assigned[r][c] # Absent
    BY <2>1, <2>2, BindWord, SentinelAssumption DEF KeptIn
  <2>3. CASE assigned[r][c] = Absent
    BY <2>3 DEF NewIn, Bind
  <2> QED BY <2>2, <2>3
<1> HIDE DEF row
<1>5. rowsBar' = [j \in DOMAIN rowsBar \cup {i} |->
                    IF j = i THEN row ELSE rowsBar[j]]
  BY <1>1, <1>3 DEF rowsBar
<1>6. DOMAIN rowsBar = stored /\ idBar[r] = Unsaved
  BY DEF rowsBar, idBar
<1>7. Store!Carries(row, r)
  BY <1>4 DEF Store!Carries
<1>8. /\ i \in Ids \ DOMAIN rowsBar
      /\ \A c \in Columns : assigned[r][c] = Absent => row[c] \in {Null, Zero}
  BY <1>1, <1>4, <1>6
<1> QED
  BY <1>2, <1>5, <1>6, <1>7, <1>8, NothingPendingIs DEF Store!Insert

\* The row that UPDATE makes of the object's row and its attributes.
LEMMA UpdateMaps ==
  ASSUME TypeOK, NEW r \in Records, NEW x \in RecType,
         x.id = rec[r].id, x.id # Unsaved,
         x.id \in stored \/ RowsVanish,
         KeptIn(x, assigned[r]),
         UpdateRow(x.id, x.attr),
         assigned' = [assigned EXCEPT ![r] = NothingAssigned],
         idBar' = idBar
  PROVE  Store!Write(r) \/ Store!WriteNothing(r)
<1> DEFINE i == x.id
<1>1. DOMAIN rowsBar = stored /\ idBar[r] = i
  BY DEF rowsBar, idBar
<1>2. CASE i \notin stored
  <2>1. rowsBar' = rowsBar
    BY <1>2, RowsBarSame DEF UpdateRow
  <2> QED BY <1>1, <1>2, <2>1, NothingPendingIs DEF Store!WriteNothing
<1>3. CASE i \in stored
  <2> DEFINE row == [c \in Columns |-> IF x.attr[c] = Absent THEN cell[i][c]
                                       ELSE Bind(x.attr[c])]
  <2>1. row \in [Columns -> Cells]
    BY <1>3 DEF TypeOK, RecType, Names, Held, Cells, Bind
  <2>2. cell'[i] = row /\ \A j \in stored \ {i} : cell'[j] = cell[j]
    BY <1>3 DEF UpdateRow, TypeOK
  <2>3. ASSUME NEW c \in Columns, assigned[r][c] # Absent
        PROVE  row[c] = assigned[r][c]
    BY <2>3, BindWord DEF KeptIn, TypeOK
  <2>s. stored' = stored
    BY DEF UpdateRow
  <2> HIDE DEF row, i
  <2>4. rowsBar' = [rowsBar EXCEPT ![i] = row]
    BY <1>3, <2>2, <2>s DEF rowsBar
  <2>5. Store!Carries(row, r)
    BY <2>3 DEF Store!Carries
  <2> QED BY <1>1, <1>3, <2>1, <2>4, <2>5, NothingPendingIs DEF Store!Write
<1> QED BY <1>2, <1>3

LEMMA DeleteMaps ==
  ASSUME TypeOK, NEW i \in Ids, Delete(i)
  PROVE  Store!Vanish(i)
<1>1. idBar' = idBar
  BY DEF Delete, idBar
<1>2. rowsBar' = [j \in DOMAIN rowsBar \ {i} |-> rowsBar[j]]
  BY DEF TypeOK, Delete, rowsBar
<1>3. i \in DOMAIN rowsBar
  BY DEF Delete, rowsBar
<1> QED BY <1>1, <1>2, <1>3 DEF Delete, Store!Vanish

-----------------------------------------------------------------------------
(* The refinement.                                                         *)

\* Rows that nobody deletes are there for every loaded object.
MapInv ==
  /\ KeptInv
  /\ NewInv
  /\ ~RowsVanish => OwnInv

LEMMA MapInit == Init => MapInv
<1> SUFFICES ASSUME Init PROVE MapInv
  OBVIOUS
<1>1. \A r \in Records : /\ KeptIn(rec[r], assigned[r])
                         /\ NewIn(rec[r], assigned[r])
  BY DEF Init, KeptIn, NewIn, NothingAssigned, NoAttributes, Names
<1> QED BY <1>1, InitType, InitOwn DEF MapInv, KeptInv, NewInv

LEMMA MapNext ==
  ASSUME ~StepsFail, ~InitIdentified, MapInv, [Next]_vars
  PROVE  MapInv'
<1>1. KeptInv' /\ NewInv'
  BY KeptNext, NewNext DEF MapInv, KeptInv
<1>2. ~RowsVanish => OwnInv'
  BY OwnNext DEF MapInv
<1> QED BY <1>1, <1>2 DEF MapInv

LEMMA CreateMaps ==
  ASSUME ~StepsFail, MapInv, NEW r \in Records, Create(r)
  PROVE  [Store!StoreNext]_(Store!storeVars)
<1> DEFINE x == Prepared(rec[r])
<1>1. /\ TypeOK
      /\ x \in RecType /\ x.id = rec[r].id /\ x.id = Unsaved
      /\ KeptIn(x, assigned[r]) /\ NewIn(x, assigned[r])
  BY PreparedType, PreparedKeeps, LoadedNew
     DEF MapInv, KeptInv, NewInv, TypeOK, RecType, Create
<1>2. CASE SaveThrows(r, x)
  BY <1>1, <1>2, Stutters DEF SaveThrows, history
<1>3. ASSUME NEW i \in Ids, InsertRow(i, x.attr),
             SaveReturns(r, Created(x, InsertResult))
      PROVE  Store!Insert(r)
  <2> DEFINE z == Created(x, i)
  <2>1. rec' = [rec EXCEPT ![r] = z]
    BY <1>3 DEF SaveReturns, InsertResult, InsertRow
  <2>2. z.id = i
    BY <1>1, CreatedId
  <2> HIDE DEF z
  <2>3. idBar' = [idBar EXCEPT ![r] = i]
    BY <1>1, <2>1, <2>2, IdBarStep
  <2> HIDE DEF x
  <2> QED BY <1>1, <1>3, <2>3, InsertMaps DEF SaveReturns
<1> QED BY <1>2, <1>3 DEF Create, Store!StoreNext

LEMMA UpdateMapsSave ==
  ASSUME ~StepsFail, MapInv, NEW r \in Records, Update(r)
  PROVE  [Store!StoreNext]_(Store!storeVars)
<1>1. /\ TypeOK
      /\ rec[r] \in RecType /\ rec[r].id # Unsaved
      /\ KeptIn(rec[r], assigned[r])
      /\ ~RowsVanish => (rec[r].state = "loaded" => rec[r].id \in stored)
  BY DEF MapInv, KeptInv, OwnInv, OwnIn, TypeOK, RecType, Update
<1>2. CASE SaveThrows(r, Prepared(rec[r])) \/ SaveThrows(r, Loaded(rec[r]))
  BY <1>1, <1>2, LoadedId, Stutters DEF SaveThrows, history
<1>3. CASE /\ ~LoadThrows(rec[r])
           /\ UpdateRow(Loaded(rec[r]).id, Loaded(rec[r]).attr)
           /\ SaveReturns(r, Loaded(rec[r]))
  <2> DEFINE x == Loaded(rec[r])
  <2>1. /\ x \in RecType /\ x.id = rec[r].id
        /\ KeptIn(x, assigned[r])
        /\ x.state = "loaded"
    BY <1>1, <1>3, LoadedType, LoadedKeeps, LoadedIsLoaded
  <2>2. x.id \in stored \/ RowsVanish
    BY <1>1, <1>3, <2>1, LoadedHasRow
  <2>3. idBar' = idBar
    BY <1>1, <1>3, <2>1, IdBarStep DEF SaveReturns
  <2>4. Store!Write(r) \/ Store!WriteNothing(r)
    <3> HIDE DEF x
    <3> QED BY <1>1, <1>3, <2>1, <2>2, <2>3, UpdateMaps DEF SaveReturns, x
  <2> QED BY <2>4 DEF Store!StoreNext
<1> QED BY <1>1, <1>2, <1>3 DEF Update

LEMMA NextMaps ==
  ASSUME ~StepsFail, MapInv, [Next]_vars
  PROVE  [Store!StoreNext]_(Store!storeVars)
<1> DEFINE Goal == [Store!StoreNext]_(Store!storeVars)
<1>0. TypeOK
  BY DEF MapInv, KeptInv
<1>a. ASSUME NEW r \in Records PROVE rec[r] \in RecType
  BY <1>0 DEF TypeOK, RecType
<1>1. ASSUME NEW r \in Records, NEW i \in AnyId \ {0}, Construct(r, i)
      PROVE Goal
  BY <1>0, <1>1, ConstructMaps DEF Store!StoreNext, AnyId
<1>2. ASSUME NEW r \in Records, NEW s \in Records \ {r}, Copy(r, s)
      PROVE Goal
  BY <1>0, <1>2, CopyMaps DEF Store!StoreNext
<1>3. ASSUME NEW r \in Records, NEW c \in Columns, NEW v \in Words,
             InitWith(r, c, v) \/ Assign(r, c, v)
      PROVE Goal
  <2>1. CASE InitWith(r, c, v)
    <3> DEFINE x == Prepared(rec[r])
               y == [x EXCEPT !.attr[c] = v, !.state = "unsaved"]
    <3>1. x \in RecType /\ x.id = rec[r].id
      BY <1>a, PreparedType
    <3>2. y.id = rec[r].id
      BY <3>1 DEF RecType
    <3>3. rec' = [rec EXCEPT ![r] = y]
      BY <2>1 DEF InitWith
    <3> HIDE DEF y
    <3>4. Store!Assign(r, c, v)
      BY <1>0, <2>1, <3>2, <3>3, AssignMaps DEF InitWith
    <3> QED BY <3>4 DEF Store!StoreNext
  <2>2. CASE Assign(r, c, v)
    <3> DEFINE x == Loaded(rec[r])
               y == [x EXCEPT !.attr[c] = v]
    <3>1. x \in RecType /\ x.id = rec[r].id
      BY <1>0, <1>a, <2>2, LoadedType DEF Assign
    <3>2. y.id = rec[r].id
      BY <3>1 DEF RecType
    <3>3. rec' = [rec EXCEPT ![r] = y]
      BY <2>2 DEF Assign
    <3> HIDE DEF y
    <3>4. Store!Assign(r, c, v)
      BY <1>0, <2>2, <3>2, <3>3, AssignMaps DEF Assign
    <3> QED BY <3>4 DEF Store!StoreNext
  <2> QED BY <1>3, <2>1, <2>2
<1>4. ASSUME NEW r \in Records, NEW n \in Names, Read(r, n)
      PROVE Goal
  <2> DEFINE x == Loaded(rec[r])
             y == IF x.attr[n] = Absent THEN [x EXCEPT !.attr[n] = Unset] ELSE x
  <2>1. x \in RecType /\ x.id = rec[r].id
    BY <1>0, <1>a, <1>4, LoadedType DEF Read
  <2>2. y.id = rec[r].id
    BY <2>1 DEF RecType
  <2>3. rec' = [rec EXCEPT ![r] = y]
    BY <1>4 DEF Read
  <2> HIDE DEF y
  <2> QED BY <1>0, <1>4, <2>2, <2>3, Stutters DEF Read, history
<1>5. ASSUME NEW r \in Records, to_string(r) \/ AccessThrows(r)
      PROVE Goal
  BY <1>0, <1>a, <1>5, LoadedId, Stutters DEF to_string, AccessThrows, history
<1>6. ASSUME NEW r \in Records, Save(r)
      PROVE Goal
  BY <1>6, CreateMaps, UpdateMapsSave DEF Save
<1>7. ASSUME NEW i \in Ids, Delete(i)
      PROVE Goal
  BY <1>0, <1>7, DeleteMaps DEF Store!StoreNext
<1>8. CASE UNCHANGED vars
  BY <1>8 DEF vars, Store!storeVars, idBar, rowsBar
<1> QED
  BY <1>1, <1>2, <1>3, <1>4, <1>5, <1>6, <1>7, <1>8 DEF Next

LEMMA InitMaps == Init => Store!StoreInit
<1> SUFFICES ASSUME Init PROVE Store!StoreInit
  OBVIOUS
<1>1. idBar = [r \in Records |-> Unsaved]
  BY DEF Init, idBar
<1>2. rowsBar = [i \in {} |-> NothingAssigned]
  BY DEF Init, rowsBar
<1> QED BY <1>1, <1>2, NothingPendingIs DEF Init, Store!StoreInit

\* Base<T> over its table is a record store without hidden loads, for any
\* number of objects, columns and values, whether rows vanish or not, as long
\* as no step fails and init is called on objects without an id only.
THEOREM RecordsImplementStore ==
  ASSUME ~StepsFail, ~InitIdentified
  PROVE  Spec => ImplementsStore
<1>1. MapInv /\ [Next]_vars => MapInv'
  <2> SUFFICES ASSUME MapInv, [Next]_vars PROVE MapInv'
    OBVIOUS
  <2> QED BY MapNext
<1>2. MapInv /\ [Next]_vars => [Store!StoreNext]_(Store!storeVars)
  <2> SUFFICES ASSUME MapInv, [Next]_vars
               PROVE  [Store!StoreNext]_(Store!storeVars)
    OBVIOUS
  <2> QED BY NextMaps
<1> QED
  BY MapInit, InitMaps, <1>1, <1>2, PTL DEF Spec, ImplementsStore, Store!StoreSpec

=============================================================================
