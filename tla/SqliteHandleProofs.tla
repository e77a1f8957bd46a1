------------------------- MODULE SqliteHandleProofs -------------------------
(***************************************************************************)
(* Proofs about SqliteHandle, for every number of connections, addresses   *)
(* and rows and every bound on leaked statements.                          *)
(***************************************************************************)
EXTENDS SqliteHandle, TLAPS

USE DEF Causes, Troubles

-----------------------------------------------------------------------------
(* Type correctness.                                                       *)

LEMMA ClosedType == Closed \in Handle /\ Opened \in Handle
<1>1. 0 \in 0..MaxLeaks
  BY LeakAssumption
<1>2. Closed \in Handle
  BY <1>1 DEF Closed, Handle, Locks
<1>3. Opened \in Handle
  BY <1>2 DEF Opened, Handle
<1> QED BY <1>2, <1>3

\* What SQLite makes of a handle is a handle.
LEMMA HandleType ==
  ASSUME NEW x \in Handle
  PROVE  /\ Reads(x) \in Handle /\ Ended(x) \in Handle
         /\ ReadsToEnd(x) \in Handle
         /\ AfterClose(x) \in Handle
         /\ \A k \in Keys : Writes(x, k) \in Handle
         /\ [x EXCEPT !.tx = TRUE] \in Handle
         /\ [x EXCEPT !.lock = "pending"] \in Handle
<1>1. Reads(x) \in Handle
  BY DEF Handle, Locks, Reads
<1>2. Ended(x) \in Handle
  BY DEF Handle, Locks, Ended, LockLeft
<1>3. ReadsToEnd(x) \in Handle
  BY <1>1 DEF ReadsToEnd
<1>4. AfterClose(x) \in Handle
  BY ClosedType DEF AfterClose
<1>5. ASSUME NEW k \in Keys PROVE Writes(x, k) \in Handle
  BY DEF Handle, Locks, Writes
<1>6. [x EXCEPT !.tx = TRUE] \in Handle
  BY DEF Handle
<1>7. [x EXCEPT !.lock = "pending"] \in Handle
  BY DEF Handle, Locks
<1> QED BY <1>1, <1>2, <1>3, <1>4, <1>5, <1>6, <1>7

LEMMA LeftType ==
  ASSUME NEW x \in Handle, x.idle + x.reading < MaxLeaks
  PROVE  /\ LeavesStatement(x) \in Handle
         /\ [x EXCEPT !.reading = x.reading + 1] \in Handle
<1>1. x.idle + 1 \in 0..MaxLeaks /\ x.reading + 1 \in 0..MaxLeaks
  BY LeakAssumption DEF Handle
<1>2. LeavesStatement(x) \in Handle
  BY <1>1 DEF Handle, LeavesStatement
<1>3. [x EXCEPT !.reading = x.reading + 1] \in Handle
  BY <1>1 DEF Handle
<1> QED BY <1>2, <1>3

\* Reading leaves the counts of statements alone.
LEMMA ReadsCounts ==
  ASSUME NEW x \in Handle
  PROVE  /\ Reads(x).idle = x.idle /\ Reads(x).reading = x.reading
         /\ ReadsToEnd(x).idle = x.idle /\ ReadsToEnd(x).reading = x.reading
BY DEF Handle, Reads, ReadsToEnd

\* What a handle is blamed for is only added to.
LEMMA BlamesAdds ==
  ASSUME TypeOK, NEW h \in Handles, NEW why \in Causes, Blames(h, why)
  PROVE  /\ cause' \in [Handles -> SUBSET Causes]
         /\ \A g \in Handles : cause[g] \subseteq cause'[g]
<1>1. cause \in [Handles -> SUBSET Causes]
  BY DEF TypeOK
<1>2. cause' = [cause EXCEPT ![h] = cause[h] \cup {why}]
  BY DEF Blames
<1>3. cause[h] \cup {why} \in SUBSET Causes
  BY <1>1
<1>4. cause'[h] = cause[h] \cup {why} /\ \A g \in Handles \ {h} : cause'[g] = cause[g]
  BY <1>1, <1>2
<1>5. cause' \in [Handles -> SUBSET Causes]
  BY <1>1, <1>2, <1>3
<1> QED BY <1>4, <1>5

LEMMA ForgetsAdds ==
  ASSUME TypeOK, NEW c \in Conns, Forgets(c)
  PROVE  /\ cause' \in [Handles -> SUBSET Causes]
         /\ \A g \in Handles : cause[g] \subseteq cause'[g]
<1>1. CASE Usable(c)
  <2>1. db_[c] \in Handles
    BY <1>1 DEF TypeOK, Usable
  <2>2. Blames(db_[c], "replaced")
    BY <1>1 DEF Forgets
  <2> QED BY <2>1, <2>2, BlamesAdds DEF Causes
<1>2. CASE ~Usable(c)
  <2>1. cause' = cause
    BY <1>2 DEF Forgets
  <2> QED BY <2>1 DEF TypeOK
<1> QED BY <1>1, <1>2

LEMMA ForgetsType ==
  ASSUME TypeOK, NEW c \in Conns, Forgets(c)
  PROVE  cause' \in [Handles -> SUBSET Causes]
BY ForgetsAdds

LEMMA LeavesUnitAdds ==
  ASSUME TypeOK, NEW c \in Conns, LeavesUnit(c)
  PROVE  /\ cause' \in [Handles -> SUBSET Causes]
         /\ \A g \in Handles : cause[g] \subseteq cause'[g]
<1>1. CASE inUnit[c] /\ Usable(c)
  <2>1. db_[c] \in Handles
    BY <1>1 DEF TypeOK, Usable
  <2>2. Blames(db_[c], "unit left")
    BY <1>1 DEF LeavesUnit
  <2> QED BY <2>1, <2>2, BlamesAdds DEF Causes
<1>2. CASE ~(inUnit[c] /\ Usable(c))
  <2>1. cause' = cause
    BY <1>2 DEF LeavesUnit
  <2> QED BY <2>1 DEF TypeOK
<1> QED BY <1>1, <1>2

LEMMA LeavesUnitType ==
  ASSUME TypeOK, NEW c \in Conns, LeavesUnit(c)
  PROVE  /\ inUnit' \in [Conns -> BOOLEAN]
         /\ unit' \in [Conns -> SUBSET Keys]
         /\ told' \subseteq Keys
         /\ cause' \in [Handles -> SUBSET Causes]
         /\ trouble' \subseteq Troubles
<1>1. inUnit' \in [Conns -> BOOLEAN] /\ unit' \in [Conns -> SUBSET Keys]
  BY DEF TypeOK, LeavesUnit
<1>2. told' \subseteq Keys
  BY DEF TypeOK, LeavesUnit
<1>3. cause' \in [Handles -> SUBSET Causes]
  BY LeavesUnitAdds
<1>4. trouble' \subseteq Troubles
  BY DEF TypeOK, LeavesUnit
<1> QED BY <1>1, <1>2, <1>3, <1>4

LEMMA CommitsType ==
  ASSUME TypeOK, NEW h \in Handles, Commits(h)
  PROVE  /\ handle' \in [Handles -> Handle]
         /\ file' \subseteq Keys
         /\ cause' \in [Handles -> SUBSET Causes]
         /\ trouble' \subseteq Troubles
<1> DEFINE x == handle[h]
<1>1. x \in Handle /\ x.wrote \subseteq Keys
  BY DEF TypeOK, Handle
<1>2. Ended(x) \in Handle /\ [x EXCEPT !.lock = "pending"] \in Handle
  BY <1>1, HandleType
<1>3. CASE x.tx /\ (x.wrote = {} \/ MayCommit(h))
  <2>1. /\ handle' = [handle EXCEPT ![h] = Ended(x)]
        /\ file' = file \cup x.wrote
        /\ cause' = [cause EXCEPT ![h] = @ \cap {"replaced"}]
        /\ UNCHANGED trouble
    BY <1>3 DEF Commits
  <2>2. handle' \in [Handles -> Handle] /\ file' \subseteq Keys
    BY <1>1, <1>2, <2>1 DEF TypeOK
  <2>3. cause' \in [Handles -> SUBSET Causes]
    BY <2>1 DEF TypeOK
  <2> QED BY <2>1, <2>2, <2>3 DEF TypeOK
<1>4. CASE x.tx /\ ~(x.wrote = {} \/ MayCommit(h))
  <2>1. /\ handle' = [handle EXCEPT ![h].lock = "pending"]
        /\ file' = file
        /\ cause' = [cause EXCEPT ![h] = @ \cup {"commit failed"}]
        /\ Fails
    BY <1>4 DEF Commits, Blames
  <2>2. handle' = [handle EXCEPT ![h] = [x EXCEPT !.lock = "pending"]]
    BY <2>1
  <2>3. handle' \in [Handles -> Handle] /\ file' \subseteq Keys
    BY <1>1, <1>2, <2>1, <2>2 DEF TypeOK
  <2>4. cause' \in [Handles -> SUBSET Causes]
    BY <2>1 DEF TypeOK
  <2> QED BY <2>1, <2>3, <2>4 DEF TypeOK, Fails
<1>5. CASE ~x.tx
  BY <1>5 DEF TypeOK, Commits, Fails
<1> QED BY <1>3, <1>4, <1>5

\* Each action preserves the types.
LEMMA TypeStep ==
  ASSUME TypeOK, [Next]_vars
  PROVE  TypeOK'
<1>1. ASSUME NEW c \in Conns, connect(c) PROVE TypeOK'
  <2>1. PICK h \in Handles : /\ handle' = [handle EXCEPT ![h] = Opened]
                             /\ db_' = [db_ EXCEPT ![c] = h]
    BY <1>1 DEF connect
  <2>2. handle' \in [Handles -> Handle] /\ db_' \in [Conns -> Handles \cup {nullptr}]
    BY <2>1, ClosedType DEF TypeOK
  <2>3. cause' \in [Handles -> SUBSET Causes]
    BY <1>1, ForgetsType DEF connect
  <2> QED BY <1>1, <2>2, <2>3 DEF TypeOK, connect, program
<1>2. ASSUME NEW c \in Conns, ConnectFails(c) PROVE TypeOK'
  BY <1>2, ForgetsType DEF TypeOK, ConnectFails, program
<1>3. ASSUME NEW c \in Conns, disconnect(c) PROVE TypeOK'
  <2>1. db_[c] \in Handles
    BY <1>3 DEF TypeOK, disconnect
  <2>2. AfterClose(handle[db_[c]]) \in Handle
    BY <2>1, HandleType DEF TypeOK
  <2>3. handle' \in [Handles -> Handle] /\ cause' \in [Handles -> SUBSET Causes]
    BY <1>3, <2>1, <2>2 DEF TypeOK, disconnect
  <2> QED BY <1>3, <2>3 DEF TypeOK, disconnect, PointerAfterClose
<1>4. ASSUME NEW c \in Conns, NEW k \in Keys, execute(c, k) PROVE TypeOK'
  <2>1. db_[c] \in Handles
    BY <1>4 DEF TypeOK, execute, Usable
  <2>2. Writes(handle[db_[c]], k) \in Handle
    BY <2>1, HandleType DEF TypeOK
  <2>3. handle' \in [Handles -> Handle] /\ file' \subseteq Keys
        /\ trouble' \subseteq Troubles
    <3>1. \/ handle' = handle
          \/ handle' = [handle EXCEPT ![db_[c]] = Writes(handle[db_[c]], k)]
      BY <1>4 DEF execute
    <3>2. file' = file \/ file' = file \cup {k}
      BY <1>4 DEF execute
    <3>3. trouble' = trouble \/ trouble' = trouble \cup {"step failed"}
      BY <1>4 DEF execute, Fails
    <3>4. handle' \in [Handles -> Handle]
      BY <2>1, <2>2, <3>1 DEF TypeOK
    <3> QED BY <3>2, <3>3, <3>4 DEF TypeOK, Troubles
  <2>4. Believes(c, k)
    BY <1>4 DEF execute
  <2>5. unit' \in [Conns -> SUBSET Keys] /\ told' \subseteq Keys
        /\ inUnit' \in [Conns -> BOOLEAN]
    <3>1. CASE inUnit[c]
      <4>1. unit' = [unit EXCEPT ![c] = @ \cup {k}]
            /\ UNCHANGED <<told, inUnit>>
        BY <2>4, <3>1 DEF Believes
      <4> QED BY <4>1 DEF TypeOK
    <3>2. CASE ~inUnit[c]
      BY <2>4, <3>2 DEF TypeOK, Believes
    <3> QED BY <3>1, <3>2
  <2> QED BY <1>4, <2>3, <2>5 DEF TypeOK, execute
<1>5. ASSUME NEW c \in Conns, begin_transaction(c) PROVE TypeOK'
  <2>1. db_[c] \in Handles
    BY <1>5 DEF TypeOK, begin_transaction, Usable
  <2>2. [handle[db_[c]] EXCEPT !.tx = TRUE] \in Handle
    BY <2>1, HandleType DEF TypeOK
  <2> QED BY <1>5, <2>1, <2>2 DEF TypeOK, begin_transaction, Fails
<1>6. ASSUME NEW c \in Conns, commit(c) PROVE TypeOK'
  <2>1. db_[c] \in Handles /\ Commits(db_[c])
    BY <1>6 DEF TypeOK, commit, Usable
  <2> QED BY <1>6, <2>1, CommitsType DEF TypeOK, commit
<1>7. ASSUME NEW c \in Conns, select(c) PROVE TypeOK'
  <2>1. db_[c] \in Handles
    BY <1>7 DEF TypeOK, select, Usable
  <2>2. ReadsToEnd(handle[db_[c]]) \in Handle
    BY <2>1, HandleType DEF TypeOK
  <2> QED BY <1>7, <2>1, <2>2 DEF TypeOK, select, Fails, program
<1>8. ASSUME NEW c \in Conns, select_value(c) PROVE TypeOK'
  <2>1. db_[c] \in Handles
    BY <1>8 DEF TypeOK, select_value, Usable
  <2>2. /\ LeavesStatement(handle[db_[c]]) \in Handle
        /\ LeavesStatement(ReadsToEnd(handle[db_[c]])) \in Handle
    <3> DEFINE x == handle[db_[c]]
    <3>1. x \in Handle /\ x.idle + x.reading < MaxLeaks
      BY <1>8, <2>1 DEF TypeOK, select_value, MayLeave
    <3>2. ReadsToEnd(x) \in Handle /\ ReadsToEnd(x).idle + ReadsToEnd(x).reading < MaxLeaks
      BY <3>1, HandleType, ReadsCounts
    <3> QED BY <3>1, <3>2, LeftType
  <2> QED BY <1>8, <2>1, <2>2 DEF TypeOK, select_value, Fails, program
<1>9. ASSUME NEW c \in Conns, PrepareThrows(c) PROVE TypeOK'
  BY <1>9, LeavesUnitType DEF TypeOK, PrepareThrows
<1>10. ASSUME NEW c \in Conns, RowThrows(c) PROVE TypeOK'
  <2>1. db_[c] \in Handles
    BY <1>10 DEF TypeOK, RowThrows, Usable
  <2> DEFINE x == handle[db_[c]]
  <2>2. x \in Handle /\ x.idle + x.reading < MaxLeaks
    BY <1>10, <2>1 DEF TypeOK, RowThrows, MayLeave
  <2>3. /\ Reads(x) \in Handle
        /\ Reads(x).idle + Reads(x).reading < MaxLeaks
    BY <2>2, HandleType, ReadsCounts
  <2>4. LeavesInRows(x) \in Handle
    BY <2>3, LeftType DEF LeavesInRows
  <2>5. handle' = [handle EXCEPT ![db_[c]] = LeavesInRows(x)]
    BY <1>10 DEF RowThrows
  <2>6. handle' \in [Handles -> Handle]
    BY <2>4, <2>5 DEF TypeOK
  <2> QED BY <1>10, <2>6, LeavesUnitType DEF TypeOK, RowThrows
<1>11. CASE Restart
  BY <1>11, ClosedType DEF TypeOK, Restart
<1>12. CASE UNCHANGED vars
  BY <1>12 DEF TypeOK, vars
<1> QED BY <1>1, <1>2, <1>3, <1>4, <1>5, <1>6, <1>7, <1>8, <1>9, <1>10, <1>11, <1>12 DEF Next

\* Handles, locks and the program's beliefs keep their types.
THEOREM TypeCorrect == Spec => []TypeOK
<1>1. Init => TypeOK
  BY ClosedType DEF Init, TypeOK
<1>2. TypeOK /\ [Next]_vars => TypeOK'
  BY TypeStep
<1> QED BY <1>1, <1>2, PTL DEF Spec

-----------------------------------------------------------------------------
(* A connection's handle is its own.                                       *)

\* Only the opens and disconnect move a pointer or change which handles are
\* open; for every other action it is enough that it does neither.
LEMMA SamePointers ==
  ASSUME TypeOK, OwnHandle, trouble \subseteq trouble', UNCHANGED db_,
         \A h \in Handles : handle[h].open => handle'[h].open
  PROVE  OwnHandle'
BY DEF TypeOK, OwnHandle

LEMMA StaysOpen ==
  ASSUME NEW x \in Handle
  PROVE  /\ Reads(x).open = x.open /\ Ended(x).open = x.open
         /\ ReadsToEnd(x).open = x.open
         /\ LeavesStatement(x).open = x.open
         /\ LeavesInRows(x).open = x.open
         /\ \A k \in Keys : Writes(x, k).open = x.open
BY DEF Handle, Reads, Ended, ReadsToEnd, LeavesStatement, LeavesInRows, Writes

LEMMA OwnStep ==
  ASSUME TypeOK, OwnHandle, [Next]_vars
  PROVE  OwnHandle'
<1>1. ASSUME NEW c \in Conns, connect(c) PROVE OwnHandle'
  <2>1. PICK h \in Handles :
          /\ ~handle[h].open
          /\ handle' = [handle EXCEPT ![h] = Opened]
          /\ db_' = [db_ EXCEPT ![c] = h]
          /\ UNCHANGED trouble
    BY <1>1 DEF connect
  <2>2. handle'[h].open /\ \A g \in Handles \ {h} : handle'[g] = handle[g]
    BY <2>1 DEF TypeOK, Opened, Closed
  <2>3. db_'[c] = h /\ \A d \in Conns \ {c} : db_'[d] = db_[d]
    BY <2>1 DEF TypeOK
  <2>4. ASSUME "open failed" \notin trouble, NEW d \in Conns \ {c}, db_[d] # nullptr
        PROVE  db_[d] \in Handles \ {h} /\ handle[db_[d]].open
    BY <2>1, <2>4 DEF TypeOK, OwnHandle
  <2>5. ASSUME "open failed" \notin trouble, NEW d \in Conns, db_'[d] # nullptr
        PROVE  handle'[db_'[d]].open
    BY <2>2, <2>3, <2>4, <2>5
  <2>6. ASSUME "open failed" \notin trouble, NEW d \in Conns, NEW e \in Conns,
               d # e, db_'[d] # nullptr
        PROVE  db_'[d] # db_'[e]
    <3>1. CASE d = c
      BY <2>3, <2>4, <2>6, <3>1
    <3>2. CASE e = c
      BY <2>3, <2>4, <2>6, <3>2
    <3>3. CASE d # c /\ e # c
      BY <2>3, <2>6, <3>3 DEF OwnHandle
    <3> QED BY <3>1, <3>2, <3>3
  <2> QED BY <2>1, <2>5, <2>6 DEF OwnHandle
<1>2. ASSUME NEW c \in Conns, ConnectFails(c) PROVE OwnHandle'
  BY <1>2 DEF OwnHandle, ConnectFails
<1>3. ASSUME NEW c \in Conns, disconnect(c) PROVE OwnHandle'
  <2>1. db_[c] \in Handles /\ UNCHANGED trouble
    BY <1>3 DEF TypeOK, disconnect
  <2>2. \A g \in Handles \ {db_[c]} : handle'[g] = handle[g]
    BY <1>3, <2>1 DEF TypeOK, disconnect
  <2>3. db_'[c] = nullptr /\ \A d \in Conns \ {c} : db_'[d] = db_[d]
    BY <1>3 DEF TypeOK, disconnect, PointerAfterClose
  <2>4. ASSUME "open failed" \notin trouble, NEW d \in Conns, db_'[d] # nullptr
        PROVE  /\ d # c /\ db_'[d] = db_[d]
               /\ db_[d] \in Handles \ {db_[c]} /\ handle[db_[d]].open
    <3>1. d # c /\ db_'[d] = db_[d]
      BY <2>3, <2>4
    <3>2. db_[d] # db_[c] /\ handle[db_[d]].open
      BY <2>4, <3>1 DEF OwnHandle
    <3>3. db_[d] \in Handles
      BY <2>4, <3>1 DEF TypeOK
    <3> QED BY <3>1, <3>2, <3>3
  <2>5. ASSUME "open failed" \notin trouble, NEW d \in Conns, db_'[d] # nullptr
        PROVE  handle'[db_'[d]].open
    BY <2>2, <2>4, <2>5
  <2>6. ASSUME "open failed" \notin trouble, NEW d \in Conns, NEW e \in Conns,
               d # e, db_'[d] # nullptr
        PROVE  db_'[d] # db_'[e]
    <3>1. d # c /\ db_'[d] = db_[d]
      BY <2>4, <2>6
    <3>2. CASE e = c
      BY <2>3, <2>6, <3>2
    <3>3. CASE e # c
      BY <2>3, <2>6, <3>1, <3>3 DEF OwnHandle
    <3> QED BY <3>2, <3>3
  <2> QED BY <2>1, <2>5, <2>6 DEF OwnHandle
<1>4. ASSUME NEW c \in Conns, NEW k \in Keys, execute(c, k) PROVE OwnHandle'
  <2>1. db_[c] \in Handles /\ handle[db_[c]] \in Handle
    BY <1>4 DEF TypeOK, execute, Usable
  <2>2. Writes(handle[db_[c]], k).open = handle[db_[c]].open
    BY <2>1, StaysOpen
  <2>3. \A h \in Handles : handle[h].open => handle'[h].open
    BY <1>4, <2>1, <2>2 DEF TypeOK, execute
  <2> QED BY <1>4, <2>3, SamePointers DEF execute, Fails
<1>5. ASSUME NEW c \in Conns, begin_transaction(c) PROVE OwnHandle'
  <2>1. db_[c] \in Handles /\ handle[db_[c]] \in Handle
    BY <1>5 DEF TypeOK, begin_transaction, Usable
  <2>2. [handle[db_[c]] EXCEPT !.tx = TRUE].open = handle[db_[c]].open
    BY <2>1 DEF Handle
  <2>3. \A h \in Handles : handle[h].open => handle'[h].open
    BY <1>5, <2>1, <2>2 DEF TypeOK, begin_transaction
  <2> QED BY <1>5, <2>3, SamePointers DEF begin_transaction, Fails
<1>6. ASSUME NEW c \in Conns, commit(c) PROVE OwnHandle'
  <2> DEFINE h == db_[c]
  <2>1. h \in Handles /\ handle[h] \in Handle /\ Commits(h)
    BY <1>6 DEF TypeOK, commit, Usable
  <2>2. /\ Ended(handle[h]).open = handle[h].open
        /\ [handle[h] EXCEPT !.lock = "pending"].open = handle[h].open
    BY <2>1, StaysOpen DEF Handle
  <2>3. \A g \in Handles : handle[g].open => handle'[g].open
    BY <2>1, <2>2 DEF TypeOK, Commits
  <2>4. trouble \subseteq trouble'
    BY <2>1 DEF Commits, Fails
  <2> QED BY <1>6, <2>3, <2>4, SamePointers DEF commit
<1>7. ASSUME NEW c \in Conns, select(c) PROVE OwnHandle'
  <2>1. db_[c] \in Handles /\ handle[db_[c]] \in Handle
    BY <1>7 DEF TypeOK, select, Usable
  <2>2. ReadsToEnd(handle[db_[c]]).open = handle[db_[c]].open
    BY <2>1, StaysOpen
  <2>3. \A h \in Handles : handle[h].open => handle'[h].open
    BY <1>7, <2>1, <2>2 DEF TypeOK, select
  <2> QED BY <1>7, <2>3, SamePointers DEF select, Fails
<1>8. ASSUME NEW c \in Conns, select_value(c) PROVE OwnHandle'
  <2> DEFINE x == handle[db_[c]]
  <2>1. db_[c] \in Handles /\ x \in Handle /\ ReadsToEnd(x) \in Handle
    BY <1>8, HandleType DEF TypeOK, select_value, Usable
  <2>2. /\ LeavesStatement(x).open = x.open
        /\ LeavesStatement(ReadsToEnd(x)).open = x.open
    BY <2>1, StaysOpen
  <2>3. \A h \in Handles : handle[h].open => handle'[h].open
    BY <1>8, <2>1, <2>2 DEF TypeOK, select_value
  <2> QED BY <1>8, <2>3, SamePointers DEF select_value, Fails
<1>9. ASSUME NEW c \in Conns, PrepareThrows(c) PROVE OwnHandle'
  BY <1>9, SamePointers DEF PrepareThrows, LeavesUnit
<1>10. ASSUME NEW c \in Conns, RowThrows(c) PROVE OwnHandle'
  <2>1. db_[c] \in Handles /\ handle[db_[c]] \in Handle
    BY <1>10 DEF TypeOK, RowThrows, Usable
  <2>2. LeavesInRows(handle[db_[c]]).open = handle[db_[c]].open
    BY <2>1, StaysOpen
  <2>3. \A h \in Handles : handle[h].open => handle'[h].open
    BY <1>10, <2>1, <2>2 DEF TypeOK, RowThrows
  <2> QED BY <1>10, <2>3, SamePointers DEF RowThrows, LeavesUnit
<1>11. CASE Restart
  BY <1>11 DEF OwnHandle, Restart
<1>12. CASE UNCHANGED vars
  BY <1>12 DEF OwnHandle, vars
<1> QED BY <1>1, <1>2, <1>3, <1>4, <1>5, <1>6, <1>7, <1>8, <1>9, <1>10, <1>11, <1>12 DEF Next

\* As long as every open succeeds, no sequence of calls, exceptions and
\* restarts leaves a connection with a closed handle, or two with the same.
THEOREM HandleIsOwn == Spec => []OwnHandle
<1>1. Init => OwnHandle
  BY DEF Init, OwnHandle
<1>2. TypeOK /\ OwnHandle /\ [Next]_vars => OwnHandle'
  BY OwnStep
<1> QED BY <1>1, <1>2, TypeCorrect, PTL DEF Spec

-----------------------------------------------------------------------------
(* What is told to be stored is stored.                                    *)

\* While nothing has gone wrong a transaction that is open on a connection's
\* handle is the program's unit, and holds what the program wrote in it,
\* unless that was committed by itself.  (A unit may have no transaction: the
\* handle was replaced by a connect.)
UnitOf(c) ==
  /\ ~inUnit[c] => unit[c] = {}
  /\ db_[c] # nullptr /\ handle[db_[c]].tx =>
       inUnit[c] /\ unit[c] \subseteq file \cup handle[db_[c]].wrote

UnitKept == trouble = {} => \A c \in Conns : UnitOf(c)

DurableInv == Durable /\ UnitKept

\* Nothing one connection does to its own or to a new handle disturbs another.
LEMMA OthersKeep ==
  ASSUME TypeOK, OwnHandle, DurableInv, trouble = {},
         NEW c \in Conns, NEW d \in Conns \ {c},
         file \subseteq file',
         db_'[d] = db_[d], inUnit'[d] = inUnit[d], unit'[d] = unit[d],
         \A g \in Handles : handle[g].open /\ g # db_[c] => handle'[g] = handle[g]
  PROVE  UnitOf(d)'
<1>1. UnitOf(d)
  BY DEF DurableInv, UnitKept
<1>2. CASE db_[d] = nullptr
  BY <1>1, <1>2 DEF UnitOf
<1>3. CASE db_[d] # nullptr
  <2>1. db_[d] \in Handles /\ handle[db_[d]].open /\ db_[d] # db_[c]
    BY <1>3 DEF TypeOK, OwnHandle
  <2>2. handle'[db_[d]] = handle[db_[d]]
    BY <2>1
  <2> QED BY <1>1, <2>2 DEF UnitOf
<1> QED BY <1>2, <1>3

\* What reading and leaving statements does not touch.
LEMMA SameWork ==
  ASSUME NEW x \in Handle
  PROVE  /\ Reads(x).tx = x.tx /\ Reads(x).wrote = x.wrote
         /\ ReadsToEnd(x).tx = x.tx /\ ReadsToEnd(x).wrote = x.wrote
         /\ LeavesStatement(x).tx = x.tx /\ LeavesStatement(x).wrote = x.wrote
         /\ LeavesInRows(x).tx = x.tx /\ LeavesInRows(x).wrote = x.wrote
         /\ \A k \in Keys : /\ Writes(x, k).tx = x.tx
                             /\ Writes(x, k).wrote = x.wrote \cup {k}
BY DEF Handle, Reads, ReadsToEnd, LeavesStatement, LeavesInRows, Writes

\* An action that only reads keeps the invariant.
LEMMA OnlyReads ==
  ASSUME TypeOK, DurableInv, trouble \subseteq trouble',
         UNCHANGED <<db_, file, program>>,
         \A h \in Handles : /\ handle'[h].tx = handle[h].tx
                            /\ handle'[h].wrote = handle[h].wrote
  PROVE  DurableInv'
<1> SUFFICES ASSUME trouble = {} PROVE told' \subseteq file' /\ \A c \in Conns : UnitOf(c)'
  BY DEF DurableInv, Durable, UnitKept
<1>1. told' \subseteq file'
  BY DEF DurableInv, Durable, program
<1>2. ASSUME NEW c \in Conns PROVE UnitOf(c)'
  <2>1. UnitOf(c)
    BY DEF DurableInv, UnitKept
  <2>2. db_[c] # nullptr => db_[c] \in Handles
    BY DEF TypeOK
  <2> QED BY <2>1, <2>2 DEF UnitOf, program
<1> QED BY <1>1, <1>2

LEMMA DurableStep ==
  ASSUME TypeOK, OwnHandle, DurableInv, [Next]_vars
  PROVE  DurableInv'
<1>1. ASSUME NEW c \in Conns, connect(c) PROVE DurableInv'
  <2>1. PICK h \in Handles :
          /\ ~handle[h].open
          /\ handle' = [handle EXCEPT ![h] = Opened]
          /\ db_' = [db_ EXCEPT ![c] = h]
          /\ UNCHANGED <<file, inUnit, unit, told, trouble>>
    BY <1>1 DEF connect, program
  <2>2. ~handle'[h].tx /\ \A g \in Handles \ {h} : handle'[g] = handle[g]
    BY <2>1 DEF TypeOK, Opened, Closed
  <2>3. db_'[c] = h /\ \A d \in Conns \ {c} : db_'[d] = db_[d]
    BY <2>1 DEF TypeOK
  <2> SUFFICES ASSUME trouble = {} PROVE DurableInv'
    BY <2>1 DEF DurableInv, Durable, UnitKept
  <2>4. UnitOf(c)'
    BY <2>1, <2>2, <2>3 DEF DurableInv, UnitKept, UnitOf
  <2>5. \A d \in Conns \ {c} : UnitOf(d)'
    BY <2>1, <2>2, <2>3, OthersKeep
  <2> QED BY <2>1, <2>4, <2>5 DEF DurableInv, Durable, UnitKept
<1>2. ASSUME NEW c \in Conns, ConnectFails(c) PROVE DurableInv'
  BY <1>2 DEF DurableInv, Durable, UnitKept, UnitOf, ConnectFails
<1>3. ASSUME NEW c \in Conns, disconnect(c) PROVE DurableInv'
  <2> SUFFICES ASSUME trouble = {} PROVE DurableInv'
    BY <1>3 DEF disconnect, DurableInv, Durable, UnitKept, UnitOf
  <2>1. db_[c] \in Handles /\ UNCHANGED <<file, told, trouble>>
    BY <1>3 DEF TypeOK, disconnect
  <2>2. \A g \in Handles \ {db_[c]} : handle'[g] = handle[g]
    BY <1>3, <2>1 DEF TypeOK, disconnect
  <2>3. db_'[c] = nullptr /\ \A d \in Conns \ {c} : db_'[d] = db_[d]
    BY <1>3 DEF TypeOK, disconnect, PointerAfterClose
  <2>4. /\ unit'[c] = {}
        /\ \A d \in Conns \ {c} : inUnit'[d] = inUnit[d] /\ unit'[d] = unit[d]
    BY <1>3 DEF TypeOK, disconnect
  <2>5. UnitOf(c)'
    BY <2>3, <2>4 DEF UnitOf
  <2>6. \A d \in Conns \ {c} : UnitOf(d)'
    BY <2>1, <2>2, <2>3, <2>4, OthersKeep
  <2> QED BY <2>1, <2>5, <2>6 DEF DurableInv, Durable, UnitKept
<1>4. ASSUME NEW c \in Conns, NEW k \in Keys, execute(c, k) PROVE DurableInv'
  <2> SUFFICES ASSUME trouble = {}, trouble' = {} PROVE DurableInv'
    BY <1>4 DEF execute, Fails, DurableInv, Durable, UnitKept, UnitOf
  <2> DEFINE h == db_[c]
  <2>1. /\ h \in Handles /\ handle[h] \in Handle /\ h # nullptr
        /\ UNCHANGED db_ /\ Believes(c, k)
    BY <1>4, HandleAssumption DEF TypeOK, execute, Usable
  <2>2. UnitOf(c)
    BY DEF DurableInv, UnitKept
  <2>3. /\ inUnit' = inUnit
        /\ ~inUnit[c] => told' = told \cup {k} /\ unit' = unit
        /\ inUnit[c] => told' = told /\ unit' = [unit EXCEPT ![c] = @ \cup {k}]
    BY <2>1 DEF Believes
  <2>4. \A d \in Conns \ {c} : unit'[d] = unit[d]
    BY <2>3 DEF TypeOK
  <2>5. unit'[c] = IF inUnit[c] THEN unit[c] \cup {k} ELSE unit[c]
    BY <2>3 DEF TypeOK
  <2>6. CASE /\ handle[h].tx
             /\ handle' = [handle EXCEPT ![h] = Writes(@, k)]
             /\ file' = file
    <3>1. /\ handle'[h].tx = handle[h].tx
          /\ handle'[h].wrote = handle[h].wrote \cup {k}
          /\ \A g \in Handles \ {h} : handle'[g] = handle[g]
      <4>1. handle'[h] = Writes(handle[h], k)
        BY <2>1, <2>6 DEF TypeOK
      <4>2. \A g \in Handles \ {h} : handle'[g] = handle[g]
        BY <2>6 DEF TypeOK
      <4> QED BY <2>1, <4>1, <4>2, SameWork
    <3>2. inUnit[c]
      BY <2>1, <2>2, <2>6 DEF UnitOf
    <3>3. UnitOf(c)'
      BY <2>1, <2>2, <2>3, <2>5, <2>6, <3>1, <3>2 DEF UnitOf
    <3>4. \A d \in Conns \ {c} : UnitOf(d)'
      BY <2>1, <2>3, <2>4, <2>6, <3>1, OthersKeep
    <3>5. Durable'
      BY <2>3, <2>6, <3>2 DEF DurableInv, Durable
    <3> QED BY <3>3, <3>4, <3>5 DEF DurableInv, UnitKept
  <2>7. CASE /\ ~handle[h].tx
             /\ handle' = handle
             /\ file' = file \cup {k}
    <3>1. UnitOf(c)'
      BY <2>1, <2>2, <2>3, <2>5, <2>7 DEF UnitOf
    <3>2. \A d \in Conns \ {c} : UnitOf(d)'
      BY <2>1, <2>3, <2>4, <2>7, OthersKeep
    <3>3. Durable'
      BY <2>3, <2>7 DEF DurableInv, Durable
    <3> QED BY <3>1, <3>2, <3>3 DEF DurableInv, UnitKept
  <2> QED BY <1>4, <2>6, <2>7 DEF execute, Fails
<1>5. ASSUME NEW c \in Conns, begin_transaction(c) PROVE DurableInv'
  <2> SUFFICES ASSUME trouble = {}, trouble' = {} PROVE DurableInv'
    BY <1>5 DEF begin_transaction, Fails, DurableInv, Durable, UnitKept, UnitOf
  <2> DEFINE h == db_[c]
  <2>1. /\ h \in Handles /\ h # nullptr /\ ~inUnit[c]
        /\ UNCHANGED <<db_, file, unit, told>>
        /\ inUnit' = [inUnit EXCEPT ![c] = TRUE]
    BY <1>5 DEF TypeOK, begin_transaction, Usable
  <2>2. handle' = [handle EXCEPT ![h].tx = TRUE]
    BY <1>5 DEF begin_transaction, Fails
  <2>3. \A g \in Handles \ {h} : handle'[g] = handle[g]
    BY <2>2 DEF TypeOK
  <2>4. unit[c] = {}
    BY <2>1 DEF DurableInv, UnitKept, UnitOf
  <2>5. inUnit'[c] /\ \A d \in Conns \ {c} : inUnit'[d] = inUnit[d]
    BY <2>1 DEF TypeOK
  <2>6. UnitOf(c)'
    BY <2>1, <2>4, <2>5 DEF UnitOf
  <2>7. \A d \in Conns \ {c} : UnitOf(d)'
    BY <2>1, <2>3, <2>5, OthersKeep
  <2> QED BY <2>1, <2>6, <2>7 DEF DurableInv, Durable, UnitKept
<1>6. ASSUME NEW c \in Conns, commit(c) PROVE DurableInv'
  <2> DEFINE h == db_[c]
  <2>1. h \in Handles /\ handle[h] \in Handle /\ h # nullptr /\ Commits(h)
    BY <1>6 DEF TypeOK, commit, Usable
  <2>2. trouble \subseteq trouble'
    BY <2>1 DEF Commits, Fails
  <2> SUFFICES ASSUME trouble = {}, trouble' = {} PROVE DurableInv'
    BY <2>2 DEF DurableInv, Durable, UnitKept, UnitOf
  <2>3. /\ handle[h].tx
        /\ file' = file \cup handle[h].wrote
        /\ handle' = [handle EXCEPT ![h] = Ended(@)]
    BY <2>1 DEF Commits, Fails
  <2>4. ~handle'[h].tx /\ \A g \in Handles \ {h} : handle'[g] = handle[g]
    BY <2>1, <2>3 DEF TypeOK, Handle, Ended
  <2>5. unit[c] \subseteq file'
    BY <2>1, <2>3 DEF DurableInv, UnitKept, UnitOf
  <2>6. /\ UNCHANGED db_ /\ told' = told \cup unit[c] /\ unit'[c] = {}
        /\ \A d \in Conns \ {c} : inUnit'[d] = inUnit[d] /\ unit'[d] = unit[d]
    BY <1>6 DEF TypeOK, commit
  <2>7. Durable'
    BY <2>3, <2>5, <2>6 DEF DurableInv, Durable
  <2>8. UnitOf(c)'
    BY <2>4, <2>6 DEF UnitOf
  <2>9. \A d \in Conns \ {c} : UnitOf(d)'
    BY <2>1, <2>3, <2>4, <2>6, OthersKeep
  <2> QED BY <2>7, <2>8, <2>9 DEF DurableInv, UnitKept
<1>7. ASSUME NEW c \in Conns, select(c) PROVE DurableInv'
  <2>1. db_[c] \in Handles /\ handle[db_[c]] \in Handle
    BY <1>7 DEF TypeOK, select, Usable
  <2>2. \A h \in Handles : /\ handle'[h].tx = handle[h].tx
                          /\ handle'[h].wrote = handle[h].wrote
    <3>1. handle' = handle \/ handle' = [handle EXCEPT ![db_[c]] = ReadsToEnd(handle[db_[c]])]
      BY <1>7 DEF select
    <3>2. /\ ReadsToEnd(handle[db_[c]]).tx = handle[db_[c]].tx
          /\ ReadsToEnd(handle[db_[c]]).wrote = handle[db_[c]].wrote
      BY <2>1, SameWork
    <3> QED BY <3>1, <3>2 DEF TypeOK
  <2> QED BY <1>7, <2>2, OnlyReads DEF select, Fails
<1>8. ASSUME NEW c \in Conns, select_value(c) PROVE DurableInv'
  <2> DEFINE x == handle[db_[c]]
  <2>1. db_[c] \in Handles /\ x \in Handle /\ ReadsToEnd(x) \in Handle
    BY <1>8, HandleType DEF TypeOK, select_value, Usable
  <2>2. \A y \in {LeavesStatement(x), LeavesStatement(ReadsToEnd(x))} :
          y.tx = x.tx /\ y.wrote = x.wrote
    BY <2>1, SameWork
  <2>3. \A h \in Handles : /\ handle'[h].tx = handle[h].tx
                          /\ handle'[h].wrote = handle[h].wrote
    BY <1>8, <2>1, <2>2 DEF TypeOK, select_value
  <2> QED BY <1>8, <2>3, OnlyReads DEF select_value, Fails
<1>9. ASSUME NEW c \in Conns, LeavesUnit(c), UNCHANGED <<db_, file>>,
             \A h \in Handles : /\ handle'[h].tx = handle[h].tx
                                /\ handle'[h].wrote = handle[h].wrote
      PROVE  DurableInv'
  <2>1. CASE inUnit[c]
    BY <1>9, <2>1 DEF LeavesUnit, DurableInv, Durable, UnitKept, UnitOf
  <2>2. CASE ~inUnit[c]
    <3> SUFFICES ASSUME trouble = {} PROVE DurableInv'
      BY <1>9, <2>2 DEF LeavesUnit, DurableInv, Durable, UnitKept, UnitOf
    <3>1. unit[c] = {}
      BY <2>2 DEF DurableInv, UnitKept, UnitOf
    <3>2. UNCHANGED <<inUnit, unit, told, trouble>>
      BY <1>9, <2>2, <3>1 DEF TypeOK, LeavesUnit
    <3> QED BY <1>9, <3>2, OnlyReads DEF program
  <2> QED BY <2>1, <2>2
<1>10. ASSUME NEW c \in Conns, PrepareThrows(c) PROVE DurableInv'
  BY <1>9, <1>10 DEF PrepareThrows
<1>11. ASSUME NEW c \in Conns, RowThrows(c) PROVE DurableInv'
  <2>1. db_[c] \in Handles /\ handle[db_[c]] \in Handle
    BY <1>11 DEF TypeOK, RowThrows, Usable
  <2>2. \A h \in Handles : /\ handle'[h].tx = handle[h].tx
                          /\ handle'[h].wrote = handle[h].wrote
    BY <1>11, <2>1, SameWork DEF TypeOK, RowThrows
  <2> QED BY <1>9, <1>11, <2>2 DEF RowThrows
<1>12. CASE Restart
  BY <1>12 DEF DurableInv, Durable, UnitKept, UnitOf, Restart
<1>13. CASE UNCHANGED vars
  BY <1>13 DEF DurableInv, Durable, UnitKept, UnitOf, vars
<1> QED BY <1>1, <1>2, <1>3, <1>4, <1>5, <1>6, <1>7, <1>8, <1>10, <1>11, <1>12, <1>13 DEF Next

\* Whatever the number of connections and whatever order their calls come in,
\* what the program may take for stored is in the file as long as no step
\* failed, no open failed and no exception left a transaction.
THEOREM ToldIsStored == Spec => []Durable
<1>1. Init => DurableInv
  BY DEF Init, DurableInv, Durable, UnitKept, UnitOf, Closed
<1>2. TypeOK /\ OwnHandle /\ DurableInv /\ [Next]_vars => DurableInv'
  BY DurableStep
<1>3. DurableInv => Durable
  BY DEF DurableInv
<1> QED BY <1>1, <1>2, <1>3, TypeCorrect, HandleIsOwn, PTL DEF Spec

-----------------------------------------------------------------------------
(* Every lock that is held has a reason.                                   *)

\* A lock comes with a transaction or with a statement that is not at its end.
LockOf(x) == x.lock # "none" => x.tx \/ x.reading > 0

\* Why a transaction is open: a unit that is under way, a cause on record, or
\* a handle that could not be closed and that nobody points to any more.
TxHasReason(h) ==
  handle[h].tx =>
    \/ InUnitOf(h)
    \/ cause[h] # {}
    \/ Orphan(h) /\ ~Closes(handle[h])

ReasonInv ==
  "open failed" \notin trouble =>
    \A h \in Handles : LockOf(handle[h]) /\ TxHasReason(h)

LEMMA ClosedWork == LockOf(Closed) /\ ~Closed.tx
BY DEF Closed, LockOf

\* A handle that cannot be closed has a statement of one kind or the other.
LEMMA LeftOpen ==
  ASSUME NEW x \in Handle, ~Closes(x)
  PROVE  x.reading > 0 \/ x.idle > 0
<1>1. x.idle \in Nat /\ x.reading \in Nat
  BY LeakAssumption DEF Handle
<1> QED BY <1>1 DEF Closes

LEMMA LockOfWork ==
  ASSUME NEW x \in Handle, LockOf(x)
  PROVE  /\ LockOf(Ended(x)) /\ LockOf(ReadsToEnd(x))
         /\ LockOf(LeavesStatement(x)) /\ LockOf(LeavesInRows(x))
         /\ LockOf(AfterClose(x))
         /\ LockOf([x EXCEPT !.tx = TRUE])
         /\ x.tx => LockOf([x EXCEPT !.lock = "pending"])
         /\ \A k \in Keys : x.tx => LockOf(Writes(x, k))
<1>0. x.reading \in 0..MaxLeaks /\ MaxLeaks \in Nat
  BY LeakAssumption DEF Handle
<1>1. LockOf(Ended(x)) /\ LockOf(ReadsToEnd(x))
  BY <1>0 DEF LockOf, Ended, LockLeft, ReadsToEnd, Reads, Handle
<1>2. LockOf(LeavesStatement(x))
  BY DEF LockOf, LeavesStatement, Handle
<1>3. LockOf(LeavesInRows(x))
  <2>1. Reads(x) \in Handle /\ Reads(x).reading = x.reading
    BY HandleType, ReadsCounts
  <2>2. LeavesInRows(x).reading = x.reading + 1
    BY <2>1 DEF LeavesInRows, Handle
  <2> QED BY <1>0, <2>2 DEF LockOf
<1>4. LockOf(AfterClose(x))
  BY DEF LockOf, AfterClose, Closed
<1>5. LockOf([x EXCEPT !.tx = TRUE])
  BY DEF LockOf, Handle
<1>6. x.tx => LockOf([x EXCEPT !.lock = "pending"])
  BY DEF LockOf, Handle
<1>7. ASSUME NEW k \in Keys, x.tx PROVE LockOf(Writes(x, k))
  BY <1>7 DEF LockOf, Writes, Handle
<1> QED BY <1>1, <1>2, <1>3, <1>4, <1>5, <1>6, <1>7

\* What a connection does to its own handle gives no other a new reason to be
\* looked for.
LEMMA ReasonKept ==
  ASSUME TypeOK, ReasonInv, trouble \subseteq trouble', UNCHANGED db_,
         NEW c \in Conns, db_[c] \in Handles,
         \A g \in Handles \ {db_[c]} : handle'[g] = handle[g] /\ cause'[g] = cause[g],
         \A d \in Conns \ {c} : inUnit'[d] = inUnit[d],
         "open failed" \notin trouble =>
           LockOf(handle'[db_[c]]) /\ TxHasReason(db_[c])'
  PROVE  ReasonInv'
<1> SUFFICES ASSUME "open failed" \notin trouble', NEW g \in Handles
             PROVE  LockOf(handle'[g]) /\ TxHasReason(g)'
  BY DEF ReasonInv, LockOf
<1>1. CASE g = db_[c]
  BY <1>1
<1>2. CASE g # db_[c]
  <2>1. LockOf(handle[g]) /\ TxHasReason(g)
    BY DEF ReasonInv
  <2>2. InUnitOf(g) => InUnitOf(g)'
    BY <1>2 DEF InUnitOf
  <2>3. Orphan(g) => Orphan(g)'
    BY DEF Orphan
  <2> QED BY <1>2, <2>1, <2>2, <2>3 DEF TxHasReason
<1> QED BY <1>1, <1>2

\* A call that neither opens nor ends a transaction, in a unit that goes on.
LEMMA ReasonSame ==
  ASSUME TypeOK, ReasonInv, trouble \subseteq trouble', UNCHANGED <<db_, cause>>,
         NEW c \in Conns, db_[c] \in Handles,
         \A g \in Handles \ {db_[c]} : handle'[g] = handle[g],
         UNCHANGED inUnit,
         handle'[db_[c]].tx => handle[db_[c]].tx,
         LockOf(handle[db_[c]]) => LockOf(handle'[db_[c]])
  PROVE  ReasonInv'
<1>1. ASSUME "open failed" \notin trouble
      PROVE  LockOf(handle'[db_[c]]) /\ TxHasReason(db_[c])'
  <2>1. LockOf(handle[db_[c]]) /\ TxHasReason(db_[c])
    BY <1>1 DEF ReasonInv
  <2> QED BY <2>1 DEF TxHasReason, InUnitOf, Orphan
<1> QED BY <1>1, ReasonKept

\* An exception blames the handle it leaves in a transaction.
LEMMA ReasonLeft ==
  ASSUME TypeOK, OwnHandle, ReasonInv, UNCHANGED db_,
         NEW c \in Conns, LeavesUnit(c),
         \A g \in Handles : /\ handle'[g].tx = handle[g].tx
                            /\ LockOf(handle[g]) => LockOf(handle'[g])
                            /\ Orphan(g) => handle'[g] = handle[g]
  PROVE  ReasonInv'
<1> SUFFICES ASSUME "open failed" \notin trouble', NEW g \in Handles
             PROVE  LockOf(handle'[g]) /\ TxHasReason(g)'
  BY DEF ReasonInv, LockOf
<1>1. trouble \subseteq trouble'
  BY DEF LeavesUnit
<1>2. LockOf(handle[g]) /\ TxHasReason(g)
  BY <1>1 DEF ReasonInv
<1>3. cause[g] \subseteq cause'[g]
  BY LeavesUnitAdds
<1>4. Orphan(g) => Orphan(g)'
  BY DEF Orphan
<1>5. ASSUME InUnitOf(g) PROVE InUnitOf(g)' \/ cause'[g] # {}
  <2>1. PICK d \in Conns : db_[d] = g /\ inUnit[d]
    BY <1>5 DEF InUnitOf
  <2>2. CASE d # c
    BY <2>1, <2>2 DEF InUnitOf, TypeOK, LeavesUnit
  <2>3. CASE d = c
    <3>1. Usable(c)
      BY <1>1, <2>1, <2>3, HandleAssumption DEF OwnHandle, Usable
    <3>2. cause' = [cause EXCEPT ![g] = @ \cup {"unit left"}]
      BY <2>1, <2>3, <3>1 DEF LeavesUnit, Blames
    <3> QED BY <3>2 DEF TypeOK
  <2> QED BY <2>2, <2>3
<1> QED BY <1>2, <1>3, <1>4, <1>5 DEF TxHasReason

LEMMA ReasonStep ==
  ASSUME TypeOK, OwnHandle, ReasonInv, [Next]_vars
  PROVE  ReasonInv'
<1>1. ASSUME NEW c \in Conns, connect(c) PROVE ReasonInv'
  <2>1. PICK h \in Handles :
          /\ ~handle[h].open
          /\ handle' = [handle EXCEPT ![h] = Opened]
          /\ db_' = [db_ EXCEPT ![c] = h]
          /\ UNCHANGED <<inUnit, trouble>>
    BY <1>1 DEF connect, program
  <2>2. Forgets(c)
    BY <1>1 DEF connect
  <2> SUFFICES ASSUME "open failed" \notin trouble, NEW g \in Handles
               PROVE  LockOf(handle'[g]) /\ TxHasReason(g)'
    BY <2>1 DEF ReasonInv, LockOf
  <2>3. LockOf(handle[g]) /\ TxHasReason(g)
    BY DEF ReasonInv
  <2>4. CASE g = h
    BY <2>1, <2>4 DEF TypeOK, Opened, Closed, LockOf, TxHasReason
  <2>5. CASE g # h
    <3>1. handle'[g] = handle[g]
      BY <2>1, <2>5 DEF TypeOK
    <3>2. cause[g] \subseteq cause'[g]
      BY <2>2, ForgetsAdds
    <3>3. Orphan(g) => Orphan(g)'
      BY <2>1, <2>5 DEF TypeOK, Orphan
    <3>4. ASSUME InUnitOf(g) PROVE InUnitOf(g)' \/ cause'[g] # {}
      <4>1. PICK d \in Conns : db_[d] = g /\ inUnit[d]
        BY <3>4 DEF InUnitOf
      <4>2. CASE d # c
        BY <2>1, <4>1, <4>2 DEF InUnitOf, TypeOK
      <4>3. CASE d = c
        <5>1. Usable(c)
          BY <4>1, <4>3, HandleAssumption DEF OwnHandle, Usable
        <5>2. cause' = [cause EXCEPT ![g] = @ \cup {"replaced"}]
          BY <2>2, <4>1, <4>3, <5>1 DEF Forgets, Blames
        <5> QED BY <5>2 DEF TypeOK
      <4> QED BY <4>2, <4>3
    <3> QED BY <2>3, <3>1, <3>2, <3>3, <3>4 DEF TxHasReason
  <2> QED BY <2>4, <2>5
<1>2. ASSUME NEW c \in Conns, ConnectFails(c) PROVE ReasonInv'
  BY <1>2 DEF ReasonInv, ConnectFails
<1>3. ASSUME NEW c \in Conns, disconnect(c) PROVE ReasonInv'
  <2>1. PICK h \in Handles : db_[c] = h /\ UNCHANGED trouble
    BY <1>3 DEF TypeOK, disconnect
  <2>2. \A g \in Handles \ {h} : handle'[g] = handle[g] /\ cause'[g] = cause[g]
    BY <1>3, <2>1 DEF TypeOK, disconnect
  <2>3. db_'[c] = nullptr /\ \A d \in Conns \ {c} : db_'[d] = db_[d]
    BY <1>3 DEF TypeOK, disconnect, PointerAfterClose
  <2>4. \A d \in Conns \ {c} : inUnit'[d] = inUnit[d]
    BY <1>3 DEF TypeOK, disconnect
  <2> SUFFICES ASSUME "open failed" \notin trouble, NEW g \in Handles
               PROVE  LockOf(handle'[g]) /\ TxHasReason(g)'
    BY <2>1 DEF ReasonInv, LockOf
  <2>5. LockOf(handle[g]) /\ TxHasReason(g)
    BY DEF ReasonInv
  <2>6. CASE g # h
    <3>1. InUnitOf(g) => InUnitOf(g)'
      BY <2>1, <2>3, <2>4, <2>6 DEF InUnitOf
    <3>2. Orphan(g) => Orphan(g)'
      BY <2>3, HandleAssumption DEF Orphan
    <3> QED BY <2>2, <2>5, <2>6, <3>1, <3>2 DEF TxHasReason
  <2>7. CASE g = h
    <3>1. handle[h].open
      BY <2>1, HandleAssumption DEF OwnHandle
    <3>2. handle'[h] = AfterClose(handle[h])
      BY <1>3, <2>1, <3>1 DEF TypeOK, disconnect
    <3>3. Orphan(h)'
      <4>1. \A d \in Conns \ {c} : db_[d] # h
        BY <2>1, HandleAssumption DEF OwnHandle
      <4> QED BY <2>1, <2>3, <4>1, HandleAssumption DEF Orphan
    <3>4. LockOf(handle'[h])
      BY <2>1, <2>5, <2>7, <3>2, LockOfWork DEF TypeOK
    <3>5. TxHasReason(h)'
      BY <3>2, <3>3, ClosedWork DEF TxHasReason, AfterClose
    <3> QED BY <2>7, <3>4, <3>5
  <2> QED BY <2>6, <2>7
<1>4. ASSUME NEW c \in Conns, NEW k \in Keys, execute(c, k) PROVE ReasonInv'
  <2> DEFINE h == db_[c]
  <2>1. h \in Handles /\ handle[h] \in Handle
    BY <1>4 DEF TypeOK, execute, Usable
  <2>2. \A g \in Handles \ {h} : handle'[g] = handle[g]
    BY <1>4, <2>1 DEF TypeOK, execute
  <2>3. /\ handle'[h].tx => handle[h].tx
        /\ LockOf(handle[h]) => LockOf(handle'[h])
    <3>1. CASE handle[h].tx /\ handle' = [handle EXCEPT ![h] = Writes(@, k)]
      <4>1. handle'[h] = Writes(handle[h], k)
        BY <2>1, <3>1 DEF TypeOK
      <4> QED BY <2>1, <3>1, <4>1, LockOfWork
    <3>2. CASE handle' = handle
      BY <3>2
    <3> QED BY <1>4, <3>1, <3>2 DEF execute
  <2>4. UNCHANGED inUnit
    BY <1>4 DEF execute, Believes
  <2> QED BY <1>4, <2>1, <2>2, <2>3, <2>4, ReasonSame DEF execute, Fails
<1>5. ASSUME NEW c \in Conns, begin_transaction(c) PROVE ReasonInv'
  <2>1. PICK h \in Handles : db_[c] = h /\ handle[h] \in Handle
    BY <1>5 DEF TypeOK, begin_transaction, Usable
  <2>2. \A g \in Handles \ {h} : handle'[g] = handle[g] /\ cause'[g] = cause[g]
    BY <1>5, <2>1 DEF TypeOK, begin_transaction
  <2>3. /\ inUnit'[c] /\ \A d \in Conns \ {c} : inUnit'[d] = inUnit[d]
        /\ UNCHANGED db_
    BY <1>5 DEF TypeOK, begin_transaction
  <2>4. ASSUME "open failed" \notin trouble
        PROVE  LockOf(handle'[h]) /\ TxHasReason(h)'
    <3>1. LockOf(handle[h])
      BY <2>1, <2>4 DEF ReasonInv
    <3>2. handle'[h] \in {handle[h], [handle[h] EXCEPT !.tx = TRUE]}
      BY <1>5, <2>1 DEF TypeOK, begin_transaction
    <3>3. LockOf(handle'[h])
      BY <2>1, <3>1, <3>2, LockOfWork
    <3> QED BY <2>1, <2>3, <3>3 DEF TxHasReason, InUnitOf
  <2>5. trouble \subseteq trouble'
    BY <1>5 DEF begin_transaction, Fails
  <2> QED BY <2>1, <2>2, <2>3, <2>4, <2>5, ReasonKept
<1>6. ASSUME NEW c \in Conns, commit(c) PROVE ReasonInv'
  <2>1. PICK h \in Handles : db_[c] = h /\ handle[h] \in Handle /\ Commits(h)
    BY <1>6 DEF TypeOK, commit, Usable
  <2>2. \A g \in Handles \ {h} : handle'[g] = handle[g] /\ cause'[g] = cause[g]
    BY <2>1 DEF TypeOK, Commits, Blames
  <2>3. /\ UNCHANGED db_
        /\ \A d \in Conns \ {c} : inUnit'[d] = inUnit[d]
    BY <1>6 DEF TypeOK, commit
  <2>4. ASSUME "open failed" \notin trouble
        PROVE  LockOf(handle'[h]) /\ TxHasReason(h)'
    <3>1. LockOf(handle[h])
      BY <2>1, <2>4 DEF ReasonInv
    <3>2. CASE handle[h].tx /\ handle' = [handle EXCEPT ![h] = Ended(@)]
      <4>1. handle'[h] = Ended(handle[h])
        BY <2>1, <3>2 DEF TypeOK
      <4> QED BY <2>1, <3>1, <4>1, LockOfWork DEF TxHasReason, Ended, Handle
    <3>3. CASE /\ handle[h].tx /\ handle' = [handle EXCEPT ![h].lock = "pending"]
               /\ Blames(h, "commit failed")
      <4>1. handle'[h] = [handle[h] EXCEPT !.lock = "pending"]
        BY <2>1, <3>3 DEF TypeOK
      <4>2. "commit failed" \in cause'[h]
        BY <2>1, <3>3 DEF TypeOK, Blames
      <4> QED BY <2>1, <3>1, <3>3, <4>1, <4>2, LockOfWork DEF TxHasReason
    <3>4. CASE ~handle[h].tx /\ handle' = handle
      BY <3>1, <3>4 DEF TxHasReason
    <3> QED BY <2>1, <3>2, <3>3, <3>4 DEF Commits
  <2>5. trouble \subseteq trouble'
    BY <2>1 DEF Commits, Fails
  <2> QED BY <2>1, <2>2, <2>3, <2>4, <2>5, ReasonKept
<1>7. ASSUME NEW c \in Conns, select(c) PROVE ReasonInv'
  <2> DEFINE x == handle[db_[c]]
  <2>1. db_[c] \in Handles /\ x \in Handle
    BY <1>7 DEF TypeOK, select, Usable
  <2>2. handle'[db_[c]] \in {x, ReadsToEnd(x)}
    BY <1>7, <2>1 DEF TypeOK, select
  <2>3. /\ handle'[db_[c]].tx => x.tx
        /\ LockOf(x) => LockOf(handle'[db_[c]])
    BY <2>1, <2>2, LockOfWork, SameWork
  <2>4. \A g \in Handles \ {db_[c]} : handle'[g] = handle[g]
    BY <1>7, <2>1 DEF TypeOK, select
  <2> QED BY <1>7, <2>1, <2>3, <2>4, ReasonSame DEF select, Fails, program
<1>8. ASSUME NEW c \in Conns, select_value(c) PROVE ReasonInv'
  <2> DEFINE x == handle[db_[c]]
  <2>1. db_[c] \in Handles /\ x \in Handle /\ ReadsToEnd(x) \in Handle
    BY <1>8, HandleType DEF TypeOK, select_value, Usable
  <2>2. handle'[db_[c]] \in {LeavesStatement(x), LeavesStatement(ReadsToEnd(x))}
    BY <1>8, <2>1 DEF TypeOK, select_value
  <2> DEFINE y == ReadsToEnd(x)
  <2>5. LockOf(x) => LockOf(LeavesStatement(x)) /\ LockOf(y)
    BY <2>1, LockOfWork
  <2>6. LockOf(y) => LockOf(LeavesStatement(y))
    BY <2>1, LockOfWork
  <2>7. LeavesStatement(x).tx = x.tx /\ LeavesStatement(y).tx = x.tx
    BY <2>1, SameWork
  <2>3. /\ handle'[db_[c]].tx => x.tx
        /\ LockOf(x) => LockOf(handle'[db_[c]])
    BY <2>2, <2>5, <2>6, <2>7
  <2>4. \A g \in Handles \ {db_[c]} : handle'[g] = handle[g]
    BY <1>8, <2>1 DEF TypeOK, select_value
  <2> QED BY <1>8, <2>1, <2>3, <2>4, ReasonSame DEF select_value, Fails, program
<1>9. ASSUME NEW c \in Conns, PrepareThrows(c) PROVE ReasonInv'
  BY <1>9, ReasonLeft DEF PrepareThrows
<1>10. ASSUME NEW c \in Conns, RowThrows(c) PROVE ReasonInv'
  <2> DEFINE x == handle[db_[c]]
  <2>1. db_[c] \in Handles /\ x \in Handle
    BY <1>10 DEF TypeOK, RowThrows, Usable
  <2>2. /\ handle'[db_[c]] = LeavesInRows(x)
        /\ \A g \in Handles \ {db_[c]} : handle'[g] = handle[g]
    BY <1>10, <2>1 DEF TypeOK, RowThrows
  <2>3. \A g \in Handles :
          /\ handle'[g].tx = handle[g].tx
          /\ LockOf(handle[g]) => LockOf(handle'[g])
          /\ Orphan(g) => handle'[g] = handle[g]
    <3>1. LockOf(x) => LockOf(LeavesInRows(x))
      BY <2>1, LockOfWork
    <3>2. LeavesInRows(x).tx = x.tx
      BY <2>1, SameWork
    <3>3. ~Orphan(db_[c])
      BY DEF Orphan
    <3> QED BY <2>1, <2>2, <3>1, <3>2, <3>3, Zenon
  <2>4. UNCHANGED db_ /\ LeavesUnit(c)
    BY <1>10 DEF RowThrows
  <2> QED BY <2>3, <2>4, ReasonLeft
<1>11. CASE Restart
  <2>1. \A h \in Handles : handle'[h] = Closed
    BY <1>11 DEF Restart
  <2> QED BY <2>1, ClosedWork DEF ReasonInv, TxHasReason
<1>12. CASE UNCHANGED vars
  BY <1>12 DEF ReasonInv, TxHasReason, InUnitOf, Orphan, vars
<1> QED BY <1>1, <1>2, <1>3, <1>4, <1>5, <1>6, <1>7, <1>8, <1>9, <1>10, <1>11, <1>12 DEF Next

\* As long as every open succeeds, no interleaving of connections leaves a
\* lock that is held for none of the five reasons.
THEOREM LocksHaveReasons == Spec => []LockHasReason
<1>1. Init => ReasonInv
  BY DEF Init, ReasonInv, LockOf, TxHasReason, Closed
<1>2. TypeOK /\ OwnHandle /\ ReasonInv /\ [Next]_vars => ReasonInv'
  BY ReasonStep
<1>3. TypeOK /\ ReasonInv => LockHasReason
  <2> SUFFICES ASSUME TypeOK, ReasonInv, "open failed" \notin trouble,
                      NEW h \in Handles, handle[h].lock # "none"
               PROVE  \/ InUnitOf(h)
                      \/ handle[h].reading > 0
                      \/ cause[h] # {}
                      \/ Orphan(h) /\ handle[h].idle > 0
    BY DEF LockHasReason
  <2>1. handle[h].tx \/ handle[h].reading > 0
    BY DEF ReasonInv, LockOf
  <2>2. TxHasReason(h)
    BY DEF ReasonInv
  <2>3. ~Closes(handle[h]) => handle[h].reading > 0 \/ handle[h].idle > 0
    BY LeftOpen DEF TypeOK
  <2> QED BY <2>1, <2>2, <2>3, Zenon DEF TxHasReason
<1> QED BY <1>1, <1>2, <1>3, TypeCorrect, HandleIsOwn, PTL DEF Spec

-----------------------------------------------------------------------------
(* No handle is lost.                                                      *)

\* What connections that keep their pointers do leaves an orphan as it is.
LEMMA OrphansKept ==
  ASSUME TypeOK, NoOrphans, UNCHANGED db_, NEW c \in Conns,
         \A g \in Handles \ {db_[c]} : handle'[g] = handle[g] /\ cause[g] \subseteq cause'[g]
  PROVE  NoOrphans'
BY DEF NoOrphans, Orphan

LEMMA NoOrphansStep ==
  ASSUME TypeOK, NoOrphans, [Next]_vars
  PROVE  NoOrphans'
<1>1. ASSUME NEW c \in Conns, NEW h \in Handles,
             \A g \in Handles \ {h} : handle'[g] = handle[g],
             db_' = [db_ EXCEPT ![c] = h], Forgets(c)
      PROVE  NoOrphans'
  <2> SUFFICES ASSUME NEW g \in Handles, handle'[g].open, Orphan(g)'
               PROVE  ~Closes(handle'[g]) \/ "replaced" \in cause'[g]
    BY DEF NoOrphans
  <2>1. g # h
    BY <1>1 DEF TypeOK, Orphan
  <2>2. handle'[g] = handle[g]
    BY <1>1, <2>1
  <2>3. CASE db_[c] = g
    <3>1. Usable(c)
      BY <2>2, <2>3, HandleAssumption DEF Usable
    <3>2. cause' = [cause EXCEPT ![g] = @ \cup {"replaced"}]
      BY <1>1, <2>3, <3>1 DEF Forgets, Blames
    <3> QED BY <3>2 DEF TypeOK
  <2>4. CASE db_[c] # g
    <3>1. Orphan(g)
      BY <1>1, <2>4 DEF TypeOK, Orphan
    <3>2. cause[g] \subseteq cause'[g]
      BY <1>1, ForgetsAdds
    <3> QED BY <2>2, <3>1, <3>2 DEF NoOrphans
  <2> QED BY <2>3, <2>4
<1>2. ASSUME NEW c \in Conns, connect(c) PROVE NoOrphans'
  <2>1. PICK h \in Handles :
          /\ handle' = [handle EXCEPT ![h] = Opened]
          /\ db_' = [db_ EXCEPT ![c] = h]
    BY <1>2 DEF connect
  <2>2. \A g \in Handles \ {h} : handle'[g] = handle[g]
    BY <2>1 DEF TypeOK
  <2> QED BY <1>1, <1>2, <2>1, <2>2 DEF connect
<1>3. ASSUME NEW c \in Conns, ConnectFails(c) PROVE NoOrphans'
  BY <1>1, <1>3 DEF ConnectFails
<1>4. ASSUME NEW c \in Conns, disconnect(c) PROVE NoOrphans'
  <2> DEFINE h == db_[c]
  <2>1. h \in Handles
    BY <1>4 DEF TypeOK, disconnect
  <2>2. \A g \in Handles \ {h} : handle'[g] = handle[g] /\ cause'[g] = cause[g]
    BY <1>4, <2>1 DEF TypeOK, disconnect
  <2>3. \A d \in Conns \ {c} : db_'[d] = db_[d]
    BY <1>4 DEF TypeOK, disconnect
  <2> SUFFICES ASSUME NEW g \in Handles, handle'[g].open, Orphan(g)'
               PROVE  ~Closes(handle'[g]) \/ "replaced" \in cause'[g]
    BY DEF NoOrphans
  <2>4. CASE g # h
    <3>1. Orphan(g)
      BY <2>3, <2>4 DEF Orphan
    <3> QED BY <2>2, <2>4, <3>1 DEF NoOrphans
  <2>5. CASE g = h
    <3>1. handle[h].open /\ handle'[h] = AfterClose(handle[h])
      BY <1>4, <2>1, <2>5 DEF TypeOK, disconnect
    <3> QED BY <2>5, <3>1 DEF AfterClose, Closed
  <2> QED BY <2>4, <2>5
<1>5. ASSUME NEW c \in Conns, NEW k \in Keys, execute(c, k) PROVE NoOrphans'
  <2>1. \A g \in Handles \ {db_[c]} : handle'[g] = handle[g]
    BY <1>5 DEF TypeOK, execute
  <2> QED BY <1>5, <2>1, OrphansKept DEF execute
<1>6. ASSUME NEW c \in Conns, begin_transaction(c) PROVE NoOrphans'
  <2>1. \A g \in Handles \ {db_[c]} : handle'[g] = handle[g]
    BY <1>6 DEF TypeOK, begin_transaction
  <2> QED BY <1>6, <2>1, OrphansKept DEF begin_transaction
<1>7. ASSUME NEW c \in Conns, commit(c) PROVE NoOrphans'
  <2>1. \A g \in Handles \ {db_[c]} : handle'[g] = handle[g] /\ cause'[g] = cause[g]
    BY <1>7 DEF TypeOK, commit, Commits, Blames
  <2> QED BY <1>7, <2>1, OrphansKept DEF commit
<1>8. ASSUME NEW c \in Conns, select(c) PROVE NoOrphans'
  <2>1. \A g \in Handles \ {db_[c]} : handle'[g] = handle[g]
    BY <1>8 DEF TypeOK, select
  <2> QED BY <1>8, <2>1, OrphansKept DEF select
<1>9. ASSUME NEW c \in Conns, select_value(c) PROVE NoOrphans'
  <2>1. \A g \in Handles \ {db_[c]} : handle'[g] = handle[g]
    BY <1>9 DEF TypeOK, select_value
  <2> QED BY <1>9, <2>1, OrphansKept DEF select_value
<1>10. ASSUME NEW c \in Conns, PrepareThrows(c) PROVE NoOrphans'
  <2>1. \A g \in Handles \ {db_[c]} : handle'[g] = handle[g] /\ cause'[g] = cause[g]
    BY <1>10 DEF TypeOK, PrepareThrows, LeavesUnit, Blames
  <2> QED BY <1>10, <2>1, OrphansKept DEF PrepareThrows
<1>11. ASSUME NEW c \in Conns, RowThrows(c) PROVE NoOrphans'
  <2>1. \A g \in Handles \ {db_[c]} : handle'[g] = handle[g] /\ cause'[g] = cause[g]
    BY <1>11 DEF TypeOK, RowThrows, LeavesUnit, Blames
  <2> QED BY <1>11, <2>1, OrphansKept DEF RowThrows
<1>12. CASE Restart
  BY <1>12 DEF NoOrphans, Restart, Closed
<1>13. CASE UNCHANGED vars
  BY <1>13 DEF NoOrphans, Orphan, vars
<1> QED BY <1>2, <1>3, <1>4, <1>5, <1>6, <1>7, <1>8, <1>9, <1>10, <1>11, <1>12, <1>13 DEF Next

\* Even when an open fails, a handle that no connection points to is closed,
\* holds a statement that was left on it, or was replaced by a connect.
THEOREM HandlesAreClosed == Spec => []NoOrphans
<1>1. Init => NoOrphans
  BY DEF Init, NoOrphans, Closed
<1>2. TypeOK /\ NoOrphans /\ [Next]_vars => NoOrphans'
  BY NoOrphansStep
<1> QED BY <1>1, <1>2, TypeCorrect, PTL DEF Spec

=============================================================================
