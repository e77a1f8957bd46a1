-------------------------- MODULE AssociationsProofs --------------------------
(***************************************************************************)
(* Proofs about Associations, for every set of objects and classes and     *)
(* every bound on rowids and rows.                                         *)
(***************************************************************************)
EXTENDS Associations, QueryClausesProofs

-----------------------------------------------------------------------------
(* Rowids, rows and answers.                                               *)

\* The rowid of a new row is not that of another one.
LEMMA NewRowid ==
  ASSUME NEW table, DOMAIN table \subseteq Ids
  PROVE  NextRowid(table) \notin DOMAIN table
<1> DEFINE D == DOMAIN table
           From == D \cup {0}
           Above(j) == {i \in D : i > j}
           T == {Above(j) : j \in From}
<1>1. D \subseteq Nat /\ From \subseteq 0..MaxId /\ IsFiniteSet(D)
  <2>1. IsFiniteSet(Ids)
    BY AssociationsAssumption, FS_Interval DEF Ids
  <2> QED BY <2>1, FS_Subset, AssociationsAssumption DEF Ids
<1>2. PICK m \in From : \A j \in From : ~(Above(j) \subseteq Above(m) /\ Above(j) # Above(m))
  <2>1. T \subseteq FiniteSubsetsOf(D) /\ T # {}
    <3>1. \A j \in From : IsFiniteSet(Above(j))
      BY <1>1, FS_Subset
    <3> QED BY <3>1 DEF FiniteSubsetsOf
  <2>2. PICK x \in T : \A y \in T : <<y, x>> \notin StrictSubsetOrdering(D)
    <3> HIDE DEF T
    <3> QED BY <2>1, FS_StrictSubsetOrderingWellFounded, WFMin
  <2>3. PICK m \in From : x = Above(m)
    OBVIOUS
  <2>4. \A j \in From : <<Above(j), x>> \notin StrictSubsetOrdering(D)
    BY <2>2
  <2>5. \A j \in From : Above(j) \subseteq x => Above(j) = x
    BY <2>3, <2>4 DEF StrictSubsetOrdering
  <2> QED BY <2>3, <2>5
<1>3. \A i \in D : i <= m
  <2> SUFFICES ASSUME NEW i \in D, i > m PROVE FALSE
    BY <1>1
  <2>1. Above(i) \subseteq Above(m)
    BY <1>1
  <2>2. i \in Above(m) /\ i \notin Above(i)
    BY <1>1
  <2> QED BY <1>2, <2>1, <2>2
<1> DEFINE n == CHOOSE k \in 0..MaxId :
                  k \in DOMAIN table \cup {0} /\ \A i \in DOMAIN table : i <= k
<1>4. n \in 0..MaxId /\ \A i \in DOMAIN table : i <= n
  BY <1>1, <1>3
<1>5. NextRowid(table) = 1 + n
  BY DEF NextRowid
<1> HIDE DEF n
<1> QED BY <1>1, <1>4, <1>5

LEMMA ExtendedRows ==
  ASSUME NEW table, NEW i, NEW row
  PROVE  /\ DOMAIN Extended(table, i, row) = DOMAIN table \cup {i}
         /\ Extended(table, i, row)[i] = row
         /\ \A j \in DOMAIN table : j # i => Extended(table, i, row)[j] = table[j]
BY DEF Extended

LEMMA WithoutRows ==
  ASSUME NEW table, NEW i
  PROVE  /\ DOMAIN Without(table, i) = DOMAIN table \ {i}
         /\ \A j \in DOMAIN table \ {i} : Without(table, i)[j] = table[j]
BY DEF Without

\* The books of a library, as the rows say.
BooksOf(id) == {i \in DOMAIN bookRow : bookRow[i].library_id = id}

\* all() with the condition of has_many gives each book of the library, once.
LEMMA ItsBooksAre ==
  ASSUME DOMAIN bookRow \subseteq Ids, NEW id,
         NEW a \in all(ItsBooks(id), BookTable, "sqlite")
  PROVE  /\ ~a.threw
         /\ IdsGiven(a) = BooksOf(id)
         /\ Len(a.ids) = Cardinality(IdsGiven(a))
<1> DEFINE c == [column |-> "library_id", value |-> id, place |-> 0]
<1>0. PICK q : q = ItsBooks(id)
  OBVIOUS
<1>1. /\ q.conditions = <<c>> /\ q.orderings = <<>>
      /\ q.limit = -1 /\ q.offset = 0
  BY <1>0 DEF ItsBooks, Empty, INVALID_LIMIT
<1>2. Formed(q)
  <2>1. <<c>> \in Seq({c}) /\ <<>> \in Seq({c})
    OBVIOUS
  <2>2. q.conditions \in Seq({c}) /\ q.orderings \in Seq({c})
    BY <1>1, <2>1
  <2>3. q.limit \in Int /\ q.offset \in Int
    BY <1>1
  <2> QED BY <2>2, <2>3 DEF Formed
<1>3. Fruitful(q, "sqlite")
  BY <1>1 DEF Fruitful, Once
<1>4. Found(q, BookTable) = BooksOf(id)
  <2>1. DOMAIN BookTable = DOMAIN bookRow
        /\ \A i \in DOMAIN bookRow : BookTable[i].library_id = bookRow[i].library_id
    BY DEF BookTable
  <2>2. ASSUME NEW i \in DOMAIN bookRow
        PROVE  Meets(BookTable[i], q.conditions) <=> bookRow[i].library_id = id
    <3>1. DOMAIN q.conditions = {1} /\ q.conditions[1] = c
      BY <1>1
    <3> QED BY <2>1, <3>1 DEF Meets
  <2> QED BY <2>1, <2>2 DEF Found, BooksOf
<1>5. IsFiniteSet(BooksOf(id))
  <2>1. IsFiniteSet(Ids)
    BY AssociationsAssumption, FS_Interval DEF Ids
  <2> QED BY <2>1, FS_Subset DEF BooksOf
<1>6. PICK s \in Arrangements(BookTable, BooksOf(id), q.orderings) :
        a = Gives(Window(s, q.limit, q.offset))
  BY <1>0, <1>2, <1>3, <1>4, AnswersAre DEF all
<1>7. /\ s \in Seq(BooksOf(id)) /\ Len(s) = Cardinality(BooksOf(id))
      /\ \A k \in BooksOf(id) : \E n \in DOMAIN s : s[n] = k
  BY <1>5, <1>6, Arranged
<1>8. Window(s, q.limit, q.offset) = s
  <2>1. Window(s, -1, 0) = SubSeq(s, 1, Len(s))
    BY DEF Window
  <2> QED BY <1>1, <1>7, <2>1, SubSeqFull
<1>9. ~a.threw /\ a.ids = s
  BY <1>6, <1>8 DEF Gives
<1>10. IdsGiven(a) = BooksOf(id)
  <2>1. \A n \in DOMAIN s : s[n] \in BooksOf(id)
    BY <1>7
  <2> QED BY <1>7, <1>9, <2>1 DEF IdsGiven
<1> QED BY <1>7, <1>9, <1>10

\* What has_many gives of a loaded library is its books, or an exception when
\* the class or the table of the books is not there.
LEMMA HasManyGives ==
  ASSUME DOMAIN bookRow \subseteq Ids, NEW x, NEW a \in HasMany(x)
  PROVE  /\ ~a.threw => IdsGiven(a) = BooksOf(x.id)
         /\ a.threw => a = Threw
<1>1. CASE a \in all(ItsBooks(x.id), BookTable, "sqlite")
  BY <1>1, ItsBooksAre
<1>2. CASE a = Threw
  BY <1>2 DEF Threw
<1> QED BY <1>1, <1>2 DEF HasMany

-----------------------------------------------------------------------------
(* Types.                                                                  *)

RegistryType ==
  /\ tables_ \in [Classes -> {"absent", "empty", "set"}]
  /\ connection_ \subseteq Classes /\ exists \subseteq Classes
  /\ early \subseteq Classes
  /\ down \in BOOLEAN

RowsType ==
  /\ DOMAIN libraryRow \subseteq Ids
  /\ libraryRow \in [DOMAIN libraryRow -> 1..MaxBorn]
  /\ DOMAIN bookRow \subseteq Ids /\ bookRow \in [DOMAIN bookRow -> BookRow]
  /\ born \in 0..MaxBorn /\ dead \subseteq 1..MaxBorn

ObjectsType ==
  /\ library \in [Objects -> Library]
  /\ books \in [Ids -> Book]
  /\ of \in Refs /\ changed \subseteq Ids

LEMMA TypeParts == TypeOK <=> RegistryType /\ RowsType /\ ObjectsType
BY DEF TypeOK, RegistryType, RowsType, ObjectsType

USE DEF registry, rows, results

\* A class is looked up, or none is.
LEMMA LookUpType ==
  ASSUME RegistryType, NEW c \in Classes, Follows(c) \/ get_table(c) \/ UNCHANGED registry
  PROVE  RegistryType' /\ early \subseteq early'
BY DEF RegistryType, Follows, get_table

LEMMA Named == {"Library", "Book"} \subseteq Classes
BY AssociationsAssumption

LEMMA RegistryTypeStep ==
  ASSUME RegistryType, [Next]_vars
  PROVE  RegistryType' /\ (early \subseteq early' \/ Restart)
<1>1. ASSUME NEW c \in Classes, setup(c) PROVE RegistryType' /\ early \subseteq early'
  BY <1>1 DEF RegistryType, setup, Registers
<1>2. ASSUME NEW c \in Classes, Use(c) PROVE RegistryType' /\ early \subseteq early'
  BY <1>2, LookUpType DEF Use
<1>3. CASE update_database
  <2>1. UNCHANGED <<tables_, connection_, early>> /\ down' \in {TRUE, down}
    BY <1>3 DEF update_database
  <2>2. exists' \subseteq Classes
    <3>1. \E S \in SUBSET {c \in Classes : tables_[c] = "set"} : exists' = exists \cup S
      BY <1>3 DEF update_database
    <3> QED BY <3>1 DEF RegistryType
  <2> QED BY <2>1, <2>2 DEF RegistryType
<1>4. ASSUME NEW o \in Objects,
             \/ Construct(o) \/ init(o) \/ save(o) \/ access(o) \/ has_many(o) \/ NewBook(o)
             \/ \E i \in Ids : MoveBook(i, o)
      PROVE  RegistryType' /\ early \subseteq early'
  BY <1>4, LookUpType, Named
  DEF Construct, init, save, access, has_many, NewBook, MoveBook, PreparesOf
<1>5. ASSUME NEW i \in Ids, accessBook(i) PROVE RegistryType' /\ early \subseteq early'
  BY <1>5, LookUpType, Named DEF accessBook
<1>6. CASE InsertLibrary \/ DeleteLibrary \/ DeleteBook \/ UNCHANGED vars
  BY <1>6 DEF InsertLibrary, DeleteLibrary, DeleteBook, vars, RegistryType
<1>7. CASE Restart
  BY <1>7 DEF Restart, RegistryType
<1> QED BY <1>1, <1>2, <1>3, <1>4, <1>5, <1>6, <1>7 DEF Next

LEMMA ExtendedLibraries ==
  ASSUME RowsType, born < MaxBorn, NEW i \in Ids,
         libraryRow' = Extended(libraryRow, i, born + 1), born' = born + 1,
         UNCHANGED <<bookRow, dead>>
  PROVE  RowsType'
<1>1. born + 1 \in 1..MaxBorn /\ born + 1 \in 0..MaxBorn
  BY AssociationsAssumption DEF RowsType
<1>2. /\ DOMAIN libraryRow' \subseteq Ids
      /\ libraryRow' \in [DOMAIN libraryRow' -> 1..MaxBorn]
  BY <1>1 DEF Extended, RowsType
<1> QED BY <1>1, <1>2 DEF RowsType

LEMMA ExtendedBooks ==
  ASSUME RowsType, NEW i \in Ids, NEW row \in BookRow,
         bookRow' = Extended(bookRow, i, row), UNCHANGED <<libraryRow, born, dead>>
  PROVE  RowsType'
<1>1. DOMAIN bookRow' \subseteq Ids /\ bookRow' \in [DOMAIN bookRow' -> BookRow]
  BY DEF Extended, RowsType
<1> QED BY <1>1 DEF RowsType

\* What the program means by an object is a library or none.
LEMMA MeantType ==
  ASSUME RowsType, ObjectsType, NEW o \in Objects
  PROVE  [library_id |-> library[o].id, meant |-> Meant(library[o])] \in BookRow
<1>1. library[o].id \in Refs /\ library[o].row \in 0..MaxBorn
  BY DEF ObjectsType, Library
<1>2. Meant(library[o]) \in 0..MaxBorn
  BY <1>1, AssociationsAssumption DEF Meant, RowsType
<1> QED BY <1>1, <1>2 DEF BookRow

LEMMA RowsTypeStep ==
  ASSUME RowsType, ObjectsType, [Next]_vars
  PROVE  RowsType'
<1>1. ASSUME NEW o \in Objects, save(o) PROVE RowsType'
  <2>1. CASE Reaches(library[o])
    BY <1>1, <2>1, ExtendedLibraries DEF save
  <2>2. CASE ~Reaches(library[o])
    BY <1>1, <2>2 DEF save, RowsType
  <2> QED BY <2>1, <2>2
<1>2. CASE InsertLibrary
  BY <1>2, ExtendedLibraries DEF InsertLibrary
<1>3. CASE DeleteLibrary
  <2>1. PICK i \in DOMAIN libraryRow :
          libraryRow' = Without(libraryRow, i) /\ dead' = dead \cup {libraryRow[i]}
    BY <1>3 DEF DeleteLibrary
  <2> QED BY <1>3, <2>1 DEF DeleteLibrary, RowsType, Without
<1>4. CASE DeleteBook
  <2>1. PICK i \in DOMAIN bookRow : bookRow' = Without(bookRow, i)
    BY <1>4 DEF DeleteBook
  <2> QED BY <1>4, <2>1 DEF DeleteBook, RowsType, Without
<1>5. ASSUME NEW o \in Objects, NewBook(o) PROVE RowsType'
  <2> DEFINE i == NextRowid(bookRow)
             row == [library_id |-> library[o].id, meant |-> Meant(library[o])]
  <2>1. /\ i \in Ids /\ UNCHANGED <<libraryRow, born, dead>>
        /\ bookRow' = Extended(bookRow, i, row) \/ UNCHANGED bookRow
    BY <1>5 DEF NewBook
  <2>2. row \in BookRow
    BY MeantType
  <2> HIDE DEF i, row
  <2>3. CASE UNCHANGED bookRow
    BY <2>1, <2>3 DEF RowsType
  <2> QED BY <2>1, <2>2, <2>3, ExtendedBooks
<1>6. ASSUME NEW o \in Objects, NEW i \in Ids, MoveBook(i, o) PROVE RowsType'
  <2> DEFINE row == [library_id |-> library[o].id, meant |-> Meant(library[o])]
  <2>1. /\ UNCHANGED <<libraryRow, born, dead>>
        /\ (i \in DOMAIN bookRow /\ bookRow' = [bookRow EXCEPT ![i] = row]) \/ UNCHANGED bookRow
    BY <1>6 DEF MoveBook
  <2>2. row \in BookRow
    BY MeantType
  <2> HIDE DEF row
  <2> QED BY <2>1, <2>2 DEF RowsType
<1>7. ASSUME UNCHANGED rows PROVE RowsType'
  BY <1>7 DEF RowsType
<1>8. ASSUME NEW o \in Objects, Construct(o) \/ init(o) \/ access(o) \/ has_many(o)
      PROVE  UNCHANGED rows
  BY <1>8 DEF Construct, init, access, has_many
<1>9. ASSUME NEW c \in Classes, setup(c) \/ Use(c) PROVE UNCHANGED rows
  BY <1>9 DEF setup, Use
<1>10. ASSUME NEW i \in Ids, accessBook(i) PROVE UNCHANGED rows
  BY <1>10 DEF accessBook
<1>11. CASE update_database \/ Restart \/ UNCHANGED vars
  BY <1>7, <1>11 DEF update_database, Restart, vars
<1> QED
  BY <1>1, <1>2, <1>3, <1>4, <1>5, <1>6, <1>7, <1>8, <1>9, <1>10, <1>11 DEF Next

LEMMA RefsAre == Unsaved \in Refs /\ Ids \subseteq Refs
BY DEF Refs

LEMMA ObjectsTypeStep ==
  ASSUME RowsType, ObjectsType, [Next]_vars
  PROVE  ObjectsType'
<1>1. ASSUME NEW o \in Objects, NEW x \in Library, library' = [library EXCEPT ![o] = x],
             UNCHANGED <<results, changed>>
      PROVE  ObjectsType'
  BY <1>1 DEF ObjectsType
<1>2. ASSUME NEW o \in Objects, Construct(o) PROVE ObjectsType'
  <2>1. PICK i \in Refs : library' = [library EXCEPT ![o] =
                     [NoLibrary EXCEPT !.state = "blank", !.id = i]]
    BY <1>2 DEF Construct
  <2>2. NoLibrary \in Library
    BY AssociationsAssumption DEF NoLibrary, Library, LibraryStates, Refs
  <2>3. [NoLibrary EXCEPT !.state = "blank", !.id = i] \in Library
    BY <2>2 DEF Library, LibraryStates
  <2> QED BY <1>1, <1>2, <2>1, <2>3 DEF Construct
<1>3. ASSUME NEW o \in Objects
      PROVE  library[o] \in Library /\ Prepared(library[o]) \in Library
  BY DEF ObjectsType, Library, LibraryStates, Prepared
<1>4. ASSUME NEW o \in Objects, init(o) PROVE ObjectsType'
  <2>1. CASE UNCHANGED library
    BY <1>4, <2>1 DEF init, ObjectsType
  <2>2. CASE library' = [library EXCEPT ![o] = [Prepared(@) EXCEPT !.state = "unsaved"]]
    <3>1. PICK x \in Library : x = Prepared(library[o])
      BY <1>3
    <3>2. [x EXCEPT !.state = "unsaved"] \in Library
      BY DEF Library, LibraryStates
    <3> QED BY <1>1, <1>4, <2>2, <3>1, <3>2 DEF init
  <2> QED BY <1>4, <2>1, <2>2 DEF init
<1>5. ASSUME NEW o \in Objects, save(o) PROVE ObjectsType'
  <2>1. CASE UNCHANGED library
    BY <1>5, <2>1 DEF save, ObjectsType
  <2>2. CASE library' = [library EXCEPT ![o] =
               [@ EXCEPT !.state = "loaded", !.id = NextRowid(libraryRow), !.row = born + 1]]
    <3>1. PICK i \in Ids : i = NextRowid(libraryRow)
      BY <1>5 DEF save
    <3>2. born + 1 \in 0..MaxBorn /\ i \in Refs
      BY <1>5, AssociationsAssumption DEF save, RowsType, Refs
    <3>3. [library[o] EXCEPT !.state = "loaded", !.id = i, !.row = born + 1] \in Library
      BY <1>3, <3>2 DEF Library, LibraryStates
    <3> QED BY <1>1, <1>5, <2>2, <3>1, <3>3 DEF save
  <2> QED BY <1>5, <2>1, <2>2 DEF save
<1>6. ASSUME NEW o \in Objects, access(o) PROVE ObjectsType'
  <2>1. PICK x \in Library : x = Prepared(library[o])
    BY <1>3
  <2>2. \/ UNCHANGED library
        \/ library' = [library EXCEPT ![o] = x]
        \/ /\ x.id \in DOMAIN libraryRow
           /\ library' = [library EXCEPT ![o] =
                            [x EXCEPT !.state = "loaded", !.row = libraryRow[x.id]]]
    BY <1>6, <2>1 DEF access
  <2>3. CASE UNCHANGED library
    BY <1>6, <2>3 DEF access, ObjectsType
  <2>4. CASE /\ x.id \in DOMAIN libraryRow
             /\ library' = [library EXCEPT ![o] =
                            [x EXCEPT !.state = "loaded", !.row = libraryRow[x.id]]]
    <3>1. libraryRow[x.id] \in 0..MaxBorn
      BY <2>4, AssociationsAssumption DEF RowsType
    <3>2. [x EXCEPT !.state = "loaded", !.row = libraryRow[x.id]] \in Library
      BY <3>1 DEF Library, LibraryStates
    <3> QED BY <1>1, <1>6, <2>4, <3>2 DEF access
  <2> QED BY <1>1, <1>6, <2>2, <2>3, <2>4 DEF access
<1>7. BlankBook \in Book /\ NoBook \in Book
  BY DEF BlankBook, NoBook, Book, Refs
<1>8. ASSUME NEW o \in Objects, has_many(o) PROVE ObjectsType'
  <2>1. UNCHANGED library
    BY <1>8 DEF has_many
  <2>2. CASE UNCHANGED <<results, changed>>
    BY <2>1, <2>2 DEF ObjectsType
  <2>3. CASE /\ \E a \in HasMany(library[o]) :
                  books' = [i \in Ids |-> IF i \in IdsGiven(a) THEN BlankBook ELSE NoBook]
             /\ of' = library[o].id /\ changed' = {}
    <3>1. books' \in [Ids -> Book]
      BY <1>7, <2>3
    <3>2. of' \in Refs
      BY <1>3, <2>3 DEF Library
    <3> QED BY <2>1, <2>3, <3>1, <3>2 DEF ObjectsType
  <2> QED BY <1>8, <2>2, <2>3 DEF has_many
<1>9. ASSUME NEW i \in Ids PROVE Marked(i) \subseteq Ids
  BY DEF Marked, ObjectsType
<1>10. ASSUME NEW i \in Ids, accessBook(i) PROVE ObjectsType'
  <2>1. /\ UNCHANGED <<library, of, changed>>
        /\ \/ UNCHANGED books
           \/ /\ i \in DOMAIN bookRow
              /\ books' = [books EXCEPT ![i] = [state |-> "loaded",
                                                library_id |-> bookRow[i].library_id]]
    BY <1>10 DEF accessBook, LibraryIdRead
  <2>2. i \in DOMAIN bookRow =>
          [state |-> "loaded", library_id |-> bookRow[i].library_id] \in Book
    BY DEF RowsType, BookRow, Book
  <2> QED BY <2>1, <2>2 DEF ObjectsType
<1>11. ASSUME NEW o \in Objects, NewBook(o) PROVE ObjectsType'
  <2>1. /\ UNCHANGED <<library, results>>
        /\ changed' = Marked(NextRowid(bookRow)) \/ UNCHANGED changed
        /\ NextRowid(bookRow) \in Ids
    BY <1>11 DEF NewBook
  <2> QED BY <1>9, <2>1 DEF ObjectsType
<1>12. ASSUME NEW i \in Ids, NEW o \in Objects, MoveBook(i, o) PROVE ObjectsType'
  <2>1. /\ UNCHANGED <<library, of>> /\ (changed' = Marked(i) \/ UNCHANGED changed)
        /\ books' = [books EXCEPT ![i].library_id = library[o].id]
    BY <1>12 DEF MoveBook
  <2>2. [books[i] EXCEPT !.library_id = library[o].id] \in Book
    BY <1>3 DEF ObjectsType, Book, Library
  <2>3. books' = [books EXCEPT ![i] = [books[i] EXCEPT !.library_id = library[o].id]]
    BY <2>1
  <2>4. books' \in [Ids -> Book]
    BY <2>2, <2>3 DEF ObjectsType
  <2> QED BY <1>9, <2>1, <2>4 DEF ObjectsType
<1>13. CASE DeleteBook
  <2>1. PICK i \in DOMAIN bookRow : changed' = Marked(i)
    BY <1>13 DEF DeleteBook
  <2>2. i \in Ids
    BY DEF RowsType
  <2> QED BY <1>9, <1>13, <2>1, <2>2 DEF DeleteBook, ObjectsType
<1>14. CASE Restart
  <2>1. NoLibrary \in Library
    BY AssociationsAssumption DEF NoLibrary, Library, LibraryStates, Refs
  <2> QED BY <1>7, <1>14, <2>1, RefsAre DEF Restart, ObjectsType
<1>15. ASSUME UNCHANGED <<library, results, changed>> PROVE ObjectsType'
  BY <1>15 DEF ObjectsType
<1>16. ASSUME NEW c \in Classes, setup(c) \/ Use(c) PROVE ObjectsType'
  BY <1>15, <1>16 DEF setup, Use
<1>17. CASE update_database \/ InsertLibrary \/ DeleteLibrary \/ UNCHANGED vars
  BY <1>15, <1>17 DEF update_database, InsertLibrary, DeleteLibrary, vars
<1> QED
  BY <1>2, <1>4, <1>5, <1>6, <1>8, <1>10, <1>11, <1>12, <1>13, <1>14, <1>16, <1>17
  DEF Next

\* Init satisfies TypeOK, and every step keeps it.
LEMMA TypeInit == Init => TypeOK
<1> SUFFICES ASSUME Init PROVE TypeOK
  OBVIOUS
<1>1. NoLibrary \in Library /\ NoBook \in Book
  BY AssociationsAssumption DEF NoLibrary, Library, LibraryStates, NoBook, Book, Refs
<1>2. RegistryType
  BY DEF Init, RegistryType
<1>3. RowsType
  BY AssociationsAssumption DEF Init, RowsType
<1>4. ObjectsType
  BY <1>1, RefsAre DEF Init, ObjectsType
<1> QED BY <1>2, <1>3, <1>4, TypeParts

LEMMA TypeStep == TypeOK /\ [Next]_vars => TypeOK'
<1> SUFFICES ASSUME TypeOK, [Next]_vars PROVE TypeOK'
  OBVIOUS
<1>1. RegistryType' /\ RowsType' /\ ObjectsType'
  BY TypeParts, RegistryTypeStep, RowsTypeStep, ObjectsTypeStep
<1> QED BY <1>1 DEF TypeOK, RegistryType, RowsType, ObjectsType

\* Every variable of the registry, of the tables and of the objects has its
\* type: rowids stay within the bound, and no look-up takes a class out of the
\* registry (base.h, connection.cpp, table_set.cpp).
THEOREM TypeCorrect == Spec => []TypeOK
BY TypeInit, TypeStep, PTL DEF Spec

-----------------------------------------------------------------------------
(* The registry: who is to blame.                                          *)

Blamed ==
  /\ down => early # {}
  /\ \A c \in Classes : tables_[c] = "empty" => c \in early

NamesFound ==
  \A o \in Objects :
    library[o].state \notin {"none", "blank"} /\ ~library[o].named => "Library" \in early

LEMMA SetupSavesParts == SetupSaves <=> Blamed /\ NamesFound
BY Zenon DEF SetupSaves, Blamed, NamesFound

\* A look-up is blamed for the empty table it leaves, and for a null pointer.
LEMMA LookUpBlames ==
  ASSUME RegistryType, Blamed, NEW c \in Classes,
         Follows(c) \/ get_table(c) \/ UNCHANGED registry
  PROVE  Blamed'
<1>1. CASE get_table(c)
  BY <1>1 DEF RegistryType, Blamed, get_table
<1>2. CASE Follows(c)
  BY <1>1, <1>2 DEF RegistryType, Blamed, Follows
<1> QED BY <1>1, <1>2 DEF Blamed

LEMMA BlamedStep ==
  ASSUME RegistryType, Blamed, [Next]_vars
  PROVE  Blamed'
<1>1. ASSUME NEW c \in Classes, setup(c) PROVE Blamed'
  <2>1. UNCHANGED <<down, early>>
    BY <1>1 DEF setup
  <2>2. \A d \in Classes : tables_'[d] = "empty" => tables_[d] = "empty"
    BY <1>1 DEF setup, Registers, RegistryType
  <2> QED BY <2>1, <2>2 DEF Blamed
<1>2. ASSUME NEW c \in Classes, Use(c) PROVE Blamed'
  BY <1>2, LookUpBlames DEF Use
<1>3. CASE update_database
  <2>1. UNCHANGED <<tables_, early>>
    BY <1>3 DEF update_database
  <2>2. down' => down \/ \E c \in Classes : tables_[c] = "empty"
    BY <1>3 DEF update_database
  <2> QED BY <2>1, <2>2 DEF Blamed
<1>4. ASSUME NEW o \in Objects,
             \/ Construct(o) \/ init(o) \/ save(o) \/ access(o) \/ has_many(o) \/ NewBook(o)
             \/ \E i \in Ids : MoveBook(i, o)
      PROVE  Blamed'
  BY <1>4, LookUpBlames, Named
  DEF Construct, init, save, access, has_many, NewBook, MoveBook, PreparesOf
<1>5. ASSUME NEW i \in Ids, accessBook(i) PROVE Blamed'
  BY <1>5, LookUpBlames, Named DEF accessBook
<1>6. CASE InsertLibrary \/ DeleteLibrary \/ DeleteBook \/ UNCHANGED vars
  BY <1>6 DEF InsertLibrary, DeleteLibrary, DeleteBook, vars, Blamed
<1>7. CASE Restart
  BY <1>7 DEF Restart, Blamed
<1> QED BY <1>1, <1>2, <1>3, <1>4, <1>5, <1>6, <1>7 DEF Next

\* An object that was prepared and found no name was looked up before the
\* setup of its class, and that is on record.
LEMMA PreparedNamed ==
  ASSUME RegistryType, ObjectsType, NEW o \in Objects, PreparesOf(o), ~down',
         NamesFound, early \subseteq early'
  PROVE  Prepared(library[o]).state \notin {"none", "blank"} /\ ~Prepared(library[o]).named
           => "Library" \in early'
<1>1. CASE library[o].state = "blank"
  <2>1. Follows("Library")
    BY <1>1 DEF PreparesOf
  <2>2. tables_["Library"] = "set" \/ "Library" \in early'
    BY <2>1 DEF Follows, get_table
  <2>3. Prepared(library[o]).named <=> tables_["Library"] = "set"
    BY <1>1 DEF Prepared, Library, ObjectsType
  <2> QED BY <2>2, <2>3
<1>2. CASE library[o].state # "blank"
  BY <1>2 DEF Prepared, NamesFound
<1> QED BY <1>1, <1>2

LEMMA NamesFoundStep ==
  ASSUME RegistryType, ObjectsType, NamesFound, [Next]_vars
  PROVE  NamesFound'
<1>1. CASE Restart
  BY <1>1 DEF Restart, NamesFound, NoLibrary
<1>2. early \subseteq early' \/ Restart
  BY RegistryTypeStep
<1>3. ASSUME early \subseteq early', UNCHANGED library PROVE NamesFound'
  BY <1>3 DEF NamesFound
<1>4. ASSUME early \subseteq early', NEW o \in Objects, NEW x \in Library,
             library' = [library EXCEPT ![o] = x],
             x.state \notin {"none", "blank"} /\ ~x.named => "Library" \in early'
      PROVE  NamesFound'
  BY <1>4 DEF NamesFound, ObjectsType
<1>5. ASSUME NEW o \in Objects
      PROVE  /\ library[o] \in Library /\ Prepared(library[o]) \in Library
             /\ NoLibrary \in Library
  <2>1. NoLibrary \in Library
    BY AssociationsAssumption DEF Library, LibraryStates, NoLibrary, Refs
  <2>2. library[o] \in Library
    BY DEF ObjectsType
  <2>3. Prepared(library[o]) \in Library
    BY <2>2 DEF Prepared, Library, LibraryStates
  <2> QED BY <2>1, <2>2, <2>3
<1>6. ASSUME early \subseteq early', NEW o \in Objects, Construct(o) PROVE NamesFound'
  <2>1. PICK i \in Refs : library' = [library EXCEPT ![o] =
                     [NoLibrary EXCEPT !.state = "blank", !.id = i]]
    BY <1>6 DEF Construct
  <2>2. /\ [NoLibrary EXCEPT !.state = "blank", !.id = i] \in Library
        /\ [NoLibrary EXCEPT !.state = "blank", !.id = i].state = "blank"
    BY <1>5 DEF Library, LibraryStates
  <2> QED BY <1>4, <1>6, <2>1, <2>2
<1>7. ASSUME early \subseteq early', NEW o \in Objects, init(o) PROVE NamesFound'
  <2>1. CASE down'
    BY <1>3, <1>7, <2>1 DEF init
  <2>2. CASE ~down'
    <3>1. PICK x \in Library : x = Prepared(library[o])
      BY <1>5
    <3>2. x.state \notin {"none", "blank"} /\ ~x.named => "Library" \in early'
      BY <1>7, <2>2, <3>1, PreparedNamed DEF init
    <3>3. /\ [x EXCEPT !.state = "unsaved"] \in Library
          /\ [x EXCEPT !.state = "unsaved"].named = x.named
      BY DEF Library, LibraryStates
    <3>4. x.state \notin {"none", "blank"}
      BY <1>7, <3>1, <1>5 DEF init, Prepared, Library
    <3>5. library' = [library EXCEPT ![o] = [x EXCEPT !.state = "unsaved"]]
      BY <1>7, <2>2, <3>1 DEF init
    <3> QED BY <1>4, <1>7, <3>2, <3>3, <3>4, <3>5
  <2> QED BY <2>1, <2>2
<1>8. ASSUME early \subseteq early', NEW o \in Objects, save(o) PROVE NamesFound'
  <2>1. CASE UNCHANGED library
    BY <1>3, <1>8, <2>1
  <2>2. CASE ~UNCHANGED library
    <3>1. library'[o].named = library[o].named /\ library[o].state = "unsaved"
      <4>1. PICK x \in Library : x = library[o]
        BY <1>5
      <4>2. PICK i, n : library' = [library EXCEPT ![o] =
                          [x EXCEPT !.state = "loaded", !.id = i, !.row = n]]
        BY <1>8, <2>2, <4>1 DEF save
      <4>3. library'[o] = [x EXCEPT !.state = "loaded", !.id = i, !.row = n]
        BY <4>2 DEF ObjectsType
      <4> QED BY <1>8, <4>1, <4>3 DEF save, Library
    <3>2. \A p \in Objects : p # o => library'[p] = library[p]
      BY <1>8 DEF save, ObjectsType
    <3> QED BY <1>8, <3>1, <3>2 DEF NamesFound
  <2> QED BY <2>1, <2>2
<1>9. ASSUME early \subseteq early', NEW o \in Objects, access(o) PROVE NamesFound'
  <2>1. CASE down'
    BY <1>3, <1>9, <2>1 DEF access
  <2>2. CASE ~down'
    <3>1. PICK x \in Library : x = Prepared(library[o])
      BY <1>5
    <3>2. x.state \notin {"none", "blank"} /\ ~x.named => "Library" \in early'
      BY <1>9, <2>2, <3>1, PreparedNamed DEF access
    <3>3. x.state \notin {"none", "blank"}
      BY <1>9, <3>1, <1>5 DEF access, Prepared, Library
    <3>4. CASE library' = [library EXCEPT ![o] = x]
      BY <1>4, <1>9, <3>2, <3>4
    <3>5. CASE library' = [library EXCEPT ![o] =
                             [x EXCEPT !.state = "loaded", !.row = libraryRow[x.id]]]
      <4>1. library'[o].named = x.named
        BY <3>5 DEF ObjectsType, Library
      <4>2. \A p \in Objects : p # o => library'[p] = library[p]
        BY <3>5 DEF ObjectsType
      <4> QED BY <1>9, <3>2, <3>3, <4>1, <4>2 DEF NamesFound
    <3> QED BY <1>9, <2>2, <3>1, <3>4, <3>5 DEF access
  <2> QED BY <2>1, <2>2
<1>10. ASSUME NEW c \in Classes, setup(c) \/ Use(c) PROVE UNCHANGED library
  BY <1>10 DEF setup, Use
<1>11. ASSUME NEW o \in Objects, has_many(o) \/ NewBook(o) \/ \E i \in Ids : MoveBook(i, o)
      PROVE  UNCHANGED library
  BY <1>11 DEF has_many, NewBook, MoveBook
<1>12. ASSUME NEW i \in Ids, accessBook(i) PROVE UNCHANGED library
  BY <1>12 DEF accessBook
<1>13. CASE update_database \/ InsertLibrary \/ DeleteLibrary \/ DeleteBook \/ UNCHANGED vars
  BY <1>2, <1>1, <1>3, <1>13 DEF update_database, InsertLibrary, DeleteLibrary, DeleteBook, vars
<1> QED
  BY <1>1, <1>2, <1>3, <1>6, <1>7, <1>8, <1>9, <1>10, <1>11, <1>12, <1>13 DEF Next

\* A null pointer is only ever followed, and an object only ever keeps an empty
\* table name, when a class was used before its setup had succeeded; a setup
\* that throws leaves nothing behind (connection.cpp: get_table, set_table;
\* base.h: setup, prepare).
THEOREM SetupIsEnough == Spec => []SetupSaves
<1>1. Init => SetupSaves
  BY DEF Init, SetupSaves, NoLibrary
<1>2. TypeOK /\ SetupSaves /\ [Next]_vars => SetupSaves'
  <2> SUFFICES ASSUME TypeOK, SetupSaves, [Next]_vars PROVE SetupSaves'
    OBVIOUS
  <2>1. Blamed' /\ NamesFound'
    BY TypeParts, SetupSavesParts, BlamedStep, NamesFoundStep
  <2> QED BY <2>1, Zenon DEF SetupSaves, Blamed, NamesFound
<1> QED BY <1>1, <1>2, TypeCorrect, PTL DEF Spec

-----------------------------------------------------------------------------
(* has_many.                                                               *)

\* has_many of a loaded library gives every book that refers to it, once, and
\* no other, in every state in which the class and the table of the books are
\* there (base.h: has_many; query.h: all).
THEOREM HasManyIsExact == Spec => []HasManyExact
<1>1. TypeOK => HasManyExact
  <2> SUFFICES ASSUME DOMAIN bookRow \subseteq Ids,
                      NEW o \in Objects, library[o].state = "loaded",
                      tables_["Book"] = "set" /\ "Book" \in exists,
                      NEW a \in HasMany(library[o])
               PROVE  /\ ~a.threw
                      /\ IdsGiven(a) = BooksOf(library[o].id)
                      /\ Len(a.ids) = Cardinality(IdsGiven(a))
    BY DEF TypeOK, HasManyExact, BooksOf
  <2>1. a \in all(ItsBooks(library[o].id), BookTable, "sqlite")
    BY DEF HasMany
  <2> QED BY <2>1, ItsBooksAre
<1> QED BY <1>1, TypeCorrect, PTL

-----------------------------------------------------------------------------
(* Who owns a book.                                                        *)

\* A row that was inserted as the nth library still has its rowid, or it is
\* dead.
Recorded(table, gone, id, n) ==
  n \in gone \/ (id \in DOMAIN table /\ table[id] = n)

LoadedRows ==
  \A o \in Objects : library[o].state = "loaded" => library[o].row # 0

OwnersRecorded ==
  /\ \A o \in Objects :
       library[o].row # 0 => Recorded(libraryRow, dead, library[o].id, library[o].row)
  /\ \A i \in DOMAIN bookRow :
       bookRow[i].meant # 0 =>
         Recorded(libraryRow, dead, bookRow[i].library_id, bookRow[i].meant)

OwnerInv == LoadedRows /\ OwnersRecorded

\* The rows of the libraries grow at a new rowid, or lose one that dies.
LEMMA LibraryRowsStep ==
  ASSUME RowsType, [Next]_vars
  PROVE  \/ UNCHANGED <<libraryRow, dead>>
         \/ libraryRow' = Extended(libraryRow, NextRowid(libraryRow), born + 1) /\ dead' = dead
         \/ \E i \in DOMAIN libraryRow :
              libraryRow' = Without(libraryRow, i) /\ dead' = dead \cup {libraryRow[i]}
<1>1. ASSUME NEW o \in Objects, save(o)
      PROVE  /\ UNCHANGED dead
             /\ \/ libraryRow' = Extended(libraryRow, NextRowid(libraryRow), born + 1)
                \/ UNCHANGED libraryRow
  BY <1>1 DEF save
<1>2. CASE InsertLibrary \/ DeleteLibrary
  BY <1>2 DEF InsertLibrary, DeleteLibrary
<1>3. ASSUME NEW o \in Objects,
             \/ Construct(o) \/ init(o) \/ access(o) \/ has_many(o) \/ NewBook(o)
             \/ \E i \in Ids : MoveBook(i, o)
      PROVE  UNCHANGED <<libraryRow, dead>>
  BY <1>3 DEF Construct, init, access, has_many, NewBook, MoveBook
<1>4. ASSUME NEW c \in Classes, setup(c) \/ Use(c) PROVE UNCHANGED <<libraryRow, dead>>
  BY <1>4 DEF setup, Use
<1>5. ASSUME NEW i \in Ids, accessBook(i) PROVE UNCHANGED <<libraryRow, dead>>
  BY <1>5 DEF accessBook
<1>6. CASE update_database \/ DeleteBook \/ Restart \/ UNCHANGED vars
  BY <1>6 DEF update_database, DeleteBook, Restart, vars
<1> QED BY <1>1, <1>2, <1>3, <1>4, <1>5, <1>6 DEF Next

LEMMA RecordedKept ==
  ASSUME RowsType, [Next]_vars, NEW id, NEW n, Recorded(libraryRow, dead, id, n)
  PROVE  Recorded(libraryRow', dead', id, n)
<1>1. CASE libraryRow' = Extended(libraryRow, NextRowid(libraryRow), born + 1) /\ dead' = dead
  <2>1. NextRowid(libraryRow) \notin DOMAIN libraryRow
    BY NewRowid DEF RowsType
  <2>2. ASSUME id \in DOMAIN libraryRow
        PROVE  id \in DOMAIN libraryRow' /\ libraryRow'[id] = libraryRow[id]
    BY <1>1, <2>1, <2>2 DEF Extended
  <2> QED BY <1>1, <2>2 DEF Recorded
<1>2. ASSUME NEW i \in DOMAIN libraryRow,
             libraryRow' = Without(libraryRow, i), dead' = dead \cup {libraryRow[i]}
      PROVE  Recorded(libraryRow', dead', id, n)
  <2>1. ASSUME id \in DOMAIN libraryRow, id # i
        PROVE  id \in DOMAIN libraryRow' /\ libraryRow'[id] = libraryRow[id]
    BY <1>2, <2>1 DEF Without
  <2> QED BY <1>2, <2>1 DEF Recorded
<1>3. CASE UNCHANGED <<libraryRow, dead>>
  BY <1>3
<1> QED BY <1>1, <1>2, <1>3, LibraryRowsStep

\* What becomes of an object: it has no row yet, it keeps what it has, or it
\* takes a row that is in the table.
LEMMA ObjectsStep ==
  ASSUME RowsType, ObjectsType, [Next]_vars, NEW p \in Objects
  PROVE  \/ library'[p].row = 0 /\ library'[p].state # "loaded"
         \/ /\ library'[p].row = library[p].row /\ library'[p].id = library[p].id
            /\ library'[p].state = "loaded" => library[p].state = "loaded"
         \/ /\ library'[p].row # 0
            /\ Recorded(libraryRow', dead', library'[p].id, library'[p].row)
<1> DEFINE Becomes(x, y) ==
      \/ y.row = 0 /\ y.state # "loaded"
      \/ /\ y.row = x.row /\ y.id = x.id
         /\ y.state = "loaded" => x.state = "loaded"
      \/ y.row # 0 /\ Recorded(libraryRow', dead', y.id, y.row)
<1> SUFFICES Becomes(library[p], library'[p])
  OBVIOUS
<1>0. ASSUME NEW x PROVE Becomes(x, x)
  OBVIOUS
<1>1. ASSUME NEW o \in Objects, NEW y, library' = [library EXCEPT ![o] = y],
             Becomes(library[o], y)
      PROVE  Becomes(library[p], library'[p])
  <2>1. library'[p] = IF p = o THEN y ELSE library[p]
    BY <1>1 DEF ObjectsType
  <2> QED BY <1>0, <1>1, <2>1
<1>2. ASSUME UNCHANGED library PROVE Becomes(library[p], library'[p])
  BY <1>0, <1>2
<1>3. ASSUME NEW o \in Objects
      PROVE  library[o] \in Library /\ Prepared(library[o]) \in Library
  <2>1. library[o] \in Library
    BY DEF ObjectsType
  <2>2. Prepared(library[o]) \in Library
    BY <2>1 DEF Prepared, Library, LibraryStates
  <2> QED BY <2>1, <2>2
<1>4. ASSUME NEW o \in Objects
      PROVE  /\ Prepared(library[o]).row = library[o].row
             /\ Prepared(library[o]).id = library[o].id
             /\ Prepared(library[o]).state = "loaded" => library[o].state = "loaded"
  BY <1>3 DEF Prepared, Library
<1>5. ASSUME NEW o \in Objects, Construct(o) PROVE Becomes(library[p], library'[p])
  <2>1. PICK i : library' = [library EXCEPT ![o] =
                               [NoLibrary EXCEPT !.state = "blank", !.id = i]]
    BY <1>5 DEF Construct
  <2>2. /\ [NoLibrary EXCEPT !.state = "blank", !.id = i].row = 0
        /\ [NoLibrary EXCEPT !.state = "blank", !.id = i].state = "blank"
    BY DEF NoLibrary
  <2> QED BY <1>1, <2>1, <2>2
<1>6. ASSUME NEW o \in Objects, init(o) PROVE Becomes(library[p], library'[p])
  <2>1. PICK x \in Library : x = Prepared(library[o])
    BY <1>3
  <2>2. library' = library \/ library' = [library EXCEPT ![o] = [x EXCEPT !.state = "unsaved"]]
    BY <1>6, <2>1 DEF init
  <2>3. Becomes(library[o], [x EXCEPT !.state = "unsaved"])
    <3>1. PICK y : y = [x EXCEPT !.state = "unsaved"]
      OBVIOUS
    <3>2. y.row = x.row /\ y.id = x.id /\ y.state = "unsaved"
      BY <3>1 DEF Library
    <3> QED BY <1>4, <2>1, <3>1, <3>2
  <2> HIDE DEF Becomes
  <2> QED BY <1>1, <1>2, <1>6, <2>2, <2>3
<1>7. ASSUME NEW o \in Objects, save(o) PROVE Becomes(library[p], library'[p])
  <2>1. CASE UNCHANGED library
    BY <1>2, <2>1
  <2>2. CASE ~UNCHANGED library
    <3>1. PICK x \in Library : x = library[o]
      BY <1>3
    <3>2. PICK i, n : i = NextRowid(libraryRow) /\ n = born + 1
      OBVIOUS
    <3>3. /\ libraryRow' = Extended(libraryRow, i, n)
          /\ library' = [library EXCEPT ![o] =
                           [x EXCEPT !.state = "loaded", !.id = i, !.row = n]]
      BY <1>7, <2>2, <3>1, <3>2 DEF save
    <3>4. PICK y : y = [x EXCEPT !.state = "loaded", !.id = i, !.row = n]
      OBVIOUS
    <3>5. y.row = n /\ y.id = i
      BY <3>4 DEF Library
    <3>6. n # 0
      BY <3>2, AssociationsAssumption DEF RowsType
    <3>7. Recorded(libraryRow', dead', i, n)
      BY <3>3 DEF Recorded, Extended
    <3> QED BY <1>1, <1>7, <3>3, <3>4, <3>5, <3>6, <3>7
  <2> QED BY <2>1, <2>2
<1>8. ASSUME NEW o \in Objects, access(o) PROVE Becomes(library[p], library'[p])
  <2>1. PICK x \in Library : x = Prepared(library[o])
    BY <1>3
  <2>2. \/ library' = library
        \/ library' = [library EXCEPT ![o] = x]
        \/ /\ x.id \in DOMAIN libraryRow
           /\ library' = [library EXCEPT ![o] =
                            [x EXCEPT !.state = "loaded", !.row = libraryRow[x.id]]]
    BY <1>8, <2>1 DEF access
  <2>3. CASE library' = [library EXCEPT ![o] = x]
    BY <1>1, <1>4, <1>8, <2>1, <2>3
  <2>4. CASE /\ x.id \in DOMAIN libraryRow
             /\ library' = [library EXCEPT ![o] =
                              [x EXCEPT !.state = "loaded", !.row = libraryRow[x.id]]]
    <3>1. PICK n : n = libraryRow[x.id]
      OBVIOUS
    <3>2. PICK y : y = [x EXCEPT !.state = "loaded", !.row = n]
      OBVIOUS
    <3>3. y.row = n /\ y.id = x.id
      BY <3>2 DEF Library
    <3>4. n # 0
      BY <2>4, <3>1 DEF RowsType
    <3>5. Recorded(libraryRow', dead', x.id, n)
      BY <1>8, <2>4, <3>1 DEF access, Recorded
    <3>6. library' = [library EXCEPT ![o] = y]
      BY <2>4, <3>1, <3>2
    <3> QED BY <1>1, <1>8, <3>3, <3>4, <3>5, <3>6
  <2> QED BY <1>2, <2>2, <2>3, <2>4
<1>9. CASE Restart
  BY <1>9 DEF Restart, NoLibrary
<1>10. ASSUME NEW c \in Classes, setup(c) \/ Use(c) PROVE UNCHANGED library
  BY <1>10 DEF setup, Use
<1>11. ASSUME NEW o \in Objects, has_many(o) \/ NewBook(o) \/ \E i \in Ids : MoveBook(i, o)
      PROVE  UNCHANGED library
  BY <1>11 DEF has_many, NewBook, MoveBook
<1>12. ASSUME NEW i \in Ids, accessBook(i) PROVE UNCHANGED library
  BY <1>12 DEF accessBook
<1>13. CASE update_database \/ InsertLibrary \/ DeleteLibrary \/ DeleteBook \/ UNCHANGED vars
  BY <1>2, <1>13 DEF update_database, InsertLibrary, DeleteLibrary, DeleteBook, vars
<1> HIDE DEF Becomes
<1> QED
  BY <1>2, <1>5, <1>6, <1>7, <1>8, <1>9, <1>10, <1>11, <1>12, <1>13 DEF Next

\* What the program writes for the owner of a book is recorded.
LEMMA MeantRecorded ==
  ASSUME RowsType, ObjectsType, OwnersRecorded, NEW o \in Objects, Meant(library[o]) # 0
  PROVE  Recorded(libraryRow, dead, library[o].id, Meant(library[o]))
<1>1. CASE library[o].row # 0
  BY <1>1 DEF Meant, OwnersRecorded
<1>2. CASE library[o].row = 0
  BY <1>2 DEF Meant, Recorded
<1> QED BY <1>1, <1>2

\* A row of a book is as it was, or has just been written with the id of an
\* object, and then the libraries are as they were.
LEMMA BookRowsStep ==
  ASSUME RowsType, [Next]_vars, NEW j \in DOMAIN bookRow'
  PROVE  \/ j \in DOMAIN bookRow /\ bookRow'[j] = bookRow[j]
         \/ /\ UNCHANGED <<libraryRow, dead>>
            /\ \E o \in Objects :
                 bookRow'[j] = [library_id |-> library[o].id, meant |-> Meant(library[o])]
<1> DEFINE Written == \E o \in Objects :
                 bookRow'[j] = [library_id |-> library[o].id, meant |-> Meant(library[o])]
           Kept == j \in DOMAIN bookRow /\ bookRow'[j] = bookRow[j]
           Goal == Kept \/ (UNCHANGED <<libraryRow, dead>> /\ Written)
<1> SUFFICES Goal
  OBVIOUS
<1>1. ASSUME UNCHANGED bookRow PROVE Goal
  BY <1>1
<1>2. ASSUME NEW o \in Objects, NewBook(o) PROVE Goal
  <2>1. CASE UNCHANGED bookRow
    BY <2>1
  <2>2. CASE bookRow' = Extended(bookRow, NextRowid(bookRow),
                  [library_id |-> library[o].id, meant |-> Meant(library[o])])
    <3>1. j = NextRowid(bookRow) => Written
      BY <2>2 DEF Extended
    <3>2. j # NextRowid(bookRow) => Kept
      BY <2>2 DEF Extended
    <3> QED BY <1>2, <3>1, <3>2 DEF NewBook
  <2> QED BY <1>2, <2>1, <2>2 DEF NewBook
<1>3. ASSUME NEW i \in Ids, NEW o \in Objects, MoveBook(i, o) PROVE Goal
  <2>1. CASE UNCHANGED bookRow
    BY <2>1
  <2>2. CASE /\ i \in DOMAIN bookRow
             /\ bookRow' = [bookRow EXCEPT ![i] =
                  [library_id |-> library[o].id, meant |-> Meant(library[o])]]
    <3>1. j = i => Written
      BY <2>2
    <3>2. j # i => Kept
      BY <2>2
    <3> QED BY <1>3, <3>1, <3>2 DEF MoveBook
  <2> QED BY <1>3, <2>1, <2>2 DEF MoveBook
<1>4. CASE DeleteBook
  <2>1. PICK i \in DOMAIN bookRow : bookRow' = Without(bookRow, i)
    BY <1>4 DEF DeleteBook
  <2>2. Kept
    BY <2>1 DEF Without
  <2> QED BY <2>2
<1>5. ASSUME NEW o \in Objects,
             Construct(o) \/ init(o) \/ save(o) \/ access(o) \/ has_many(o)
      PROVE  UNCHANGED bookRow
  BY <1>5 DEF Construct, init, save, access, has_many
<1>6. ASSUME NEW c \in Classes, setup(c) \/ Use(c) PROVE UNCHANGED bookRow
  BY <1>6 DEF setup, Use
<1>7. ASSUME NEW i \in Ids, accessBook(i) PROVE UNCHANGED bookRow
  BY <1>7 DEF accessBook
<1>8. CASE update_database \/ InsertLibrary \/ DeleteLibrary \/ Restart \/ UNCHANGED vars
  <2>1. UNCHANGED bookRow
    BY <1>8 DEF update_database, InsertLibrary, DeleteLibrary, Restart, vars
  <2> QED BY <1>1, <2>1
<1> HIDE DEF Goal
<1> QED BY <1>1, <1>2, <1>3, <1>4, <1>5, <1>6, <1>7, <1>8 DEF Next

LEMMA OwnerInvStep ==
  ASSUME RowsType, ObjectsType, OwnerInv, [Next]_vars
  PROVE  OwnerInv'
<1>1. LoadedRows'
  BY ObjectsStep DEF OwnerInv, LoadedRows
<1>2. ASSUME NEW p \in Objects, library'[p].row # 0
      PROVE  Recorded(libraryRow', dead', library'[p].id, library'[p].row)
  <2>1. CASE library'[p].row = library[p].row /\ library'[p].id = library[p].id
    <3>1. PICK id, n : id = library[p].id /\ n = library[p].row
      OBVIOUS
    <3>2. Recorded(libraryRow, dead, id, n)
      BY <1>2, <2>1, <3>1 DEF OwnerInv, OwnersRecorded
    <3>3. Recorded(libraryRow', dead', id, n)
      BY <3>2, RecordedKept
    <3> QED BY <2>1, <3>1, <3>3
  <2> QED BY <1>2, <2>1, ObjectsStep
<1>3. ASSUME NEW j \in DOMAIN bookRow', bookRow'[j].meant # 0
      PROVE  Recorded(libraryRow', dead', bookRow'[j].library_id, bookRow'[j].meant)
  <2>1. CASE j \in DOMAIN bookRow /\ bookRow'[j] = bookRow[j]
    <3>1. PICK id, n : id = bookRow[j].library_id /\ n = bookRow[j].meant
      OBVIOUS
    <3>2. Recorded(libraryRow, dead, id, n)
      BY <1>3, <2>1, <3>1 DEF OwnerInv, OwnersRecorded
    <3>3. Recorded(libraryRow', dead', id, n)
      BY <3>2, RecordedKept
    <3> QED BY <2>1, <3>1, <3>3
  <2>2. ASSUME UNCHANGED <<libraryRow, dead>>, NEW o \in Objects,
               bookRow'[j] = [library_id |-> library[o].id, meant |-> Meant(library[o])]
        PROVE  Recorded(libraryRow', dead', bookRow'[j].library_id, bookRow'[j].meant)
    <3>1. bookRow'[j].library_id = library[o].id /\ bookRow'[j].meant = Meant(library[o])
      BY <2>2
    <3>2. Recorded(libraryRow, dead, library[o].id, Meant(library[o]))
      BY <1>3, <3>1, MeantRecorded DEF OwnerInv
    <3> QED BY <2>2, <3>1, <3>2
  <2> QED BY <2>1, <2>2, BookRowsStep
<1> QED BY <1>1, <1>2, <1>3 DEF OwnerInv, OwnersRecorded

\* A library is given a book that was written for another one only when one of
\* the two rows was deleted and its rowid given out again, or when no library
\* had the id that was written (base.h: save, has_many; SQLite gives the rowid
\* of the last row again once that row is gone).
THEOREM OnlyTheDeadAreAdopted == Spec => []AdoptedFromTheDead
<1>1. Init => OwnerInv
  BY DEF Init, OwnerInv, LoadedRows, OwnersRecorded, NoLibrary
<1>2. TypeOK /\ OwnerInv /\ [Next]_vars => OwnerInv'
  BY TypeParts, OwnerInvStep
<1>3. TypeOK /\ OwnerInv => AdoptedFromTheDead
  <2> SUFFICES ASSUME DOMAIN bookRow \subseteq Ids, OwnerInv,
                      NEW o \in Objects, library[o].state = "loaded",
                      NEW a \in HasMany(library[o]), NEW i \in IdsGiven(a),
                      bookRow[i].meant \notin {0, library[o].row}
               PROVE  {bookRow[i].meant, library[o].row} \cap dead # {}
    BY DEF TypeOK, AdoptedFromTheDead
  <2>1. ~a.threw
    <3>1. IdsGiven(Threw) = {}
      BY DEF IdsGiven, Threw
    <3> QED BY <3>1, HasManyGives
  <2>2. i \in DOMAIN bookRow /\ bookRow[i].library_id = library[o].id
    BY <2>1, HasManyGives DEF BooksOf
  <2>3. Recorded(libraryRow, dead, library[o].id, bookRow[i].meant)
    BY <2>2 DEF OwnerInv, OwnersRecorded
  <2>4. Recorded(libraryRow, dead, library[o].id, library[o].row)
    BY DEF OwnerInv, LoadedRows, OwnersRecorded
  <2> QED BY <2>3, <2>4 DEF Recorded
<1> QED BY <1>1, <1>2, <1>3, TypeCorrect, PTL DEF Spec

-----------------------------------------------------------------------------
(* Late reads.                                                             *)

\* A book of the answer whose row nobody touched since still refers to the
\* library that was asked, and so does what was loaded of it.
Fresh(i) ==
  /\ i \in DOMAIN bookRow /\ bookRow[i].library_id = of
  /\ books[i].state = "loaded" => books[i].library_id = of

ReadInv == \A i \in Ids : books[i].state # "none" /\ i \notin changed => Fresh(i)

LEMMA ReadInvStep ==
  ASSUME RowsType, ObjectsType, ReadInv, [Next]_vars
  PROVE  ReadInv'
<1>1. ASSUME UNCHANGED <<bookRow, books, of, changed>> PROVE ReadInv'
  BY <1>1 DEF ReadInv, Fresh
<1>2. ASSUME NEW o \in Objects, has_many(o) PROVE ReadInv'
  <2>1. UNCHANGED bookRow
    BY <1>2 DEF has_many
  <2>2. CASE UNCHANGED <<books, of, changed>>
    BY <1>1, <2>1, <2>2
  <2>3. ASSUME NEW a \in HasMany(library[o]), ~a.threw,
               books' = [i \in Ids |-> IF i \in IdsGiven(a) THEN BlankBook ELSE NoBook],
               of' = library[o].id
        PROVE  ReadInv'
    <3>1. IdsGiven(a) = BooksOf(library[o].id)
      BY <2>3, HasManyGives DEF RowsType
    <3>2. ASSUME NEW i \in Ids, books'[i].state # "none"
          PROVE  i \in BooksOf(library[o].id) /\ books'[i].state = "blank"
      BY <2>3, <3>1, <3>2 DEF NoBook, BlankBook
    <3> QED BY <2>1, <2>3, <3>2 DEF ReadInv, Fresh, BooksOf
  <2> QED BY <1>2, <2>2, <2>3 DEF has_many
<1>3. ASSUME NEW i \in Ids, accessBook(i) PROVE ReadInv'
  <2>1. UNCHANGED <<bookRow, of, changed>> /\ books[i].state = "blank"
    BY <1>3 DEF accessBook
  <2>2. CASE UNCHANGED books
    BY <1>1, <2>1, <2>2
  <2>3. CASE books' = [books EXCEPT ![i] = [state |-> "loaded",
                                            library_id |-> bookRow[i].library_id]]
    <3>1. /\ books'[i].library_id = bookRow[i].library_id
          /\ \A j \in Ids : j # i => books'[j] = books[j]
      BY <2>3 DEF ObjectsType
    <3>2. ASSUME NEW j \in Ids, books'[j].state # "none", j \notin changed
          PROVE  Fresh(j)'
      BY <2>1, <3>1, <3>2 DEF ReadInv, Fresh
    <3> QED BY <2>1, <3>2 DEF ReadInv
  <2> QED BY <1>3, <2>2, <2>3 DEF accessBook, LibraryIdRead
<1>4. ASSUME NEW i, UNCHANGED of, changed' = Marked(i),
             \A j \in Ids : j # i => books'[j] = books[j],
             books'[i].state = books[i].state,
             \A j \in DOMAIN bookRow : j # i => j \in DOMAIN bookRow' /\ bookRow'[j] = bookRow[j]
      PROVE  ReadInv'
  <2>1. ASSUME NEW j \in Ids, books'[j].state # "none", j \notin changed'
        PROVE  Fresh(j)'
    <3>1. j # i
      BY <1>4, <2>1 DEF Marked
    <3>2. j \notin changed /\ books'[j] = books[j]
      BY <1>4, <2>1, <3>1 DEF Marked
    <3>3. Fresh(j)
      BY <2>1, <3>2 DEF ReadInv
    <3> QED BY <1>4, <3>1, <3>2, <3>3 DEF Fresh
  <2> QED BY <2>1 DEF ReadInv
<1>5. ASSUME NEW o \in Objects, NewBook(o) PROVE ReadInv'
  <2>1. PICK i, row : /\ i = NextRowid(bookRow)
                      /\ row = [library_id |-> library[o].id, meant |-> Meant(library[o])]
    OBVIOUS
  <2>2. /\ UNCHANGED <<books, of>>
        /\ \/ UNCHANGED <<bookRow, changed>>
           \/ bookRow' = Extended(bookRow, i, row) /\ changed' = Marked(i)
    BY <1>5, <2>1 DEF NewBook
  <2>3. CASE bookRow' = Extended(bookRow, i, row) /\ changed' = Marked(i)
    <3>1. \A j \in DOMAIN bookRow : j # i => j \in DOMAIN bookRow' /\ bookRow'[j] = bookRow[j]
      BY <2>3 DEF Extended
    <3> QED BY <1>4, <2>2, <2>3, <3>1
  <2> QED BY <1>1, <2>2, <2>3
<1>6. ASSUME NEW i \in Ids, NEW o \in Objects, MoveBook(i, o) PROVE ReadInv'
  <2>1. /\ UNCHANGED of
        /\ books' = [books EXCEPT ![i].library_id = library[o].id]
    BY <1>6 DEF MoveBook
  <2>2. /\ \A j \in Ids : j # i => books'[j] = books[j]
        /\ books'[i].state = books[i].state
    BY <2>1 DEF ObjectsType, Book
  <2>3. CASE i \in DOMAIN bookRow
    <3>1. /\ changed' = Marked(i)
          /\ \A j \in DOMAIN bookRow : j # i => j \in DOMAIN bookRow' /\ bookRow'[j] = bookRow[j]
      BY <1>6, <2>3 DEF MoveBook
    <3> QED BY <1>4, <2>1, <2>2, <3>1
  <2>4. CASE i \notin DOMAIN bookRow
    <3>1. UNCHANGED <<bookRow, changed>>
      BY <1>6, <2>4 DEF MoveBook
    <3>2. ASSUME NEW j \in Ids, books'[j].state # "none", j \notin changed
          PROVE  j # i /\ Fresh(j)
      BY <2>2, <2>4, <3>2 DEF ReadInv, Fresh
    <3>3. ASSUME NEW j \in Ids, j # i, Fresh(j) PROVE Fresh(j)'
      BY <2>1, <2>2, <3>1, <3>3 DEF Fresh
    <3> QED BY <3>1, <3>2, <3>3 DEF ReadInv
  <2> QED BY <2>3, <2>4
<1>7. CASE DeleteBook
  <2>1. PICK i \in DOMAIN bookRow : bookRow' = Without(bookRow, i) /\ changed' = Marked(i)
    BY <1>7 DEF DeleteBook
  <2>2. UNCHANGED <<books, of>>
    BY <1>7 DEF DeleteBook
  <2>3. \A j \in DOMAIN bookRow : j # i => j \in DOMAIN bookRow' /\ bookRow'[j] = bookRow[j]
    BY <2>1 DEF Without
  <2> QED BY <1>4, <2>1, <2>2, <2>3
<1>8. CASE Restart
  BY <1>8 DEF Restart, ReadInv, NoBook
<1>9. ASSUME NEW o \in Objects, Construct(o) \/ init(o) \/ save(o) \/ access(o)
      PROVE  UNCHANGED <<bookRow, books, of, changed>>
  BY <1>9 DEF Construct, init, save, access
<1>10. ASSUME NEW c \in Classes, setup(c) \/ Use(c)
       PROVE  UNCHANGED <<bookRow, books, of, changed>>
  BY <1>10 DEF setup, Use
<1>11. CASE update_database \/ InsertLibrary \/ DeleteLibrary \/ UNCHANGED vars
  BY <1>1, <1>11 DEF update_database, InsertLibrary, DeleteLibrary, vars
<1> QED
  BY <1>1, <1>2, <1>3, <1>5, <1>6, <1>7, <1>8, <1>9, <1>10, <1>11 DEF Next

\* A book of an answer is loaded when it is first read, perhaps long after
\* has_many: unless its row was written or deleted since, it refers to the
\* library that was asked (query.h: all gives objects that only know their
\* ids; base.h: load).
THEOREM LateReads == Spec => []LateReadsAgree
<1>1. Init => ReadInv
  BY DEF Init, ReadInv, NoBook
<1>2. TypeOK /\ ReadInv /\ [Next]_vars => ReadInv'
  BY TypeParts, ReadInvStep
<1>3. ReadInv => LateReadsAgree
  BY DEF ReadInv, Fresh, LateReadsAgree
<1> QED BY <1>1, <1>2, <1>3, TypeCorrect, PTL DEF Spec

=============================================================================
