---------------------------- MODULE Associations ----------------------------
(***************************************************************************)
(* has_many and belongs_to between two classes, over the registry of       *)
(* models that setup fills and every look-up may spoil                     *)
(* (include/active_record/base.h, src/connection.cpp, src/table_set.cpp).  *)
(*                                                                         *)
(* Library has many Books; a Book keeps the id of its Library in           *)
(* library_id.  The program holds Library objects, in the variable         *)
(* library, and the Book objects of the last has_many, in books; the rows  *)
(* are in the database.  Statements are those of SQLite and do not fail by *)
(* themselves: what else a save may do is in BaseRecord.                   *)
(***************************************************************************)
EXTENDS QueryClauses

CONSTANTS
  Objects,   \* the Library objects of the program
  Classes,   \* its classes, "Library" and "Book" among them
  Nameless,  \* the classes whose table() sets no table name
  MaxId,     \* bound: rowids
  MaxBorn    \* bound: rows of libraries ever inserted

ASSUME AssociationsAssumption ==
  /\ {"Library", "Book"} \subseteq Classes \ Nameless
  /\ MaxId \in Nat \ {0} /\ MaxBorn \in Nat \ {0}

Ids == 1..MaxId
Unsaved == -1
Refs == Ids \cup {Unsaved}

VARIABLES
  tables_,      \* what the connection knows of each class
  connection_,  \* the classes whose connection_ is set
  exists,       \* the classes whose table is in the database
  down,         \* a null pointer was followed
  libraryRow,   \* the rows of the libraries: which was inserted as what
  bookRow,      \* the rows of the books
  library,      \* the Library objects
  books,        \* the Book objects of the last has_many
  early,        \* history: the classes used before they were set up
  born,         \* history: libraries inserted so far
  dead,         \* history: those deleted since
  of,           \* history: the id books was asked for
  changed       \* history: those of books whose rows were written or
                \*   deleted since

registry == <<tables_, connection_, exists, down, early>>
rows == <<libraryRow, bookRow, born, dead>>
results == <<books, of>>
vars == <<registry, rows, library, results, changed>>

\* library_id, and the library that was meant by it (history; 0: none).
BookRow == [library_id : Refs, meant : 0..MaxBorn]

LibraryStates == {"none", "blank", "prepared", "unsaved", "loaded"}

\* named: table_name_ was found when the object was prepared; row: which
\* library the object has loaded or become (history; 0: none).
Library == [state : LibraryStates, id : Refs, named : BOOLEAN,
            row : 0..MaxBorn]

\* A Book object that was loaded holds the library_id it found.
Book == [state : {"none", "blank", "loaded"}, library_id : Refs]

NoLibrary == [state |-> "none", id |-> Unsaved, named |-> FALSE, row |-> 0]
NoBook == [state |-> "none", library_id |-> Unsaved]
BlankBook == [NoBook EXCEPT !.state = "blank"]

TypeOK ==
  /\ tables_ \in [Classes -> {"absent", "empty", "set"}]
  /\ connection_ \subseteq Classes /\ exists \subseteq Classes
  /\ early \subseteq Classes
  /\ down \in BOOLEAN
  /\ DOMAIN libraryRow \subseteq Ids
  /\ libraryRow \in [DOMAIN libraryRow -> 1..MaxBorn]
  /\ DOMAIN bookRow \subseteq Ids /\ bookRow \in [DOMAIN bookRow -> BookRow]
  /\ library \in [Objects -> Library]
  /\ books \in [Ids -> Book]
  /\ born \in 0..MaxBorn /\ dead \subseteq 1..MaxBorn
  /\ of \in Refs /\ changed \subseteq Ids

-----------------------------------------------------------------------------
(* The registry.                                                           *)

\* Mutant: the table is registered before its name is looked at.
RegistersFirst(c) == [tables_ EXCEPT ![c] = IF c \in Nameless THEN "empty" ELSE "set"]

\* set_table comes after the check of the name, which throws.
Registers(c) == IF c \in Nameless THEN tables_ ELSE [tables_ EXCEPT ![c] = "set"]

setup(c) ==
  /\ ~down
  /\ connection_' = connection_ \cup {c}
  /\ tables_' = Registers(c)
  /\ UNCHANGED <<exists, down, early, rows, library, results, changed>>

\* get_table: an unknown class gets a Table with a null connection and no
\* name.
get_table(c) ==
  /\ tables_' = [tables_ EXCEPT ![c] = IF @ = "absent" THEN "empty" ELSE @]
  /\ early' = IF tables_[c] = "set" THEN early ELSE early \cup {c}
  /\ UNCHANGED <<connection_, exists, down>>

\* A class is used through its connection_: a null one is followed by
\* prepare and by the queries of the class.
Follows(c) ==
  IF c \in connection_ THEN get_table(c)
  ELSE /\ down' = TRUE
       /\ early' = early \cup {c}
       /\ UNCHANGED <<tables_, connection_, exists>>

\* update_database goes through the classes by name and follows the
\* connection of each Table: the tables before one that has none are made.
update_database ==
  /\ ~down
  /\ LET named == {c \in Classes : tables_[c] = "set"} IN
     IF \E c \in Classes : tables_[c] = "empty"
     THEN down' = TRUE /\ \E S \in SUBSET named : exists' = exists \cup S
     ELSE exists' = exists \cup named /\ UNCHANGED down
  /\ UNCHANGED <<tables_, connection_, early, rows, library, results, changed>>

\* An object or a query of another class of the program.
Use(c) ==
  /\ ~down /\ c \notin {"Library", "Book"}
  /\ Follows(c)
  /\ UNCHANGED <<rows, library, results, changed>>

-----------------------------------------------------------------------------
(* Library objects.                                                        *)

\* The rowid SQLite gives a new row: one more than the greatest there is.
NextRowid(table) ==
  1 + CHOOSE n \in 0..MaxId :
        /\ n \in DOMAIN table \cup {0}
        /\ \A i \in DOMAIN table : i <= n

Extended(table, i, row) ==
  [j \in DOMAIN table \cup {i} |-> IF j = i THEN row ELSE table[j]]

Without(table, i) == [j \in DOMAIN table \ {i} |-> table[j]]

\* Library(id), Library(): nothing is looked up.
Construct(o) ==
  /\ ~down
  /\ \E i \in Refs :
       library' = [library EXCEPT ![o] =
                     [NoLibrary EXCEPT !.state = "blank", !.id = i]]
  /\ UNCHANGED <<registry, rows, results, changed>>

Prepared(x) ==
  IF x.state = "blank"
  THEN [x EXCEPT !.state = "prepared", !.named = tables_["Library"] = "set"]
  ELSE x

\* prepare looks the class up when the object is blank.
PreparesOf(o) ==
  IF library[o].state = "blank" THEN Follows("Library") ELSE UNCHANGED registry

\* Statements about libraries compile.
Reaches(x) == x.named /\ "Library" \in exists

\* init: the object has attributes and is yet to be saved.
init(o) ==
  /\ ~down /\ library[o].state \in {"blank", "prepared"}
  /\ library[o].id = Unsaved
  /\ PreparesOf(o)
  /\ library' = IF down' THEN library
                ELSE [library EXCEPT ![o] =
                        [Prepared(@) EXCEPT !.state = "unsaved"]]
  /\ UNCHANGED <<rows, results, changed>>

\* save of a new object: create.
save(o) ==
  /\ ~down /\ library[o].state = "unsaved" /\ born < MaxBorn
  /\ NextRowid(libraryRow) \in Ids
  /\ LET i == NextRowid(libraryRow) IN
     IF Reaches(library[o])
     THEN /\ libraryRow' = Extended(libraryRow, i, born + 1)
          /\ born' = born + 1
          /\ library' = [library EXCEPT ![o] =
               [@ EXCEPT !.state = "loaded", !.id = i, !.row = born + 1]]
     ELSE UNCHANGED <<libraryRow, born, library>>
  /\ UNCHANGED <<registry, bookRow, dead, results, changed>>

\* operator[] and the typed readers of an object that has an id: it is
\* loaded, or "Record not found" is thrown.
access(o) ==
  /\ ~down /\ library[o].state \in {"blank", "prepared"}
  /\ library[o].id # Unsaved
  /\ PreparesOf(o)
  /\ LET x == Prepared(library[o]) IN
     library' =
       IF down' THEN library
       ELSE IF Reaches(x) /\ x.id \in DOMAIN libraryRow
       THEN [library EXCEPT ![o] =
               [x EXCEPT !.state = "loaded", !.row = libraryRow[x.id]]]
       ELSE [library EXCEPT ![o] = x]
  /\ UNCHANGED <<rows, results, changed>>

\* INSERT INTO libraries and DELETE FROM libraries, sent by the program or by
\* another one.
InsertLibrary ==
  /\ ~down /\ "Library" \in exists /\ born < MaxBorn
  /\ NextRowid(libraryRow) \in Ids
  /\ libraryRow' = Extended(libraryRow, NextRowid(libraryRow), born + 1)
  /\ born' = born + 1
  /\ UNCHANGED <<registry, bookRow, dead, library, results, changed>>

DeleteLibrary ==
  /\ ~down
  /\ \E i \in DOMAIN libraryRow :
       /\ libraryRow' = Without(libraryRow, i)
       /\ dead' = dead \cup {libraryRow[i]}
  /\ UNCHANGED <<registry, bookRow, born, library, results, changed>>

-----------------------------------------------------------------------------
(* Books.                                                                  *)

\* The books as a table of QueryClauses.
BookTable == [i \in DOMAIN bookRow |-> [library_id |-> bookRow[i].library_id]]

\* Mutant: the condition is left out.
EveryBook(id) == Empty

\* Mutant: first() in the place of all().
ItsFirstBook(id) ==
  [Empty EXCEPT !.limit = 1, !.conditions =
     <<[column |-> "library_id", value |-> id, place |-> 0]>>]

ItsBooks(id) ==
  [Empty EXCEPT !.conditions =
     <<[column |-> "library_id", value |-> id, place |-> 0]>>]

\* What library.has_many<Book>() gives: nothing but an exception when the
\* object is not loaded or when a table is not known or not there.
HasMany(x) ==
  IF x.state = "loaded" /\ tables_["Book"] = "set" /\ "Book" \in exists
  THEN all(ItsBooks(x.id), BookTable, "sqlite")
  ELSE {Threw}

\* Mutant: the objects get their places for ids.
IdsByPlace(a) == DOMAIN a.ids

\* The ids of the objects that all() returns.
IdsGiven(a) == {a.ids[n] : n \in DOMAIN a.ids}

has_many(o) ==
  /\ ~down /\ library[o].state # "none"
  /\ IF library[o].state = "loaded" THEN get_table("Book")
     ELSE UNCHANGED registry
  /\ \E a \in HasMany(library[o]) :
       IF a.threw THEN UNCHANGED <<results, changed>>
       ELSE /\ books' = [i \in Ids |->
                           IF i \in IdsGiven(a) THEN BlankBook ELSE NoBook]
            /\ of' = library[o].id
            /\ changed' = {}
  /\ UNCHANGED <<rows, library>>

\* Only the books of the answer are followed.
Marked(i) == IF books[i].state = "none" THEN changed ELSE changed \cup {i}

\* Mutant: the column is not read, and a missing attribute is 0.
ReadsNothing(i) == 0

LibraryIdRead(i) == bookRow[i].library_id

\* A Book of the answer is loaded when it is first read.
accessBook(i) ==
  /\ ~down /\ books[i].state = "blank"
  /\ Follows("Book")
  /\ books' = IF i \in DOMAIN bookRow /\ ~down'
              THEN [books EXCEPT ![i] = [state |-> "loaded",
                                         library_id |-> LibraryIdRead(i)]]
              ELSE books
  /\ UNCHANGED <<rows, library, of, changed>>

\* The library the program means by the id of an object.
Meant(x) ==
  IF x.row # 0 THEN x.row
  ELSE IF x.id \in DOMAIN libraryRow THEN libraryRow[x.id] ELSE 0

\* Book(attribute_pairs ("library_id", library.id())).save().
NewBook(o) ==
  /\ ~down /\ library[o].state # "none"
  /\ Follows("Book")
  /\ LET i == NextRowid(bookRow) IN
     /\ i \in Ids
     /\ IF tables_["Book"] = "set" /\ "Book" \in connection_ \cap exists
        THEN /\ bookRow' = Extended(bookRow, i,
                  [library_id |-> library[o].id, meant |-> Meant(library[o])])
             /\ changed' = Marked(i)
        ELSE UNCHANGED <<bookRow, changed>>
  /\ UNCHANGED <<libraryRow, born, dead, library, results>>

\* book["library_id"] = library.id(); book.save().  The UPDATE of a row that
\* is gone does nothing.
MoveBook(i, o) ==
  /\ ~down /\ books[i].state = "loaded" /\ library[o].state # "none"
  /\ books' = [books EXCEPT ![i].library_id = library[o].id]
  /\ IF i \in DOMAIN bookRow
     THEN /\ bookRow' = [bookRow EXCEPT ![i] =
               [library_id |-> library[o].id, meant |-> Meant(library[o])]]
          /\ changed' = Marked(i)
     ELSE UNCHANGED <<bookRow, changed>>
  /\ UNCHANGED <<registry, libraryRow, born, dead, library, of>>

DeleteBook ==
  /\ ~down
  /\ \E i \in DOMAIN bookRow :
       bookRow' = Without(bookRow, i) /\ changed' = Marked(i)
  /\ UNCHANGED <<registry, libraryRow, born, dead, library, results>>

\* The id of what book.belongs_to<Library>() gives: the library is looked for
\* with the id of the book.
belongs_to(i) ==
  LET sql == [Empty EXCEPT !.conditions =
                <<[column |-> "id", value |-> i, place |-> 0]>>]
  IN first(sql, [j \in DOMAIN libraryRow |-> [id |-> j]], "sqlite")

-----------------------------------------------------------------------------
\* The process ends; the database stays.
Restart ==
  /\ tables_' = [c \in Classes |-> "absent"]
  /\ connection_' = {}
  /\ down' = FALSE
  /\ early' = {}
  /\ library' = [o \in Objects |-> NoLibrary]
  /\ books' = [i \in Ids |-> NoBook]
  /\ of' = Unsaved
  /\ changed' = {}
  /\ UNCHANGED <<exists, rows>>

Init ==
  /\ tables_ = [c \in Classes |-> "absent"]
  /\ connection_ = {} /\ exists = {} /\ down = FALSE /\ early = {}
  /\ libraryRow = [i \in {} |-> 1] /\ born = 0 /\ dead = {}
  /\ bookRow = [i \in {} |-> [library_id |-> Unsaved, meant |-> 0]]
  /\ library = [o \in Objects |-> NoLibrary]
  /\ books = [i \in Ids |-> NoBook]
  /\ of = Unsaved /\ changed = {}

Next ==
  \/ \E c \in Classes : setup(c) \/ Use(c)
  \/ update_database
  \/ \E o \in Objects :
       \/ Construct(o) \/ init(o) \/ save(o) \/ access(o)
       \/ has_many(o) \/ NewBook(o)
       \/ \E i \in Ids : MoveBook(i, o)
  \/ \E i \in Ids : accessBook(i)
  \/ InsertLibrary \/ DeleteLibrary \/ DeleteBook
  \/ Restart

Spec == Init /\ [][Next]_vars

-----------------------------------------------------------------------------
(* Properties.                                                             *)

\* The program only goes down, and an object only remembers an empty table
\* name for good, when a class was used before its setup had succeeded: a
\* setup that throws does no harm by itself, and one that comes late still
\* saves update_database.
SetupSaves ==
  /\ down => early # {}
  /\ \A o \in Objects :
       library[o].state \notin {"none", "blank"} /\ ~library[o].named
         => "Library" \in early
  /\ \A c \in Classes : tables_[c] = "empty" => c \in early

\* has_many of a loaded library gives every book that refers to it, once, and
\* no other: none is lost to the registry when both classes were set up first.
HasManyExact ==
  \A o \in Objects :
    library[o].state = "loaded" /\ tables_["Book"] = "set" /\ "Book" \in exists =>
      \A a \in HasMany(library[o]) :
        /\ ~a.threw
        /\ IdsGiven(a) =
             {i \in DOMAIN bookRow : bookRow[i].library_id = library[o].id}
        /\ Len(a.ids) = Cardinality(IdsGiven(a))

\* A library gets a book that was written for another only when one of the two
\* was deleted and its rowid given out again, or when the id written was made
\* up and no library had it.
AdoptedFromTheDead ==
  \A o \in Objects :
    library[o].state = "loaded" =>
      \A a \in HasMany(library[o]) : \A i \in IdsGiven(a) :
        LET meant == bookRow[i].meant
        IN meant \notin {0, library[o].row} => {meant, library[o].row} \cap dead # {}

\* A Book of an answer refers to the library that was asked, whenever it is
\* loaded, unless its row was written or deleted since.
LateReadsAgree ==
  \A i \in Ids :
    books[i].state = "loaded" /\ books[i].library_id # of => i \in changed

\* test/base/associations.cpp: a book belongs to the library its library_id
\* names.
OwnerIsReferenced ==
  \A i \in Ids :
    books[i].state = "loaded" =>
      \A a \in belongs_to(i) : a.threw \/ a.ids = <<books[i].library_id>>

=============================================================================
