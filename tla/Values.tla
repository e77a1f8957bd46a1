------------------------------- MODULE Values -------------------------------
(***************************************************************************)
(* What becomes of a value on its way into a column and back: Attribute,   *)
(* Date and Type, bind_parameters and from_field of both adapters, and the *)
(* conversions the databases make in between (src/attribute.cpp, date.h,   *)
(* src/type.cpp, src/conversions.cpp).                                     *)
(*                                                                         *)
(* A text is a pair of its form and its content: a word, a word with a NUL *)
(* behind it, or the image of a number, a decimal or a day.  A real is a   *)
(* number of quarters, of which "%f" shows the halves: quarters stand for  *)
(* what six decimals cannot show.  A day is <<year, month, day>>.          *)
(***************************************************************************)
EXTENDS Integers

CONSTANTS
  Rows,       \* rows of the table, which has one column
  IntHalf,    \* an int is one of -IntHalf .. IntHalf - 1
  Integers64, \* the integers the program and other tools write
  Words,
  Reals,
  Days,       \* what the program gives Date(year, month, day)
  Moments     \* times of the clock at which Date(time_t) is called

ASSUME ValueAssumption ==
  /\ IntHalf \in Nat \ {0} /\ Integers64 \subseteq Int /\ Reals \subseteq Nat
  /\ Days \subseteq Nat \X (0..99) \X (0..99)

VARIABLES
  adapter,  \* the database the library was built for
  decl,     \* the type the column was declared with
  cell,     \* what the database holds in each row
  got,      \* what the last SELECT of a row gave, while the row is as it was
  written,  \* history: the Attribute last written to a row through the library
  cycled    \* history: the row holds what was read from it, written back

vars == <<adapter, decl, cell, got, written, cycled>>

\* create_table uses the first four; other tools the rest.
Decls == [sqlite   |-> {"INTEGER", "TEXT", "FLOAT", "DATE", "VARCHAR", "none"},
          postgres |-> {"INTEGER", "TEXT", "FLOAT", "DATE", "VARCHAR", "NUMERIC"}]

-----------------------------------------------------------------------------
(* Attribute and Date.                                                     *)

Texts == ({"word", "nul"} \X Words)
           \cup {<<"number", 1>>} \cup ({"day"} \X Days)

\* Only what gmtime_r has filled in tells Date(time_t) from the others, which
\* fill in the time 0; a day of the clock is a day of the calendar.
InRange(day) == day[2] \in 1..12 /\ day[3] \in 1..31

Leap(year) == year % 4 = 0 /\ (year % 100 # 0 \/ year % 400 = 0)

LastDay(year, month) == IF month = 2 THEN (IF Leap(year) THEN 29 ELSE 28)
                        ELSE IF month \in {4, 6, 9, 11} THEN 30 ELSE 31

InCalendar(day) ==
  day[1] > 0 /\ InRange(day) /\ day[3] <= LastDay(day[1], day[2])

Dates == (Days \X {0}) \cup ({d \in Days : InCalendar(d)} \X Moments)

Attribute(type, v) == <<type, v>>
Unset == <<"integer", 0, "not initialised">>

which(a) == a[1]

\* What the program may pass as a parameter.
Attributes ==
  {Unset} \cup {Attribute("integer", i) : i \in Integers64}
          \cup {Attribute("text", t) : t \in Texts}
          \cup {Attribute("floating_point", x) : x \in Reals}
          \cup {Attribute("date", d) : d \in Dates}

\* Dates are compared byte by byte, as struct tm.
SameDate(d, e) == d = e

\* operator== compares which() and the content; it does not compare
\* initialised_.
Equals(a, b) ==
  /\ which(a) = which(b)
  /\ IF which(a) = "date" THEN SameDate(a[2], b[2]) ELSE a[2] = b[2]

\* Row::get_integer, get_text, get_floating_point and get_date give the value;
\* of an Attribute of another type boost::get throws.
Gets(a, type) == which(a) = type

\* Date::to_string: year, month and day, whether there is such a day or not;
\* the year has as many digits as it needs, month and day have two.
to_string(date) == <<"day", date[1]>>

\* Mutants: the months counted from 0, as in struct tm; no ranges.
CountsFromZero(text) == text[1] = "day" /\ text[2][2] \in 0..11
ParsesAnyDay(text) == text[1] = "day"

\* Date::parse looks at month and day one by one.
Parses(text) == text[1] = "day" /\ InRange(text[2])

\* Mutant: the month that struct tm counts from 0 is not put right.
ParsedAhead(text) ==
  LET d == text[2] IN
  <<IF d[2] = 12 THEN d ELSE [d EXCEPT ![2] = @ + 1], 0>>

Parsed(text) == <<text[2], 0>>

\* Mutant: an unsigned int.
AsUnsigned(i) == i % (2 * IntHalf)

\* static_cast<int> of a longer integer: its low bits.
AsInt(i) == ((i + IntHalf) % (2 * IntHalf)) - IntHalf

FitsInt(i) == i \in -IntHalf .. IntHalf - 1

\* A text ends at its first NUL wherever it is read as char*.
CString(text) == IF text[1] = "nul" THEN <<"word", text[2]>> ELSE text

-----------------------------------------------------------------------------
(* Sqlite3Connection::bind_parameters, SQLite's column affinity, and       *)
(* Attribute::from_field.                                                  *)

Cell(class, v) == <<class, v>>
Null == Cell("null", 0)

\* sqlite3_bind_int takes an int; the text is bound with its length; a Date
\* as its text.  Whether the Attribute is initialised is not asked.
Binds(a) ==
  CASE which(a) = "integer"        -> Cell("integer", AsInt(a[2]))
    [] which(a) = "text"           -> Cell("text", a[2])
    [] which(a) = "floating_point" -> Cell("real", a[2])
    [] which(a) = "date"           -> Cell("text", to_string(a[2]))

Whole(x) == x % 4 = 0

\* INTEGER and NUMERIC (DATE): numbers in texts and whole reals become
\* integers; TEXT: numbers become texts; REAL (FLOAT): numbers become reals.
Affinity(type, c) ==
  CASE type \in {"INTEGER", "DATE"} ->
         IF c[1] = "text" /\ c[2][1] = "number" THEN Cell("integer", c[2][2])
         ELSE IF c[1] = "real" /\ Whole(c[2]) THEN Cell("integer", c[2] \div 4)
         ELSE c
    [] type \in {"TEXT", "VARCHAR"} ->
         IF c[1] = "integer" THEN Cell("text", <<"number", c[2]>>)
         ELSE IF c[1] = "real" THEN Cell("text", <<"decimal", c[2]>>)
         ELSE c
    [] type = "FLOAT" ->
         IF c[1] = "integer" THEN Cell("real", 4 * c[2])
         ELSE IF c[1] = "text" /\ c[2][1] = "number"
              THEN Cell("real", 4 * c[2][2])
         ELSE c
    [] type = "none" -> c

\* sqlite3_column_double, in quarters: of a text, the number it begins with.
ColumnDouble(c) ==
  CASE c[1] = "null"    -> 0
    [] c[1] = "integer" -> 4 * c[2]
    [] c[1] = "real"    -> c[2]
    [] c[1] = "text"    -> CASE c[2][1] = "number"  -> 4 * c[2][2]
                                [] c[2][1] = "decimal" -> c[2][2]
                                [] c[2][1] = "day"     -> 4 * c[2][2][1]
                                [] OTHER              -> 0

\* sqlite3_column_int: the low bits of an integer, a real without its decimals.
ColumnInt(c) ==
  IF c[1] = "integer" THEN AsInt(c[2]) ELSE AsInt(ColumnDouble(c) \div 4)

ColumnText(c) ==
  CASE c[1] = "integer" -> <<"number", c[2]>>
    [] c[1] = "real"    -> <<"decimal", c[2]>>
    [] c[1] = "text"    -> CString(c[2])

\* Row(ppStmt) throws: a type from_field does not know, a text Date::parse
\* refuses.
SqliteThrows(type, c) ==
  \/ type = "VARCHAR"
  \/ type = "DATE" /\ c # Null /\ ~Parses(ColumnText(c))

\* A NULL is unset, but in a column that is read as a number, where it is 0.
SqliteGives(type, c) ==
  CASE type = "INTEGER"                  -> Attribute("integer", ColumnInt(c))
    [] type = "FLOAT"                    -> Attribute("floating_point", ColumnDouble(c))
    [] type \notin {"INTEGER", "FLOAT"} /\ c = Null -> Unset
    [] type \in {"TEXT", "none"} /\ c # Null -> Attribute("text", ColumnText(c))
    [] type = "DATE" /\ c # Null         -> Attribute("date", Parsed(ColumnText(c)))

-----------------------------------------------------------------------------
(* PostgresqlConnection::bind_parameters, the server's assignment casts,   *)
(* and Attribute::from_field.                                              *)

\* What the server takes the text of a Date for (DateStyle "ISO, MDY"): a year
\* of one or two digits cannot come first, so year, month and day are read as
\* month, day and a year from 1970 to 2069.
ServerDay(text) ==
  LET d == text[2] IN
  IF d[1] >= 100 THEN d
  ELSE <<IF d[3] < 70 THEN 2000 + d[3] ELSE 1900 + d[3], d[1], d[2]>>

\* snprintf("%f") of a double.
Shown(x) == 2 * (x \div 2)

\* Every parameter is sent as text, under the type of its Attribute; integers
\* as INT4.  The server refuses what is no value of that type, and what its
\* casts do not take into the column.
Accepts(type, a) ==
  CASE which(a) = "integer"        -> FitsInt(a[2]) /\ type # "DATE"
    [] which(a) = "text"           -> type \in {"TEXT", "VARCHAR"}
    [] which(a) = "floating_point" -> type # "DATE"
    [] which(a) = "date"           -> /\ InCalendar(ServerDay(to_string(a[2])))
                                    /\ type \in {"TEXT", "VARCHAR", "DATE"}

InColumn(type, a) ==
  CASE type = "DATE"               -> Cell("date", ServerDay(to_string(a[2])))
    [] type \in {"FLOAT", "NUMERIC"} ->
         Cell("real", IF which(a) = "integer" THEN 4 * a[2] ELSE Shown(a[2]))
    [] type = "INTEGER"            ->
         Cell("integer", IF which(a) = "integer" THEN a[2]
                         ELSE (Shown(a[2]) + 2) \div 4)
    [] type \in {"TEXT", "VARCHAR"}  ->
         Cell("text", CASE which(a) = "integer"        -> <<"number", a[2]>>
                        [] which(a) = "text"           -> CString(a[2])
                        [] which(a) = "floating_point" -> <<"decimal", Shown(a[2])>>
                        [] which(a) = "date"           ->
                             <<"day", ServerDay(to_string(a[2]))>>)

\* FLOAT is float8 to the server, a type pg_type_to_ar_type does not know.
PostgresThrows(type) == type = "FLOAT"

\* Mutant: strtod and strtoll as they are, which find 0 in the empty text.
FoundAlways(c) == TRUE

\* string_to_int64 and string_to_double find no number in the empty text that
\* stands for a NULL; the numbers the server sends are found.
NumberFound(c) == c # Null

\* Nor is a NULL a date; a text is asked whether it is NULL.
PostgresGives(type, c) ==
  CASE type = "INTEGER" /\ NumberFound(c) -> Attribute("integer", c[2])
    [] type = "NUMERIC" /\ NumberFound(c) -> Attribute("floating_point", c[2])
    [] type \in {"TEXT", "VARCHAR"} /\ c # Null -> Attribute("text", c[2])
    [] type = "DATE" /\ c # Null -> Attribute("date", Parsed(<<"day", c[2]>>))
    [] OTHER -> Unset

-----------------------------------------------------------------------------
(* The calls of the connection.                                            *)

Nothing == <<"nothing">>   \* nothing read, nothing written

Throws(r) == IF adapter = "sqlite" THEN SqliteThrows(decl, cell[r])
             ELSE PostgresThrows(decl)

Gives(r) == IF adapter = "sqlite" THEN SqliteGives(decl, cell[r])
            ELSE PostgresGives(decl, cell[r])

\* An INSERT or UPDATE with one parameter; the server may refuse it.
execute(r, a, again) ==
  \/ /\ adapter = "sqlite" \/ Accepts(decl, a)
     /\ cell' = [cell EXCEPT ![r] = IF adapter = "sqlite"
                                    THEN Affinity(decl, Binds(a))
                                    ELSE InColumn(decl, a)]
     /\ written' = [written EXCEPT ![r] = a]
     /\ got' = [got EXCEPT ![r] = Nothing]
     /\ cycled' = [cycled EXCEPT ![r] = again]
  \/ /\ adapter = "postgres" /\ ~Accepts(decl, a)
     /\ UNCHANGED <<cell, written, got, cycled>>

Write ==
  /\ \E r \in Rows, a \in Attributes : execute(r, a, FALSE)
  /\ UNCHANGED <<adapter, decl>>

\* What was read is written back, as Base<T>::update does with every
\* attribute it loaded.
WriteBack(r) ==
  /\ got[r] # Nothing
  /\ execute(r, got[r], TRUE)
  /\ UNCHANGED <<adapter, decl>>

\* A row that cannot be read throws, and gives nothing.
select_one(r) ==
  /\ ~Throws(r)
  /\ got' = [got EXCEPT ![r] = Gives(r)]
  /\ UNCHANGED <<adapter, decl, cell, written, cycled>>

\* One row that cannot be read takes the others with it.
select_all ==
  /\ \A r \in Rows : ~Throws(r)
  /\ got' = [r \in Rows |-> Gives(r)]
  /\ UNCHANGED <<adapter, decl, cell, written, cycled>>

\* What another tool may have in the column.
Others ==
  {Null} \cup
  IF adapter = "sqlite"
  THEN {Affinity(decl, c) : c \in {Cell("integer", i) : i \in Integers64}
                                    \cup {Cell("text", t) : t \in Texts}
                                    \cup {Cell("real", x) : x \in Reals}}
  ELSE CASE decl = "INTEGER"              -> {Cell("integer", i) : i \in
                                                {j \in Integers64 : FitsInt(j)}}
         [] decl \in {"TEXT", "VARCHAR"}  -> {Cell("text", CString(t)) : t \in Texts}
         [] decl \in {"FLOAT", "NUMERIC"} -> {Cell("real", x) : x \in Reals}
         [] decl = "DATE" -> {Cell("date", d) : d \in {e \in Days : InCalendar(e)}}

OtherTool ==
  /\ \E r \in Rows, c \in Others :
       /\ cell' = [cell EXCEPT ![r] = c]
       /\ got' = [got EXCEPT ![r] = Nothing]
       /\ written' = [written EXCEPT ![r] = Nothing]
       /\ cycled' = [cycled EXCEPT ![r] = FALSE]
  /\ UNCHANGED <<adapter, decl>>

Init ==
  /\ adapter \in {"sqlite", "postgres"}
  /\ decl \in Decls[adapter]
  /\ cell = [r \in Rows |-> Null]
  /\ got = [r \in Rows |-> Nothing]
  /\ written = [r \in Rows |-> Nothing]
  /\ cycled = [r \in Rows |-> FALSE]

Next ==
  \/ Write \/ OtherTool \/ select_all
  \/ \E r \in Rows : WriteBack(r) \/ select_one(r)

Spec == Init /\ [][Next]_vars

-----------------------------------------------------------------------------
(* Properties.                                                             *)

\* The type a program may ask the Attribute of a column for.
TypeOfColumn ==
  CASE decl = "INTEGER"                  -> "integer"
    [] decl \in {"TEXT", "VARCHAR", "none"} -> "text"
    [] decl \in {"FLOAT", "NUMERIC"}     -> "floating_point"
    [] decl = "DATE"                     -> "date"

\* What is read is unset, or has the type of its column, so that boost::get
\* of that type does not throw; a Date that was read is a valid one.
TypeOK ==
  /\ adapter \in {"sqlite", "postgres"} /\ decl \in Decls[adapter]
  /\ \A r \in Rows :
       /\ cell[r][1] \in {"null", "integer", "text", "real", "date"}
       /\ got[r] \in {Nothing, Unset}
            \/ /\ which(got[r]) = TypeOfColumn
               /\ which(got[r]) = "date" => InRange(got[r][2][1])

\* Asked for the value of a NULL, the getter of the column's type throws, but
\* gives 0 for an INTEGER and, on SQLite only, for a FLOAT: a program that runs
\* over one adapter may end with an exception over the other.
GettersThrowOnNull ==
  \A r \in Rows :
    got[r] # Nothing =>
      (~Gets(got[r], TypeOfColumn) <=>
         /\ cell[r] = Null
         /\ decl \in {"TEXT", "DATE", "VARCHAR", "NUMERIC", "none"})

\* Which Attributes survive the way: those of the column's own type that an
\* int holds, that have no NUL, whose decimals "%f" shows, and Dates that are
\* not made from a time_t and, on PostgreSQL, are of the year 100 or later.
Survives(a) ==
  /\ which(a) = TypeOfColumn
  /\ which(a) = "integer" => FitsInt(a[2])
  /\ which(a) = "text" => a[2][1] # "nul"
  /\ which(a) = "floating_point" /\ adapter = "postgres" => a[2] % 2 = 0
  /\ which(a) = "date" => /\ a[2][2] = 0
                          /\ adapter = "postgres" => a[2][1][1] >= 100

\* What is read back equals what was written exactly if it is of those.
RoundTrip ==
  \A r \in Rows :
    got[r] # Nothing /\ written[r] # Nothing =>
      (Equals(got[r], written[r]) <=> Survives(written[r]))

\* What is read may change when it is written back for the first time, but
\* never again: loading and saving a record over and over does not make its
\* values drift.
Settles ==
  [][\A r \in Rows : cycled[r] /\ WriteBack(r) =>
       ~Throws(r)' /\ Gives(r)' = got[r]]_vars

\* A row written through the library can be read again, unless its column has
\* a type the library cannot read at all, or it is a DATE column of SQLite that
\* was given something else than a valid date.
StoredIsReadable ==
  \A r \in Rows :
    written[r] # Nothing /\ Throws(r) =>
      \/ adapter = "sqlite" /\ decl = "VARCHAR"
      \/ adapter = "postgres" /\ decl = "FLOAT"
      \/ /\ adapter = "sqlite" /\ decl = "DATE"
         /\ which(written[r]) = "date" => ~InRange(written[r][2][1])

=============================================================================
