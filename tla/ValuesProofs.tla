----------------------------- MODULE ValuesProofs -----------------------------
(***************************************************************************)
(* Proofs about Values, for every width of an int and every set of         *)
(* integers, reals, words, days and moments.                               *)
(***************************************************************************)
EXTENDS Values, TLAPS

-----------------------------------------------------------------------------
(* The values there are.                                                   *)

\* The days a text may show, the program's and the server's.
AnyDays == Nat \X (0..99) \X (0..99)

AnyTexts == ({"word", "nul"} \X Words) \cup ({"number", "decimal"} \X Int)
              \cup ({"day"} \X AnyDays)

AnyDates == AnyDays \X (Moments \cup {0})

Attrs == {Unset} \cup ({"integer", "floating_point"} \X Int)
           \cup ({"text"} \X AnyTexts) \cup ({"date"} \X AnyDates)

SqliteCells == {Null} \cup ({"integer", "real"} \X Int) \cup ({"text"} \X AnyTexts)

\* The server keeps the values of its types: texts without NUL, valid days.
PostgresCells(type) ==
  {Null} \cup
  CASE type = "INTEGER"              -> {"integer"} \X Int
    [] type \in {"TEXT", "VARCHAR"}  -> {"text"} \X {t \in AnyTexts : t[1] # "nul"}
    [] type \in {"FLOAT", "NUMERIC"} -> {"real"} \X Int
    [] type = "DATE"                 -> {"date"} \X {d \in AnyDays : InCalendar(d)}

Cells == IF adapter = "sqlite" THEN SqliteCells ELSE PostgresCells(decl)

\* What becomes of an Attribute in the column, and of a cell that is read.
Taken(a) == adapter = "sqlite" \/ Accepts(decl, a)
Stored(a) == IF adapter = "sqlite" THEN Affinity(decl, Binds(a)) ELSE InColumn(decl, a)

Unreadable(c) == IF adapter = "sqlite" THEN SqliteThrows(decl, c) ELSE PostgresThrows(decl)
Read(c) == IF adapter = "sqlite" THEN SqliteGives(decl, c) ELSE PostgresGives(decl, c)

Adapters == adapter \in {"sqlite", "postgres"} /\ decl \in Decls[adapter]

\* What was read is what a cell gives, and what was written is what is stored.
Inv ==
  /\ Adapters
  /\ cell \in [Rows -> Cells]
  /\ got = [r \in Rows |-> got[r]] /\ written = [r \in Rows |-> written[r]]
  /\ cycled \in [Rows -> BOOLEAN]
  /\ \A r \in Rows :
       /\ got[r] # Nothing => ~Unreadable(cell[r]) /\ got[r] = Read(cell[r])
       /\ written[r] # Nothing =>
            written[r] \in Attrs /\ Taken(written[r]) /\ cell[r] = Stored(written[r])
       /\ cycled[r] => written[r] # Nothing

\* The low bits of an integer are an int, and those of an int are itself.
LEMMA LowBits ==
  ASSUME NEW i \in Int
  PROVE  /\ AsInt(i) \in Int /\ FitsInt(AsInt(i))
         /\ FitsInt(i) => AsInt(i) = i
         /\ AsInt(i) = i => FitsInt(i)
<1>1. \A b \in Nat \ {0} : \A n \in Int : n % b \in 0..(b - 1) /\ (n \in 0..(b - 1) => n % b = n)
  OBVIOUS
<1>2. PICK b \in Nat \ {0}, n \in Int : b = 2 * IntHalf /\ n = i + IntHalf
  BY ValueAssumption
<1>3. n % b \in 0..(b - 1) /\ (n \in 0..(b - 1) => n % b = n)
  BY <1>1
<1>4. AsInt(i) = (n % b) - IntHalf
  BY <1>2 DEF AsInt
<1>5. FitsInt(i) <=> n \in 0..(b - 1)
  BY <1>2, ValueAssumption DEF FitsInt
<1>6. (n % b) - IntHalf \in -IntHalf .. IntHalf - 1
  BY <1>2, <1>3, ValueAssumption
<1> QED BY <1>2, <1>3, <1>4, <1>5, <1>6, ValueAssumption DEF FitsInt

\* "%f" shows what is even, and shows it again.
LEMMA Shows ==
  ASSUME NEW x \in Int
  PROVE  /\ Shown(x) \in Int /\ Shown(x) % 2 = 0
         /\ Shown(x) = x <=> x % 2 = 0
BY DEF Shown

LEMMA AttrIs ==
  ASSUME NEW a \in Attrs
  PROVE  /\ which(a) \in {"integer", "text", "floating_point", "date"}
         /\ which(a) = "integer" => a[2] \in Int
         /\ which(a) = "text" => a[2] \in AnyTexts
         /\ which(a) = "floating_point" => a[2] \in Int
         /\ which(a) = "date" => a[2] \in AnyDates
         /\ a # Nothing
<1>1. CASE a = Unset
  <2>1. which(a) = "integer" /\ a[2] = 0
    BY <1>1 DEF Unset, which
  <2>2. which(Nothing) = "nothing"
    BY DEF which, Nothing
  <2> QED BY <2>1, <2>2
<1>2. CASE a \in {"integer", "floating_point"} \X Int
  BY <1>2 DEF which, Nothing
<1>3. CASE a \in {"text"} \X AnyTexts
  BY <1>3 DEF which, Nothing
<1>4. CASE a \in {"date"} \X AnyDates
  BY <1>4 DEF which, Nothing
<1> QED BY <1>1, <1>2, <1>3, <1>4 DEF Attrs

LEMMA TextIs ==
  ASSUME NEW t \in AnyTexts
  PROVE  /\ t[1] \in {"word", "nul", "number", "decimal", "day"}
         /\ t[1] \in {"number", "decimal"} => t[2] \in Int
         /\ t[1] = "day" => t[2] \in AnyDays /\ t = <<"day", t[2]>>
         /\ CString(t) \in AnyTexts /\ CString(t)[1] # "nul"
         /\ t[1] # "nul" <=> CString(t) = t
BY DEF AnyTexts, CString

LEMMA DayIs ==
  ASSUME NEW d \in AnyDays
  PROVE  /\ d[1] \in Int /\ d[2] \in Int /\ d[3] \in Int
         /\ InCalendar(d) => InRange(d)
BY DEF InCalendar, AnyDays

\* The server takes the text of a day for one of the year 100 or later, and
\* for the same one exactly if the day is.
LEMMA ServerDayIs ==
  ASSUME NEW d \in AnyDays
  PROVE  /\ ServerDay(<<"day", d>>) \in AnyDays
         /\ ServerDay(<<"day", d>>)[1] >= 100
         /\ ServerDay(<<"day", d>>) = d <=> d[1] >= 100
<1>1. d[1] \in Nat /\ d[2] \in 0..99 /\ d[3] \in 0..99
  BY DEF AnyDays
<1>2. CASE d[1] >= 100
  BY <1>2 DEF ServerDay
<1>3. CASE ~(d[1] >= 100)
  <2> DEFINE y == IF d[3] < 70 THEN 2000 + d[3] ELSE 1900 + d[3]
  <2>1. y \in Nat /\ y >= 100
    BY <1>1
  <2>2. ServerDay(<<"day", d>>) = <<y, d[1], d[2]>>
    BY <1>3 DEF ServerDay
  <2>3. d[1] \in 0..99 /\ d[1] # y
    BY <1>1, <1>3, <2>1
  <2> HIDE DEF y
  <2> QED BY <1>1, <1>3, <2>1, <2>2, <2>3 DEF AnyDays
<1> QED BY <1>2, <1>3

\* What the library writes is no NULL, and what it binds is a cell of SQLite.
LEMMA BindsIs ==
  ASSUME NEW a \in Attrs
  PROVE  /\ Binds(a) \in SqliteCells /\ Binds(a) # Null
         /\ which(a) = "integer" => Binds(a) = <<"integer", AsInt(a[2])>>
         /\ which(a) = "text" => Binds(a) = <<"text", a[2]>>
         /\ which(a) = "floating_point" => Binds(a) = <<"real", a[2]>>
         /\ which(a) = "date" => Binds(a) = <<"text", <<"day", a[2][1]>>>>
                                 /\ a[2][1] \in AnyDays
<1>1. CASE which(a) = "integer"
  BY <1>1, AttrIs, LowBits DEF Binds, Cell, Null, SqliteCells
<1>2. CASE which(a) = "text"
  BY <1>2, AttrIs DEF Binds, Cell, Null, SqliteCells
<1>3. CASE which(a) = "floating_point"
  BY <1>3, AttrIs DEF Binds, Cell, Null, SqliteCells
<1>4. CASE which(a) = "date"
  <2>1. a[2][1] \in AnyDays
    BY <1>4, AttrIs DEF AnyDates
  <2>2. <<"day", a[2][1]>> \in AnyTexts
    BY <2>1 DEF AnyTexts
  <2> QED BY <1>4, <2>1, <2>2 DEF Binds, Cell, Null, SqliteCells, to_string
<1> QED BY <1>1, <1>2, <1>3, <1>4, AttrIs

LEMMA CellIs ==
  ASSUME NEW c \in SqliteCells
  PROVE  /\ c[1] \in {"null", "integer", "real", "text"}
         /\ c[1] = "null" <=> c = Null
         /\ c[1] \in {"integer", "real"} => c[2] \in Int /\ c = <<c[1], c[2]>>
         /\ c[1] = "text" => c[2] \in AnyTexts /\ c = <<"text", c[2]>>
BY DEF SqliteCells, Null, Cell

LEMMA AffinityIs ==
  ASSUME NEW type \in Decls.sqlite, NEW c \in SqliteCells
  PROVE  /\ Affinity(type, c) \in SqliteCells
         /\ Affinity(type, c) = Null <=> c = Null
<1>1. CASE type \in {"INTEGER", "DATE"}
  BY <1>1, CellIs, TextIs DEF Affinity, Whole, Cell, SqliteCells, Null
<1>2. CASE type \in {"TEXT", "VARCHAR"}
  <2>1. \A x \in Int : <<"number", x>> \in AnyTexts /\ <<"decimal", x>> \in AnyTexts
    BY DEF AnyTexts
  <2> QED BY <1>2, <2>1, CellIs DEF Affinity, Cell, SqliteCells, Null
<1>3. CASE type = "FLOAT"
  BY <1>3, CellIs, TextIs DEF Affinity, Cell, SqliteCells, Null
<1>4. CASE type = "none"
  BY <1>4 DEF Affinity
<1> QED BY <1>1, <1>2, <1>3, <1>4 DEF Decls

-----------------------------------------------------------------------------
(* SQLite.                                                                 *)

LEMMA ColumnIs ==
  ASSUME NEW c \in SqliteCells
  PROVE  /\ ColumnDouble(c) \in Int /\ ColumnInt(c) \in Int /\ FitsInt(ColumnInt(c))
         /\ c[1] = "integer" => ColumnInt(c) = AsInt(c[2])
         /\ c[1] = "real" => ColumnDouble(c) = c[2]
         /\ c # Null => ColumnText(c) \in AnyTexts /\ ColumnText(c)[1] # "nul"
         /\ c[1] = "text" => ColumnText(c) = CString(c[2])
<1>1. ColumnDouble(c) \in Int
  <2>1. c[1] = "text" /\ c[2][1] = "day" => c[2][2][1] \in Int
    BY CellIs, TextIs, DayIs
  <2>2. c[1] = "text" /\ c[2][1] \in {"number", "decimal"} => c[2][2] \in Int
    BY CellIs, TextIs
  <2> QED BY <2>1, <2>2, CellIs DEF ColumnDouble
<1>2. ColumnInt(c) \in Int /\ FitsInt(ColumnInt(c))
  BY <1>1, LowBits, CellIs DEF ColumnInt
<1>3. /\ c[1] = "integer" => ColumnInt(c) = AsInt(c[2])
      /\ c[1] = "real" => ColumnDouble(c) = c[2]
      /\ c[1] = "text" => ColumnText(c) = CString(c[2])
  BY DEF ColumnInt, ColumnDouble, ColumnText
<1>4. ASSUME c # Null PROVE ColumnText(c) \in AnyTexts /\ ColumnText(c)[1] # "nul"
  <2>1. \A x \in Int : <<"number", x>> \in AnyTexts /\ <<"decimal", x>> \in AnyTexts
    BY DEF AnyTexts
  <2>2. CASE c[1] = "text"
    BY <1>3, <2>2, CellIs, TextIs
  <2>3. CASE c[1] = "integer"
    BY <2>1, <2>3, CellIs DEF ColumnText
  <2>4. CASE c[1] = "real"
    BY <2>1, <2>4, CellIs DEF ColumnText
  <2> QED BY <1>4, <2>2, <2>3, <2>4, CellIs
<1> QED BY <1>1, <1>2, <1>3, <1>4

\* What a column of each type gives, when it can be read.
LEMMA SqliteGivesInteger ==
  ASSUME NEW c \in SqliteCells
  PROVE  SqliteGives("INTEGER", c) = <<"integer", ColumnInt(c)>>
BY DEF SqliteGives, Attribute

LEMMA SqliteGivesFloat ==
  ASSUME NEW c \in SqliteCells
  PROVE  SqliteGives("FLOAT", c) = <<"floating_point", ColumnDouble(c)>>
BY DEF SqliteGives, Attribute

LEMMA SqliteGivesText ==
  ASSUME NEW c \in SqliteCells, NEW type \in {"TEXT", "none"}
  PROVE  SqliteGives(type, c) = IF c = Null THEN Unset ELSE <<"text", ColumnText(c)>>
BY DEF SqliteGives, Attribute

LEMMA SqliteGivesDate ==
  ASSUME NEW c \in SqliteCells, ~SqliteThrows("DATE", c)
  PROVE  /\ c = Null => SqliteGives("DATE", c) = Unset
         /\ c # Null =>
              \E d \in AnyDays : /\ InRange(d) /\ ColumnText(c) = <<"day", d>>
                                 /\ SqliteGives("DATE", c) = <<"date", <<d, 0>>>>
<1>1. c = Null => SqliteGives("DATE", c) = Unset
  BY DEF SqliteGives
<1>2. ASSUME c # Null
      PROVE  \E d \in AnyDays : /\ InRange(d) /\ ColumnText(c) = <<"day", d>>
                                /\ SqliteGives("DATE", c) = <<"date", <<d, 0>>>>
  <2>1. ColumnText(c) \in AnyTexts /\ ColumnText(c)[1] = "day" /\ InRange(ColumnText(c)[2])
    BY <1>2, ColumnIs DEF SqliteThrows, Parses
  <2>2. PICK d \in AnyDays : ColumnText(c) = <<"day", d>> /\ InRange(d)
    BY <2>1, TextIs
  <2>3. SqliteGives("DATE", c) = <<"date", <<d, 0>>>>
    BY <1>2, <2>2 DEF SqliteGives, Attribute, Parsed
  <2> QED BY <2>2, <2>3
<1> QED BY <1>1, <1>2

\* Reading gives an Attribute of the type of the column, or none of a NULL.
LEMMA SqliteReads ==
  ASSUME adapter = "sqlite", decl \in Decls.sqlite,
         NEW c \in SqliteCells, ~SqliteThrows(decl, c),
         NEW g, g = SqliteGives(decl, c)
  PROVE  /\ g \in Attrs
         /\ which(g) = TypeOfColumn \/ g = Unset
         /\ which(g) = "date" => InRange(g[2][1])
         /\ which(g) # TypeOfColumn
              <=> c = Null /\ decl \in {"TEXT", "DATE", "VARCHAR", "NUMERIC", "none"}
<1>0. Unset \in Attrs /\ which(Unset) = "integer"
  BY DEF Attrs, Unset, which
<1>1. CASE decl = "INTEGER"
  <2>1. g = <<"integer", ColumnInt(c)>>
    BY <1>1, SqliteGivesInteger
  <2> QED BY <1>1, <2>1, ColumnIs DEF Attrs, which, TypeOfColumn
<1>2. CASE decl = "FLOAT"
  <2>1. g = <<"floating_point", ColumnDouble(c)>>
    BY <1>2, SqliteGivesFloat
  <2> QED BY <1>2, <2>1, ColumnIs DEF Attrs, which, TypeOfColumn
<1>3. CASE decl \in {"TEXT", "none"}
  <2>1. TypeOfColumn = "text"
    BY <1>3 DEF TypeOfColumn
  <2>2. CASE c = Null
    BY <1>0, <1>3, <2>1, <2>2, SqliteGivesText
  <2>3. CASE c # Null
    <3>1. g = <<"text", ColumnText(c)>>
      BY <1>3, <2>3, SqliteGivesText
    <3> QED BY <2>1, <2>3, <3>1, ColumnIs DEF Attrs, which
  <2> QED BY <2>2, <2>3
<1>4. CASE decl = "DATE"
  <2>1. TypeOfColumn = "date"
    BY <1>4 DEF TypeOfColumn
  <2>2. CASE c = Null
    BY <1>0, <1>4, <2>1, <2>2, SqliteGivesDate
  <2>3. CASE c # Null
    <3>1. PICK d \in AnyDays : InRange(d) /\ g = <<"date", <<d, 0>>>>
      BY <1>4, <2>3, SqliteGivesDate
    <3> QED BY <2>1, <2>3, <3>1 DEF Attrs, AnyDates, which
  <2> QED BY <2>2, <2>3
<1>5. decl # "VARCHAR"
  BY DEF SqliteThrows
<1> QED BY <1>1, <1>2, <1>3, <1>4, <1>5 DEF Decls

\* What becomes of an Attribute of the type of its column.
LEMMA SqliteKeepsInteger ==
  ASSUME NEW a \in Attrs, which(a) = "integer"
  PROVE  ColumnInt(Affinity("INTEGER", Binds(a))) = AsInt(a[2])
<1>1. PICK i \in Int : i = AsInt(a[2]) /\ Binds(a) = <<"integer", i>> /\ AsInt(i) = i
  BY AttrIs, BindsIs, LowBits
<1>2. Affinity("INTEGER", Binds(a)) = <<"integer", i>>
  BY <1>1 DEF Affinity
<1> QED BY <1>1, <1>2 DEF ColumnInt

LEMMA SqliteKeepsFloat ==
  ASSUME NEW a \in Attrs, which(a) = "floating_point"
  PROVE  ColumnDouble(Affinity("FLOAT", Binds(a))) = a[2]
<1>1. PICK x \in Int : x = a[2] /\ Binds(a) = <<"real", x>>
  BY AttrIs, BindsIs
<1>2. Affinity("FLOAT", Binds(a)) = <<"real", x>>
  BY <1>1 DEF Affinity
<1> QED BY <1>1, <1>2 DEF ColumnDouble

LEMMA SqliteKeepsText ==
  ASSUME NEW a \in Attrs, which(a) = "text", NEW type \in {"TEXT", "none"}
  PROVE  /\ Affinity(type, Binds(a)) # Null
         /\ ColumnText(Affinity(type, Binds(a))) = CString(a[2])
<1>1. PICK t \in AnyTexts : t = a[2] /\ Binds(a) = <<"text", t>>
  BY AttrIs, BindsIs
<1>2. Affinity(type, Binds(a)) = <<"text", t>>
  BY <1>1 DEF Affinity
<1> QED BY <1>1, <1>2 DEF ColumnText, Null, Cell

LEMMA SqliteKeepsDate ==
  ASSUME NEW a \in Attrs, which(a) = "date"
  PROVE  /\ Affinity("DATE", Binds(a)) # Null
         /\ a[2][1] \in AnyDays
         /\ ColumnText(Affinity("DATE", Binds(a))) = <<"day", a[2][1]>>
<1>1. PICK d \in AnyDays : d = a[2][1] /\ Binds(a) = <<"text", <<"day", d>>>>
  BY BindsIs
<1>2. Affinity("DATE", Binds(a)) = <<"text", <<"day", d>>>>
  BY <1>1 DEF Affinity
<1> QED BY <1>1, <1>2 DEF ColumnText, CString, Null, Cell

\* What is stored and read back is what was written exactly if it survives.
LEMMA SqliteRoundTrip ==
  ASSUME adapter = "sqlite", decl \in Decls.sqlite, NEW a \in Attrs,
         NEW c, c = Affinity(decl, Binds(a)), ~SqliteThrows(decl, c)
  PROVE  Equals(SqliteGives(decl, c), a) <=> Survives(a)
<1>1. c \in SqliteCells /\ c # Null
  BY BindsIs, AffinityIs
<1>2. PICK g \in Attrs : g = SqliteGives(decl, c) /\ which(g) = TypeOfColumn
  <2>1. PICK g : g = SqliteGives(decl, c)
    OBVIOUS
  <2>2. g \in Attrs /\ which(g) = TypeOfColumn
    BY <1>1, <2>1, SqliteReads
  <2> QED BY <2>1, <2>2
<1>3. CASE which(a) # TypeOfColumn
  BY <1>2, <1>3 DEF Equals, Survives
<1>4. CASE which(a) = TypeOfColumn /\ decl = "INTEGER"
  <2>1. which(a) = "integer" /\ a[2] \in Int
    BY <1>4, AttrIs DEF TypeOfColumn
  <2>2. g[2] = AsInt(a[2])
    BY <1>1, <1>2, <1>4, <2>1, SqliteGivesInteger, SqliteKeepsInteger
  <2>3. Survives(a) <=> FitsInt(a[2])
    BY <1>4, <2>1 DEF Survives
  <2> QED BY <1>2, <1>4, <2>1, <2>2, <2>3, LowBits DEF Equals
<1>5. CASE which(a) = TypeOfColumn /\ decl = "FLOAT"
  <2>1. which(a) = "floating_point"
    BY <1>5 DEF TypeOfColumn
  <2>2. g[2] = a[2]
    BY <1>1, <1>2, <1>5, <2>1, SqliteGivesFloat, SqliteKeepsFloat
  <2>3. Survives(a)
    BY <1>5, <2>1 DEF Survives
  <2> QED BY <1>2, <1>5, <2>1, <2>2, <2>3 DEF Equals
<1>6. CASE which(a) = TypeOfColumn /\ decl \in {"TEXT", "none"}
  <2>1. which(a) = "text" /\ a[2] \in AnyTexts
    BY <1>6, AttrIs DEF TypeOfColumn
  <2>2. g[2] = CString(a[2])
    BY <1>1, <1>2, <1>6, <2>1, SqliteGivesText, SqliteKeepsText
  <2>3. Survives(a) <=> a[2][1] # "nul"
    BY <1>6, <2>1 DEF Survives
  <2> QED BY <1>2, <1>6, <2>1, <2>2, <2>3, TextIs DEF Equals
<1>7. CASE which(a) = TypeOfColumn /\ decl = "DATE"
  <2>1. which(a) = "date" /\ a[2] \in AnyDates
    BY <1>7, AttrIs DEF TypeOfColumn
  <2>2. PICK d \in AnyDays : ColumnText(c) = <<"day", d>> /\ g = <<"date", <<d, 0>>>>
    BY <1>1, <1>2, <1>7, SqliteGivesDate
  <2>3. d = a[2][1]
    BY <1>7, <2>1, <2>2, SqliteKeepsDate
  <2>4. a[2] = <<a[2][1], a[2][2]>>
    BY <2>1 DEF AnyDates
  <2>5. g[2] = a[2] <=> a[2][2] = 0
    BY <2>2, <2>3, <2>4
  <2>6. Survives(a) <=> a[2][2] = 0
    BY <1>7, <2>1 DEF Survives
  <2> QED BY <1>2, <1>7, <2>1, <2>5, <2>6 DEF Equals, SameDate
<1>8. decl # "VARCHAR"
  BY DEF SqliteThrows
<1> QED BY <1>3, <1>4, <1>5, <1>6, <1>7, <1>8 DEF Decls

\* What was read of a row the library wrote is stored as it is, and read again.
LEMMA SqliteSettles ==
  ASSUME adapter = "sqlite", decl \in Decls.sqlite,
         NEW b \in SqliteCells, b # Null, ~SqliteThrows(decl, b),
         NEW g, g = SqliteGives(decl, b),
         NEW c, c = Affinity(decl, Binds(g))
  PROVE  ~SqliteThrows(decl, c) /\ SqliteGives(decl, c) = g
<1>1. g \in Attrs /\ which(g) = TypeOfColumn
  BY SqliteReads
<1>2. c \in SqliteCells
  BY <1>1, BindsIs, AffinityIs
<1>3. decl # "VARCHAR"
  BY DEF SqliteThrows
<1>4. CASE decl = "INTEGER"
  <2>1. g = <<"integer", ColumnInt(b)>> /\ FitsInt(g[2]) /\ g[2] \in Int
    BY <1>4, ColumnIs, SqliteGivesInteger
  <2>2. ColumnInt(c) = AsInt(g[2])
    BY <1>1, <1>4, <2>1, SqliteKeepsInteger DEF which
  <2>3. ColumnInt(c) = ColumnInt(b)
    BY <2>1, <2>2, LowBits
  <2> QED BY <1>2, <1>4, <2>1, <2>3, SqliteGivesInteger DEF SqliteThrows
<1>5. CASE decl = "FLOAT"
  <2>1. g = <<"floating_point", ColumnDouble(b)>>
    BY <1>5, SqliteGivesFloat
  <2>2. ColumnDouble(c) = ColumnDouble(b)
    BY <1>1, <1>5, <2>1, SqliteKeepsFloat DEF which
  <2> QED BY <1>2, <1>5, <2>1, <2>2, SqliteGivesFloat DEF SqliteThrows
<1>6. CASE decl \in {"TEXT", "none"}
  <2>1. g = <<"text", ColumnText(b)>> /\ CString(g[2]) = g[2]
    BY <1>6, ColumnIs, TextIs, SqliteGivesText
  <2>2. c # Null /\ ColumnText(c) = ColumnText(b)
    BY <1>1, <1>6, <2>1, SqliteKeepsText DEF which
  <2> QED BY <1>2, <1>6, <2>1, <2>2, SqliteGivesText DEF SqliteThrows
<1>7. CASE decl = "DATE"
  <2>1. PICK d \in AnyDays : InRange(d) /\ g = <<"date", <<d, 0>>>>
    BY <1>7, SqliteGivesDate
  <2>2. c # Null /\ ColumnText(c) = <<"day", d>>
    BY <1>1, <1>7, <2>1, SqliteKeepsDate DEF which
  <2>3. ~SqliteThrows("DATE", c)
    BY <2>1, <2>2 DEF SqliteThrows, Parses
  <2>4. SqliteGives("DATE", c) = <<"date", <<d, 0>>>>
    <3>1. PICK e \in AnyDays : /\ ColumnText(c) = <<"day", e>>
                               /\ SqliteGives("DATE", c) = <<"date", <<e, 0>>>>
      BY <1>2, <2>2, <2>3, SqliteGivesDate
    <3>2. d = e
      BY <2>2, <3>1
    <3> QED BY <3>1, <3>2
  <2> QED BY <1>7, <2>1, <2>3, <2>4
<1> QED BY <1>3, <1>4, <1>5, <1>6, <1>7 DEF Decls

\* A row that was written and cannot be read is of a type the library does not
\* know, or a date column without a date.
LEMMA SqliteReadable ==
  ASSUME adapter = "sqlite", decl \in Decls.sqlite, NEW a \in Attrs,
         SqliteThrows(decl, Affinity(decl, Binds(a)))
  PROVE  \/ decl = "VARCHAR"
         \/ decl = "DATE" /\ (which(a) = "date" => ~InRange(a[2][1]))
<1>1. ASSUME decl = "DATE", which(a) = "date" PROVE ~InRange(a[2][1])
  BY <1>1, SqliteKeepsDate DEF SqliteThrows, Parses
<1> QED BY <1>1 DEF SqliteThrows

-----------------------------------------------------------------------------
(* PostgreSQL.                                                             *)

\* What the server takes into a column of a type, and what the column gives.
LEMMA PostgresKeepsInteger ==
  ASSUME NEW a \in Attrs, Accepts("INTEGER", a), NEW c, c = InColumn("INTEGER", a)
  PROVE  /\ c \in {"integer"} \X Int /\ c # Null
         /\ PostgresGives("INTEGER", c) = <<"integer", c[2]>>
         /\ which(a) = "integer" => c[2] = a[2] /\ FitsInt(a[2])
<1>1. which(a) \in {"integer", "floating_point"} /\ a[2] \in Int
  BY AttrIs DEF Accepts
<1>2. PICK x \in Int : c = <<"integer", x>> /\ (which(a) = "integer" => x = a[2])
  BY <1>1, Shows DEF InColumn, Cell
<1>3. which(a) = "integer" => FitsInt(a[2])
  BY DEF Accepts
<1> QED BY <1>2, <1>3 DEF PostgresGives, NumberFound, Null, Cell, Attribute

LEMMA PostgresKeepsNumeric ==
  ASSUME NEW a \in Attrs, Accepts("NUMERIC", a), NEW c, c = InColumn("NUMERIC", a)
  PROVE  /\ c \in {"real"} \X Int /\ c # Null
         /\ PostgresGives("NUMERIC", c) = <<"floating_point", c[2]>>
         /\ c[2] % 2 = 0
         /\ which(a) = "floating_point" => c[2] = Shown(a[2])
<1>1. which(a) \in {"integer", "floating_point"} /\ a[2] \in Int
  BY AttrIs DEF Accepts
<1>2. \A i \in Int : 4 * i \in Int /\ (4 * i) % 2 = 0
  OBVIOUS
<1>3. PICK x \in Int : /\ c = <<"real", x>> /\ x % 2 = 0
                       /\ which(a) = "floating_point" => x = Shown(a[2])
  BY <1>1, <1>2, Shows DEF InColumn, Cell
<1> QED BY <1>3 DEF PostgresGives, NumberFound, Null, Cell, Attribute

LEMMA PostgresKeepsText ==
  ASSUME NEW type \in {"TEXT", "VARCHAR"}, NEW a \in Attrs, NEW c, c = InColumn(type, a)
  PROVE  /\ c \in {"text"} \X {t \in AnyTexts : t[1] # "nul"} /\ c # Null
         /\ PostgresGives(type, c) = <<"text", c[2]>>
         /\ which(a) = "text" => c[2] = CString(a[2])
<1>1. CASE which(a) = "integer"
  BY <1>1, AttrIs DEF InColumn, Cell, AnyTexts, PostgresGives, Null, Attribute
<1>2. CASE which(a) = "text"
  <2>1. PICK t \in AnyTexts : t = CString(a[2]) /\ t[1] # "nul"
    BY <1>2, AttrIs, TextIs
  <2>2. c = <<"text", t>>
    BY <1>2, <2>1 DEF InColumn, Cell
  <2> QED BY <2>1, <2>2 DEF PostgresGives, Null, Cell, Attribute
<1>3. CASE which(a) = "floating_point"
  BY <1>3, AttrIs, Shows DEF InColumn, Cell, AnyTexts, PostgresGives, Null, Attribute
<1>4. CASE which(a) = "date"
  <2>1. PICK d \in AnyDays : d = a[2][1]
    BY <1>4, BindsIs
  <2>2. PICK e \in AnyDays : e = ServerDay(<<"day", d>>)
    BY ServerDayIs
  <2>3. c = <<"text", <<"day", e>>>>
    BY <1>4, <2>1, <2>2 DEF InColumn, Cell, to_string
  <2> QED BY <1>4, <2>3 DEF AnyTexts, PostgresGives, Null, Cell, Attribute
<1> QED BY <1>1, <1>2, <1>3, <1>4, AttrIs

LEMMA PostgresKeepsDate ==
  ASSUME NEW a \in Attrs, Accepts("DATE", a), NEW c, c = InColumn("DATE", a)
  PROVE  /\ c \in {"date"} \X {d \in AnyDays : InCalendar(d)} /\ c # Null
         /\ PostgresGives("DATE", c) = <<"date", <<c[2], 0>>>>
         /\ which(a) = "date" /\ InRange(c[2]) /\ c[2][1] >= 100
         /\ c[2] = a[2][1] <=> a[2][1][1] >= 100
<1>1. which(a) = "date" /\ InCalendar(ServerDay(<<"day", a[2][1]>>))
  BY AttrIs DEF Accepts, to_string
<1>2. PICK d \in AnyDays : d = a[2][1]
  BY <1>1, BindsIs
<1>3. c = <<"date", ServerDay(<<"day", d>>)>>
  BY <1>2 DEF InColumn, Cell, to_string
<1>4. PICK e \in AnyDays : /\ e = ServerDay(<<"day", d>>)
                           /\ InCalendar(e) /\ InRange(e) /\ e[1] >= 100
                           /\ e = d <=> d[1] >= 100
  BY <1>1, <1>2, DayIs, ServerDayIs
<1>5. c = <<"date", e>>
  BY <1>3, <1>4
<1>6. PostgresGives("DATE", c) = <<"date", <<e, 0>>>> /\ c # Null
  BY <1>5 DEF PostgresGives, Null, Cell, Attribute, Parsed
<1> QED BY <1>1, <1>2, <1>4, <1>5, <1>6

LEMMA PostgresKeeps ==
  ASSUME NEW type \in Decls.postgres, NEW a \in Attrs, Accepts(type, a)
  PROVE  InColumn(type, a) \in PostgresCells(type) /\ InColumn(type, a) # Null
<1>1. CASE type = "INTEGER"
  BY <1>1, PostgresKeepsInteger DEF PostgresCells
<1>2. CASE type = "NUMERIC"
  BY <1>2, PostgresKeepsNumeric DEF PostgresCells
<1>3. CASE type \in {"TEXT", "VARCHAR"}
  BY <1>3, PostgresKeepsText DEF PostgresCells
<1>4. CASE type = "DATE"
  BY <1>4, PostgresKeepsDate DEF PostgresCells
<1>5. CASE type = "FLOAT"
  <2>1. Accepts("NUMERIC", a) /\ InColumn("FLOAT", a) = InColumn("NUMERIC", a)
    <3>1. which(a) \in {"integer", "floating_point"}
      BY <1>5, AttrIs DEF Accepts
    <3>2. Accepts("NUMERIC", a)
      BY <1>5, <3>1 DEF Accepts
    <3>3. InColumn("FLOAT", a) = InColumn("NUMERIC", a)
      BY DEF InColumn
    <3> QED BY <3>2, <3>3
  <2> QED BY <1>5, <2>1, PostgresKeepsNumeric DEF PostgresCells
<1> QED BY <1>1, <1>2, <1>3, <1>4, <1>5 DEF Decls

LEMMA PostgresReads ==
  ASSUME adapter = "postgres", decl \in Decls.postgres,
         NEW c \in PostgresCells(decl), ~PostgresThrows(decl),
         NEW g, g = PostgresGives(decl, c)
  PROVE  /\ g \in Attrs
         /\ which(g) = TypeOfColumn \/ g = Unset
         /\ which(g) = "date" => InRange(g[2][1])
         /\ which(g) # TypeOfColumn
              <=> c = Null /\ decl \in {"TEXT", "DATE", "VARCHAR", "NUMERIC", "none"}
<1>0. Unset \in Attrs /\ which(Unset) = "integer"
  BY DEF Attrs, Unset, which
<1>1. CASE c = Null
  <2>1. g = Unset
    BY <1>1 DEF PostgresGives, NumberFound
  <2> QED BY <1>0, <1>1, <2>1 DEF TypeOfColumn, Decls, PostgresThrows
<1>2. CASE c # Null /\ decl = "INTEGER"
  <2>1. PICK x \in Int : c = <<"integer", x>>
    BY <1>2 DEF PostgresCells
  <2>2. g = <<"integer", x>>
    BY <1>2, <2>1 DEF PostgresGives, NumberFound, Attribute
  <2> QED BY <1>2, <2>2 DEF Attrs, which, TypeOfColumn
<1>3. CASE c # Null /\ decl = "NUMERIC"
  <2>1. PICK x \in Int : c = <<"real", x>>
    BY <1>3 DEF PostgresCells
  <2>2. g = <<"floating_point", x>>
    BY <1>3, <2>1 DEF PostgresGives, NumberFound, Attribute
  <2> QED BY <1>3, <2>2 DEF Attrs, which, TypeOfColumn
<1>4. CASE c # Null /\ decl \in {"TEXT", "VARCHAR"}
  <2>1. PICK t \in AnyTexts : c = <<"text", t>>
    BY <1>4 DEF PostgresCells
  <2>2. g = <<"text", t>>
    BY <1>4, <2>1 DEF PostgresGives, Attribute
  <2> QED BY <1>4, <2>2 DEF Attrs, which, TypeOfColumn
<1>5. CASE c # Null /\ decl = "DATE"
  <2>1. PICK d \in AnyDays : c = <<"date", d>> /\ InRange(d)
    BY <1>5, DayIs DEF PostgresCells
  <2>2. g = <<"date", <<d, 0>>>>
    BY <1>5, <2>1 DEF PostgresGives, Attribute, Parsed
  <2> QED BY <1>5, <2>1, <2>2 DEF Attrs, AnyDates, which, TypeOfColumn
<1> QED BY <1>1, <1>2, <1>3, <1>4, <1>5 DEF Decls, PostgresThrows

LEMMA PostgresRoundTrip ==
  ASSUME adapter = "postgres", decl \in Decls.postgres,
         NEW a \in Attrs, Accepts(decl, a), ~PostgresThrows(decl),
         NEW c, c = InColumn(decl, a)
  PROVE  Equals(PostgresGives(decl, c), a) <=> Survives(a)
<1>1. c \in PostgresCells(decl) /\ c # Null
  BY PostgresKeeps
<1>2. PICK g \in Attrs : g = PostgresGives(decl, c) /\ which(g) = TypeOfColumn
  <2>1. PICK g : g = PostgresGives(decl, c)
    OBVIOUS
  <2>2. g \in Attrs /\ which(g) = TypeOfColumn
    BY <1>1, <2>1, PostgresReads
  <2> QED BY <2>1, <2>2
<1>3. CASE which(a) # TypeOfColumn
  BY <1>2, <1>3 DEF Equals, Survives
<1>4. CASE which(a) = TypeOfColumn /\ decl = "INTEGER"
  <2>1. which(a) = "integer"
    BY <1>4 DEF TypeOfColumn
  <2>2. g[2] = a[2] /\ FitsInt(a[2])
    BY <1>2, <1>4, <2>1, PostgresKeepsInteger
  <2> QED BY <1>2, <1>4, <2>1, <2>2 DEF Equals, Survives
<1>5. CASE which(a) = TypeOfColumn /\ decl = "NUMERIC"
  <2>1. which(a) = "floating_point" /\ a[2] \in Int
    BY <1>5, AttrIs DEF TypeOfColumn
  <2>2. g[2] = Shown(a[2])
    BY <1>2, <1>5, <2>1, PostgresKeepsNumeric
  <2>3. Survives(a) <=> a[2] % 2 = 0
    BY <1>5, <2>1 DEF Survives
  <2> QED BY <1>2, <1>5, <2>1, <2>2, <2>3, Shows DEF Equals
<1>6. CASE which(a) = TypeOfColumn /\ decl \in {"TEXT", "VARCHAR"}
  <2>1. which(a) = "text" /\ a[2] \in AnyTexts
    BY <1>6, AttrIs DEF TypeOfColumn
  <2>2. g[2] = CString(a[2])
    BY <1>2, <1>6, <2>1, PostgresKeepsText
  <2>3. Survives(a) <=> a[2][1] # "nul"
    BY <1>6, <2>1 DEF Survives
  <2> QED BY <1>2, <1>6, <2>1, <2>2, <2>3, TextIs DEF Equals
<1>7. CASE which(a) = TypeOfColumn /\ decl = "DATE"
  <2>1. which(a) = "date" /\ a[2] \in AnyDates
    BY <1>7, AttrIs DEF TypeOfColumn
  <2>2. g[2] = <<c[2], 0>> /\ (c[2] = a[2][1] <=> a[2][1][1] >= 100)
    BY <1>2, <1>7, PostgresKeepsDate
  <2>3. a[2] = <<a[2][1], a[2][2]>>
    BY <2>1 DEF AnyDates
  <2>4. g[2] = a[2] <=> a[2][2] = 0 /\ a[2][1][1] >= 100
    BY <2>2, <2>3
  <2>5. Survives(a) <=> a[2][2] = 0 /\ a[2][1][1] >= 100
    BY <1>7, <2>1 DEF Survives
  <2> QED BY <1>2, <1>7, <2>1, <2>4, <2>5 DEF Equals, SameDate
<1> QED BY <1>3, <1>4, <1>5, <1>6, <1>7 DEF Decls, PostgresThrows

LEMMA PostgresSettles ==
  ASSUME adapter = "postgres", decl \in Decls.postgres, ~PostgresThrows(decl),
         NEW a \in Attrs, Accepts(decl, a), NEW b, b = InColumn(decl, a),
         NEW g, g = PostgresGives(decl, b), Accepts(decl, g),
         NEW c, c = InColumn(decl, g)
  PROVE  PostgresGives(decl, c) = g
<1>1. g \in Attrs
  BY PostgresKeeps, PostgresReads
<1>2. CASE decl = "INTEGER"
  <2>1. PICK x \in Int : g = <<"integer", x>>
    BY <1>2, PostgresKeepsInteger
  <2>2. PostgresGives("INTEGER", c) = <<"integer", c[2]>> /\ c[2] = x
    BY <1>1, <1>2, <2>1, PostgresKeepsInteger DEF which
  <2> QED BY <1>2, <2>1, <2>2
<1>3. CASE decl = "NUMERIC"
  <2>1. PICK x \in Int : g = <<"floating_point", x>> /\ x % 2 = 0
    BY <1>3, PostgresKeepsNumeric
  <2>2. PostgresGives("NUMERIC", c) = <<"floating_point", c[2]>> /\ c[2] = Shown(x)
    BY <1>1, <1>3, <2>1, PostgresKeepsNumeric DEF which
  <2> QED BY <1>3, <2>1, <2>2, Shows
<1>4. CASE decl \in {"TEXT", "VARCHAR"}
  <2>1. PICK t \in AnyTexts : g = <<"text", t>> /\ t[1] # "nul"
    BY <1>4, PostgresKeepsText
  <2>2. PostgresGives(decl, c) = <<"text", c[2]>> /\ c[2] = CString(t)
    BY <1>1, <1>4, <2>1, PostgresKeepsText DEF which
  <2> QED BY <1>4, <2>1, <2>2, TextIs
<1>5. CASE decl = "DATE"
  <2>1. PICK d \in AnyDays : g = <<"date", <<d, 0>>>> /\ d[1] >= 100
    BY <1>5, PostgresKeepsDate
  <2>2. PostgresGives("DATE", c) = <<"date", <<c[2], 0>>>> /\ c[2] = d
    <3>1. g[2][1] = d
      BY <2>1
    <3> QED BY <1>1, <1>5, <2>1, <3>1, PostgresKeepsDate
  <2> QED BY <1>5, <2>1, <2>2
<1> QED BY <1>2, <1>3, <1>4, <1>5 DEF Decls, PostgresThrows

-----------------------------------------------------------------------------
(* Either adapter.                                                         *)

LEMMA AdapterIs ==
  ASSUME Adapters
  PROVE  \/ adapter = "sqlite" /\ decl \in Decls.sqlite
         \/ adapter = "postgres" /\ decl \in Decls.postgres
BY DEF Adapters

LEMMA StoredIs ==
  ASSUME Adapters, NEW a \in Attrs, Taken(a)
  PROVE  Stored(a) \in Cells /\ Stored(a) # Null
<1>1. CASE adapter = "sqlite" /\ decl \in Decls.sqlite
  BY <1>1, BindsIs, AffinityIs DEF Stored, Cells
<1>2. CASE adapter = "postgres" /\ decl \in Decls.postgres
  BY <1>2, PostgresKeeps DEF Stored, Cells, Taken
<1> QED BY <1>1, <1>2, AdapterIs

LEMMA ReadIs ==
  ASSUME Adapters, NEW c \in Cells, ~Unreadable(c)
  PROVE  /\ Read(c) \in Attrs
         /\ which(Read(c)) = TypeOfColumn \/ Read(c) = Unset
         /\ which(Read(c)) = "date" => InRange(Read(c)[2][1])
         /\ which(Read(c)) # TypeOfColumn
              <=> c = Null /\ decl \in {"TEXT", "DATE", "VARCHAR", "NUMERIC", "none"}
<1>1. CASE adapter = "sqlite" /\ decl \in Decls.sqlite
  BY <1>1, SqliteReads DEF Read, Cells, Unreadable
<1>2. CASE adapter = "postgres" /\ decl \in Decls.postgres
  BY <1>2, PostgresReads DEF Read, Cells, Unreadable
<1> QED BY <1>1, <1>2, AdapterIs

LEMMA RoundTripIs ==
  ASSUME Adapters, NEW a \in Attrs, Taken(a), ~Unreadable(Stored(a))
  PROVE  Equals(Read(Stored(a)), a) <=> Survives(a)
<1>1. CASE adapter = "sqlite" /\ decl \in Decls.sqlite
  BY <1>1, SqliteRoundTrip DEF Read, Stored, Unreadable
<1>2. CASE adapter = "postgres" /\ decl \in Decls.postgres
  BY <1>2, PostgresRoundTrip DEF Read, Stored, Unreadable, Taken
<1> QED BY <1>1, <1>2, AdapterIs

\* What is read of a row the library wrote, and is written back, is read again.
LEMMA SettlesIs ==
  ASSUME Adapters, NEW a \in Attrs, Taken(a), ~Unreadable(Stored(a)),
         NEW g, g = Read(Stored(a)), Taken(g)
  PROVE  ~Unreadable(Stored(g)) /\ Read(Stored(g)) = g
<1>1. CASE adapter = "sqlite" /\ decl \in Decls.sqlite
  <2>1. Stored(a) \in SqliteCells /\ Stored(a) # Null
    BY <1>1, StoredIs DEF Cells
  <2> QED BY <1>1, <2>1, SqliteSettles DEF Read, Stored, Unreadable
<1>2. CASE adapter = "postgres" /\ decl \in Decls.postgres
  BY <1>2, PostgresSettles DEF Read, Stored, Unreadable, Taken, PostgresThrows
<1> QED BY <1>1, <1>2, AdapterIs

LEMMA DaysAre == Days \subseteq AnyDays
BY ValueAssumption DEF AnyDays

\* The program passes Attributes, and other tools leave cells.
LEMMA Passed == Attributes \subseteq Attrs
<1>1. Texts \subseteq AnyTexts
  BY DaysAre DEF Texts, AnyTexts
<1>2. Dates \subseteq AnyDates
  BY DaysAre DEF Dates, AnyDates
<1> QED BY <1>1, <1>2, ValueAssumption DEF Attributes, Attrs, Attribute

LEMMA LeftByOthers == ASSUME Adapters PROVE Others \subseteq Cells
<1>0. Texts \subseteq AnyTexts
  BY DaysAre DEF Texts, AnyTexts
<1>1. CASE adapter = "sqlite" /\ decl \in Decls.sqlite
  <2>1. \A i \in Integers64 : Cell("integer", i) \in SqliteCells
    BY ValueAssumption DEF Cell, SqliteCells
  <2>2. \A t \in Texts : Cell("text", t) \in SqliteCells
    BY <1>0 DEF Cell, SqliteCells
  <2>3. \A x \in Reals : Cell("real", x) \in SqliteCells
    BY ValueAssumption DEF Cell, SqliteCells
  <2>4. Null \in SqliteCells
    BY DEF SqliteCells
  <2> QED BY <1>1, <2>1, <2>2, <2>3, <2>4, AffinityIs DEF Others, Cells
<1>2. CASE adapter = "postgres" /\ decl \in Decls.postgres
  <2>1. Null \in PostgresCells(decl) /\ Cells = PostgresCells(decl)
    BY <1>2 DEF PostgresCells, Cells
  <2>2. CASE decl = "INTEGER"
    BY <1>2, <2>1, <2>2, ValueAssumption DEF Others, Cell, PostgresCells
  <2>3. CASE decl \in {"TEXT", "VARCHAR"}
    <3>1. \A t \in Texts : CString(t) \in AnyTexts /\ CString(t)[1] # "nul"
      BY <1>0, TextIs
    <3>2. \A t \in Texts : Cell("text", CString(t)) \in PostgresCells(decl)
      BY <2>3, <3>1 DEF Cell, PostgresCells
    <3>3. Others = {Null} \cup {Cell("text", CString(t)) : t \in Texts}
      BY <1>2, <2>3 DEF Others
    <3> QED BY <2>1, <3>2, <3>3
  <2>4. CASE decl \in {"FLOAT", "NUMERIC"}
    BY <1>2, <2>1, <2>4, ValueAssumption DEF Others, Cell, PostgresCells
  <2>5. CASE decl = "DATE"
    <3>1. \A d \in Days : d \in AnyDays
      BY DaysAre
    <3>2. Others = {Null} \cup {Cell("date", d) : d \in {e \in Days : InCalendar(e)}}
      BY <1>2, <2>5 DEF Others
    <3>3. PostgresCells(decl) = {Null} \cup ({"date"} \X {d \in AnyDays : InCalendar(d)})
      BY <2>5 DEF PostgresCells
    <3> QED BY <2>1, <3>1, <3>2, <3>3 DEF Cell
  <2> QED BY <1>2, <2>2, <2>3, <2>4, <2>5 DEF Decls
<1> QED BY <1>1, <1>2, AdapterIs

-----------------------------------------------------------------------------
(* The invariant.                                                          *)

LEMMA CallsAre ==
  ASSUME NEW r \in Rows
  PROVE  Throws(r) = Unreadable(cell[r]) /\ Gives(r) = Read(cell[r])
BY DEF Throws, Gives, Unreadable, Read

\* What a row, its last reading and its last writing have to do with another.
RowIs(c, g, a, again) ==
  /\ c \in Cells /\ again \in BOOLEAN
  /\ g # Nothing => ~Unreadable(c) /\ g = Read(c)
  /\ a # Nothing => a \in Attrs /\ Taken(a) /\ c = Stored(a)
  /\ again => a # Nothing

LEMMA InvRows ==
  ASSUME Inv
  PROVE  \A r \in Rows : RowIs(cell[r], got[r], written[r], cycled[r])
BY DEF Inv, RowIs

LEMMA RowsStep ==
  ASSUME Inv, UNCHANGED <<adapter, decl>>,
         cell' = [r \in Rows |-> cell'[r]], got' = [r \in Rows |-> got'[r]],
         written' = [r \in Rows |-> written'[r]], cycled' = [r \in Rows |-> cycled'[r]],
         \A r \in Rows : RowIs(cell'[r], got'[r], written'[r], cycled'[r])
  PROVE  Inv'
<1>1. cell' \in [Rows -> Cells] /\ cycled' \in [Rows -> BOOLEAN]
  BY DEF RowIs
<1> QED BY <1>1 DEF Inv, RowIs, Adapters, Cells, Unreadable, Read, Taken, Stored

LEMMA FunctionsAre ==
  ASSUME Inv
  PROVE  /\ cell = [r \in Rows |-> cell[r]] /\ got = [r \in Rows |-> got[r]]
         /\ written = [r \in Rows |-> written[r]] /\ cycled = [r \in Rows |-> cycled[r]]
<1>1. cell = [r \in Rows |-> cell[r]]
  BY DEF Inv
<1>2. cycled = [r \in Rows |-> cycled[r]]
  BY DEF Inv
<1> QED BY <1>1, <1>2 DEF Inv

\* What execute does is to store an Attribute that is taken, or nothing.
LEMMA ExecuteIs ==
  ASSUME NEW r, NEW a, NEW again, execute(r, a, again)
  PROVE  \/ /\ Taken(a)
            /\ cell' = [cell EXCEPT ![r] = Stored(a)]
            /\ written' = [written EXCEPT ![r] = a]
            /\ got' = [got EXCEPT ![r] = Nothing]
            /\ cycled' = [cycled EXCEPT ![r] = again]
         \/ ~Taken(a) /\ UNCHANGED <<cell, written, got, cycled>>
BY DEF execute, Taken, Stored

LEMMA ExecuteStep ==
  ASSUME Inv, UNCHANGED <<adapter, decl>>,
         NEW r \in Rows, NEW a \in Attrs, NEW again \in BOOLEAN, execute(r, a, again)
  PROVE  Inv'
<1>0. Adapters /\ a # Nothing
  BY AttrIs DEF Inv
<1>1. CASE UNCHANGED <<cell, written, got, cycled>>
  BY <1>1, FunctionsAre, InvRows, RowsStep
<1>2. CASE /\ Taken(a)
           /\ cell' = [cell EXCEPT ![r] = Stored(a)]
           /\ written' = [written EXCEPT ![r] = a]
           /\ got' = [got EXCEPT ![r] = Nothing]
           /\ cycled' = [cycled EXCEPT ![r] = again]
  <2>1. RowIs(Stored(a), Nothing, a, again)
    BY <1>0, <1>2, StoredIs DEF RowIs
  <2>2. /\ cell' = [q \in Rows |-> IF q = r THEN Stored(a) ELSE cell[q]]
        /\ written' = [q \in Rows |-> IF q = r THEN a ELSE written[q]]
        /\ got' = [q \in Rows |-> IF q = r THEN Nothing ELSE got[q]]
        /\ cycled' = [q \in Rows |-> IF q = r THEN again ELSE cycled[q]]
    BY <1>2, FunctionsAre
  <2>3. ASSUME NEW q \in Rows PROVE RowIs(cell'[q], got'[q], written'[q], cycled'[q])
    BY <2>1, <2>2, InvRows
  <2>4. /\ cell' = [q \in Rows |-> cell'[q]] /\ got' = [q \in Rows |-> got'[q]]
        /\ written' = [q \in Rows |-> written'[q]] /\ cycled' = [q \in Rows |-> cycled'[q]]
    BY <2>2
  <2> QED BY <2>3, <2>4, RowsStep
<1> QED BY <1>1, <1>2, ExecuteIs

LEMMA InvInit == Init => Inv
<1> SUFFICES ASSUME Init PROVE Inv
  OBVIOUS
<1>1. Adapters
  BY DEF Init, Adapters
<1>2. Null \in Cells
  BY DEF Cells, SqliteCells, PostgresCells
<1> QED BY <1>1, <1>2 DEF Init, Inv

LEMMA InvStep == Inv /\ [Next]_vars => Inv'
<1> SUFFICES ASSUME Inv, [Next]_vars PROVE Inv'
  OBVIOUS
<1>0. Adapters
  BY DEF Inv
<1>1. CASE Write
  <2>1. PICK r \in Rows, a \in Attributes : execute(r, a, FALSE)
    BY <1>1 DEF Write
  <2>2. a \in Attrs /\ UNCHANGED <<adapter, decl>>
    BY <1>1, Passed DEF Write
  <2> QED BY <2>1, <2>2, ExecuteStep
<1>2. ASSUME NEW r \in Rows, WriteBack(r) PROVE Inv'
  <2>1. PICK g : g = got[r]
    OBVIOUS
  <2>2. /\ g # Nothing /\ execute(r, g, TRUE) /\ UNCHANGED <<adapter, decl>>
    BY <1>2, <2>1 DEF WriteBack
  <2>3. g \in Attrs
    BY <1>0, <2>1, <2>2, InvRows, ReadIs DEF RowIs
  <2> QED BY <2>2, <2>3, ExecuteStep
<1>3. CASE OtherTool
  <2>1. PICK r \in Rows, c \in Others :
          /\ cell' = [cell EXCEPT ![r] = c]
          /\ got' = [got EXCEPT ![r] = Nothing]
          /\ written' = [written EXCEPT ![r] = Nothing]
          /\ cycled' = [cycled EXCEPT ![r] = FALSE]
          /\ UNCHANGED <<adapter, decl>>
    BY <1>3 DEF OtherTool
  <2>2. RowIs(c, Nothing, Nothing, FALSE)
    BY <1>0, LeftByOthers DEF RowIs
  <2>3. /\ cell' = [q \in Rows |-> IF q = r THEN c ELSE cell[q]]
        /\ written' = [q \in Rows |-> IF q = r THEN Nothing ELSE written[q]]
        /\ got' = [q \in Rows |-> IF q = r THEN Nothing ELSE got[q]]
        /\ cycled' = [q \in Rows |-> IF q = r THEN FALSE ELSE cycled[q]]
    BY <2>1, FunctionsAre
  <2>4. ASSUME NEW q \in Rows PROVE RowIs(cell'[q], got'[q], written'[q], cycled'[q])
    BY <2>2, <2>3, InvRows
  <2>5. /\ cell' = [q \in Rows |-> cell'[q]] /\ got' = [q \in Rows |-> got'[q]]
        /\ written' = [q \in Rows |-> written'[q]] /\ cycled' = [q \in Rows |-> cycled'[q]]
    BY <2>3
  <2> QED BY <2>1, <2>4, <2>5, RowsStep
<1>4. ASSUME UNCHANGED <<adapter, decl, cell, written, cycled>>,
             got' = [q \in Rows |-> got'[q]],
             \A q \in Rows : got'[q] = got[q]
                               \/ (~Unreadable(cell[q]) /\ got'[q] = Read(cell[q]))
      PROVE  Inv'
  <2>1. ASSUME NEW q \in Rows PROVE RowIs(cell[q], got'[q], written[q], cycled[q])
    BY <1>4, InvRows DEF RowIs
  <2> QED BY <1>4, <2>1, FunctionsAre, RowsStep
<1>5. ASSUME NEW r \in Rows, select_one(r) PROVE Inv'
  <2>1. /\ UNCHANGED <<adapter, decl, cell, written, cycled>>
        /\ ~Unreadable(cell[r]) /\ got' = [got EXCEPT ![r] = Read(cell[r])]
    BY <1>5, CallsAre DEF select_one
  <2>2. got' = [q \in Rows |-> IF q = r THEN Read(cell[r]) ELSE got[q]]
    BY <2>1, FunctionsAre
  <2> QED BY <1>4, <2>1, <2>2
<1>6. CASE select_all
  <2>1. /\ UNCHANGED <<adapter, decl, cell, written, cycled>>
        /\ \A r \in Rows : ~Unreadable(cell[r])
        /\ got' = [r \in Rows |-> Read(cell[r])]
    BY <1>6, CallsAre DEF select_all
  <2> QED BY <1>4, <2>1
<1>7. CASE UNCHANGED vars
  BY <1>4, <1>7, FunctionsAre DEF vars
<1> QED BY <1>1, <1>2, <1>3, <1>5, <1>6, <1>7 DEF Next

THEOREM Invariance == Spec => []Inv
BY InvInit, InvStep, PTL DEF Spec

\* What is read is unset or of the type of its column, and a Date that was read
\* is in range, whatever other tools wrote (attribute.cpp: from_field; date.h:
\* parse).
THEOREM TypeCorrect == Spec => []TypeOK
<1>1. Inv => TypeOK
  <2> SUFFICES ASSUME Inv, NEW r \in Rows
               PROVE  /\ cell[r][1] \in {"null", "integer", "text", "real", "date"}
                      /\ got[r] \in {Nothing, Unset}
                           \/ /\ which(got[r]) = TypeOfColumn
                              /\ which(got[r]) = "date" => InRange(got[r][2][1])
    BY DEF Inv, Adapters, TypeOK
  <2>1. RowIs(cell[r], got[r], written[r], cycled[r]) /\ Adapters
    BY InvRows DEF Inv
  <2>2. cell[r][1] \in {"null", "integer", "text", "real", "date"}
    <3>1. PICK c \in Cells : c = cell[r]
      BY <2>1 DEF RowIs
    <3>2. CASE adapter = "sqlite"
      BY <3>1, <3>2, CellIs DEF Cells
    <3>3. CASE adapter = "postgres" /\ decl \in Decls.postgres
      BY <3>1, <3>3 DEF Cells, PostgresCells, Null, Cell, Decls
    <3> QED BY <2>1, <3>2, <3>3, AdapterIs
  <2>3. ASSUME got[r] # Nothing
        PROVE  \/ got[r] = Unset
               \/ /\ which(got[r]) = TypeOfColumn
                  /\ which(got[r]) = "date" => InRange(got[r][2][1])
    BY <2>1, <2>3, ReadIs DEF RowIs
  <2> QED BY <2>2, <2>3
<1> QED BY <1>1, Invariance, PTL

\* What is read back equals what was written exactly when it survives the way:
\* for every integer, real, text and date; over PostgreSQL a date before the
\* year 100, which date.h writes without zeros, never does (attribute.cpp,
\* date.h, and bind_parameters of both connections).
THEOREM RoundTrips == Spec => []RoundTrip
<1>1. Inv => RoundTrip
  <2> SUFFICES ASSUME Inv, NEW r \in Rows, got[r] # Nothing, written[r] # Nothing
               PROVE  Equals(got[r], written[r]) <=> Survives(written[r])
    BY DEF RoundTrip
  <2>1. PICK a : a = written[r]
    OBVIOUS
  <2>2. /\ Adapters /\ a \in Attrs /\ Taken(a)
        /\ ~Unreadable(Stored(a)) /\ got[r] = Read(Stored(a))
    BY <2>1, InvRows DEF RowIs, Inv
  <2>3. Equals(Read(Stored(a)), a) <=> Survives(a)
    BY <2>2, RoundTripIs
  <2> QED BY <2>1, <2>2, <2>3
<1> QED BY <1>1, Invariance, PTL

\* A row the library wrote can be read again, unless its column is of a type
\* that cannot be read at all, or a DATE of SQLite that was given no valid date.
THEOREM StoredCanBeRead == Spec => []StoredIsReadable
<1>1. Inv => StoredIsReadable
  <2> SUFFICES ASSUME Inv, NEW r \in Rows, written[r] # Nothing, Throws(r)
               PROVE  \/ adapter = "sqlite" /\ decl = "VARCHAR"
                      \/ adapter = "postgres" /\ decl = "FLOAT"
                      \/ /\ adapter = "sqlite" /\ decl = "DATE"
                         /\ which(written[r]) = "date" => ~InRange(written[r][2][1])
    BY DEF StoredIsReadable
  <2>1. PICK a \in Attrs : a = written[r] /\ Unreadable(Stored(a))
    BY InvRows, CallsAre DEF RowIs
  <2>2. CASE adapter = "sqlite" /\ decl \in Decls.sqlite
    BY <2>1, <2>2, SqliteReadable DEF Unreadable, Stored
  <2>3. CASE adapter = "postgres"
    BY <2>1, <2>3 DEF Unreadable, PostgresThrows
  <2> QED BY <2>2, <2>3, AdapterIs DEF Inv
<1> QED BY <1>1, Invariance, PTL

\* Of a NULL the getter of the column's type throws, but where the adapter
\* reads a number 0 in its place (attribute.cpp: from_field of either adapter).
THEOREM NullIsNoticed == Spec => []GettersThrowOnNull
<1>1. Inv => GettersThrowOnNull
  <2> SUFFICES ASSUME Inv, NEW r \in Rows, got[r] # Nothing
               PROVE  which(got[r]) # TypeOfColumn <=>
                        /\ cell[r] = Null
                        /\ decl \in {"TEXT", "DATE", "VARCHAR", "NUMERIC", "none"}
    BY DEF GettersThrowOnNull, Gets
  <2>1. PICK c \in Cells : c = cell[r] /\ ~Unreadable(c) /\ got[r] = Read(c)
    BY InvRows DEF RowIs
  <2> QED BY <2>1, ReadIs DEF Inv
<1> QED BY <1>1, Invariance, PTL

\* Loading and saving a record over and over changes its values once at most:
\* a row that holds what was read from it gives the same again (base.h: update
\* writes every attribute that was loaded).
THEOREM ValuesSettle == Spec => Settles
<1>1. Inv /\ [Next]_vars
        => [\A r \in Rows : cycled[r] /\ WriteBack(r) =>
              ~Throws(r)' /\ Gives(r)' = got[r]]_vars
  <2> SUFFICES ASSUME Inv, NEW r \in Rows, cycled[r], WriteBack(r)
               PROVE  ~Throws(r)' /\ Gives(r)' = got[r]
    OBVIOUS
  <2>1. PICK a, g : a = written[r] /\ g = got[r]
    OBVIOUS
  <2>2. /\ Adapters /\ a \in Attrs /\ Taken(a) /\ cell[r] = Stored(a)
        /\ g # Nothing /\ ~Unreadable(Stored(a)) /\ g = Read(Stored(a))
    BY <2>1, InvRows DEF RowIs, WriteBack, Inv
  <2>3. execute(r, g, TRUE) /\ UNCHANGED <<adapter, decl>>
    BY <2>1 DEF WriteBack
  <2>4. CASE Taken(g) /\ cell' = [cell EXCEPT ![r] = Stored(g)]
    <3>1. cell'[r] = Stored(g)
      BY <2>4 DEF Inv
    <3>2. ~Unreadable(cell'[r]) /\ Read(cell'[r]) = g
      BY <2>2, <2>4, <3>1, SettlesIs
    <3> QED BY <2>1, <2>3, <3>2 DEF Throws, Gives, Unreadable, Read
  <2>5. CASE UNCHANGED cell
    BY <2>1, <2>2, <2>3, <2>5 DEF Throws, Gives, Unreadable, Read
  <2> QED BY <2>3, <2>4, <2>5, ExecuteIs
<1> QED BY <1>1, Invariance, PTL DEF Spec, Settles

=============================================================================
