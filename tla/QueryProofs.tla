----------------------------- MODULE QueryProofs -----------------------------
(***************************************************************************)
(* Proofs about Query, for every set of objects, tables, conditions,       *)
(* orderings, limits and offsets.                                          *)
(***************************************************************************)
EXTENDS Query, QueryClausesProofs

-----------------------------------------------------------------------------
(* The objects.                                                            *)

Placed == {[column |-> c.column, value |-> c.value, place |-> n] :
             c \in Conditions, n \in Nat}

Objects == [conditions : Seq(Placed), orderings : Seq(Orderings),
            limit : Limits \cup {INVALID_LIMIT}, offset : Offsets \cup {0}]

\* The placeholders of what was asked for are numbered as PostgreSQL wants
\* them; SQLite's have no number.
InPlace(r) ==
  \A i \in DOMAIN r.conditions :
    r.conditions[i].place = IF adapter = "postgres" THEN i ELSE 0

Unnumbered(r) ==
  adapter = "sqlite" => \A i \in DOMAIN r.conditions : r.conditions[i].place = 0

\* Object r has every condition of s.
Holds(r, s) ==
  \A i \in DOMAIN s.conditions :
    \E j \in DOMAIN r.conditions : r.conditions[j] = s.conditions[i]

\* An object nothing was assigned to has the conditions that were asked of it,
\* perhaps among others, and nothing but what was asked unless a builder was
\* called on it.
Inv ==
  /\ adapter \in {"sqlite", "postgres"} /\ table \in Tables
  /\ query \in [Queries -> Objects] /\ asked \in [Queries -> Objects]
  /\ builtOn \subseteq Queries /\ ignored \subseteq Queries
  /\ \A q \in Queries :
       /\ InPlace(asked[q]) /\ Unnumbered(query[q])
       /\ q \notin ignored => Holds(query[q], asked[q])
       /\ q \notin builtOn \cup ignored => query[q] = asked[q]

LEMMA PlacedIs ==
  ASSUME NEW c \in Conditions, NEW n \in Nat
  PROVE  [column |-> c.column, value |-> c.value, place |-> n] \in Placed
BY SMT DEF Placed

LEMMA EmptyIs ==
  /\ Empty \in Objects
  /\ InPlace(Empty) /\ Unnumbered(Empty) /\ Holds(Empty, Empty)
<1>1. Empty \in Objects
  <2>1. <<>> \in Seq(Placed) /\ <<>> \in Seq(Orderings)
    OBVIOUS
  <2> QED BY <2>1 DEF Empty, Objects
<1>2. DOMAIN Empty.conditions = {}
  BY DEF Empty
<1> QED BY <1>1, <1>2 DEF InPlace, Unnumbered, Holds

\* An added condition, its place and what it leaves alone.
LEMMA WhereIs ==
  ASSUME NEW r \in Objects, NEW t \in Placed
  PROVE  /\ where(r, t) \in Objects
         /\ DOMAIN where(r, t).conditions = 1..(Len(r.conditions) + 1)
         /\ DOMAIN r.conditions = 1..Len(r.conditions)
         /\ where(r, t).conditions[Len(r.conditions) + 1] = t
         /\ \A i \in 1..Len(r.conditions) : where(r, t).conditions[i] = r.conditions[i]
<1>1. r.conditions \in Seq(Placed)
  BY DEF Objects
<1>2. PICK s \in Seq(Placed) : s = Append(r.conditions, t)
  <2>1. Append(r.conditions, t) \in Seq(Placed)
    BY <1>1, AppendProperties
  <2> QED BY <2>1
<1>3. where(r, t) \in Objects /\ where(r, t).conditions = s
  BY <1>2 DEF where, Objects
<1>4. /\ Len(s) = Len(r.conditions) + 1 /\ s[Len(r.conditions) + 1] = t
      /\ \A i \in 1..Len(r.conditions) : s[i] = r.conditions[i]
  BY <1>1, <1>2, AppendProperties
<1>5. DOMAIN s = 1..Len(s) /\ DOMAIN r.conditions = 1..Len(r.conditions)
  BY <1>1, <1>2
<1> QED BY <1>3, <1>4, <1>5

LEMMA OthersAre ==
  ASSUME NEW r \in Objects
  PROVE  /\ \A o \in Orderings : order(r, o) \in Objects
                                 /\ order(r, o).conditions = r.conditions
         /\ \A n \in Limits : limit(r, n) \in Objects
                              /\ limit(r, n).conditions = r.conditions
         /\ \A n \in Offsets : offset(r, n) \in Objects
                               /\ offset(r, n).conditions = r.conditions
<1>1. ASSUME NEW o \in Orderings PROVE Append(r.orderings, o) \in Seq(Orderings)
  BY DEF Objects
<1>2. ASSUME NEW o \in Orderings
      PROVE  order(r, o) \in Objects /\ order(r, o).conditions = r.conditions
  BY <1>1 DEF order, Objects
<1>3. ASSUME NEW n \in Limits
      PROVE  limit(r, n) \in Objects /\ limit(r, n).conditions = r.conditions
  BY DEF limit, Objects
<1>4. ASSUME NEW n \in Offsets
      PROVE  offset(r, n) \in Objects /\ offset(r, n).conditions = r.conditions
  BY DEF offset, Objects
<1> QED BY <1>2, <1>3, <1>4

\* What a builder makes of an object is the same as what it makes of what was
\* asked for, when the two are the same; it keeps what both have.
LEMMA BuiltIs ==
  ASSUME adapter \in {"sqlite", "postgres"}, NEW x \in Objects, NEW y \in Objects,
         InPlace(y), Unnumbered(x), NEW b \in Built(x, y)
  PROVE  /\ b[1] \in Objects /\ b[2] \in Objects
         /\ x = y => b[1] = b[2]
         /\ InPlace(b[2]) /\ Unnumbered(b[1])
         /\ Holds(x, y) => Holds(b[1], b[2]) /\ Holds(b[1], y)
<1>1. ASSUME NEW c \in Conditions, b = <<where(x, Text(c, y)), where(y, Text(c, y))>>
      PROVE  /\ b[1] \in Objects /\ b[2] \in Objects
             /\ x = y => b[1] = b[2]
             /\ InPlace(b[2]) /\ Unnumbered(b[1])
             /\ Holds(x, y) => Holds(b[1], b[2]) /\ Holds(b[1], y)
  <2>1. PICK t : t = Text(c, y)
    OBVIOUS
  <2>2. Len(y.conditions) \in Nat /\ Len(x.conditions) \in Nat
    BY DEF Objects
  <2>3. t \in Placed /\ t.place = IF adapter = "postgres" THEN Len(y.conditions) + 1 ELSE 0
    <3>1. PICK n \in Nat : n = IF adapter = "postgres" THEN Len(y.conditions) + 1 ELSE 0
      BY <2>2
    <3>2. t = [column |-> c.column, value |-> c.value, place |-> n]
      BY <2>1, <3>1 DEF Text
    <3>3. t.place = n
      BY <3>2
    <3>4. t \in Placed
      BY <3>1, <3>2, PlacedIs
    <3> QED BY <3>1, <3>3, <3>4, Zenon
  <2>4. PICK v \in Objects, w \in Objects : v = where(x, t) /\ w = where(y, t)
    BY <2>3, WhereIs
  <2>5. b[1] = v /\ b[2] = w /\ (x = y => v = w)
    BY <1>1, <2>1, <2>4
  <2>6. /\ DOMAIN v.conditions = 1..(Len(x.conditions) + 1)
        /\ DOMAIN x.conditions = 1..Len(x.conditions)
        /\ v.conditions[Len(x.conditions) + 1] = t
        /\ \A i \in 1..Len(x.conditions) : v.conditions[i] = x.conditions[i]
    BY <2>3, <2>4, WhereIs
  <2>7. /\ DOMAIN w.conditions = 1..(Len(y.conditions) + 1)
        /\ DOMAIN y.conditions = 1..Len(y.conditions)
        /\ w.conditions[Len(y.conditions) + 1] = t
        /\ \A i \in 1..Len(y.conditions) : w.conditions[i] = y.conditions[i]
    BY <2>3, <2>4, WhereIs
  <2>8. \A n \in Nat : \A i \in 1..(n + 1) : i \in 1..n \/ i = n + 1
    OBVIOUS
  <2>9. InPlace(w)
    BY <2>2, <2>3, <2>7, <2>8 DEF InPlace
  <2>10. Unnumbered(v)
    BY <2>2, <2>3, <2>6, <2>8 DEF Unnumbered
  <2>11. ASSUME Holds(x, y) PROVE Holds(v, y)
    <3>1. \A i \in 1..Len(x.conditions) : i \in DOMAIN v.conditions
      BY <2>2, <2>6
    <3> QED BY <2>6, <2>11, <3>1 DEF Holds
  <2>12. ASSUME Holds(x, y) PROVE Holds(v, w)
    <3> SUFFICES ASSUME NEW i \in DOMAIN w.conditions
                 PROVE  \E j \in DOMAIN v.conditions : v.conditions[j] = w.conditions[i]
      BY DEF Holds
    <3>1. CASE i = Len(y.conditions) + 1
      <4>1. Len(x.conditions) + 1 \in DOMAIN v.conditions
        BY <2>2, <2>6
      <4> QED BY <2>6, <2>7, <3>1, <4>1
    <3>2. CASE i \in 1..Len(y.conditions)
      BY <2>7, <2>11, <2>12, <3>2 DEF Holds
    <3> QED BY <2>2, <2>7, <2>8, <3>1, <3>2
  <2> QED BY <2>4, <2>5, <2>9, <2>10, <2>11, <2>12
<1>2. ASSUME NEW v \in Objects, NEW w \in Objects, b = <<v, w>>, x = y => v = w,
             v.conditions = x.conditions, w.conditions = y.conditions
      PROVE  /\ b[1] \in Objects /\ b[2] \in Objects
             /\ x = y => b[1] = b[2]
             /\ InPlace(b[2]) /\ Unnumbered(b[1])
             /\ Holds(x, y) => Holds(b[1], b[2]) /\ Holds(b[1], y)
  BY <1>2 DEF InPlace, Unnumbered, Holds
<1>3. CASE \E o \in Orderings : b = <<order(x, o), order(y, o)>>
  <2>1. PICK o \in Orderings : b = <<order(x, o), order(y, o)>>
    BY <1>3
  <2> QED BY <1>2, <2>1, OthersAre
<1>4. CASE \E n \in Limits : b = <<limit(x, n), limit(y, n)>>
  <2>1. PICK n \in Limits : b = <<limit(x, n), limit(y, n)>>
    BY <1>4
  <2> QED BY <1>2, <2>1, OthersAre
<1>5. CASE \E n \in Offsets : b = <<offset(x, n), offset(y, n)>>
  <2>1. PICK n \in Offsets : b = <<offset(x, n), offset(y, n)>>
    BY <1>5
  <2> QED BY <1>2, <2>1, OthersAre
<1>6. \/ \E c \in Conditions : b = <<where(x, Text(c, y)), where(y, Text(c, y))>>
      \/ \E o \in Orderings : b = <<order(x, o), order(y, o)>>
      \/ \E n \in Limits : b = <<limit(x, n), limit(y, n)>>
      \/ \E n \in Offsets : b = <<offset(x, n), offset(y, n)>>
  BY DEF Built, where, order, limit, offset
<1> QED BY <1>1, <1>3, <1>4, <1>5, <1>6

LEMMA InvInit == Init => Inv
<1> SUFFICES ASSUME Init PROVE Inv
  OBVIOUS
<1>1. PICK e \in Objects : e = Empty /\ InPlace(e) /\ Unnumbered(e) /\ Holds(e, e)
  BY EmptyIs
<1>2. query = [q \in Queries |-> e] /\ asked = [q \in Queries |-> e]
  BY <1>1 DEF Init
<1> QED BY <1>1, <1>2 DEF Init, Inv

\* Of two objects each keeps its invariant on its own.
Right(q, x, y, on, without) ==
  /\ x \in Objects /\ y \in Objects
  /\ InPlace(y) /\ Unnumbered(x)
  /\ q \notin without => Holds(x, y)
  /\ q \notin on \cup without => x = y

LEMMA InvOf ==
  Inv <=> /\ adapter \in {"sqlite", "postgres"} /\ table \in Tables
          /\ query = [q \in Queries |-> query[q]] /\ asked = [q \in Queries |-> asked[q]]
          /\ builtOn \subseteq Queries /\ ignored \subseteq Queries
          /\ \A q \in Queries : Right(q, query[q], asked[q], builtOn, ignored)
<1>1. ASSUME Inv
      PROVE  /\ query = [q \in Queries |-> query[q]] /\ asked = [q \in Queries |-> asked[q]]
             /\ \A q \in Queries : Right(q, query[q], asked[q], builtOn, ignored)
  BY <1>1 DEF Inv, Right
<1>2. ASSUME query = [q \in Queries |-> query[q]], asked = [q \in Queries |-> asked[q]],
             \A q \in Queries : Right(q, query[q], asked[q], builtOn, ignored)
      PROVE  /\ query \in [Queries -> Objects] /\ asked \in [Queries -> Objects]
             /\ \A q \in Queries :
                  /\ InPlace(asked[q]) /\ Unnumbered(query[q])
                  /\ q \notin ignored => Holds(query[q], asked[q])
                  /\ q \notin builtOn \cup ignored => query[q] = asked[q]
  BY <1>2 DEF Right
<1> QED BY <1>1, <1>2, Zenon DEF Inv

LEMMA InvStep == Inv /\ [Next]_vars => Inv'
<1> SUFFICES ASSUME Inv, [Next]_vars PROVE Inv'
  OBVIOUS
<1>0. /\ adapter \in {"sqlite", "postgres"} /\ table \in Tables
      /\ query \in [Queries -> Objects] /\ asked \in [Queries -> Objects]
      /\ builtOn \subseteq Queries /\ ignored \subseteq Queries
      /\ \A q \in Queries : Right(q, query[q], asked[q], builtOn, ignored)
  BY DEF Inv, Right
<1>1. ASSUME UNCHANGED <<adapter, table>>,
             query' \in [Queries -> Objects], asked' \in [Queries -> Objects],
             builtOn' \subseteq Queries, ignored' \subseteq Queries,
             \A q \in Queries : Right(q, query'[q], asked'[q], builtOn', ignored')
      PROVE  Inv'
  <2>1. \A r : InPlace(r)' <=> InPlace(r)
    BY <1>1 DEF InPlace
  <2>2. \A r : Unnumbered(r)' <=> Unnumbered(r)
    BY <1>1 DEF Unnumbered
  <2> QED BY <1>0, <1>1, <2>1, <2>2 DEF Inv, Right, InPlace, Unnumbered
<1>2. ASSUME NEW q \in Queries, Declare(q) PROVE Inv'
  <2>1. PICK e \in Objects : e = Empty /\ InPlace(e) /\ Unnumbered(e) /\ Holds(e, e)
    BY EmptyIs
  <2>2. /\ query' = [query EXCEPT ![q] = e] /\ asked' = [asked EXCEPT ![q] = e]
        /\ builtOn' = builtOn \ {q} /\ ignored' = ignored \ {q}
        /\ UNCHANGED <<adapter, table>>
    BY <1>2, <2>1 DEF Declare
  <2>3. Right(q, e, e, builtOn', ignored')
    BY <2>1 DEF Right
  <2>4. ASSUME NEW p \in Queries PROVE Right(p, query'[p], asked'[p], builtOn', ignored')
    <3>1. CASE p = q
      BY <1>0, <2>2, <2>3, <3>1
    <3>2. CASE p # q
      BY <1>0, <2>2, <3>2 DEF Right
    <3> QED BY <3>1, <3>2
  <2> QED BY <1>0, <1>1, <2>2, <2>4
<1>3. ASSUME NEW q \in Queries, NEW r \in Queries, Derive(q, r) PROVE Inv'
  <2>1. PICK b \in Built(query[q], asked[q]) :
          /\ query' = [x \in Queries |-> IF x \in {q, r} THEN b[1] ELSE query[x]]
          /\ asked' = [asked EXCEPT ![r] = b[2]]
          /\ builtOn' = Inherits(builtOn, q, r) \cup ({q} \ {r})
          /\ ignored' = Inherits(ignored, q, r)
          /\ UNCHANGED <<adapter, table>>
    BY <1>3 DEF Derive
  <2>2. /\ b[1] \in Objects /\ b[2] \in Objects
        /\ query[q] = asked[q] => b[1] = b[2]
        /\ InPlace(b[2]) /\ Unnumbered(b[1])
        /\ q \notin ignored => Holds(b[1], b[2]) /\ Holds(b[1], asked[q])
    BY <1>0, BuiltIs DEF Right
  <2>3. /\ builtOn' \subseteq Queries /\ ignored' \subseteq Queries
        /\ \A p \in Queries : p \notin {q, r} => (p \in builtOn' <=> p \in builtOn)
        /\ \A p \in Queries : p # r => (p \in ignored' <=> p \in ignored)
        /\ r \notin builtOn' => q \notin builtOn
        /\ r \in ignored' <=> q \in ignored
        /\ q # r => q \in builtOn'
    BY <1>0, <2>1 DEF Inherits
  <2>4. Right(r, query'[r], asked'[r], builtOn', ignored')
    BY <1>0, <2>1, <2>2, <2>3 DEF Right
  <2>5. q # r => Right(q, query'[q], asked'[q], builtOn', ignored')
    BY <1>0, <2>1, <2>2, <2>3 DEF Right
  <2>6. ASSUME NEW p \in Queries, p \notin {q, r}
        PROVE  Right(p, query'[p], asked'[p], builtOn', ignored')
    BY <1>0, <2>1, <2>3, <2>6 DEF Right
  <2>7. query' \in [Queries -> Objects] /\ asked' \in [Queries -> Objects]
    BY <1>0, <2>1, <2>2
  <2> QED BY <1>1, <2>1, <2>3, <2>4, <2>5, <2>6, <2>7
<1>4. ASSUME NEW q \in Queries, NEW r \in Queries, Copy(q, r) PROVE Inv'
  <2>1. /\ query' = [query EXCEPT ![r] = query[q]]
        /\ asked' = [asked EXCEPT ![r] = asked[q]]
        /\ builtOn' = Inherits(builtOn, q, r) /\ ignored' = Inherits(ignored, q, r)
        /\ UNCHANGED <<adapter, table>>
    BY <1>4 DEF Copy
  <2>2. /\ builtOn' \subseteq Queries /\ ignored' \subseteq Queries
        /\ \A p \in Queries : p # r => (p \in builtOn' <=> p \in builtOn)
        /\ \A p \in Queries : p # r => (p \in ignored' <=> p \in ignored)
        /\ r \notin builtOn' => q \notin builtOn
        /\ r \in ignored' <=> q \in ignored
    BY <1>0, <1>4, <2>1 DEF Inherits, Copy
  <2>3. ASSUME NEW p \in Queries PROVE Right(p, query'[p], asked'[p], builtOn', ignored')
    <3>1. CASE p = r
      BY <1>0, <2>1, <2>2, <3>1 DEF Right
    <3>2. CASE p # r
      BY <1>0, <2>1, <2>2, <3>2 DEF Right
    <3> QED BY <3>1, <3>2
  <2> QED BY <1>0, <1>1, <2>1, <2>2, <2>3
<1>5. ASSUME NEW q \in Queries, NEW r \in Queries, Assign(q, r) PROVE Inv'
  <2>1. /\ asked' = [asked EXCEPT ![r] = asked[q]] /\ ignored' = ignored \cup {r}
        /\ UNCHANGED <<adapter, table, query, builtOn>>
    BY <1>5 DEF Assign
  <2>2. ASSUME NEW p \in Queries PROVE Right(p, query'[p], asked'[p], builtOn', ignored')
    <3>1. CASE p = r
      BY <1>0, <2>1, <3>1 DEF Right
    <3>2. CASE p # r
      BY <1>0, <2>1, <3>2 DEF Right
    <3> QED BY <3>1, <3>2
  <2>3. asked' \in [Queries -> Objects] /\ ignored' \subseteq Queries
    BY <1>0, <2>1
  <2> QED BY <1>0, <1>1, <2>1, <2>2, <2>3
<1>6. CASE UNCHANGED vars
  BY <1>0, <1>1, <1>6 DEF vars
<1> QED BY <1>2, <1>3, <1>4, <1>5, <1>6 DEF Next

THEOREM Invariance == Spec => []Inv
BY InvInit, InvStep, PTL DEF Spec

\* What a Query object holds stays what a program can have passed to its
\* builders (query.h: where, order, limit, offset, operator=).
THEOREM TypeCorrect == Spec => []TypeOK
<1>1. Inv => TypeOK
  <2> SUFFICES ASSUME Inv, NEW r \in Objects
               PROVE  /\ \A i \in DOMAIN r.conditions : Unplaced(r.conditions[i]) \in Conditions
                      /\ r.orderings \in Seq(Orderings)
                      /\ r.limit \in Limits \cup {INVALID_LIMIT}
                      /\ r.offset \in Offsets \cup {0}
    BY DEF Inv, TypeOK
  <2>1. ASSUME NEW i \in DOMAIN r.conditions PROVE Unplaced(r.conditions[i]) \in Conditions
    <3>1. r.conditions[i] \in Placed
      BY ElementOfSeq DEF Objects
    <3>2. PICK c \in Conditions, n \in Nat :
            r.conditions[i] = [column |-> c.column, value |-> c.value, place |-> n]
      BY <3>1 DEF Placed
    <3>3. Unplaced(r.conditions[i]) = [column |-> c.column, value |-> c.value]
      BY <3>2 DEF Unplaced
    <3> QED BY <3>3, QueryAssumption
  <2> QED BY <2>1 DEF Objects
<1> QED BY <1>1, Invariance, PTL

-----------------------------------------------------------------------------
(* The answers.                                                            *)

LEMMA ObjectsFormed == ASSUME NEW r \in Objects PROVE Formed(r)
<1>1. r.limit \in Int /\ r.offset \in Int
  BY QueryAssumption DEF Objects, INVALID_LIMIT
<1> QED BY <1>1 DEF Objects, Formed

LEMMA FruitlessIs ==
  ASSUME NEW r \in Objects
  PROVE  Fruitless(r) <=> ~Fruitful(r, adapter)
<1>1. r.limit \in Int /\ r.offset \in Int
  BY ObjectsFormed DEF Formed
<1>2. (r.limit < INVALID_LIMIT \/ r.offset < 0) <=> ~(r.limit >= INVALID_LIMIT /\ r.offset >= 0)
  BY <1>1 DEF INVALID_LIMIT
<1>3. \A list : Repeats(list) <=> ~Once(list)
  BY DEF Repeats, Once
<1> QED BY <1>2, <1>3, Zenon DEF Fruitless, Fruitful

LEMMA FoundFinite == ASSUME table \in Tables, NEW r PROVE IsFiniteSet(Found(r, table))
BY QueryAssumption, FS_Subset DEF Found

LEMMA FoundIs ==
  ASSUME adapter \in {"sqlite", "postgres"}, NEW r \in Objects, InPlace(r)
  PROVE  Found(r, table) = Matching(r)
<1>1. ASSUME NEW i \in DOMAIN r.conditions
      PROVE  (IF r.conditions[i].place = 0 THEN i ELSE r.conditions[i].place) = i
  BY DEF InPlace
<1> QED BY <1>1 DEF Found, Matching, Meets

LEMMA DescribedIs ==
  ASSUME adapter \in {"sqlite", "postgres"}, table \in Tables, NEW r \in Objects, InPlace(r)
  PROVE  {Gives(Window(s, r.limit, r.offset)) :
            s \in Arrangements(table, Found(r, table), r.orderings)}
           = {Gives(s) : s \in Described(r)}
<1>1. PICK keys : keys = Found(r, table)
  OBVIOUS
<1>2. PICK skip : skip = IF r.offset > 0 THEN r.offset ELSE 0
  OBVIOUS
<1> DEFINE D(s) == [i \in 1..(IF Cardinality(keys) <= skip THEN 0
                              ELSE IF r.limit < 0 THEN Cardinality(keys) - skip
                              ELSE Least(r.limit, Cardinality(keys) - skip))
                      |-> s[i + skip]]
<1>3. Described(r) = {D(s) : s \in Arrangements(table, keys, r.orderings)}
  <2>1. keys = Matching(r)
    BY <1>1, FoundIs
  <2> QED BY <1>2, <2>1 DEF Described, Skipped
<1>4. ASSUME NEW s \in Arrangements(table, keys, r.orderings)
      PROVE  Window(s, r.limit, r.offset) = D(s)
  <2>1. s \in Seq(keys) /\ Len(s) = Cardinality(keys)
    BY <1>1, FoundFinite, Arranged
  <2>2. r.limit \in Int /\ r.offset \in Int
    BY ObjectsFormed DEF Formed
  <2>3. PICK l \in Int, o \in Int : l = r.limit /\ o = r.offset
    BY <2>2
  <2>4. skip = IF o > 0 THEN o ELSE 0
    BY <1>2, <2>3
  <2>5. Window(s, l, o) =
              [i \in 1..(IF Len(s) <= skip THEN 0
                         ELSE IF l < 0 THEN Len(s) - skip
                         ELSE Least(l, Len(s) - skip)) |-> s[i + skip]]
    BY <2>1, <2>4, WindowIs
  <2> QED BY <2>1, <2>3, <2>5
<1> HIDE DEF D
<1> QED BY <1>1, <1>3, <1>4

\* all() gives what the calls on a query, and on those it was made from,
\* describe, for every table and every query; one that comes to nothing
\* throws over SQLite and gives no object over PostgreSQL.  Only the queries a
\* builder changed in passing, and those something was assigned to, are
\* excepted (query.h: query_and_parameters, condition_clause, order_clause,
\* limit_clause, offset_clause, all).
THEOREM AllIsAnswered == Spec => []AllAnswers
<1>1. Inv => AllAnswers
  <2> SUFFICES ASSUME Inv, NEW q \in Queries, q \notin builtOn \cup ignored
               PROVE  all(query[q], table, adapter) =
                        IF Fruitless(asked[q])
                        THEN {IF adapter = "sqlite" THEN Threw ELSE Gives(<<>>)}
                        ELSE {Gives(s) : s \in Described(asked[q])}
    BY DEF AllAnswers
  <2>1. PICK r \in Objects : r = query[q] /\ r = asked[q] /\ InPlace(r)
    BY DEF Inv
  <2>2. /\ adapter \in {"sqlite", "postgres"} /\ table \in Tables
    BY DEF Inv
  <2>3. all(r, table, adapter) =
           IF Fruitful(r, adapter)
           THEN {Gives(Window(s, r.limit, r.offset)) :
                   s \in Arrangements(table, Found(r, table), r.orderings)}
           ELSE {IF adapter = "sqlite" THEN Threw ELSE Gives(<<>>)}
    BY ObjectsFormed, AnswersAre DEF all
  <2> QED BY <2>1, <2>2, <2>3, DescribedIs, FruitlessIs
<1> QED BY <1>1, Invariance, PTL

\* What is in an answer is in a window on an arrangement of the rows found.
LEMMA AnswersHave ==
  ASSUME table \in Tables, NEW r \in Objects, NEW a \in Answers(r, table, adapter)
  PROVE  /\ a.threw => a.ids = <<>>
         /\ a.ids \in Seq(Found(r, table))
<1>1. CASE a = Threw \/ a = Gives(<<>>)
  <2>1. a.ids = <<>>
    BY <1>1 DEF Threw, Gives
  <2> QED BY <2>1
<1>2. ASSUME NEW s \in Arrangements(table, Found(r, table), r.orderings),
             a = Gives(Window(s, r.limit, r.offset))
      PROVE  ~a.threw /\ a.ids \in Seq(Found(r, table))
  <2>1. s \in Seq(Found(r, table))
    BY FoundFinite, Arranged
  <2>2. Window(s, r.limit, r.offset) \in Seq(Found(r, table))
    BY <2>1, ObjectsFormed, WindowIs DEF Formed
  <2> QED BY <1>2, <2>2 DEF Gives
<1>3. Formed(r)
  BY ObjectsFormed
<1>4. CASE Fruitful(r, adapter)
  <2>1. PICK s \in Arrangements(table, Found(r, table), r.orderings) :
          a = Gives(Window(s, r.limit, r.offset))
    BY <1>3, <1>4, AnswersAre
  <2> QED BY <1>2, <2>1
<1>5. CASE ~Fruitful(r, adapter)
  BY <1>1, <1>3, <1>5, AnswersAre
<1> QED BY <1>4, <1>5

\* On SQLite a query nothing was assigned to finds no row that fails a
\* condition asked of it, whatever was built on it in passing: it only ever
\* loses rows (query.h: where changes the object it is called on).
THEOREM BuiltOnOnlyNarrows == Spec => []BuiltOnNarrows
<1>1. Inv => BuiltOnNarrows
  <2> SUFFICES ASSUME Inv, adapter = "sqlite", NEW q \in Queries, q \notin ignored,
                      NEW a \in all(query[q], table, adapter), NEW i \in DOMAIN a.ids,
                      NEW c \in DOMAIN asked[q].conditions
               PROVE  table[a.ids[i]][asked[q].conditions[c].column]
                        = asked[q].conditions[c].value
    BY DEF BuiltOnNarrows
  <2>1. PICK r \in Objects : r = query[q] /\ Unnumbered(r) /\ Holds(r, asked[q])
    BY DEF Inv
  <2>2. a.ids \in Seq(Found(r, table))
    BY <2>1, AnswersHave DEF all, Inv
  <2>3. a.ids[i] \in Found(r, table)
    BY <2>2
  <2>4. PICK j \in DOMAIN r.conditions : r.conditions[j] = asked[q].conditions[c]
    BY <2>1 DEF Holds
  <2>5. r.conditions[j].place = 0
    BY <2>1 DEF Unnumbered
  <2>6. table[a.ids[i]][r.conditions[j].column] = r.conditions[j].value
    BY <2>3, <2>5 DEF Found, Meets
  <2> QED BY <2>4, <2>6
<1> QED BY <1>1, Invariance, PTL

=============================================================================
