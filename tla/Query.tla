------------------------------- MODULE Query -------------------------------
(***************************************************************************)
(* The objects of Query<T>: where, order, limit and offset change the      *)
(* object they are called on and return a copy of it, operator= changes    *)
(* neither of its objects, and all and first send the SELECT of            *)
(* QueryClauses (include/active_record/query.h).  The table does not       *)
(* change: what changes it is in BaseRecord and Associations.              *)
(***************************************************************************)
EXTENDS QueryClauses, Functions

CONSTANTS
  Queries,     \* the Query objects of the program
  Tables,      \* the tables it may query
  Conditions,  \* the conditions, orderings, limits and offsets it passes
  Orderings,
  Limits,
  Offsets,
  MaxTerms     \* bound: what the objects hold and were assigned, all together

ASSUME QueryAssumption ==
  /\ \A t \in Tables : IsFiniteSet(DOMAIN t)
  /\ \A c \in Conditions : c = [column |-> c.column, value |-> c.value]
  /\ Limits \subseteq Int /\ Offsets \subseteq Int

VARIABLES
  adapter,  \* the database behind the connection
  table,    \* the rows of the class
  query,    \* the Query objects
  asked,    \* history: what the program would have asked for, were every
            \*   builder a function of the object it is called on and did an
            \*   assignment assign
  builtOn,  \* history: the objects a builder changed in passing
  ignored   \* history: the objects that do not have what was assigned to them

vars == <<adapter, table, query, asked, builtOn, ignored>>

Unplaced(c) == [column |-> c.column, value |-> c.value]

\* The text the program passes: on PostgreSQL its placeholder has the number
\* that follows those of what it asked for so far.
Text(c, s) ==
  [column |-> c.column, value |-> c.value,
   place |-> IF adapter = "postgres" THEN Len(s.conditions) + 1 ELSE 0]

TypeOK ==
  /\ adapter \in {"sqlite", "postgres"}
  /\ table \in Tables
  /\ \A q \in Queries : \A r \in {query[q], asked[q]} :
       /\ \A i \in DOMAIN r.conditions :
            Unplaced(r.conditions[i]) \in Conditions
       /\ r.orderings \in Seq(Orderings)
       /\ r.limit \in Limits \cup {INVALID_LIMIT}
       /\ r.offset \in Offsets \cup {0}
  /\ builtOn \subseteq Queries /\ ignored \subseteq Queries

-----------------------------------------------------------------------------
(* What a builder makes of an object.                                      *)

\* Mutant: a condition replaces the ones before.
WithOnly(r, c) == [r EXCEPT !.conditions = <<c>>]

where(r, c)  == [r EXCEPT !.conditions = Append(@, c)]
order(r, o)  == [r EXCEPT !.orderings = Append(@, o)]

\* Mutant: offsets add up.
OffsetsAddUp(r, n) == [r EXCEPT !.offset = @ + n]

limit(r, n)  == [r EXCEPT !.limit = n]
offset(r, n) == [r EXCEPT !.offset = n]

\* The objects a call on r may make of it, and the same as a pure function of
\* what was asked: pairs, for the two have the same arguments.
Built(r, s) ==
  {<<where(r, Text(c, s)), [s EXCEPT !.conditions = Append(@, Text(c, s))]>> :
     c \in Conditions}
  \cup {<<order(r, o), [s EXCEPT !.orderings = Append(@, o)]>> :
          o \in Orderings}
  \cup {<<limit(r, n), [s EXCEPT !.limit = n]>> : n \in Limits}
  \cup {<<offset(r, n), [s EXCEPT !.offset = n]>> : n \in Offsets}

\* Bound: the conditions, orderings, limits and offsets the objects hold.
Terms(r) ==
  Len(r.conditions) + Len(r.orderings)
    + (IF r.limit = INVALID_LIMIT THEN 0 ELSE 1)
    + (IF r.offset = 0 THEN 0 ELSE 1)

\* Those something was assigned to count for it, too.
Within(objects, meant, without) ==
  FoldFunction(+, 0, [q \in Queries |->
      Terms(objects[q])
        + (IF q \in without THEN 1 + Terms(meant[q]) ELSE 0)]) <= MaxTerms

-----------------------------------------------------------------------------
\* Query<T> q(connection).
Declare(q) ==
  /\ query' = [query EXCEPT ![q] = Empty]
  /\ asked' = [asked EXCEPT ![q] = Empty]
  /\ builtOn' = builtOn \ {q}
  /\ ignored' = ignored \ {q}
  /\ UNCHANGED <<adapter, table>>

\* What a set of objects is when r becomes a copy of q: a copy lacks what its
\* original lacks, or has it in excess.
Inherits(set, q, r) == IF q \in set THEN set \cup {r} ELSE set \ {r}

\* Query<T> r = q.where(...): r is a copy of the q that was changed.  When q
\* is a temporary of a chain of calls, nobody looks at it again.
Derive(q, r) ==
  \E b \in Built(query[q], asked[q]) :
    /\ query' = [x \in Queries |-> IF x \in {q, r} THEN b[1] ELSE query[x]]
    /\ asked' = [asked EXCEPT ![r] = b[2]]
    /\ builtOn' = Inherits(builtOn, q, r) \cup ({q} \ {r})
    /\ ignored' = Inherits(ignored, q, r)
    /\ Within(query', asked', ignored')
    /\ UNCHANGED <<adapter, table>>

\* Query<T> r(q).
Copy(q, r) ==
  /\ q # r
  /\ query' = [query EXCEPT ![r] = query[q]]
  /\ asked' = [asked EXCEPT ![r] = asked[q]]
  /\ builtOn' = Inherits(builtOn, q, r)
  /\ ignored' = Inherits(ignored, q, r)
  /\ Within(query', asked', ignored')
  /\ UNCHANGED <<adapter, table>>

\* r = q makes a copy of q, returns it and leaves r as it is.
Assign(q, r) ==
  /\ q # r
  /\ asked' = [asked EXCEPT ![r] = asked[q]]
  /\ ignored' = ignored \cup {r}
  /\ UNCHANGED <<adapter, table, query, builtOn>>
  /\ Within(query', asked', ignored')

Init ==
  /\ adapter \in {"sqlite", "postgres"}
  /\ table \in Tables
  /\ query = [q \in Queries |-> Empty]
  /\ asked = [q \in Queries |-> Empty]
  /\ builtOn = {} /\ ignored = {}

Next ==
  \E q, r \in Queries :
    Declare(q) \/ Derive(q, r) \/ Copy(q, r) \/ Assign(q, r)

Spec == Init /\ [][Next]_vars

-----------------------------------------------------------------------------
(* Properties.                                                             *)

\* The rows that meet every condition of r, and how many of them it skips.
Matching(r) ==
  {k \in DOMAIN table :
     \A i \in DOMAIN r.conditions :
       table[k][r.conditions[i].column] = r.conditions[i].value}

Skipped(r) == IF r.offset > 0 THEN r.offset ELSE 0

\* The rows r describes: those that meet every condition, sorted by the first
\* ordering, then the next, less the first offset ones, no more than limit.
Described(r) ==
  LET keys == Matching(r)
      skip == Skipped(r)
  IN {[i \in 1..(IF Cardinality(keys) <= skip THEN 0
                 ELSE IF r.limit < 0 THEN Cardinality(keys) - skip
                 ELSE Least(r.limit, Cardinality(keys) - skip))
         |-> s[i + skip]] : s \in Arrangements(table, keys, r.orderings)}

Repeats(list) == \E i \in DOMAIN list : i > 1 /\ list[i] = list[1]

\* Queries that come to nothing: the first condition or ordering is given
\* again, or PostgreSQL is given a negative limit or offset.
Fruitless(r) ==
  \/ Repeats(r.conditions) \/ Repeats(r.orderings)
  \/ adapter = "postgres" /\ (r.limit < INVALID_LIMIT \/ r.offset < 0)

\* all() gives what the calls on a query, and on those it was made from,
\* describe, in an order they allow; when the query comes to nothing SQLite's
\* prepare throws and PostgreSQL's gives no object at all, never a wrong one.
\* The exceptions are queries that a builder was called on while its result
\* was kept elsewhere, and those something was assigned to (query.h:65-97,
\* all and the clauses it joins).
AllAnswers ==
  \A q \in Queries \ (builtOn \cup ignored) :
    all(query[q], table, adapter) =
      IF Fruitless(asked[q])
      THEN {IF adapter = "sqlite" THEN Threw ELSE Gives(<<>>)}
      ELSE {Gives(s) : s \in Described(asked[q])}

\* first() may give exactly the rows that can stand behind as many others as
\* the query skips: no more than these must come before such a row, and enough
\* rows need not come after it.  It throws when there is none, when the limit
\* is 0 and when the query comes to nothing; the exceptions are those of
\* AllAnswers (query.h:113-127, which adds no LIMIT 1 of its own).
FirstIsAtOffset ==
  \A q \in Queries \ (builtOn \cup ignored) :
    LET r == asked[q]
        keys == Matching(r)
        Ahead(k) == {j \in keys : Before(table[j], table[k], r.orderings)}
        Behind(k) == {j \in keys : Before(table[k], table[j], r.orderings)}
        there == {k \in keys :
                    /\ Cardinality(Ahead(k)) <= Skipped(r)
                    /\ Skipped(r) < Cardinality(keys \ Behind(k))}
    IN first(query[q], table, adapter) =
         IF Fruitless(r) \/ r.limit = 0 \/ there = {} THEN {Threw}
         ELSE {Gives(<<k>>) : k \in there}

\* On SQLite no query finds a row that does not meet the conditions asked of
\* it: what one that a builder was called on loses is rows.  (On PostgreSQL
\* its placeholders are off by those it does not know of.)  Queries something
\* was assigned to are excepted (query.h:71-76).
BuiltOnNarrows ==
  adapter = "sqlite" =>
  \A q \in Queries \ ignored :
    \A a \in all(query[q], table, adapter) : \A i \in DOMAIN a.ids :
        \A c \in DOMAIN asked[q].conditions :
          LET k == asked[q].conditions[c]
          IN table[a.ids[i]][k.column] = k.value

=============================================================================
