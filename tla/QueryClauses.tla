---------------------------- MODULE QueryClauses ----------------------------
(***************************************************************************)
(* The SELECT a Query<T> builds and what the databases make of it          *)
(* (include/active_record/query.h).                                        *)
(*                                                                         *)
(* A condition is a text with its value: "<column> = ?" (place 0), or for  *)
(* PostgreSQL "<column> = $n" (place n), which takes the nth value.  An    *)
(* ordering is a column and a direction, a clause a sequence of terms,     *)
(* each a key word and what follows it, a table a function from its keys   *)
(* to rows.                                                                *)
(***************************************************************************)
EXTENDS Integers, Sequences, FiniteSets

\* limit_ when there is none.
INVALID_LIMIT == -1

Empty == [conditions |-> <<>>, orderings |-> <<>>,
          limit |-> INVALID_LIMIT, offset |-> 0]

Term(word, what) == [word |-> word, what |-> what]

-----------------------------------------------------------------------------
(* The clauses.                                                            *)

\* A term that equals the first one is taken for the first one.
Joined(list, first, others) ==
  [i \in DOMAIN list |->
     Term(IF list[i] = list[1] THEN first ELSE others, list[i])]

condition_clause(q) == Joined(q.conditions, "WHERE", "AND")

order_clause(q) == Joined(q.orderings, "ORDER BY", ",")

limit_clause(q) ==
  IF q.limit = INVALID_LIMIT THEN <<>> ELSE <<Term("LIMIT", q.limit)>>

\* Mutant: SQLite is not given the LIMIT it requires.
OffsetAlone(q, adapter) ==
  IF q.offset = 0 THEN <<>> ELSE <<Term("OFFSET", q.offset)>>

offset_clause(q, adapter) ==
  IF q.offset = 0 THEN <<>>
  ELSE (IF adapter = "sqlite" /\ q.limit = INVALID_LIMIT
        THEN <<Term("LIMIT", -1)>> ELSE <<>>)
       \o <<Term("OFFSET", q.offset)>>

query_and_parameters(q, adapter) ==
  [conditions |-> condition_clause(q), orderings |-> order_clause(q),
   bounds |-> limit_clause(q) \o offset_clause(q, adapter)]

-----------------------------------------------------------------------------
(* The databases.                                                          *)

Words(clause) == [i \in DOMAIN clause |-> clause[i].word]

\* Key words that may follow one another at the start and within a SELECT.
Opens(clause, first, others) ==
  \A i \in DOMAIN clause : clause[i].word = IF i = 1 THEN first ELSE others

Compiles(sql, adapter) ==
  /\ Opens(sql.conditions, "WHERE", "AND")
  /\ Opens(sql.orderings, "ORDER BY", ",")
  /\ Words(sql.bounds) \in
       {<<>>, <<"LIMIT">>, <<"LIMIT", "OFFSET">>}
       \cup IF adapter = "sqlite" THEN {} ELSE {<<"OFFSET">>}

Bound(sql, word, default) ==
  IF \E i \in DOMAIN sql.bounds : sql.bounds[i].word = word
  THEN sql.bounds[CHOOSE i \in DOMAIN sql.bounds :
                    sql.bounds[i].word = word].what
  ELSE default

\* PostgreSQL refuses what SQLite takes for none.
Refuses(sql, adapter) ==
  adapter = "postgres" /\
    (Bound(sql, "LIMIT", 0) < 0 \/ Bound(sql, "OFFSET", 0) < 0)

Meets(row, conditions) ==
  \A i \in DOMAIN conditions :
    LET place == conditions[i].place
    IN row[conditions[i].column] =
         conditions[IF place = 0 THEN i ELSE place].value

\* Row r must come before row s.
Before(r, s, orderings) ==
  \E i \in DOMAIN orderings :
    LET o == orderings[i] IN
    /\ IF o.desc THEN r[o.column] > s[o.column] ELSE r[o.column] < s[o.column]
    /\ \A j \in 1..(i - 1) : r[orderings[j].column] = s[orderings[j].column]

\* The orders in which the keys of a set may come back.
Arrangements(table, keys, orderings) ==
  {f \in [1..Cardinality(keys) -> keys] :
     \A i, j \in DOMAIN f :
       i < j => f[i] # f[j] /\ ~Before(table[f[j]], table[f[i]], orderings)}

Least(a, b) == IF a < b THEN a ELSE b

\* A negative LIMIT is none, a negative OFFSET is 0.
Window(s, limit, offset) ==
  LET from == IF offset < 0 THEN 0 ELSE offset
      to == IF limit < 0 THEN Len(s) ELSE Least(Len(s), from + limit)
  IN SubSeq(s, from + 1, to)

Whats(clause) == [i \in DOMAIN clause |-> clause[i].what]

Selected(sql, table) ==
  LET conditions == Whats(sql.conditions)
      orderings == Whats(sql.orderings)
      keys == {k \in DOMAIN table : Meets(table[k], conditions)}
  IN {Window(s, Bound(sql, "LIMIT", -1), Bound(sql, "OFFSET", 0)) :
        s \in Arrangements(table, keys, orderings)}

-----------------------------------------------------------------------------
(* What the program gets.                                                  *)

Threw == [threw |-> TRUE, ids |-> <<>>]
Gives(ids) == [threw |-> FALSE, ids |-> ids]

\* A statement that fails throws from SQLite's prepare; PostgreSQL's adapter
\* logs the error and returns no row.
Answers(q, table, adapter) ==
  LET sql == query_and_parameters(q, adapter) IN
  IF Compiles(sql, adapter) /\ ~Refuses(sql, adapter)
  THEN {Gives(ids) : ids \in Selected(sql, table)}
  ELSE {IF adapter = "sqlite" THEN Threw ELSE Gives(<<>>)}

\* Objects that know their ids and have not been loaded.
all(q, table, adapter) == Answers(q, table, adapter)

\* Mutant: first gives the last row.
TakesLast(q, table, adapter) ==
  {IF a.ids = <<>> THEN Threw ELSE Gives(<<a.ids[Len(a.ids)]>>) :
     a \in Answers(q, table, adapter)}

\* "No data" is thrown for an empty answer.
first(q, table, adapter) ==
  {IF a.ids = <<>> THEN Threw ELSE Gives(<<a.ids[1]>>) :
     a \in Answers(q, table, adapter)}

=============================================================================
