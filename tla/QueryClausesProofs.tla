------------------------- MODULE QueryClausesProofs -------------------------
(***************************************************************************)
(* What the SELECT of QueryClauses gives, for every query, table and       *)
(* adapter: which queries compile, what becomes of their clauses, and      *)
(* which rows are in an answer.                                            *)
(***************************************************************************)
EXTENDS QueryClauses, FiniteSetTheorems, SequenceTheorems, TLAPS

-----------------------------------------------------------------------------
(* The clauses.                                                            *)

\* Joined loses nothing of the list, and opens a clause if the first term
\* comes but once.
LEMMA JoinedKeeps ==
  ASSUME NEW S, NEW list \in Seq(S), NEW start, NEW others
  PROVE  Whats(Joined(list, start, others)) = list
BY DEF Whats, Joined, Term

LEMMA JoinedOpens ==
  ASSUME NEW S, NEW list \in Seq(S), NEW start, NEW others, start # others
  PROVE  Opens(Joined(list, start, others), start, others)
           <=> \A i \in DOMAIN list : i > 1 => list[i] # list[1]
<1>1. DOMAIN Joined(list, start, others) = DOMAIN list
  BY DEF Joined
<1>2. \A i \in DOMAIN list :
        Joined(list, start, others)[i].word = IF list[i] = list[1] THEN start ELSE others
  BY DEF Joined, Term
<1>3. \A i \in DOMAIN list : i \in Nat /\ i >= 1
  OBVIOUS
<1> QED BY <1>1, <1>2, <1>3 DEF Opens

\* The bounds of a query by what they are made of.
LEMMA BoundsOf ==
  ASSUME NEW q, NEW adapter, q.limit \in Int, q.offset \in Int,
         NEW sql, sql = query_and_parameters(q, adapter)
  PROVE  sql.bounds =
           IF q.offset = 0
           THEN IF q.limit = INVALID_LIMIT THEN <<>> ELSE <<Term("LIMIT", q.limit)>>
           ELSE IF q.limit = INVALID_LIMIT /\ adapter # "sqlite"
                THEN <<Term("OFFSET", q.offset)>>
                ELSE <<Term("LIMIT", q.limit), Term("OFFSET", q.offset)>>
<1>1. sql.bounds = limit_clause(q) \o offset_clause(q, adapter)
  BY DEF query_and_parameters
<1>2. \A x, y : /\ <<>> \o <<x>> = <<x>> /\ <<x>> \o <<>> = <<x>>
                /\ <<x>> \o <<y>> = <<x, y>>
                /\ <<>> \o <<x, y>> = <<x, y>>
  <2> TAKE x, y
  <2>1. <<x>> \in Seq({x, y}) /\ <<x, y>> \in Seq({x, y})
    OBVIOUS
  <2>2. <<x>> \o <<y>> = <<x, y>>
    <3>1. <<y>> \in Seq({x, y})
      OBVIOUS
    <3>2. /\ <<x>> \o <<y>> \in Seq({x, y}) /\ Len(<<x>> \o <<y>>) = 2
          /\ (<<x>> \o <<y>>)[1] = x /\ (<<x>> \o <<y>>)[2] = y
      BY <2>1, <3>1, ConcatProperties
    <3>3. \A i \in 1..2 : (<<x>> \o <<y>>)[i] = <<x, y>>[i]
      <4>1. 1..2 = {1, 2}
        OBVIOUS
      <4> QED BY <3>2, <4>1
    <3>4. Len(<<x, y>>) = 2
      OBVIOUS
    <3> QED BY <2>1, <3>2, <3>3, <3>4, SeqEqual, Zenon
  <2>3. <<>> \o <<x>> = <<x>> /\ <<x>> \o <<>> = <<x>>
    BY <2>1, ConcatEmptySeq
  <2>4. <<>> \o <<x, y>> = <<x, y>>
    BY <2>1, ConcatEmptySeq
  <2> QED BY <2>2, <2>3, <2>4
<1>3. CASE q.offset = 0
  BY <1>1, <1>2, <1>3 DEF limit_clause, offset_clause
<1>4. CASE q.offset # 0
  BY <1>1, <1>2, <1>4 DEF limit_clause, offset_clause, INVALID_LIMIT
<1> QED BY <1>3, <1>4

LEMMA BoundTerm ==
  ASSUME NEW sql, NEW word, NEW default, NEW k \in DOMAIN sql.bounds,
         sql.bounds[k].word = word,
         \A i \in DOMAIN sql.bounds : sql.bounds[i].word = word => i = k
  PROVE  Bound(sql, word, default) = sql.bounds[k].what
BY DEF Bound

LEMMA BoundDefault ==
  ASSUME NEW sql, NEW word, NEW default,
         \A i \in DOMAIN sql.bounds : sql.bounds[i].word # word
  PROVE  Bound(sql, word, default) = default
BY DEF Bound

\* What the database takes for limit and offset is what the query has.
LEMMA BoundsRead ==
  ASSUME NEW q, NEW adapter, q.limit \in Int, q.offset \in Int,
         NEW sql, sql = query_and_parameters(q, adapter)
  PROVE  /\ Bound(sql, "LIMIT", -1) = q.limit
         /\ Bound(sql, "OFFSET", 0) = q.offset
         /\ adapter = "postgres" =>
              (Bound(sql, "LIMIT", 0) < 0 <=> q.limit < INVALID_LIMIT)
         /\ Words(sql.bounds) \in
              {<<>>, <<"LIMIT">>, <<"LIMIT", "OFFSET">>}
              \cup IF adapter = "sqlite" THEN {} ELSE {<<"OFFSET">>}
<1> DEFINE l == Term("LIMIT", q.limit)
           o == Term("OFFSET", q.offset)
<1>0. /\ l.word = "LIMIT" /\ l.what = q.limit
      /\ o.word = "OFFSET" /\ o.what = q.offset
  BY DEF Term
<1>1. CASE sql.bounds = <<>> /\ q.limit = INVALID_LIMIT /\ q.offset = 0
  <2>1. DOMAIN sql.bounds = {}
    BY <1>1
  <2>2. Words(sql.bounds) = <<>>
    BY <1>1, <2>1 DEF Words
  <2> QED BY <1>1, <2>1, <2>2, BoundDefault DEF INVALID_LIMIT
<1>2. CASE sql.bounds = <<l>> /\ q.limit # INVALID_LIMIT /\ q.offset = 0
  <2> HIDE DEF l
  <2>1. DOMAIN sql.bounds = {1} /\ sql.bounds[1] = l
    BY <1>2
  <2>2. Words(sql.bounds) = <<"LIMIT">>
    BY <1>0, <1>2 DEF Words
  <2>3. \A d : Bound(sql, "LIMIT", d) = q.limit /\ Bound(sql, "OFFSET", 0) = 0
    BY <1>0, <2>1, BoundDefault, BoundTerm
  <2> QED BY <1>2, <2>2, <2>3 DEF INVALID_LIMIT
<1>3. CASE /\ sql.bounds = <<o>> /\ q.limit = INVALID_LIMIT /\ adapter # "sqlite"
           /\ q.offset # 0
  <2> HIDE DEF o
  <2>1. DOMAIN sql.bounds = {1} /\ sql.bounds[1] = o
    BY <1>3
  <2>2. Words(sql.bounds) = <<"OFFSET">>
    BY <1>0, <1>3 DEF Words
  <2>3. \A d : Bound(sql, "LIMIT", d) = d /\ Bound(sql, "OFFSET", 0) = q.offset
    BY <1>0, <2>1, BoundDefault, BoundTerm
  <2> QED BY <1>3, <2>2, <2>3 DEF INVALID_LIMIT
<1>4. CASE /\ sql.bounds = <<l, o>> /\ q.offset # 0
           /\ q.limit # INVALID_LIMIT \/ adapter = "sqlite"
  <2> HIDE DEF l, o
  <2>1. DOMAIN sql.bounds = {1, 2} /\ sql.bounds[1] = l /\ sql.bounds[2] = o
    BY <1>4
  <2>2. Words(sql.bounds) = <<"LIMIT", "OFFSET">>
    BY <1>0, <1>4 DEF Words
  <2>3. \A d : Bound(sql, "LIMIT", d) = q.limit /\ Bound(sql, "OFFSET", 0) = q.offset
    BY <1>0, <2>1, BoundTerm
  <2> QED BY <1>4, <2>2, <2>3 DEF INVALID_LIMIT
<1> QED BY <1>1, <1>2, <1>3, <1>4, BoundsOf

-----------------------------------------------------------------------------
(* The answers.                                                            *)

\* No term of a clause is taken for the first one.
Once(list) == \A i \in DOMAIN list : i > 1 => list[i] # list[1]

\* The objects of a query hold what the program may have asked for.
Formed(q) ==
  /\ \E S : q.conditions \in Seq(S)
  /\ \E S : q.orderings \in Seq(S)
  /\ q.limit \in Int /\ q.offset \in Int

\* The queries that come to nothing are those that repeat the first term of a
\* clause, and those PostgreSQL refuses for a negative bound.
Fruitful(q, adapter) ==
  /\ Once(q.conditions) /\ Once(q.orderings)
  /\ adapter = "postgres" => q.limit >= INVALID_LIMIT /\ q.offset >= 0

Found(q, table) == {k \in DOMAIN table : Meets(table[k], q.conditions)}

LEMMA CompiledAre ==
  ASSUME NEW q, Formed(q), NEW adapter, NEW sql, sql = query_and_parameters(q, adapter)
  PROVE  /\ Compiles(sql, adapter) /\ ~Refuses(sql, adapter) <=> Fruitful(q, adapter)
         /\ Whats(sql.conditions) = q.conditions
         /\ Whats(sql.orderings) = q.orderings
<1>1. PICK S : q.conditions \in Seq(S)
  BY DEF Formed
<1>2. PICK T : q.orderings \in Seq(T)
  BY DEF Formed
<1>3. /\ sql.conditions = Joined(q.conditions, "WHERE", "AND")
      /\ sql.orderings = Joined(q.orderings, "ORDER BY", ",")
  BY DEF query_and_parameters, condition_clause, order_clause
<1>4. Opens(sql.conditions, "WHERE", "AND") <=> Once(q.conditions)
  BY <1>1, <1>3, JoinedOpens DEF Once
<1>5. Opens(sql.orderings, "ORDER BY", ",") <=> Once(q.orderings)
  BY <1>2, <1>3, JoinedOpens DEF Once
<1>6. Compiles(sql, adapter) <=> Once(q.conditions) /\ Once(q.orderings)
  BY <1>4, <1>5, BoundsRead DEF Compiles, Formed
<1>7. ~Refuses(sql, adapter)
        <=> (adapter = "postgres" => q.limit >= INVALID_LIMIT /\ q.offset >= 0)
  BY BoundsRead DEF Refuses, Formed, INVALID_LIMIT
<1>8. Whats(sql.conditions) = q.conditions /\ Whats(sql.orderings) = q.orderings
  <2>1. Whats(Joined(q.conditions, "WHERE", "AND")) = q.conditions
    BY <1>1, JoinedKeeps
  <2>2. Whats(Joined(q.orderings, "ORDER BY", ",")) = q.orderings
    BY <1>2, JoinedKeeps
  <2> QED BY <1>3, <2>1, <2>2
<1>9. Compiles(sql, adapter) /\ ~Refuses(sql, adapter) <=> Fruitful(q, adapter)
  BY <1>6, <1>7, Zenon DEF Fruitful
<1> QED BY <1>8, <1>9

\* What a fruitful query gives is a window on the rows it finds, in an order
\* it allows; what another one gives has no row.
LEMMA AnswersAre ==
  ASSUME NEW q, Formed(q), NEW table, NEW adapter
  PROVE  Answers(q, table, adapter) =
           IF Fruitful(q, adapter)
           THEN {Gives(Window(s, q.limit, q.offset)) :
                   s \in Arrangements(table, Found(q, table), q.orderings)}
           ELSE {IF adapter = "sqlite" THEN Threw ELSE Gives(<<>>)}
<1>0. PICK sql : sql = query_and_parameters(q, adapter)
  OBVIOUS
<1>1. /\ Compiles(sql, adapter) /\ ~Refuses(sql, adapter) <=> Fruitful(q, adapter)
      /\ Whats(sql.conditions) = q.conditions
      /\ Whats(sql.orderings) = q.orderings
  BY <1>0, CompiledAre
<1>2. Bound(sql, "LIMIT", -1) = q.limit /\ Bound(sql, "OFFSET", 0) = q.offset
  BY <1>0, BoundsRead DEF Formed
<1>3. Answers(q, table, adapter) =
        IF Compiles(sql, adapter) /\ ~Refuses(sql, adapter)
        THEN {Gives(ids) : ids \in Selected(sql, table)}
        ELSE {IF adapter = "sqlite" THEN Threw ELSE Gives(<<>>)}
  BY <1>0 DEF Answers
<1>4. Selected(sql, table) =
        {Window(s, q.limit, q.offset) :
           s \in Arrangements(table, Found(q, table), q.orderings)}
  BY <1>1, <1>2 DEF Selected, Found
<1>5. {Gives(ids) : ids \in Selected(sql, table)} =
        {Gives(Window(s, q.limit, q.offset)) :
           s \in Arrangements(table, Found(q, table), q.orderings)}
  BY <1>4
<1> QED BY <1>1, <1>3, <1>5

\* An arrangement of a finite set of keys has each of them, once.
LEMMA Arranged ==
  ASSUME NEW table, NEW keys, IsFiniteSet(keys), NEW orderings,
         NEW f \in Arrangements(table, keys, orderings)
  PROVE  /\ f \in Seq(keys) /\ Len(f) = Cardinality(keys)
         /\ \A k \in keys : \E n \in DOMAIN f : f[n] = k
<1>1. Cardinality(keys) \in Nat
  BY FS_CardinalityType
<1> DEFINE places == 1..Cardinality(keys)
<1>2. /\ f \in [places -> keys]
      /\ \A i, j \in places : i < j => f[i] # f[j]
  BY DEF Arrangements
<1>3. f \in Injection(places, keys)
  <2>1. \A i, j \in places : f[i] = f[j] => i = j
    BY <1>1, <1>2
  <2> QED BY <1>2, <2>1 DEF Injection, IsInjective
<1>4. IsFiniteSet(places) /\ Cardinality(places) = Cardinality(keys)
  BY <1>1, FS_Interval
<1>5. f \in Surjection(places, keys)
  BY <1>3, <1>4, FS_Injection
<1>6. f \in Seq(keys) /\ Len(f) = Cardinality(keys) /\ DOMAIN f = places
  BY <1>1, <1>2
<1> QED BY <1>2, <1>5, <1>6 DEF Surjection

\* A window of a sequence leaves the first offset terms out and takes no more
\* than limit of the others.
LEMMA WindowIs ==
  ASSUME NEW S, NEW s \in Seq(S), NEW limit \in Int, NEW offset \in Int,
         NEW skip, skip = IF offset > 0 THEN offset ELSE 0
  PROVE  /\ Window(s, limit, offset) =
              [i \in 1..(IF Len(s) <= skip THEN 0
                         ELSE IF limit < 0 THEN Len(s) - skip
                         ELSE Least(limit, Len(s) - skip)) |-> s[i + skip]]
         /\ Window(s, limit, offset) \in Seq(S)
<1> DEFINE end == IF limit < 0 THEN Len(s) ELSE Least(Len(s), skip + limit)
           size == IF Len(s) <= skip THEN 0
                   ELSE IF limit < 0 THEN Len(s) - skip
                   ELSE Least(limit, Len(s) - skip)
<1>1. Len(s) \in Nat /\ skip \in Nat
  BY LenProperties
<1>2. Window(s, limit, offset) = SubSeq(s, skip + 1, end)
  <2>1. (IF offset < 0 THEN 0 ELSE offset) = skip
    OBVIOUS
  <2> QED BY <2>1 DEF Window
<1>3. /\ end \in Int /\ end <= Len(s) /\ size \in Nat
      /\ size = IF skip + 1 <= end THEN end - (skip + 1) + 1 ELSE 0
  <2>1. CASE limit < 0
    BY <1>1, <2>1
  <2>2. CASE limit >= 0 /\ skip + limit < Len(s)
    <3>1. end = skip + limit /\ size = limit
      <4>1. Len(s) > skip /\ limit < Len(s) - skip
        BY <1>1, <2>2
      <4> QED BY <1>1, <2>2, <4>1 DEF Least
    <3> QED BY <1>1, <2>2, <3>1
  <2>3. CASE limit >= 0 /\ Len(s) <= skip + limit
    <3>1. end = Len(s)
      BY <1>1, <2>3 DEF Least
    <3>2. size = IF Len(s) <= skip THEN 0 ELSE Len(s) - skip
      BY <1>1, <2>3 DEF Least
    <3> QED BY <1>1, <3>1, <3>2
  <2> QED BY <1>1, <2>1, <2>2, <2>3
<1> HIDE DEF end, size
<1>4. \A i \in (skip + 1)..end : s[i] \in S
  BY <1>1, <1>3, ElementOfSeq
<1>5. /\ SubSeq(s, skip + 1, end) \in Seq(S)
      /\ Len(SubSeq(s, skip + 1, end)) = size
      /\ \A i \in 1..(end - (skip + 1) + 1) :
           SubSeq(s, skip + 1, end)[i] = s[(skip + 1) + i - 1]
  BY <1>1, <1>3, <1>4, SubSeqProperties
<1>6. \A i \in 1..size : SubSeq(s, skip + 1, end)[i] = s[i + skip]
  <2> TAKE i \in 1..size
  <2>1. i \in 1..(end - (skip + 1) + 1) /\ (skip + 1) + i - 1 = i + skip
    BY <1>1, <1>3
  <2> QED BY <1>5, <2>1
<1>7. SubSeq(s, skip + 1, end) \in [1..size -> S]
  BY <1>5, LenProperties
<1>8. SubSeq(s, skip + 1, end) = [i \in 1..size |-> s[i + skip]]
  BY <1>6, <1>7
<1> QED BY <1>2, <1>5, <1>8 DEF size

=============================================================================
