------------------------------ MODULE SqlCases -------------------------------
(***************************************************************************)
(* Bounded inputs for the algorithms of SqlSort, SqlQuery and              *)
(* SqlAggregate.  A behaviour picks tables and then a statement; each      *)
(* statement is compared with what SQL defines.  Every table of up to      *)
(* three rows over NULL and two values is tried, with predicates that mix  *)
(* NULLs, AND, OR, NOT and IN, under budgets that hold nothing, a few rows *)
(* and everything.                                                         *)
(***************************************************************************)
EXTENDS SqlAggregate

CONSTANT SqlKinds    \* the kinds of statement tried

VARIABLE sql    \* the tables and the statement picked

sqVars == <<sql>>

Cmp(l, op, r)   == [is |-> "cmp", left |-> l, op |-> op, right |-> r]
IsNull(c, n)    == [is |-> "isnull", col |-> c, negated |-> n]
In(c, l, n)     == [is |-> "in", col |-> c, list |-> l, negated |-> n]
And(a, b)       == [is |-> "and", a |-> a, b |-> b]
Or(a, b)        == [is |-> "or", a |-> a, b |-> b]
Not(a)          == [is |-> "not", a |-> a]
By(ti, name, d) == [ti |-> ti, name |-> name, desc |-> d]
Index(cols, u)  == [columns |-> cols, unique |-> u]

\* A table from the values of its join column.
Tab(ks) == [i \in DOMAIN ks |-> [id |-> i, k |-> ks[i], v |-> (ks[i] + i) % 2]]

Respects(ks, indexes) ==
    (\E x \in indexes : x.unique) =>
        \A i, j \in DOMAIN ks : i # j => ks[i] # ks[j] \/ ks[i] = Null

Query(joins, where, order, offset, limit, budget, wide, stale, grouped) ==
    [joins |-> joins, where |-> where, order |-> order, offset |-> offset,
     limit |-> limit, budget |-> budget, wide |-> wide, stale |-> stale,
     grouped |-> grouped]

-----------------------------------------------------------------------------
(* ORDER BY ... LIMIT ... OFFSET alone.                                    *)

SortTables == {[rows |-> ks] : ks \in SeqOf(0..2, 5)}

SortQueries(t) ==
    [sizes : {<<1, 1, 1, 1, 1>>, <<2, 1, 3, 1, 2>>}, offset : 0..1,
     limit : {Unlimited, 0, 2}, budget : {1, 3, 50}, desc : BOOLEAN]

SortRowsOf(t, q) ==
    [i \in DOMAIN t.rows |-> [keys |-> <<t.rows[i]>>, values |-> <<i>>,
                              sequence |-> i, bytes |-> q.sizes[i]]]

-----------------------------------------------------------------------------
(* Two tables.                                                             *)

JoinTables ==
    UNION {{<<[rows |-> Tab(l), indexes |-> {}], [rows |-> Tab(r), indexes |-> x]>> :
              r \in {ks \in SeqOf(0..2, 3) : Respects(ks, x)}} :
           l \in SeqOf(0..2, 2),
           x \in {{}, {Index(<<"k">>, FALSE)}, {Index(<<"k">>, TRUE)}}}

JoinWheres ==
    {NoWhere,
     Cmp(Val(1), "<", Col(1, "k")),
     And(IsNull(Col(1, "v"), TRUE), Cmp(Col(1, "k"), "<>", Val(2))),
     IsNull(Col(2, "v"), FALSE),
     Cmp(Col(2, "v"), "=", Val(1)),
     Or(IsNull(Col(2, "id"), FALSE), Cmp(Col(1, "v"), "=", Col(2, "v"))),
     Or(In(Col(1, "k"), {2, Null}, FALSE), Cmp(Col(2, "v"), "=", Val(1)))}

\* The budget decides between hash and Grace join, the index between those
\* and the nested loop: only the combinations that differ are tried.
JoinQueries(ts) ==
    {Query(<<[kind |-> kind, existing |-> <<1, "k">>, fresh |-> "k"]>>,
           where, order, 0, Unlimited, budget, FALSE, FALSE, grouped) :
        kind \in {"Inner", "Left", "Right"}, where \in JoinWheres,
        order \in {<< >>, <<By(2, "v", TRUE)>>},
        budget \in IF ts[2].indexes = {} THEN {2, 4, 100} ELSE {100},
        grouped \in IF ts[2].indexes = {} THEN {FALSE} ELSE BOOLEAN}

-----------------------------------------------------------------------------
(* One table, through every access path.                                   *)

SingleTables ==
    UNION {{<<[rows |-> Tab(ks), indexes |-> x]>> :
              ks \in {s \in SeqOf(0..2, 3) : Respects(s, x)}} :
           x \in {{}, {Index(<<"k", "v">>, FALSE)}, {Index(<<"k">>, TRUE)}}}

SingleWheres ==
    {NoWhere, Cmp(Col(1, "k"), "=", Val(1)),
     And(Cmp(Col(1, "k"), "=", Val(1)), Not(Cmp(Col(1, "v"), "=", Val(1)))),
     And(Cmp(Col(1, "id"), "=", Val(1)), In(Col(1, "k"), {1, Null}, TRUE)),
     Or(IsNull(Col(1, "k"), FALSE), Cmp(Col(1, "v"), ">", Val(0)))}

SingleQueries(ts) ==
    {Query(<< >>, where, order, offset, limit, 2, wide, stale, FALSE) :
        where \in SingleWheres,
        order \in {<< >>, <<By(1, "v", FALSE)>>,
                   <<By(1, "k", TRUE), By(1, "v", FALSE)>>},
        offset \in 0..1, limit \in {Unlimited, 1, 2},
        wide \in BOOLEAN, stale \in BOOLEAN}

-----------------------------------------------------------------------------
(* Aggregates of one table.                                                *)

AggregateTables ==
    {<<[rows |-> [i \in DOMAIN rs |-> [id |-> i, g |-> rs[i][1], v |-> rs[i][2]]],
        indexes |-> {}]>> : rs \in SeqOf((0..1) \X (0..2), 3)}

Ag(f, d) == [func |-> f, arg |-> <<1, "v">>, distinct |-> d]
CountStar == [func |-> "count", arg |-> Star, distinct |-> FALSE]

AggregateQueries(ts) ==
    [joins : {<< >>}, where : {NoWhere, Cmp(Col(1, "v"), "<>", Val(2))},
     group : {<< >>, <<<<1, "g">>>>},
     aggs : {<<CountStar, Ag("count", TRUE), Ag("count", FALSE), Ag("sum", FALSE),
               Ag("min", FALSE), Ag("max", FALSE), Ag("avg", FALSE)>>},
     having : {NoWhere, Cmp(Col(1, "a1"), ">", Val(1))},
     order : {<< >>, <<[pos |-> 2, desc |-> TRUE]>>},
     offset : {0}, limit : {Unlimited, 1}, budget : {1, 3, 8}]

-----------------------------------------------------------------------------
Start == [stage |-> "none", kind |-> "none"]

sqInit == sql = Start

PickTables ==
    /\ sql = Start
    /\ \/ /\ "sort" \in SqlKinds
          /\ \E t \in SortTables :
               sql' = [stage |-> "tables", kind |-> "sort", ts |-> t]
       \/ /\ "join" \in SqlKinds
          /\ \E ts \in JoinTables :
               sql' = [stage |-> "tables", kind |-> "join", ts |-> ts]
       \/ /\ "single" \in SqlKinds
          /\ \E ts \in SingleTables :
               sql' = [stage |-> "tables", kind |-> "single", ts |-> ts]
       \/ /\ "aggregate" \in SqlKinds
          /\ \E ts \in AggregateTables :
               sql' = [stage |-> "tables", kind |-> "aggregate", ts |-> ts]

QueriesOf(kind, ts) ==
    CASE kind = "sort" -> SortQueries(ts)
      [] kind = "join" -> JoinQueries(ts)
      [] kind = "single" -> SingleQueries(ts)
      [] kind = "aggregate" -> AggregateQueries(ts)

PickQuery ==
    /\ sql.stage = "tables"
    /\ \E q \in QueriesOf(sql.kind, sql.ts) :
         sql' = [stage |-> "query", kind |-> sql.kind, ts |-> sql.ts, q |-> q]

sqNext == PickTables \/ PickQuery

sqSpec == sqInit /\ [][sqNext]_sqVars

-----------------------------------------------------------------------------
Picked(kinds) == sql.stage = "query" /\ sql.kind \in kinds

\* SortIsExact of SqlSort, for every input tried.
SortsExact ==
    Picked({"sort"}) =>
        SortIsExact(SortRowsOf(sql.ts, sql.q), <<sql.q.desc>>, sql.q.offset,
                    sql.q.limit, sql.q.budget)

\* AnswersExact of SqlQuery, for every input tried.
SelectsExact == Picked({"join", "single"}) => AnswersExact(sql.ts, sql.q)

\* AggregatesExact of SqlAggregate, for every input tried.
AggregationsExact ==
    Picked({"aggregate"}) => AggregatesExact(sql.ts[1], sql.q)

\* manual.md: "a row is kept only when the predicate is TRUE" (KeptOnlyWhenTrue
\* of SqlQuery, about the split of resolve_query), for every input tried.
RowsKeptOnlyWhenTrue ==
    Picked({"join", "single"}) => KeptOnlyWhenTrue(sql.ts, sql.q)
=============================================================================
