---------------------------- MODULE SqlAggregate -----------------------------
(***************************************************************************)
(* Aggregate SELECTs (sql/exec.rs): the accumulators, the budgeted hash    *)
(* aggregation of one table, its fallback to an external sort of the rows, *)
(* the external COUNT(DISTINCT) of a global aggregate, and the aggregation *)
(* of joined rows.                                                         *)
(*                                                                         *)
(* A query adds to those of SqlQuery: group, the GROUP BY columns <<ti,    *)
(* name>>; aggs, the specs [func, arg, distinct] with arg Star for         *)
(* COUNT( * ); having, over columns "g1", "a1", ... of the group row; and  *)
(* its order names the position of an output column.                       *)
(***************************************************************************)
EXTENDS SqlQuery

CONSTANTS GroupBytes,    \* bytes one group adds to the hash table
          Int64Max,      \* i64::MAX, the largest SUM that is not an error
          AvgScale       \* AVG is kept exact as sum * AvgScale / n

Star  == <<0, "*">>
Overflow == -1           \* SUM overflows int64: the statement fails

ArgOf(row, spec) == IF spec.arg = Star THEN Null ELSE col_value(row, spec.arg[1], spec.arg[2])

-----------------------------------------------------------------------------
(* AggState.                                                               *)

AggNew(spec) == [n |-> 0, sum |-> 0, set |-> {}, best |-> Null]

\* Mutant of update_value: COUNT(column) counts NULLs as COUNT( * ) does.
UpdateCountsNulls(s, spec, v) ==
    CASE spec.func = "count" /\ ~spec.distinct -> [s EXCEPT !.n = @ + 1]
      [] spec.func = "count" /\ spec.distinct /\ v # Null ->
           [s EXCEPT !.set = @ \union {v}]
      [] spec.func \in {"sum", "avg"} /\ v # Null ->
           [s EXCEPT !.sum = @ + v, !.n = @ + 1]
      [] \/ spec.func = "min" /\ v # Null /\ (s.best = Null \/ v < s.best)
         \/ spec.func = "max" /\ v # Null /\ (s.best = Null \/ v > s.best) ->
           [s EXCEPT !.best = v]
      [] OTHER -> s

\* COUNT( * ) counts rows; everything else ignores NULL.
update_value(s, spec, v) ==
    CASE spec.func = "count" /\ ~spec.distinct /\ (spec.arg = Star \/ v # Null) ->
           [s EXCEPT !.n = @ + 1]
      [] spec.func = "count" /\ spec.distinct /\ v # Null ->
           [s EXCEPT !.set = @ \union {v}]
      [] spec.func \in {"sum", "avg"} /\ v # Null ->
           [s EXCEPT !.sum = @ + v, !.n = @ + 1]
      [] \/ spec.func = "min" /\ v # Null /\ (s.best = Null \/ v < s.best)
         \/ spec.func = "max" /\ v # Null /\ (s.best = Null \/ v > s.best) ->
           [s EXCEPT !.best = v]
      [] OTHER -> s

AggFinish(s, spec) ==
    CASE spec.func = "count" -> IF spec.distinct THEN Cardinality(s.set) ELSE s.n
      [] spec.func = "sum" ->
           IF s.n = 0 THEN Null ELSE IF s.sum > Int64Max THEN Overflow ELSE s.sum
      [] spec.func = "avg" -> IF s.n = 0 THEN Null ELSE (s.sum * AvgScale) \div s.n
      [] spec.func \in {"min", "max"} -> s.best

NewStates(q) == [a \in DOMAIN q.aggs |-> AggNew(q.aggs[a])]

UpdateAll(states, q, values) ==
    [a \in DOMAIN states |-> update_value(states[a], q.aggs[a], values[a])]

GroupKey(row, q) == [g \in DOMAIN q.group |-> col_value(row, q.group[g][1], q.group[g][2])]
Inputs(row, q) == [a \in DOMAIN q.aggs |-> ArgOf(row, q.aggs[a])]

-----------------------------------------------------------------------------
(* Output of one group.                                                    *)

FinishAll(q, states) == [a \in DOMAIN states |-> AggFinish(states[a], q.aggs[a])]

\* The group as the row HAVING is evaluated on.
HavingRow(key, values) ==
    <<[c \in {"g1", "a1", "a2"} |->
        CASE c = "g1" -> IF key = << >> THEN Null ELSE key[1]
          [] c = "a1" -> values[1]
          [] c = "a2" -> IF Len(values) < 2 THEN Null ELSE values[2]]>>

PassesHaving(q, key, values) ==
    q.having = NoWhere \/ eval(HavingRow(key, values), q.having) = "T"

\* Groups as queue_aggregate_group pushes them: [key, states, first].  An
\* accumulator that overflowed fails the statement.
queue_aggregate_group(sorter, q, group) ==
    LET values == FinishAll(q, group.states)
        out    == group.key \o values
        row    == [keys |-> IF q.order = << >> THEN <<group.first>>
                            ELSE [k \in DOMAIN q.order |-> out[q.order[k].pos]],
                   values |-> out, sequence |-> group.first, bytes |-> 1]
    IN  IF PassesHaving(q, group.key, values) THEN SorterPush(sorter, row) ELSE sorter

Failed == [ok |-> FALSE, rows |-> << >>]

Overflows(q, groups) ==
    \E g \in DOMAIN groups : Overflow \in ToSet(FinishAll(q, groups[g].states))

OutputRows(q, groups) ==
    LET specs == IF q.order = << >> THEN <<FALSE>>
                 ELSE [k \in DOMAIN q.order |-> q.order[k].desc]
        keep  == IF q.limit = Unlimited THEN Unlimited ELSE q.offset + q.limit
        full  == FoldLeft(LAMBDA s, g : queue_aggregate_group(s, q, g),
                          SorterNew(specs, keep, q.budget), groups)
        rows  == SorterFinish(full, q.offset, q.limit)
    IN  IF Overflows(q, groups) THEN Failed
        ELSE [ok |-> TRUE, rows |-> [i \in DOMAIN rows |-> rows[i].values]]

-----------------------------------------------------------------------------
(* One table, GROUP BY.                                                    *)

AddToGroup(groups, key, values, q, first) ==
    IF \E g \in DOMAIN groups : groups[g].key = key
    THEN [g \in DOMAIN groups |->
            IF groups[g].key = key
            THEN [groups[g] EXCEPT !.states = UpdateAll(@, q, values)] ELSE groups[g]]
    ELSE Append(groups, [key |-> key, first |-> first,
                         states |-> UpdateAll(NewStates(q), q, values)])

\* Bytes one row adds to the hash table: a new group, and one for each value
\* that update_value keeps, in a DISTINCT set or as the MIN or MAX so far.
\* The value that a new MIN or MAX replaces stays counted.
AddedBytes(before, after, q) ==
    LET old(g, a) == IF g \in DOMAIN before THEN before[g].states[a]
                                            ELSE AggNew(q.aggs[a])
        kept == {ga \in (DOMAIN after) \X (DOMAIN q.aggs) :
                   LET new == after[ga[1]].states[ga[2]]
                       was == old(ga[1], ga[2])
                   IN  new.set # was.set \/ new.best # was.best}
    IN  GroupBytes * (Len(after) - Len(before)) + Cardinality(kept)

\* hash_aggregate_single_table: groups in first-seen order, given up as soon
\* as the table exceeds the budget.
hash_aggregate_single_table(rows, q) ==
    FoldLeft(LAMBDA h, i :
                LET next == AddToGroup(h.groups, GroupKey(rows[i], q),
                                       Inputs(rows[i], q), q, i)
                    size == h.bytes + AddedBytes(h.groups, next, q)
                IN  IF ~h.within THEN h
                    ELSE [groups |-> next, bytes |-> size, within |-> size <= q.budget],
             [groups |-> << >>, bytes |-> 0, within |-> TRUE],
             [i \in DOMAIN rows |-> i])

\* The fallback: every row goes through a sorter by group key, and a group
\* ends where the key changes; its sequence is that of its first row.
SortedGroups(rows, q) ==
    LET input  == [i \in DOMAIN rows |->
                     [keys |-> GroupKey(rows[i], q), values |-> Inputs(rows[i], q),
                      sequence |-> i, bytes |-> 1]]
        sorted == SortedSlice(input, [g \in DOMAIN q.group |-> FALSE],
                              0, Unlimited, q.budget, FALSE)
        step(groups, row) ==
            IF groups # << >> /\ Last(groups).key = row.keys
            THEN [groups EXCEPT ![Len(groups)].states = UpdateAll(@, q, row.values)]
            ELSE Append(groups, [key |-> row.keys, first |-> row.sequence,
                                 states |-> UpdateAll(NewStates(q), q, row.values)])
    IN  FoldLeft(step, << >>, sorted)

-----------------------------------------------------------------------------
(* One table, no GROUP BY.                                                 *)

\* COUNT(DISTINCT) goes through a sorter of <<aggregate, value>> keys and
\* counts the places where the key changes.
ExternalDistinct(rows, q) ==
    LET pairs == FlattenSeq([i \in DOMAIN rows |->
                    SelectSeq([a \in DOMAIN q.aggs |-> <<a, Inputs(rows[i], q)[a]>>],
                              LAMBDA p : q.aggs[p[1]].distinct /\ p[2] # Null)])
        input == [i \in DOMAIN pairs |->
                    [keys |-> pairs[i], values |-> << >>, sequence |-> i, bytes |-> 1]]
        sorted == SortedSlice(input, <<FALSE, FALSE>>, 0, Unlimited, q.budget, FALSE)
    IN  [a \in DOMAIN q.aggs |->
            Cardinality({i \in DOMAIN sorted :
                /\ sorted[i].keys[1] = a
                /\ i > 1 => sorted[i - 1].keys # sorted[i].keys})]

GlobalStates(rows, q) ==
    LET plain  == FoldLeft(LAMBDA s, r : UpdateAll(s, q, Inputs(r, q)), NewStates(q), rows)
        counts == ExternalDistinct(rows, q)
    IN  [a \in DOMAIN q.aggs |->
            IF q.aggs[a].distinct THEN [plain[a] EXCEPT !.set = 1..counts[a]] ELSE plain[a]]

\* exec_single_table_aggregate
exec_single_table_aggregate(t, q) ==
    LET rows   == Filter(AsExecRows(TableRows(t, 1, pushdown(q, 1))), residual(q))
        hashed == hash_aggregate_single_table(rows, q)
    IN  CASE q.group = << >> ->
               OutputRows(q, <<[key |-> << >>, first |-> 0, states |-> GlobalStates(rows, q)]>>)
          [] q.group # << >> /\ hashed.within -> OutputRows(q, hashed.groups)
          [] OTHER -> OutputRows(q, SortedGroups(rows, q))

-----------------------------------------------------------------------------
(* Joined rows.                                                            *)

\* exec_aggregate: groups in first-seen order, one empty group for a global
\* aggregate, HAVING, a stable sort of the output rows, the slice.
exec_aggregate(rows, q) ==
    LET start  == IF q.group = << >>
                  THEN <<[key |-> << >>, first |-> 0, states |-> NewStates(q)]>> ELSE << >>
        groups == FoldLeft(LAMBDA gs, i : AddToGroup(gs, GroupKey(rows[i], q),
                                                     Inputs(rows[i], q), q, i),
                           start, [i \in DOMAIN rows |-> i])
        finished == [g \in DOMAIN groups |-> FinishAll(q, groups[g].states)]
        kept   == SelectSeq([g \in DOMAIN groups |-> g],
                            LAMBDA g : PassesHaving(q, groups[g].key, finished[g]))
        out    == [i \in DOMAIN kept |->
                     [values |-> groups[kept[i]].key \o finished[kept[i]], sequence |-> i,
                      keys |-> [k \in DOMAIN q.order |->
                        (groups[kept[i]].key \o finished[kept[i]])[q.order[k].pos]]]]
        sorted == SortRows(out, [k \in DOMAIN q.order |-> q.order[k].desc])
        slice  == Truncate(Skip(sorted, q.offset), q.limit)
    IN  IF Overflows(q, groups) THEN Failed
        ELSE [ok |-> TRUE, rows |-> [i \in DOMAIN slice |-> slice[i].values]]

-----------------------------------------------------------------------------
(* What SQL defines.                                                       *)

RefValue(spec, values) ==
    LET known == {i \in DOMAIN values : values[i] # Null}
        set   == {values[i] : i \in known}
        sum   == FoldLeft(+, 0, values)
    IN  CASE spec.func = "count" -> IF spec.arg = Star THEN Len(values)
                                    ELSE IF spec.distinct THEN Cardinality(set)
                                    ELSE Cardinality(known)
          [] known = {} /\ spec.func # "count" -> Null
          [] known # {} /\ spec.func = "sum" -> IF sum > Int64Max THEN Overflow ELSE sum
          [] known # {} /\ spec.func = "avg" -> (sum * AvgScale) \div Cardinality(known)
          [] known # {} /\ spec.func = "min" -> Min(set)
          [] known # {} /\ spec.func = "max" -> Max(set)

\* One row per group in order of its first row (a global aggregate has one
\* group even without rows), HAVING, ORDER BY with ties in that order, slice.
RefAggregate(rows, q) ==
    LET firsts == IF q.group = << >> THEN <<0>>
                  ELSE SelectSeq([i \in DOMAIN rows |-> i], LAMBDA i :
                         \A j \in 1..(i - 1) : GroupKey(rows[j], q) # GroupKey(rows[i], q))
        key(i) == IF i = 0 THEN << >> ELSE GroupKey(rows[i], q)
        members(i) == SelectSeq(rows, LAMBDA r : GroupKey(r, q) = key(i))
        values(i) == [a \in DOMAIN q.aggs |->
                        LET m == members(i)
                        IN  RefValue(q.aggs[a], [x \in DOMAIN m |-> ArgOf(m[x], q.aggs[a])])]
        kept == SelectSeq(firsts, LAMBDA i : PassesHaving(q, key(i), values(i)))
        out  == [x \in DOMAIN kept |->
                   [values |-> key(kept[x]) \o values(kept[x]), sequence |-> x,
                    keys |-> [k \in DOMAIN q.order |->
                                (key(kept[x]) \o values(kept[x]))[q.order[k].pos]]]]
        slice == Truncate(Skip(SortRows(out, [k \in DOMAIN q.order |-> q.order[k].desc]),
                               q.offset), q.limit)
    IN  IF \E x \in DOMAIN firsts : Overflow \in ToSet(values(firsts[x])) THEN Failed
        ELSE [ok |-> TRUE, rows |-> [x \in DOMAIN slice |-> slice[x].values]]

(* An aggregate query answers the rows SQL defines, in the same order,     *)
(* whether its groups fit the memory budget or spill, and whether its rows *)
(* come from one table or from the join path: "the two strategies are      *)
(* interchangeable".  About hash_aggregate_single_table, the external      *)
(* sort of exec_single_table_aggregate and exec_aggregate.                 *)
AggregatesExact(t, q) ==
    LET rows == SelectSeq(AsExecRows(t.rows), LAMBDA row :
                    q.where = NoWhere \/ eval(row, q.where) = "T")
        ref  == RefAggregate(rows, q)
    IN  /\ exec_single_table_aggregate(t, q) = ref
        /\ exec_aggregate(JoinedRows(<<t>>, q), q) = ref
=============================================================================
