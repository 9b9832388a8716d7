------------------------------ MODULE SqlQuery -------------------------------
(***************************************************************************)
(* SELECT without aggregates (sql/exec.rs, sql/planner.rs): the WHERE      *)
(* clause split into conjuncts, the access path of each table, the index   *)
(* nested-loop join, the Grace hash join with its repartitioned and skewed *)
(* partitions, the residual predicate, ORDER BY and the slice.             *)
(*                                                                         *)
(* A table is [rows, indexes]: its rows in id order, each a function from  *)
(* column names to values, and its secondary indexes [columns, unique].    *)
(* Every table is keyed by its declared identity column "id".  A value is  *)
(* a natural number of one comparable type and Null is 0.  An executor row *)
(* is a sequence with one table row, or NoRow, per table.  The reads of a  *)
(* table are exact (module IndexedReads); batches are concatenated.        *)
(*                                                                         *)
(* A query is [joins, where, order, offset, limit, budget, wide, stale,    *)
(* grouped]; a join is [kind, existing, fresh] for ON existing = fresh.    *)
(* wide: the projection reads columns neither the sort nor WHERE needs.    *)
(* stale: commits keep overtaking an ordered index walk.  grouped: an      *)
(* aggregate query, which never takes the streaming indexed join.          *)
(***************************************************************************)
EXTENDS SqlSort

CONSTANTS BatchRows,        \* rows of one read batch
          GracePartitions,  \* GRACE_JOIN_PARTITIONS
          GraceMaxDepth,    \* GRACE_JOIN_MAX_DEPTH
          HeapFactor        \* heap bytes of a decoded row per byte spilled

Null  == 0
NoRow == [none |-> TRUE]    \* Option::None: the NULL-extended side
NoWhere == [is |-> "none"]  \* no WHERE or HAVING clause

Col(ti, name) == [is |-> "col", ti |-> ti, name |-> name]
Val(v)        == [is |-> "val", v |-> v]

col_value(row, ti, name) ==
    IF ti > Len(row) \/ row[ti] = NoRow THEN Null ELSE row[ti][name]

rval_value(row, v) == IF v.is = "val" THEN v.v ELSE col_value(row, v.ti, v.name)

-----------------------------------------------------------------------------
(* Three-valued logic: "T", "F" and "U".                                   *)

TruthOf(b) == IF b THEN "T" ELSE "F"

TruthNot(a) == CASE a = "T" -> "F" [] a = "F" -> "T" [] a = "U" -> "U"

TruthAnd(a, b) == IF "F" \in {a, b} THEN "F" ELSE IF "U" \in {a, b} THEN "U" ELSE "T"

TruthOr(a, b) == IF "T" \in {a, b} THEN "T" ELSE IF "U" \in {a, b} THEN "U" ELSE "F"

Compare(op, a, b) ==
    CASE op = "=" -> a = b [] op = "<>" -> a # b
      [] op = "<" -> a < b [] op = ">" -> a > b

InListTruth(v, list, negated) ==
    LET found == CASE v \in list -> "T"
                   [] v \notin list /\ Null \in list -> "U"
                   [] OTHER -> "F"
    IN  IF v = Null THEN "U" ELSE IF negated THEN TruthNot(found) ELSE found

\* eval_ctx: a comparison with NULL is unknown, IS NULL always knows.
RECURSIVE eval(_, _)
eval(row, e) ==
    CASE e.is = "cmp" ->
           LET a == rval_value(row, e.left)
               b == rval_value(row, e.right)
           IN  IF Null \in {a, b} THEN "U" ELSE TruthOf(Compare(e.op, a, b))
      [] e.is = "isnull" -> TruthOf((rval_value(row, e.col) = Null) # e.negated)
      [] e.is = "in" -> InListTruth(rval_value(row, e.col), e.list, e.negated)
      [] e.is = "and" -> TruthAnd(eval(row, e.a), eval(row, e.b))
      [] e.is = "or"  -> TruthOr(eval(row, e.a), eval(row, e.b))
      [] e.is = "not" -> TruthNot(eval(row, e.a))

eval_all(row, conjuncts) == \A i \in DOMAIN conjuncts : eval(row, conjuncts[i]) = "T"

-----------------------------------------------------------------------------
(* Splitting WHERE.                                                        *)

RECURSIVE collect_conjuncts(_)
collect_conjuncts(e) ==
    IF e.is = "and" THEN collect_conjuncts(e.a) \o collect_conjuncts(e.b) ELSE <<e>>

RECURSIVE tables_referenced(_)
tables_referenced(e) ==
    CASE e.is = "cmp" -> {v.ti : v \in {u \in {e.left, e.right} : u.is = "col"}}
      [] e.is \in {"isnull", "in"} -> {e.col.ti}
      [] e.is \in {"and", "or"} -> tables_referenced(e.a) \union tables_referenced(e.b)
      [] e.is = "not" -> tables_referenced(e.a)

\* single_table_of and the split of resolve_query: a conjunct on one table
\* goes to that table, the others stay residual.
Conjuncts(q) == IF q.where = NoWhere THEN << >> ELSE collect_conjuncts(q.where)
pushdown(q, ti) == SelectSeq(Conjuncts(q), LAMBDA c : tables_referenced(c) = {ti})
residual(q) == SelectSeq(Conjuncts(q), LAMBDA c : Cardinality(tables_referenced(c)) # 1)

-----------------------------------------------------------------------------
(* Access paths.                                                           *)

\* A `column <op> literal` comparison on table ti, in either order.
IsColVal(c, ti) ==
    /\ c.is = "cmp"
    /\ {c.left.is, c.right.is} = {"col", "val"}
    /\ tables_referenced(c) = {ti}
ColOf(c) == IF c.left.is = "col" THEN c.left.name ELSE c.right.name
ValOf(c) == IF c.left.is = "val" THEN c.left.v ELSE c.right.v

SingleColumnIndexes(t, col) == {x \in t.indexes : x.columns = <<col>>}

\* Lower is better: unique index, index, equality scan.
Priority(t, col) ==
    CASE \E x \in SingleColumnIndexes(t, col) : x.unique -> 1
      [] \E x \in t.indexes : x.columns = <<col>> -> 2
      [] OTHER -> 3

\* table_driver_at: an equality no row can satisfy empties the path, the
\* last identity lookup wins, then the first equality of the best priority.
table_driver(t, ti, conjuncts) ==
    LET eq   == {i \in DOMAIN conjuncts :
                    IsColVal(conjuncts[i], ti) /\ conjuncts[i].op = "="}
        ids  == {i \in eq : ColOf(conjuncts[i]) = "id"}
        dead == {i \in eq : ValOf(conjuncts[i]) = Null}
        rank(i) == Priority(t, ColOf(conjuncts[i]))
        best == CHOOSE i \in eq : \A j \in eq \ {i} :
                    rank(i) < rank(j) \/ (rank(i) = rank(j) /\ i < j)
    IN  CASE dead # {} -> [by |-> "empty"]
          [] dead = {} /\ ids # {} ->
               [by |-> "id", v |-> ValOf(conjuncts[Max(ids)])]
          [] dead = {} /\ ids = {} /\ eq # {} ->
               [by |-> "eq", col |-> ColOf(conjuncts[best]),
                v |-> ValOf(conjuncts[best])]
          [] OTHER -> [by |-> "scan"]

driver_yields_at_most_one_row(t, driver) ==
    \/ driver.by \in {"empty", "id"}
    \/ driver.by = "eq" /\ \E x \in SingleColumnIndexes(t, driver.col) : x.unique

\* scan_filter_from and ScanFilter::decide: the first comparison with a
\* literal drops rows before they are decoded.
PassesScanFilter(row, ti, conjuncts) ==
    LET cmps  == {i \in DOMAIN conjuncts :
                    IsColVal(conjuncts[i], ti) /\ ValOf(conjuncts[i]) # Null}
        first == conjuncts[Min(cmps)]
        value == row[ColOf(first)]
    IN  cmps # {} =>
            /\ value # Null
            /\ IF first.left.is = "col" THEN Compare(first.op, value, ValOf(first))
               ELSE Compare(first.op, ValOf(first), value)

FindEq(t, col, v) == SelectSeq(t.rows, LAMBDA r : r[col] = v)

SingleRow(ti, r) == [i \in 1..ti |-> IF i = ti THEN r ELSE NoRow]

\* driven_batch over all batches, without and with the re-check of every
\* conjunct that fetch_table, visit_table_records and the joins do.
DrivenRows(t, ti, conjuncts) ==
    LET d == table_driver(t, ti, conjuncts)
        found == CASE d.by = "empty" -> << >>
                   [] d.by = "id" -> FindEq(t, "id", d.v)
                   [] d.by = "eq" -> FindEq(t, d.col, d.v)
                   [] d.by = "scan" ->
                        SelectSeq(t.rows, LAMBDA r : PassesScanFilter(r, ti, conjuncts))
    IN  IF driver_yields_at_most_one_row(t, d) THEN Truncate(found, 1) ELSE found

TableRows(t, ti, conjuncts) ==
    SelectSeq(DrivenRows(t, ti, conjuncts),
              LAMBDA r : eval_all(SingleRow(ti, r), conjuncts))

\* join_uses_index_loop: RIGHT JOIN always hashes.
join_uses_index_loop(kind, t, col) ==
    kind # "Right" /\ SingleColumnIndexes(t, col) # {}

-----------------------------------------------------------------------------
(* Grace hash join.                                                        *)

\* grace_partition: which partition a key hashes to under a seed.  Any hash
\* may collide at one depth and separate keys at the next; this one does.
grace_partition(key, seed) == (key \div (seed + 1)) % GracePartitions

widen_join_row(row, added) == Append(row, added)

\* Rows of a spilled partition: those whose key hashes to p.
LeftPart(left, j, p, seed) ==
    SelectSeq(left, LAMBDA r :
        grace_partition(col_value(r, j.existing[1], j.existing[2]), seed) = p)
RightPart(right, j, p, seed) ==
    SelectSeq(right, LAMBDA r : grace_partition(r[j.fresh], seed) = p)

\* table_map: positions of the build rows with a key; NULL matches nothing.
Matching(right, j, key) ==
    IF key = Null THEN << >>
    ELSE SelectSeq([i \in DOMAIN right |-> i], LAMBDA i : right[i][j.fresh] = key)

LeftKey(row, j) == col_value(row, j.existing[1], j.existing[2])

Joined(row, right, positions) ==
    [i \in DOMAIN positions |-> widen_join_row(row, right[positions[i]])]

\* The build rows no probe row matched, NULL-extended on the left.
UnmatchedRight(left, right, j, ti) ==
    LET alone == SelectSeq(right, LAMBDA r :
                    r[j.fresh] = Null
                    \/ \A i \in DOMAIN left : LeftKey(left[i], j) # r[j.fresh])
    IN  IF j.kind # "Right" THEN << >>
        ELSE [i \in DOMAIN alone |-> SingleRow(ti, alone[i])]

\* probe_loaded_partition
probe_loaded_partition(left, right, j, ti) ==
    LET probe(row) ==
          LET found == Matching(right, j, LeftKey(row, j))
          IN  IF found = << >> /\ j.kind = "Left" THEN <<widen_join_row(row, NoRow)>>
              ELSE Joined(row, right, found)
    IN  FlattenSeq([i \in DOMAIN left |-> probe(left[i])])
            \o UnmatchedRight(left, right, j, ti)

build_budget(budget) == IF budget \div 2 > 1 THEN budget \div 2 ELSE 1

\* How many rows the skewed path reads into one chunk: up to and including
\* the row that reaches the budget.
ChunkRows(budget) == (build_budget(budget) + HeapFactor - 1) \div HeapFactor

\* Mutant of process_skewed_partition: the probe rows already matched are
\* forgotten between chunks.
SkewedMatchedPerChunk(left, right, j, ti, budget) ==
    LET chunks == Chunks(right, ChunkRows(budget))
    IN  FlattenSeq([c \in DOMAIN chunks |->
            probe_loaded_partition(left, chunks[c], j, ti)])

\* process_skewed_partition: the build side in chunks, the probe side read
\* again for each, the matched flags of LEFT JOIN kept across chunks.
process_skewed_partition(left, right, j, ti, budget) ==
    LET chunks == Chunks(right, ChunkRows(budget))
        pass(chunk) ==
            FlattenSeq([i \in DOMAIN left |->
                Joined(left[i], chunk, Matching(chunk, j, LeftKey(left[i], j)))])
            \o UnmatchedRight(left, chunk, j, ti)
        matched == {i \in DOMAIN left : \E c \in DOMAIN chunks :
                        Matching(chunks[c], j, LeftKey(left[i], j)) # << >>}
        alone == SelectSeq([i \in DOMAIN left |-> i], LAMBDA i : i \notin matched)
    IN  FlattenSeq([c \in DOMAIN chunks |-> pass(chunks[c])])
            \o (IF j.kind = "Left"
                THEN [i \in DOMAIN alone |-> widen_join_row(left[alone[i]], NoRow)]
                ELSE << >>)

\* process_partition: a build side over budget is hashed again with the next
\* seed, unless that does not split it or the depth is spent.
RECURSIVE process_partition(_, _, _, _, _, _)
process_partition(left, right, j, ti, budget, depth) ==
    LET parts   == [p \in 1..GracePartitions |-> RightPart(right, j, p - 1, depth + 1)]
        shrinks == \A p \in DOMAIN parts : Len(parts[p]) < Len(right)
    IN  CASE /\ Len(right) > build_budget(budget)
             /\ depth < GraceMaxDepth /\ shrinks ->
               FlattenSeq([p \in DOMAIN parts |->
                   process_partition(LeftPart(left, j, p - 1, depth + 1), parts[p],
                                     j, ti, budget, depth + 1)])
          [] \/ /\ Len(right) > build_budget(budget)
                /\ ~(depth < GraceMaxDepth /\ shrinks)
             \/ /\ Len(right) \in 2..build_budget(budget)
                /\ HeapFactor * Len(right) > build_budget(budget) ->
               process_skewed_partition(left, right, j, ti, budget)
          [] OTHER -> probe_loaded_partition(left, right, j, ti)

GraceHashJoin(left, t, j, ti, conjuncts, budget) ==
    LET right == TableRows(t, ti, conjuncts)
    IN  FlattenSeq([p \in 1..GracePartitions |->
            process_partition(LeftPart(left, j, p - 1, 0),
                              RightPart(right, j, p - 1, 0), j, ti, budget, 0)])

-----------------------------------------------------------------------------
(* Joins and SELECT.                                                       *)

\* The rows an index probe matches, filtered by the new table's conjuncts.
Probe(t, ti, col, key, conjuncts, one) ==
    LET found == IF key = Null THEN << >> ELSE FindEq(t, col, key)
    IN  SelectSeq(IF one THEN Truncate(found, 1) ELSE found,
                  LAMBDA r : eval_all(SingleRow(ti, r), conjuncts))

\* One left row widened by its matches, or by NULLs under LEFT JOIN.
ProbeRow(row, t, ti, j, conjuncts, one) ==
    LET found == Probe(t, ti, j.fresh, LeftKey(row, j), conjuncts, one)
    IN  IF found = << >> /\ j.kind = "Left" THEN <<widen_join_row(row, NoRow)>>
        ELSE [i \in DOMAIN found |-> widen_join_row(row, found[i])]

exec_join(left, t, j, ti, conjuncts, budget) ==
    IF join_uses_index_loop(j.kind, t, j.fresh)
    THEN FlattenSeq([i \in DOMAIN left |->
             ProbeRow(left[i], t, ti, j, conjuncts, FALSE)])
    ELSE GraceHashJoin(left, t, j, ti, conjuncts, budget)

Filter(rows, conjuncts) == SelectSeq(rows, LAMBDA r : eval_all(r, conjuncts))

\* Base table, joins left to right, residual: the rows exec_aggregate groups
\* and the general SELECT sorts.
JoinedRows(ts, q) ==
    LET base == TableRows(ts[1], 1, pushdown(q, 1))
        step(rows, ti) == exec_join(rows, ts[ti], q.joins[ti - 1], ti,
                                    pushdown(q, ti), q.budget)
    IN  Filter(FoldLeft(step, [i \in DOMAIN base |-> <<base[i]>>],
                        [i \in DOMAIN q.joins |-> i + 1]),
               residual(q))

\* Mutant of probe_single_row: any index on the join column is taken for a
\* unique one.
ProbeOneAlways(t, col) == SingleColumnIndexes(t, col) # {}

\* probe_single_row of exec_single_indexed_join_select; IndexDef.column is
\* the first column of a composite index.
probe_single_row(t, col) == \E x \in t.indexes : x.unique /\ x.columns[1] = col

\* exec_single_indexed_join_select: its rows before ORDER BY and the slice.
IndexedJoinRows(ts, q) ==
    LET left == TableRows(ts[1], 1, pushdown(q, 1))
        one  == probe_single_row(ts[2], q.joins[1].fresh)
    IN  Filter(FlattenSeq([i \in DOMAIN left |->
                   ProbeRow(<<left[i]>>, ts[2], 2, q.joins[1],
                            pushdown(q, 2), one)]),
               residual(q))

\* Rows as the sorter takes them: the ORDER BY keys and the arrival order.
ForSorter(rows, q) ==
    [i \in DOMAIN rows |->
        [keys |-> [k \in DOMAIN q.order |->
                     col_value(rows[i], q.order[k].ti, q.order[k].name)],
         values |-> rows[i], sequence |-> i, bytes |-> 1]]

\* ORDER BY through the sorter, or the slice of the rows as they come.
Slice(rows, q, asks) ==
    LET sorted == SortedSlice(ForSorter(rows, q),
                              [k \in DOMAIN q.order |-> q.order[k].desc],
                              q.offset, q.limit, q.budget, asks)
    IN  CASE q.limit = 0 -> << >>
          [] q.limit # 0 /\ q.order = << >> -> Truncate(Skip(rows, q.offset), q.limit)
          [] OTHER -> [i \in DOMAIN sorted |-> sorted[i].values]

-----------------------------------------------------------------------------
(* One table.                                                              *)

\* ordered_secondary_plan: an index whose leading columns the WHERE clause
\* fixes and whose other columns are exactly the ascending ORDER BY.
OrderedPlans(t, q) ==
    LET conj  == pushdown(q, 1)
        eq    == {i \in DOMAIN conj : IsColVal(conj[i], 1) /\ conj[i].op = "="}
        fixed == {ColOf(conj[i]) : i \in eq}
        usable ==
            /\ q.limit # Unlimited /\ q.order # << >>
            /\ \A k \in DOMAIN q.order : ~q.order[k].desc
            /\ \A i \in eq : ValOf(conj[i]) # Null
            /\ \A i, k \in eq : ColOf(conj[i]) = ColOf(conj[k]) => ValOf(conj[i]) = ValOf(conj[k])
        plan(x, n) ==
            [columns |-> x.columns,
             prefix |-> [c \in ToSet(SubSeq(x.columns, 1, n)) |->
                           ValOf(conj[CHOOSE i \in eq : ColOf(conj[i]) = c])],
             exact |-> Len(conj) = n /\ Cardinality(fixed) = n]
    IN  UNION {{plan(x, n) : n \in {m \in 1..(Len(x.columns) - 1) :
            /\ usable
            /\ ToSet(SubSeq(x.columns, 1, m)) \subseteq fixed
            /\ x.columns[m + 1] \notin fixed
            /\ Len(q.order) = Len(x.columns) - m
            /\ \A k \in DOMAIN q.order : q.order[k].name = x.columns[m + k]}} :
        x \in t.indexes}

\* The order of index entries: the columns of the tuple, then the id.
IndexLess(columns, a, b) ==
    LET key == Append(columns, "id")
    IN  \E i \in DOMAIN key :
            /\ a[key[i]] < b[key[i]]
            /\ \A k \in 1..(i - 1) : a[key[k]] = b[key[k]]

AsExecRows(rows) == [i \in DOMAIN rows |-> <<rows[i]>>]

\* exec_ordered_secondary_select: when the prefix enforces every predicate
\* the read skips the offset by itself, otherwise rows are skipped after the
\* predicates.
exec_ordered_secondary_select(t, q, plan) ==
    LET range == SelectSeq(t.rows, LAMBDA r :
                    \A c \in DOMAIN plan.prefix : r[c] = plan.prefix[c])
        walk  == AsExecRows(SortSeq(range, LAMBDA a, b : IndexLess(plan.columns, a, b)))
        keeps(rows) == Filter(Filter(rows, pushdown(q, 1)), residual(q))
    IN  IF plan.exact /\ residual(q) = << >>
        THEN Truncate(keeps(Skip(walk, q.offset)), q.limit)
        ELSE Truncate(Skip(keeps(walk), q.offset), q.limit)

\* late_materialized_select: sort handles <<batch, row>> of the equality's
\* rows, then decode the kept ones from their batch.
late_materialized_select(t, q, driver) ==
    LET batches == Chunks(FindEq(t, driver.col, driver.v), BatchRows)
        handles == FlattenSeq([b \in DOMAIN batches |->
                      [r \in DOMAIN batches[b] |-> <<b, r>>]])
        kept == SelectSeq(handles, LAMBDA h :
                    /\ eval_all(<<batches[h[1]][h[2]]>>, pushdown(q, 1))
                    /\ eval_all(<<batches[h[1]][h[2]]>>, residual(q)))
        keyed == [i \in DOMAIN kept |->
                    [keys |-> [k \in DOMAIN q.order |->
                                 batches[kept[i][1]][kept[i][2]][q.order[k].name]],
                     values |-> kept[i], sequence |-> i, bytes |-> 1]]
        sorted == SortedSlice(keyed, [k \in DOMAIN q.order |-> q.order[k].desc],
                              q.offset, q.limit, q.budget, TRUE)
    IN  [i \in DOMAIN sorted |->
            <<batches[sorted[i].values[1]][sorted[i].values[2]]>>]

\* exec_single_table_select_in: the ordered walk, or the full scan at its
\* snapshot once the walk gave up; else late decoding; else the driver.
exec_single_table_select(t, q) ==
    LET plans  == OrderedPlans(t, q)
        driver == table_driver(t, 1, pushdown(q, 1))
        scan   == Filter(AsExecRows(t.rows), pushdown(q, 1))
    IN  CASE q.limit = 0 -> << >>
          [] q.limit # 0 /\ plans # {} /\ ~q.stale ->
               exec_ordered_secondary_select(t, q, CHOOSE p \in plans : TRUE)
          [] q.limit # 0 /\ plans # {} /\ q.stale ->
               Slice(Filter(scan, residual(q)), q, TRUE)
          [] /\ q.limit \notin {0, Unlimited} /\ plans = {} /\ q.order # << >>
             /\ driver.by = "eq" /\ q.wide -> late_materialized_select(t, q, driver)
          [] OTHER -> Slice(Filter(AsExecRows(TableRows(t, 1, pushdown(q, 1))),
                                   residual(q)), q, TRUE)

exec_select(ts, q) ==
    CASE Len(ts) = 1 -> exec_single_table_select(ts[1], q)
      [] /\ Len(ts) = 2 /\ ~q.grouped
         /\ join_uses_index_loop(q.joins[1].kind, ts[2], q.joins[1].fresh) ->
           Slice(IndexedJoinRows(ts, q), q, FALSE)
      [] OTHER -> Slice(JoinedRows(ts, q), q, FALSE)

-----------------------------------------------------------------------------
(* What SQL defines: nested loops, NULL extension, then WHERE.             *)

RefJoin(rows, t, j, ti) ==
    LET on(row, r) == LeftKey(row, j) # Null /\ LeftKey(row, j) = r[j.fresh]
        with(row) ==
            LET found == SelectSeq(t.rows, LAMBDA r : on(row, r))
            IN  IF found = << >> /\ j.kind = "Left" THEN <<Append(row, NoRow)>>
                ELSE [i \in DOMAIN found |-> Append(row, found[i])]
        alone == SelectSeq(t.rows, LAMBDA r : \A i \in DOMAIN rows : ~on(rows[i], r))
    IN  FlattenSeq([i \in DOMAIN rows |-> with(rows[i])])
            \o (IF j.kind = "Right" THEN [i \in DOMAIN alone |-> SingleRow(ti, alone[i])]
                ELSE << >>)

RefRows(ts, q) ==
    SelectSeq(FoldLeft(LAMBDA rows, ti : RefJoin(rows, ts[ti], q.joins[ti - 1], ti),
                       AsExecRows(ts[1].rows), [i \in DOMAIN q.joins |-> i + 1]),
              LAMBDA row : q.where = NoWhere \/ eval(row, q.where) = "T")

Occurrences(s, x) == Cardinality({i \in DOMAIN s : s[i] = x})

\* out is a legal answer to q when ref are the rows WHERE keeps: the right
\* number of them, none twice that is there once, in ORDER BY order.
LegalAnswer(out, ref, q) ==
    LET keysOf(rows) == [i \in DOMAIN rows |-> rows[i].keys]
        specs  == [k \in DOMAIN q.order |-> q.order[k].desc]
        expect == Truncate(Skip(SortRows(ForSorter(ref, q), specs), q.offset), q.limit)
    IN  /\ \A i \in DOMAIN out : Occurrences(out, out[i]) <= Occurrences(ref, out[i])
        /\ keysOf(ForSorter(out, q)) = keysOf(expect)

\* Whether the join keeps rows of other tables without a row of table ti.
Nullable(q, ti) ==
    \/ ti > 1 /\ q.joins[ti - 1].kind = "Left"
    \/ \E k \in DOMAIN q.joins : k >= ti /\ q.joins[k].kind = "Right"

\* No WHERE conjunct is on the NULL-extended side of an outer join alone, and
\* no composite UNIQUE index starts with the join column.
InsideLimits(ts, q) ==
    /\ \A ti \in DOMAIN ts : Nullable(q, ti) => pushdown(q, ti) = << >>
    /\ \A k \in DOMAIN q.joins :
          \A x \in ts[k + 1].indexes :
              x.unique /\ x.columns[1] = q.joins[k].fresh => Len(x.columns) = 1

(* A SELECT returns the rows SQL defines, each as often as it occurs, in   *)
(* ORDER BY order: whatever access path, join strategy, memory budget and  *)
(* sort the executor picks.  About table_driver, exec_join, GraceHashJoin, *)
(* ordered_secondary_plan and late_materialized_select, within the limits  *)
(* the next property and the hazards describe.                             *)
AnswersExact(ts, q) ==
    InsideLimits(ts, q) => LegalAnswer(exec_select(ts, q), RefRows(ts, q), q)

(* "A row is kept only when the predicate is TRUE": every row a SELECT     *)
(* returns satisfies its WHERE clause.  The split of resolve_query sends a *)
(* conjunct on one table to that table even when the join NULL-extends it, *)
(* and the NULL-extended row is never tested.                              *)
KeptOnlyWhenTrue(ts, q) ==
    LET out == exec_select(ts, q)
    IN  \A i \in DOMAIN out : q.where = NoWhere \/ eval(out[i], q.where) = "T"
=============================================================================
