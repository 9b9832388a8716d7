------------------------------- MODULE SqlSort -------------------------------
(***************************************************************************)
(* The spilling sort of the SQL executor (sql/sort.rs, SpillSorter).       *)
(*                                                                         *)
(* A sorter buffers rows until they reach the query's byte budget, writes  *)
(* the buffer as a sorted run, and merges the runs, in several passes when *)
(* there are more of them than it may open at once.  With a LIMIT it keeps *)
(* only the first `keep` rows: the buffer is then a heap whose root is the *)
(* worst row kept, and a row that cannot reach the output is never pushed. *)
(*                                                                         *)
(* A value is a natural number and Null is 0, which sorts before the rest. *)
(* A row is [keys, values, sequence, bytes]; its bytes stand for the       *)
(* estimate sorted_row_bytes computes.  A spec is TRUE for DESC.           *)
(***************************************************************************)
EXTENDS Integers, Sequences, SequencesExt

CONSTANTS ReaderBytes     \* the 8192 bytes of buffer each open run costs

Unlimited == -1           \* no LIMIT: Option::None of limit and keep

-----------------------------------------------------------------------------
(* Order of rows.                                                          *)

KeyBefore(a, b, desc) == IF desc THEN a > b ELSE a < b

\* keys of a come before keys of b under the ORDER BY specs
KeysLess(a, b, specs) ==
    \E i \in DOMAIN specs :
        /\ \A j \in 1..(i - 1) : a[j] = b[j]
        /\ KeyBefore(a[i], b[i], specs[i])

\* compare_sorted_rows(a, b) == Less: ties go to the lower sequence.
SortedLess(a, b, specs) ==
    \/ KeysLess(a.keys, b.keys, specs)
    \/ a.keys = b.keys /\ a.sequence < b.sequence

SortRows(rows, specs) == SortSeq(rows, LAMBDA a, b : SortedLess(a, b, specs))

Truncate(s, n) == IF n = Unlimited THEN s ELSE SubSeq(s, 1, IF n < Len(s) THEN n ELSE Len(s))

Skip(s, n) == SubSeq(s, n + 1, Len(s))

SwapAt(s, i, j) == [s EXCEPT ![i] = s[j], ![j] = s[i]]

-----------------------------------------------------------------------------
(* The sorter.                                                             *)

SorterNew(specs, keep, budget) ==
    [specs |-> specs, keep |-> keep, budget |-> budget, buffer |-> << >>,
     bytes |-> 0, largest |-> 0, runs |-> << >>]

\* Mutant of may_keep: the worst row of the current buffer decides even while
\* the buffer still has room.
MayKeepPartialBuffer(s, keys) ==
    CASE s.keep = Unlimited -> TRUE
      [] s.keep = 0 -> FALSE
      [] OTHER -> s.buffer = << >> \/ KeysLess(keys, s.buffer[1].keys, s.specs)

\* may_keep: whether a row with these keys can still reach the output.  A
\* tie loses, because later rows have higher sequences.
may_keep(s, keys) ==
    CASE s.keep = Unlimited -> TRUE
      [] s.keep = 0 -> FALSE
      [] s.keep > 0 /\ (Len(s.buffer) < s.keep \/ s.runs # << >>) -> TRUE
      [] OTHER -> KeysLess(keys, s.buffer[1].keys, s.specs)

\* The loop of sift_worst_down over 1-based positions: move the row at
\* parent below every child that is worse.
RECURSIVE sift_worst_down(_, _, _)
sift_worst_down(buffer, parent, specs) ==
    LET left  == 2 * parent
        right == left + 1
        child == IF right <= Len(buffer)
                    /\ SortedLess(buffer[left], buffer[right], specs)
                 THEN right ELSE left
    IN  IF left > Len(buffer) \/ ~SortedLess(buffer[parent], buffer[child], specs)
        THEN buffer
        ELSE sift_worst_down(SwapAt(buffer, parent, child), child, specs)

\* The loop at the end of push: move the new row up past every better parent.
RECURSIVE SiftUp(_, _, _)
SiftUp(buffer, child, specs) ==
    LET parent == child \div 2
    IN  IF child = 1 \/ ~SortedLess(buffer[parent], buffer[child], specs)
        THEN buffer
        ELSE SiftUp(SwapAt(buffer, child, parent), parent, specs)

sort_and_prune(s) == Truncate(SortRows(s.buffer, s.specs), s.keep)

flush_run(s) ==
    IF s.buffer = << >> THEN s
    ELSE [s EXCEPT !.runs = Append(@, sort_and_prune(s)),
                   !.buffer = << >>, !.bytes = 0]

\* push: a full bounded buffer either rejects the row, replaces its root, or
\* falls through to the spill when the replacement would exceed the budget.
SorterPush(s, row) ==
    LET seen   == [s EXCEPT !.largest = IF row.bytes > @ THEN row.bytes ELSE @]
        full   == s.keep # Unlimited /\ Len(s.buffer) = s.keep
        projected == s.bytes - s.buffer[1].bytes + row.bytes
        room   == IF s.buffer # << >> /\ s.bytes + row.bytes > s.budget
                  THEN flush_run(seen) ELSE seen
        longer == Append(room.buffer, row)
        added  == [room EXCEPT
                      !.buffer = IF s.keep = Unlimited THEN longer
                                 ELSE SiftUp(longer, Len(longer), s.specs),
                      !.bytes = @ + row.bytes]
    IN  CASE s.keep = 0 -> s
          [] s.keep # 0 /\ full /\ ~SortedLess(row, s.buffer[1], s.specs) -> seen
          [] /\ s.keep # 0 /\ full
             /\ SortedLess(row, s.buffer[1], s.specs)
             /\ projected <= s.budget ->
               [seen EXCEPT !.buffer = sift_worst_down([@ EXCEPT ![1] = row],
                                                       1, s.specs),
                            !.bytes = projected]
          [] OTHER -> IF added.bytes >= s.budget THEN flush_run(added) ELSE added

\* merge_sorted_runs: repeatedly take the least head, lower runs first, and
\* stop after `stop` rows.
RECURSIVE merge_sorted_runs(_, _, _)
merge_sorted_runs(runs, specs, stop) ==
    LET live == {r \in DOMAIN runs : runs[r] # << >>}
        head == CHOOSE r \in live : \A q \in live \ {r} :
                    \/ SortedLess(runs[r][1], runs[q][1], specs)
                    \/ ~SortedLess(runs[q][1], runs[r][1], specs) /\ r < q
    IN  IF live = {} \/ stop = 0 THEN << >>
        ELSE <<runs[head][1]>> \o
             merge_sorted_runs([runs EXCEPT ![head] = Tail(@)], specs,
                               IF stop = Unlimited THEN stop ELSE stop - 1)

\* Groups of fan_in consecutive runs.
Chunks(runs, fanIn) ==
    [g \in 1..((Len(runs) + fanIn - 1) \div fanIn) |->
        SubSeq(runs, (g - 1) * fanIn + 1,
               IF g * fanIn < Len(runs) THEN g * fanIn ELSE Len(runs))]

fan_in(s) ==
    LET affordable == s.budget \div (s.largest + ReaderBytes)
    IN  IF affordable < 2 THEN 2 ELSE IF affordable > 32 THEN 32 ELSE affordable

\* The merge passes: while there are too many runs, replace every group by
\* its merge, cut to the rows the sorter keeps.
RECURSIVE MergePasses(_, _)
MergePasses(s, fanIn) ==
    IF Len(s.runs) <= fanIn THEN s.runs
    ELSE LET groups == Chunks(s.runs, fanIn)
         IN  MergePasses([s EXCEPT !.runs =
                 [g \in DOMAIN groups |->
                    merge_sorted_runs(groups[g], s.specs, s.keep)]], fanIn)

\* for_each_sorted: the rows visited, in order.
SorterFinish(s, offset, limit) ==
    LET flushed == flush_run(s)
        stop    == IF limit = Unlimited THEN Unlimited ELSE offset + limit
    IN  IF s.runs = << >>
        THEN Truncate(Skip(sort_and_prune(s), offset), limit)
        ELSE Skip(merge_sorted_runs(MergePasses(flushed, fan_in(s)), s.specs, stop),
                  offset)

\* What a SELECT with ORDER BY does with its matching rows: push them, asking
\* first whether the row may be kept when it reads one table, then read the
\* slice.
SortedSlice(rows, specs, offset, limit, budget, asks) ==
    LET keep == IF limit = Unlimited THEN Unlimited ELSE offset + limit
        step(s, row) == IF asks /\ ~may_keep(s, row.keys) THEN s ELSE SorterPush(s, row)
    IN  SorterFinish(FoldLeft(step, SorterNew(specs, keep, budget), rows),
                     offset, limit)

-----------------------------------------------------------------------------
(* Every ORDER BY ... LIMIT ... OFFSET answers the slice of the fully      *)
(* sorted rows (NULL first, ties in arrival order), whatever the memory    *)
(* budget: the heap, the pruning of runs, the early rejection of rows and  *)
(* the multi-pass merge lose and reorder nothing.  About SpillSorter's     *)
(* may_keep, push, flush_run and for_each_sorted.                          *)
SortIsExact(rows, specs, offset, limit, budget) ==
    \A asks \in BOOLEAN :
        SortedSlice(rows, specs, offset, limit, budget, asks)
            = Truncate(Skip(SortRows(rows, specs), offset), limit)
=============================================================================
