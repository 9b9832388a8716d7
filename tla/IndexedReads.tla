---------------------------- MODULE IndexedReads ----------------------------
(***************************************************************************)
(* Reads through a secondary index while commits move its membership       *)
(* (db/secondary.rs, the find_eq and ordered-walk paths of db.rs, the scan *)
(* of db/reads.rs, and the three consumers: a streaming cursor, an         *)
(* autocommit SELECT and a lookup inside a transaction).                   *)
(*                                                                         *)
(* A secondary index describes only the LATEST committed state.  It is     *)
(* layered: immutable runs, one frozen overlay that a worker is writing    *)
(* out, and the mutable overlay.  A reader with an older snapshot may use  *)
(* it only together with the change log, or must fall back to a scan.      *)
(*                                                                         *)
(* The table has one indexed column.  Rows are ids 1..N, a row's value is  *)
(* one of Keys, NoKey when the row does not exist.  PrefixOf(k) is a       *)
(* second column, fixed by the first, so the one structure idx stands for  *)
(* both the index on (key) and the index on (prefix, key): their entries   *)
(* are the same pairs in the same order.                                   *)
(***************************************************************************)
EXTENDS Integers, Sequences, FiniteSets, SequencesExt, FiniteSetsExt

CONSTANTS Ids,            \* physical ids, integers in id order
          Keys,           \* values of the indexed column, positive integers
          InitialTables,  \* the tables a behaviour may start from, as
                          \* <<the column is an identity, the rows>>
          BatchRows,      \* rows a statement fetches per batch
          ScanChunk,      \* SCAN_LOCK_CHUNK_ROWS
          LogMax,         \* CHANGE_LOG_MAX_IDS
          TailEntries,    \* commits the read view's tail of the log reaches
          Fanout,         \* DERIVED_LEVEL_FANOUT
          Attempts,       \* ORDERED_SNAPSHOT_ATTEMPTS
          MaxCommits, MaxFaults, MaxOpens, MaxReads   \* bounds

NoKey == 0
BaseLevel == 9            \* DERIVED_BASE_LEVEL: never merged
NoFrozen == [gen |-> 0, add |-> {}, del |-> {}]
NoReader == [kind |-> "none", done |-> TRUE]
PrefixOf(k) == (k + 1) \div 2

VARIABLES hist,      \* hist[v]: the table as of version v (MVCC directory)
          idx,       \* SecIdx: runs, frozen, delta, removed, generation
          disk,      \* the published run manifest: generation and runs
          job,       \* the derived worker: "idle", "running" or "published"
          merge,     \* the run merge in progress, or the runs it selected
          log,       \* ChangeLog: entries and unlogged_max
          reader,    \* the statement being run
          identity,  \* the indexed column is an identity (ColumnDef)
          spent,     \* how much of each bound has been used
          dropped    \* a clean close has discarded a frozen overlay

irVars == <<hist, idx, disk, job, merge, log, reader, identity, spent, dropped>>

committed_version == Len(hist)
Latest == hist[committed_version]

-----------------------------------------------------------------------------
(* The layered index                                                       *)

Op(pair, gen, add) == [pair |-> pair, gen |-> gen, add |-> add]

OpsOf(runs) == UNION {run.ops : run \in runs}

\* The newest operation on a pair among the runs: by generation, and an add
\* before a delete of the same generation.
NewestInRuns(ix, pair) ==
    LET ops == {o \in OpsOf(ix.runs) : o.pair = pair}
    IN  {o \in ops : \A p \in ops : \/ p.gen < o.gen
                                    \/ p.gen = o.gen /\ (o.add \/ ~p.add)}

\* Whether a published or frozen generation still offers the pair.
persisted_pair(ix, pair) ==
    LET run  == NewestInRuns(ix, pair)
        gen  == IF run = {} THEN -1 ELSE (CHOOSE o \in run : TRUE).gen
        live == \E o \in run : o.add
        afterAdd == IF pair \in ix.frozen.add /\ ix.frozen.gen > gen
                    THEN [gen |-> ix.frozen.gen, live |-> TRUE]
                    ELSE [gen |-> gen, live |-> live]
    IN  IF pair \in ix.frozen.del /\ ix.frozen.gen >= afterAdd.gen
        THEN FALSE ELSE afterAdd.live

contains_pair(ix, pair) ==
    /\ pair \notin ix.removed
    /\ pair \in ix.delta \/ persisted_pair(ix, pair)

\* Every pair some layer mentions.
PairsOf(ix) == {o.pair : o \in OpsOf(ix.runs)} \cup ix.frozen.add
                  \cup ix.frozen.del \cup ix.delta \cup ix.removed

IndexAdd(ix, pair) ==
    [ix EXCEPT !.removed = @ \ {pair}, !.delta = @ \cup {pair}]

\* Mutant: only the runs are asked, not the frozen overlay.
IndexRemoveRunsOnly(ix, pair) ==
    [ix EXCEPT !.delta = @ \ {pair},
               !.removed = IF \E o \in NewestInRuns(ix, pair) : o.add
                           THEN @ \cup {pair} ELSE @]

\* A pair that no generation carries needs no tombstone.
IndexRemove(ix, pair) ==
    LET bare == [ix EXCEPT !.delta = @ \ {pair}]
    IN  IF persisted_pair(ix, pair)
        THEN [bare EXCEPT !.removed = @ \cup {pair}] ELSE bare

PairBefore(p, q) == \/ p[1] < q[1]
                    \/ p[1] = q[1] /\ p[2] < q[2]

Take(s, n) == SubSeq(s, 1, IF n < Len(s) THEN n ELSE Len(s))

\* ids_batch_from: the k-way merge over runs and overlays, for one value.
ids_batch_from(ix, key, after, limit) ==
    Take(SetToSortSeq({p[2] : p \in {q \in PairsOf(ix) :
             q[1] = key /\ q[2] > after /\ contains_pair(ix, q)}}, <), limit)

\* ordered_entries_into: the same merge in tuple order under a prefix.
ordered_entries_into(ix, prefix, after, limit) ==
    Take(SetToSortSeq({q \in PairsOf(ix) :
             /\ PrefixOf(q[1]) = prefix
             /\ PairBefore(after, q)
             /\ contains_pair(ix, q)}, PairBefore), limit)

-----------------------------------------------------------------------------
(* The change log                                                          *)

Newer(a, b) == IF a > b THEN a ELSE b

\* push: the oldest entries go once the log holds too many ids.
LogPush(l, version, id) ==
    LET entries == Append(l.entries, [version |-> version, id |-> id])
    IN  IF Len(entries) > LogMax
        THEN [entries  |-> Tail(entries),
              unlogged |-> Newer(l.unlogged, Head(entries).version)]
        ELSE [l EXCEPT !.entries = entries]

\* tail: what the read view holds; everything before it counts as unlogged.
LogTail(l) ==
    LET skip == Newer(0, Len(l.entries) - TailEntries)
    IN  [entries  |-> SubSeq(l.entries, skip + 1, Len(l.entries)),
         unlogged |-> IF skip = 0 THEN l.unlogged
                      ELSE Newer(l.unlogged, l.entries[skip].version)]

Answers(l, version) == l.unlogged <= version

changed_after(l, version) ==
    {e.id : e \in {f \in ToSet(l.entries) : f.version > version}}

-----------------------------------------------------------------------------
(* Commits and index maintenance                                           *)

\* Runs of a base level and their operations, written from canonical data.
FromCanonical(version) ==
    {[level |-> BaseLevel, gen |-> version,
      ops   |-> {Op(<<hist[version][i], i>>, version, TRUE) :
                    i \in {j \in Ids : hist[version][j] # NoKey}}]}

paged_runs(gen, runs) ==
    [runs |-> runs, gen |-> gen, frozen |-> NoFrozen, delta |-> {},
     removed |-> {}]

irInit ==
    /\ \E table \in InitialTables : identity = table[1] /\ hist = <<table[2]>>
    /\ idx = paged_runs(1, FromCanonical(1))
    /\ disk = [gen |-> 1, runs |-> FromCanonical(1)]
    /\ job = "idle"
    /\ merge = [gen |-> 0, runs |-> {}]
    /\ log = [entries |-> << >>, unlogged |-> 0]
    /\ reader = NoReader
    /\ spent = [commits |-> 0, faults |-> 0, opens |-> 0, reads |-> 0]
    /\ dropped = FALSE

\* apply_one_owned, its secondary-index part: an untouched key keeps its
\* entry, otherwise the old pair goes and the new one comes.
apply_one_owned(ix, id, prior, new) ==
    LET gone == IF prior = NoKey THEN ix ELSE IndexRemove(ix, <<prior, id>>)
    IN  IF prior = new THEN ix
        ELSE IF new = NoKey THEN gone ELSE IndexAdd(gone, <<new, id>>)

\* A commit publishes one row: an insert, an update or a delete.  The values
\* of an identity are unique; a row's own changes only when a transaction
\* deletes the row and inserts its id again.
Commit(id, new) ==
    /\ spent.commits < MaxCommits
    /\ Latest[id] # new
    /\ (identity /\ new # NoKey) => \A i \in Ids : Latest[i] # new
    /\ hist' = Append(hist, [Latest EXCEPT ![id] = new])
    /\ idx' = apply_one_owned(idx, id, Latest[id], new)
    /\ log' = LogPush(log, committed_version + 1, id)
    /\ spent' = [spent EXCEPT !.commits = @ + 1]
    /\ UNCHANGED <<disk, job, merge, reader, identity, dropped>>

\* schedule_frozen_derived: an overlay whose publication failed is offered
\* again, otherwise the mutable one is frozen at the committed version.
schedule_frozen_derived ==
    /\ job = "idle"
    /\ \/ /\ idx.frozen # NoFrozen
          /\ idx' = idx
       \/ /\ idx.frozen = NoFrozen
          /\ idx.delta # {} \/ idx.removed # {}
          /\ idx' = [idx EXCEPT !.frozen = [gen |-> committed_version,
                                            add |-> idx.delta,
                                            del |-> idx.removed],
                                !.delta = {}, !.removed = {}]
    /\ job' = "running"
    /\ UNCHANGED <<hist, disk, merge, log, reader, identity, spent, dropped>>

FrozenRun ==
    [level |-> IF idx.runs = {} THEN BaseLevel ELSE 0, gen |-> idx.frozen.gen,
     ops   |-> {Op(p, idx.frozen.gen, TRUE) : p \in idx.frozen.add}
                 \cup {Op(p, idx.frozen.gen, FALSE) : p \in idx.frozen.del}]

\* flush_frozen_derived: the run and the manifest that lists it are
\* published, and then the run replaces the frozen overlay.  The publication
\* mutex keeps run merges out from the one to the other.
DerivedPublish ==
    /\ job = "running"
    /\ disk' = [gen |-> idx.frozen.gen, runs |-> idx.runs \cup {FrozenRun}]
    /\ job' = "published"
    /\ UNCHANGED <<hist, idx, merge, log, reader, identity, spent, dropped>>

DerivedAdopt ==
    /\ job = "published"
    /\ idx' = [idx EXCEPT !.runs = @ \cup {FrozenRun}, !.gen = idx.frozen.gen,
                          !.frozen = NoFrozen]
    /\ job' = "idle"
    /\ UNCHANGED <<hist, disk, merge, log, reader, identity, spent, dropped>>

\* An I/O error: the frozen overlay stays queryable for a retry.
DerivedFails ==
    /\ job = "running"
    /\ spent.faults < MaxFaults
    /\ job' = "idle"
    /\ spent' = [spent EXCEPT !.faults = @ + 1]
    /\ UNCHANGED <<hist, idx, disk, merge, log, reader, identity, dropped>>

NoMerge == [gen |-> 0, runs |-> {}]

AtLevel(level) == {r \in idx.runs : r.level = level}

\* compact_one_secondary_level selects the oldest runs of a full level ...
MergeSelect ==
    /\ merge = NoMerge
    /\ \E level \in {r.level : r \in idx.runs} \ {BaseLevel} :
          \E oldest \in kSubset(Fanout, AtLevel(level)) :
             /\ \A r \in oldest, q \in AtLevel(level) \ oldest : r.gen < q.gen
             /\ merge' = [gen |-> idx.gen, runs |-> oldest]
    /\ UNCHANGED <<hist, idx, disk, job, log, reader, identity, spent, dropped>>

\* ... keeps the newest operation of every pair ...
MergedRun ==
    LET ops == OpsOf(merge.runs)
    IN  [level |-> (CHOOSE r \in merge.runs : TRUE).level + 1,
         gen   |-> merge.gen,
         ops   |-> {o \in ops : \A p \in ops : p.pair = o.pair =>
                      \/ p.gen < o.gen
                      \/ p.gen = o.gen /\ (o.add \/ ~p.add)}]

\* ... and swaps the output in only if no publication came in between.
MergeFinish ==
    /\ merge # NoMerge
    /\ job # "published"
    /\ IF idx.gen = merge.gen /\ merge.runs \subseteq idx.runs
       THEN /\ idx' = [idx EXCEPT !.runs = (@ \ merge.runs) \cup {MergedRun}]
            /\ disk' = [gen |-> idx.gen, runs |-> idx'.runs]
       ELSE UNCHANGED <<idx, disk>>
    /\ merge' = NoMerge
    /\ UNCHANGED <<hist, job, log, reader, identity, spent, dropped>>

\* load_or_build_secondary_indexes: the manifest is trusted when its
\* generation is the recovered version, otherwise the index is rebuilt.
load_or_build(manifest) ==
    LET runs == IF manifest.gen = committed_version THEN manifest.runs
                ELSE FromCanonical(committed_version)
    IN  /\ idx' = paged_runs(committed_version, runs)
        /\ disk' = [gen |-> committed_version, runs |-> runs]

Restarted ==
    /\ spent.opens < MaxOpens
    /\ spent' = [spent EXCEPT !.opens = @ + 1]
    /\ log' = [entries |-> << >>, unlogged |-> 0]
    /\ reader' = NoReader
    /\ job' = "idle"
    /\ merge' = NoMerge
    /\ UNCHANGED <<hist, identity>>

Crash ==
    /\ Restarted
    /\ load_or_build(disk)
    /\ UNCHANGED dropped

\* consolidate_derived_indexes, run by Drop: the mutable overlay becomes a
\* run and a manifest at the committed version is published.  A frozen
\* overlay left by a failed publication is in neither.
Consolidated ==
    LET first == idx.runs = {}
        ops   == {Op(p, committed_version, TRUE) : p \in idx.delta}
                   \cup {Op(p, committed_version, FALSE) : p \in idx.removed}
    IN  [gen  |-> committed_version,
         runs |-> IF ops = {} THEN idx.runs
                  ELSE idx.runs \cup
                       {[level |-> IF first THEN BaseLevel ELSE 0,
                         gen   |-> committed_version, ops |-> ops]}]

CloseAndReopen ==
    /\ job = "idle" /\ merge = NoMerge     \* Drop joins the workers first
    /\ Restarted
    /\ load_or_build(Consolidated)
    /\ dropped' = (dropped \/ idx.frozen # NoFrozen)

-----------------------------------------------------------------------------
(* Batches                                                                 *)

\* shared_scan_batch: the directory is walked in chunks, an id without a
\* visible version, or whose key the filter rules out (it is not in may_match),
\* still advances the walk, and next is the last id walked.
Walked == UNION {{i \in Ids : hist[v][i] # NoKey} : v \in DOMAIN hist}

shared_scan_batch(version, after, limit, may_match) ==
    LET ids(c) == SetToSortSeq({i \in Walked : i > c}, <)
        visible(s) == SelectSeq(s, LAMBDA i :
                        hist[version][i] # NoKey /\ hist[version][i] \in may_match)
        walk[c \in Ids \cup {0}, got \in 0..limit] ==
          LET chunk == Take(ids(c), IF ScanChunk < limit - got
                                    THEN ScanChunk ELSE limit - got)
              found == visible(chunk)
              last  == IF chunk = << >> THEN c ELSE Last(chunk)
              whole == Len(chunk) < (IF ScanChunk < limit - got
                                     THEN ScanChunk ELSE limit - got)
              rest  == walk[last, got + Len(found)]
          IN  IF whole \/ got + Len(found) >= limit
              THEN [rows |-> found, next |-> last]
              ELSE [rows |-> found \o rest.rows, next |-> rest.next]
    IN  walk[after, 0]

\* The ids the index offers for a value now.
IdsOf(key) ==
    {p[2] : p \in {q \in PairsOf(idx) : q[1] = key /\ contains_pair(idx, q)}}

\* Mutant: the rows changed since the snapshot are not added.
HistoricalIndexOnly(l, key, version) == {IdsOf(key)}

\* Every row the index offers now or that changed since the snapshot; no
\* answer, {}, when the log does not reach back.  "An identity column never
\* changes after insert, so the index alone is exact for it": the log is not
\* asked, and a row deleted since the snapshot is no candidate.
historical_eq_candidates(l, key, version) ==
    IF identity THEN {IdsOf(key)}
    ELSE IF Answers(l, version)
         THEN {IdsOf(key) \cup changed_after(l, version)}
         ELSE {}

\* The latest state needs the index alone; a row whose newest version is a
\* tombstone is passed over.
find_eq_latest(key, after, limit) ==
    Take(SelectSeq(ids_batch_from(idx, key, after, Cardinality(Ids)),
                   LAMBDA i : Latest[i] # NoKey), limit)

\* No index, or a log that does not reach back: the table is walked.
find_eq_streaming(version, key, after, limit) ==
    Take(SetToSortSeq({i \in Walked : i > after /\ hist[version][i] = key}, <),
         limit)

\* find_eq_batch_version at a snapshot: the index alone when the snapshot is
\* the latest state, else the historical candidates, each checked at the
\* snapshot, else a walk of the whole table.
find_eq_at(version, key, after, limit) ==
    IF version = committed_version THEN find_eq_latest(key, after, limit)
    ELSE LET candidates == historical_eq_candidates(log, key, version)
         IN  IF candidates = {}
             THEN find_eq_streaming(version, key, after, limit)
             ELSE Take(SetToSortSeq({i \in UNION candidates :
                          i > after /\ hist[version][i] = key}, <), limit)

\* What offset and limit leave of a batch's matching rows.
Emitted(matching, skip, want) == Take(SubSeq(matching, skip + 1,
                                             Len(matching)), want)

Fewer(a, b) == IF a < b THEN a ELSE b

-----------------------------------------------------------------------------
(* The statements.  Rows are <<id, version they were read at>>.            *)

Unlimited == 99
NoStage == [id |-> 0, key |-> NoKey]

Begin(kind, key, offset, limit, exact) ==
    /\ reader.done
    /\ spent.reads < MaxReads
    /\ spent' = [spent EXCEPT !.reads = @ + 1]
    /\ reader' = [kind |-> kind, done |-> FALSE, key |-> key,
                  snap |-> committed_version, from |-> committed_version,
                  after |-> <<0, 0>>, skipped |-> 0, offset |-> offset,
                  limit |-> limit, rows |-> << >>, attempts |-> 1,
                  exact |-> exact, staged |-> NoStage]
    /\ UNCHANGED <<hist, idx, disk, job, merge, log, identity, dropped>>

Running(kind) == reader.kind = kind /\ ~reader.done

ReaderStep(r) == /\ reader' = r
                 /\ UNCHANGED <<hist, idx, disk, job, merge, log, identity,
                                spent, dropped>>

Stamped(ids, version) == [i \in DOMAIN ids |-> <<ids[i], version>>]

\* A statement takes a batch in: rows that match are skipped up to the
\* offset, then returned up to the limit.
Absorb(matching, version, next) ==
    LET skip == Fewer(reader.offset - reader.skipped, Len(matching))
        out  == reader.rows \o Stamped(Emitted(matching, skip,
                                 reader.limit - Len(reader.rows)), version)
    IN  [reader EXCEPT !.skipped = @ + skip, !.rows = out, !.after = next,
                       !.done = Len(out) = reader.limit]

Exhausted == [reader EXCEPT !.done = TRUE]

\* QueryCursor::next_controlled with an equality driver: batches at the
\* cursor's snapshot, cut short by the byte budget, predicates re-checked.
CursorEqualityNext ==
    /\ Running("cursor_eq")
    /\ LET batch == find_eq_at(reader.snap, reader.key, reader.after[2],
                               BatchRows)
           holds(i) == hist[reader.snap][i] = reader.key
       IN  \/ /\ batch = << >>
              /\ ReaderStep(Exhausted)
           \/ \E n \in 1..Len(batch) :
                 ReaderStep(Absorb(SelectSeq(Take(batch, n), holds),
                                   reader.snap, <<0, batch[n]>>))

\* The same with a scan driver and no predicate: the last batch asks only
\* for what OFFSET and LIMIT still allow.
CursorScanNext ==
    /\ Running("cursor_scan")
    /\ LET left  == reader.offset - reader.skipped + reader.limit
                      - Len(reader.rows)
           batch == shared_scan_batch(reader.snap, reader.after[2],
                                      Fewer(BatchRows, left), Keys)
       IN  \/ /\ batch.rows = << >>
              /\ ReaderStep(Exhausted)
           \/ \E n \in 1..Len(batch.rows) :
                 ReaderStep(Absorb(Take(batch.rows, n), reader.snap,
                    <<0, IF n < Len(batch.rows) THEN batch.rows[n]
                         ELSE batch.next>>))

\* exec_single_table_select_in with an equality driver: every batch reads
\* the latest state (driven_batch, find_eq_batch_from_view).
EqualityNext ==
    /\ Running("equality")
    /\ LET left  == reader.offset + reader.limit - reader.skipped
                      - Len(reader.rows)
           batch == find_eq_latest(reader.key, reader.after[2],
                                   Fewer(BatchRows, left))
           holds(i) == Latest[i] = reader.key
       IN  IF batch = << >> THEN ReaderStep(Exhausted)
           ELSE ReaderStep(Absorb(SelectSeq(batch, holds), committed_version,
                                  <<0, Last(batch)>>))

\* A predicate beside the equality prefix, when the plan is not exact.
Residual(k) == reader.exact \/ k % 2 = 1

\* A commit between two batches of one attempt sends it round again, from
\* the latest state; the last attempt gives way to a scan of its snapshot.
OrderedStale ==
    /\ Running("ordered")
    /\ reader.after # <<0, 0>>
    /\ reader.snap # committed_version
    /\ ReaderStep([reader EXCEPT
          !.kind = IF reader.attempts < Attempts THEN "ordered"
                   ELSE "ordered_scan",
          !.attempts = @ + 1, !.rows = << >>, !.skipped = 0,
          !.after = <<0, 0>>])

\* ordered_secondary_batch_latest: the next entries of the walk; the first
\* skip of them are passed over without reading their rows.
ordered_secondary_batch_latest(prefix, after, skip, limit) ==
    LET entries == ordered_entries_into(idx, prefix, after, limit)
        skipped == Fewer(skip, Len(entries))
    IN  [entries |-> entries, skipped |-> skipped,
         live    |-> SelectSeq(SubSeq(entries, skipped + 1, Len(entries)),
                               LAMBDA p : Latest[p[2]] # NoKey)]

\* exec_ordered_secondary_select: the offset is skipped by index membership
\* when the prefix is the whole WHERE, otherwise by rows that match it.
OrderedNext ==
    /\ Running("ordered")
    /\ reader.after = <<0, 0>> \/ reader.snap = committed_version
    /\ LET left    == reader.offset + reader.limit - reader.skipped
                        - Len(reader.rows)
           batch   == ordered_secondary_batch_latest(reader.key, reader.after,
                        IF reader.exact THEN reader.offset - reader.skipped
                        ELSE 0, Fewer(BatchRows, left))
           entries == batch.entries
           live    == batch.live
           skip    == batch.skipped
           fresh   == [reader EXCEPT !.snap = committed_version,
                                     !.skipped = @ + skip]
           holds(p) == /\ PrefixOf(Latest[p[2]]) = reader.key
                       /\ Residual(Latest[p[2]])
           absorb(pairs, next) ==
             LET rows == SelectSeq(pairs, holds)
                 drop == Fewer(reader.offset - fresh.skipped, Len(rows))
                 ids  == [i \in DOMAIN rows |-> rows[i][2]]
                 out  == reader.rows \o Stamped(Emitted(ids, drop,
                            reader.limit - Len(reader.rows)),
                            committed_version)
             IN  [fresh EXCEPT !.skipped = @ + drop, !.rows = out,
                               !.after = next,
                               !.done = Len(out) = reader.limit]
       IN  \/ /\ entries = << >>
              /\ ReaderStep([fresh EXCEPT !.done = TRUE])
           \/ /\ entries # << >> /\ live = << >>
              /\ ReaderStep(absorb(<< >>, Last(entries)))
           \/ \E n \in 1..Len(live) :
                 ReaderStep(absorb(Take(live, n),
                    IF n < Len(live) THEN live[n] ELSE Last(entries)))

\* The fallback: every matching row of the snapshot is collected in id order
\* and the sorter returns the requested slice in key order.
Sorted(rows) ==
    SetToSortSeq(ToSet(rows), LAMBDA a, b :
        PairBefore(<<hist[a[2]][a[1]], a[1]>>, <<hist[b[2]][b[1]], b[1]>>))

OrderedScanNext ==
    /\ Running("ordered_scan")
    /\ LET matches == {k \in Keys : PrefixOf(k) = reader.key}
           batch == shared_scan_batch(reader.snap, reader.after[2], BatchRows,
                                      matches)
           kept  == SelectSeq(batch.rows,
                              LAMBDA i : Residual(hist[reader.snap][i]))
       IN  IF batch.rows = << >>
           THEN ReaderStep([reader EXCEPT !.done = TRUE,
                   !.rows = Emitted(Sorted(reader.rows), reader.offset,
                                    reader.limit)])
           ELSE ReaderStep([reader EXCEPT !.after = <<0, batch.next>>,
                   !.rows = @ \o Stamped(kept, reader.snap)])

\* find_eq_parts_from_view: the index and the view's tail of the log, without
\* the state lock; {} when the tail does not reach the snapshot.
find_eq_parts_from_view ==
    historical_eq_candidates(LogTail(log), reader.key, reader.snap)

\* Txn::find_eq_unobserved: the view, else the whole log, else no answer and
\* the caller scans; every candidate is checked at the snapshot, then the
\* transaction's own write is laid over.
TxnFind(staged) ==
    /\ Running("txn")
    /\ LET locked == historical_eq_candidates(log, reader.key, reader.snap)
           candidates == CASE find_eq_parts_from_view # {} ->
                                 UNION find_eq_parts_from_view
                           [] find_eq_parts_from_view = {} /\ locked # {} ->
                                 UNION locked
                           [] OTHER -> Walked
           found == {i \in candidates : hist[reader.snap][i] = reader.key}
           overlaid == IF staged = NoStage THEN found
                       ELSE IF staged.key = reader.key
                            THEN found \cup {staged.id}
                            ELSE found \ {staged.id}
       IN  ReaderStep([reader EXCEPT !.done = TRUE, !.staged = staged,
              !.rows = Stamped(SetToSortSeq(overlaid, <), reader.snap)])

\* OFFSET and LIMIT of a statement: none, or one of each.
Slices == {<<0, Unlimited>>, <<1, 1>>}

\* A statement that is done returns before anything else happens: nothing
\* that follows changes the rows it has read.
Returns ==
    /\ reader.done /\ reader # NoReader
    /\ ReaderStep(NoReader)

\* Only the lookups at a snapshot tell an identity from another column, so
\* only they are begun on one.
irStep ==
    \/ \E i \in Ids, k \in Keys \cup {NoKey} : Commit(i, k)
    \/ schedule_frozen_derived \/ DerivedPublish \/ DerivedAdopt
    \/ DerivedFails
    \/ MergeSelect \/ MergeFinish
    \/ Crash \/ CloseAndReopen
    \/ \E k \in Keys, s \in Slices :
          \/ Begin("cursor_eq", k, s[1], s[2], TRUE)
          \/ ~identity /\ Begin("equality", k, s[1], s[2], TRUE)
    \/ \E s \in Slices :
          ~identity /\ Begin("cursor_scan", NoKey, s[1], s[2], TRUE)
    \/ \E p \in {PrefixOf(k) : k \in Keys}, s \in Slices, e \in BOOLEAN :
          ~identity /\ Begin("ordered", p, s[1], s[2], e)
    \/ \E k \in Keys : Begin("txn", k, 0, Unlimited, TRUE)
    \/ CursorEqualityNext \/ CursorScanNext \/ EqualityNext
    \/ OrderedStale \/ OrderedNext \/ OrderedScanNext
    \/ TxnFind(NoStage)
    \/ \E i \in Ids, k \in Keys \cup {NoKey} : TxnFind([id |-> i, key |-> k])

irNext == Returns \/ ((reader.done => reader = NoReader) /\ irStep)

irSpec == irInit /\ [][irNext]_irVars

-----------------------------------------------------------------------------
(* Properties                                                              *)

LatestPairs == {<<Latest[i], i>> : i \in {j \in Ids : Latest[j] # NoKey}}

\* Whatever the layers hold, their merge is exactly the membership of the
\* latest committed state: no overlay, failed publication, merge of runs,
\* crash or rebuild loses a row or leaves one behind.  The states after a
\* clean close that found a frozen overlay are left to the next property.
IndexMatchesLatest ==
    ~dropped => {p \in PairsOf(idx) : contains_pair(idx, p)} = LatestPairs

\* The same of every state.  "A frozen generation still awaiting publication
\* means the runs do not yet cover `version`" (consolidate_derived_indexes).
IndexAlwaysMatchesLatest ==
    {p \in PairsOf(idx) : contains_pair(idx, p)} = LatestPairs

\* What a statement on a snapshot must return, from the table alone.
MatchingAt(version, key) ==
    SetToSortSeq({i \in Ids : /\ hist[version][i] # NoKey
                              /\ key \in {NoKey, hist[version][i]}}, <)

OrderedAt(version, prefix) ==
    LET pairs == {<<hist[version][i], i>> : i \in {j \in Ids :
                     /\ hist[version][j] # NoKey
                     /\ PrefixOf(hist[version][j]) = prefix
                     /\ Residual(hist[version][j])}}
        seq   == SetToSortSeq(pairs, PairBefore)
    IN  [i \in DOMAIN seq |-> seq[i][2]]

TxnView == [hist[reader.snap] EXCEPT ![reader.staged.id] = reader.staged.key]

SnapshotAnswer ==
    LET slice(s) == Stamped(Emitted(s, reader.offset, reader.limit),
                            reader.snap)
    IN  CASE reader.kind \in {"cursor_eq", "cursor_scan"} ->
                slice(MatchingAt(reader.snap, reader.key))
          [] reader.kind \in {"ordered", "ordered_scan"} ->
                slice(OrderedAt(reader.snap, reader.key))
          [] reader.kind = "txn" ->
                Stamped(SetToSortSeq({i \in Ids :
                    (IF reader.staged = NoStage THEN hist[reader.snap]
                     ELSE TxnView)[i] = reader.key}, <), reader.snap)

\* The rows so far are a prefix of the answer, and all of it at the end.
SnapshotExact ==
    /\ reader.done => reader.rows = SnapshotAnswer
    /\ (reader.kind \notin {"ordered_scan", "txn"}) =>
          IsPrefix(reader.rows, SnapshotAnswer)

\* Whether a commit since the snapshot has deleted a row or moved its value.
ChangedSince(id) ==
    \E v \in (reader.snap + 1)..committed_version :
        hist[v][id] # hist[reader.snap][id]

\* Only rows of the answer, and of those every one that no commit changed
\* since the snapshot or that the transaction itself wrote.
IdentityExact ==
    /\ ToSet(reader.rows) \subseteq ToSet(SnapshotAnswer)
    /\ reader.done =>
          \A row \in ToSet(SnapshotAnswer) \ ToSet(reader.rows) :
              row[1] # reader.staged.id /\ ChangedSince(row[1])

\* Each id at most once, in order, with the key it held when it was read,
\* and, unsliced, every row that held the key from first batch to last.
LatestExact ==
    /\ \A i \in DOMAIN reader.rows :
          LET row == reader.rows[i]
          IN  /\ hist[row[2]][row[1]] = reader.key
              /\ i > 1 => reader.rows[i - 1][1] < row[1]
    /\ (reader.done /\ reader.offset = 0 /\ reader.limit = Unlimited) =>
          \A i \in Ids :
             (\A v \in reader.from..committed_version :
                 hist[v][i] = reader.key)
             => \E j \in DOMAIN reader.rows : reader.rows[j][1] = i

\* A cursor, an ordered SELECT and a lookup in a transaction return exactly
\* the rows of ONE committed state, in order and sliced by OFFSET and LIMIT,
\* however many commits, publications and merges fall between their batches.
\* An autocommit equality SELECT reads every batch at the latest state.  A
\* lookup by an identity at an older snapshot asks the index alone: it may
\* miss rows deleted since, and only those; SnapshotReadsExact claims more.
ReadsExact ==
    (reader.kind # "none" /\ ~dropped) =>
      CASE reader.kind = "equality" -> LatestExact
        [] reader.kind # "equality" /\ identity -> IdentityExact
        [] OTHER -> SnapshotExact

\* The same without the exception.  "no row can have carried this value at
\* the snapshot and lost it since: the index alone is exact"
\* (find_eq_unobserved): a row deleted since the snapshot has.
SnapshotReadsExact ==
    (reader.kind \notin {"none", "equality"} /\ ~dropped) => SnapshotExact
=============================================================================
