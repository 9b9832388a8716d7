--------------------------- MODULE VectorIndexing ---------------------------
(***************************************************************************)
(* The vector index of one column through its whole life: commits apply it *)
(* directly or queue jobs for the indexing worker, background publication  *)
(* freezes the resident graph and adds it to the mapped runs, a merge      *)
(* rebuilds several runs into one, compaction rebuilds the index, and an   *)
(* open assembles it from the run manifest and catches up with the rows.   *)
(*                                                                         *)
(* The graph is abstracted to what it holds: a generation maps an id to    *)
(* the vector stored for it, 0 for none, and a vector is named by the      *)
(* version that wrote it.  The walk of the graph is not modelled.          *)
(***************************************************************************)
EXTENDS Integers, Sequences, FiniteSets, FiniteSetsExt, SequencesExt

CONSTANTS Ids,
          Modes,          \* the indexing modes considered: "Sync", "Async"
          OtherIndex,     \* the table also has a secondary or a text index
          MergeFanout,    \* VECTOR_RUN_MERGE_FANOUT
          MaxCommits,     \* bound: commits
          MaxRuns,        \* bound: run files written
          MaxOpens        \* bound: closes and kills

VARIABLES
    mode,        \* IndexingMode of the index
    rows,        \* rows[i] = [ver, vec, live]: the newest version of a row
    committed,
    ix,          \* VecIdx, or NoIndex while a compaction rebuilds it
    made,        \* run files written so far
    manifest,    \* the run manifest on disk: [gen, runs], runs = <<>>: none
    jobs,        \* the channel to the indexing worker
    merge,       \* the background merge: [runs, held, ver] or NoMerge
    fenced,      \* a rebuild failed: no write until the database is reopened
    opens,
    raced        \* a merge was planned while jobs were pending

vars == <<mode, rows, committed, ix, made, manifest, jobs, merge, fenced,
          opens, raced>>

Nothing == [i \in Ids |-> 0]
NoRow == [ver |-> 0, vec |-> 0, live |-> FALSE]
NoMerge == [runs |-> {}, held |-> Nothing, ver |-> 0]
NoManifest == [gen |-> 0, runs |-> << >>]

(* A run: file number, generation, the content of its file, and the part   *)
(* of it that is still live in memory.                                     *)
Run(file, gen, content) == [file |-> file, gen |-> gen, disk |-> content,
                            live |-> content]

EmptyIndex == [mapped |-> << >>, active |-> Nothing, frozen |-> Nothing,
               frozenGen |-> 0, hidden |-> {}, durable |-> 0]
NoIndex == [EmptyIndex EXCEPT !.durable = -1]

Resident(content) == content # Nothing

-----------------------------------------------------------------------------
(* VecIdx. *)

MappedRemove(x, ids) ==
    [x EXCEPT !.mapped = [k \in DOMAIN @ |->
        [@[k] EXCEPT !.live = [i \in Ids |-> IF i \in ids THEN 0 ELSE @[i]]]]]

hide_frozen(x, i) ==
    IF x.frozen[i] # 0 THEN [x EXCEPT !.hidden = @ \cup {i}] ELSE x

insert(x, i, v) == [hide_frozen(MappedRemove(x, {i}), i) EXCEPT !.active[i] = v]

remove(x, i) == [hide_frozen(MappedRemove(x, {i}), i) EXCEPT !.active[i] = 0]

freeze_delta_background(x, gen) ==
    IF Resident(x.frozen) \/ ~Resident(x.active) THEN x
    ELSE [x EXCEPT !.frozen = x.active, !.active = Nothing, !.hidden = {},
                   !.frozenGen = gen]

publish_frozen_loaded(x, file) ==
    LET run == [Run(file, x.frozenGen, x.frozen) EXCEPT
                    !.live = [i \in Ids |-> IF i \in x.hidden THEN 0 ELSE @[i]]]
    IN  [x EXCEPT !.mapped = Append(@, run), !.frozen = Nothing,
                  !.frozenGen = 0, !.hidden = {}, !.durable = x.frozenGen]

(* Runs loaded at open: an id of a newer run hides it in the older ones. *)
from_mapped_runs(runs, gen) ==
    [EmptyIndex EXCEPT
        !.durable = gen,
        !.mapped = [k \in DOMAIN runs |->
            [runs[k] EXCEPT !.live = [i \in Ids |->
                IF \E n \in k+1..Len(runs) : runs[n].disk[i] # 0 THEN 0
                ELSE runs[k].disk[i]]]]]

mapped_holds_since(x, i, ver) ==
    \E k \in DOMAIN x.mapped : x.mapped[k].gen >= ver /\ x.mapped[k].live[i] # 0

(* Mutant: the merged run keeps ids that changed while it was built. *)
ReplaceRunsUnfiltered(x, runs, merged) ==
    LET rest == SelectSeq(x.mapped, LAMBDA r : r.file \notin runs)
    IN  [x EXCEPT !.mapped = SelectSeq(rest, LAMBDA r : r.gen <= merged.gen)
                     \o <<merged>>
                     \o SelectSeq(rest, LAMBDA r : r.gen > merged.gen)]

(* The merged run keeps only ids still live in one of the runs it replaces *)
(* and goes before the first younger run; an empty one is left out.        *)
replace_mapped_runs(x, runs, merged) ==
    LET old  == {k \in DOMAIN x.mapped : x.mapped[k].file \in runs}
        rest == SelectSeq(x.mapped, LAMBDA r : r.file \notin runs)
        kept == [merged EXCEPT !.live = [i \in Ids |->
                    IF \E k \in old : x.mapped[k].live[i] # 0 THEN @[i] ELSE 0]]
        at   == {k \in DOMAIN rest : rest[k].gen > merged.gen}
    IN  [x EXCEPT !.mapped =
            IF merged.disk = Nothing THEN rest
            ELSE InsertAt(rest, IF at = {} THEN Len(rest) + 1 ELSE Min(at), kept)]

(* What a search can return: <<id, vector>> over every generation. *)
Visible(x) ==
    UNION {{<<i, x.mapped[k].live[i]>> : i \in Ids} : k \in DOMAIN x.mapped}
      \cup {<<i, x.active[i]>> : i \in Ids}
      \cup {<<i, x.frozen[i]>> : i \in Ids \ x.hidden}

build_one_vector_index(content) ==
    [i \in Ids |-> IF content[i].live THEN content[i].vec ELSE 0]

(* vector_manifest_for, publish_vector_manifest: nothing on disk describes *)
(* an index that has no run.                                               *)
ManifestOf(x, gen) ==
    IF x.mapped = << >> THEN NoManifest
    ELSE [gen |-> gen, runs |-> [k \in DOMAIN x.mapped |->
             Run(x.mapped[k].file, x.mapped[k].gen, x.mapped[k].disk)]]

-----------------------------------------------------------------------------
(* apply_one_owned.  The previous record is known only when the table has  *)
(* a secondary or text index; then an unchanged column is left alone.      *)
Unchanged(old, new) == OtherIndex /\ old.live /\ new.live /\ old.vec = new.vec

Apply(i, new) ==
    CASE Unchanged(rows[i], new) -> UNCHANGED <<ix, jobs>>
      [] ~Unchanged(rows[i], new) /\ new.vec = 0 ->
           ix' = remove(ix, i) /\ UNCHANGED jobs
      [] OTHER ->
           IF mode = "Async"
           THEN /\ jobs' = Append(jobs, [id |-> i, ver |-> new.ver, vec |-> new.vec])
                /\ UNCHANGED ix
           ELSE ix' = insert(ix, i, new.vec) /\ UNCHANGED jobs

Ready == ix # NoIndex /\ ~fenced

Commit(i, vec, live) ==
    /\ Ready /\ committed < MaxCommits
    /\ LET new == [ver |-> committed + 1, vec |-> vec, live |-> live]
       IN  rows' = [rows EXCEPT ![i] = new] /\ Apply(i, new)
    /\ committed' = committed + 1
    /\ UNCHANGED <<made, manifest, merge, fenced, opens, mode, raced>>

PutVector(i) == Commit(i, committed + 1, TRUE)
PutOther(i)  == rows[i].live /\ Commit(i, rows[i].vec, TRUE)
PutCleared(i) == rows[i].vec # 0 /\ Commit(i, 0, TRUE)
Delete(i)    == rows[i].live /\ Commit(i, 0, FALSE)

(* The indexing worker, under the state write lock: a job whose row has a  *)
(* newer version, or whose index is gone, does nothing.                    *)
Worker ==
    /\ jobs # << >>
    /\ LET job == Head(jobs)
           current == rows[job.id].ver = job.ver /\ rows[job.id].live
       IN  ix' = IF current /\ ix # NoIndex THEN insert(ix, job.id, job.vec) ELSE ix
    /\ jobs' = Tail(jobs)
    /\ UNCHANGED <<rows, committed, made, manifest, merge, fenced, opens, mode, raced>>

-----------------------------------------------------------------------------
(* Background publication. *)

(* schedule_frozen_derived, under the commit mutex, only with an empty     *)
(* backlog.                                                                *)
FreezeDerived ==
    /\ Ready /\ jobs = << >> /\ Resident(ix.active) /\ ~Resident(ix.frozen)
    /\ ix' = freeze_delta_background(ix, committed)
    /\ UNCHANGED <<rows, committed, made, manifest, jobs, merge, fenced, opens, mode, raced>>

(* flush_frozen_derived_inner: the run is written without a lock and       *)
(* adopted under the commit mutex, where its manifest is published; the    *)
(* publication may fail after the adoption.                                *)
PublishDerived ==
    /\ Ready /\ Resident(ix.frozen) /\ made < MaxRuns
    /\ made' = made + 1
    /\ ix' = publish_frozen_loaded(ix, made')
    /\ \E ok \in BOOLEAN : manifest' = IF ok THEN ManifestOf(ix', ix.frozenGen)
                                       ELSE manifest
    /\ UNCHANGED <<rows, committed, jobs, merge, fenced, opens, mode, raced>>

(* plan_vector_merge: the live vectors of some runs, read under the state  *)
(* lock.  Which runs the size tiers select is left open.                   *)
MergePlan ==
    /\ Ready /\ merge = NoMerge /\ ix.durable # 0 /\ made < MaxRuns
    /\ \E some \in SUBSET DOMAIN ix.mapped :
        /\ Cardinality(some) >= MergeFanout
        /\ merge' = [runs |-> {ix.mapped[k].file : k \in some},
                     held |-> [i \in Ids |->
                         Max({ix.mapped[k].live[i] : k \in some})],
                     ver |-> committed]
    /\ raced' = (raced \/ jobs # << >>)
    /\ UNCHANGED <<rows, committed, ix, made, manifest, jobs, fenced, opens, mode>>

(* publish_vector_merge: swap if every planned run is still mapped, then   *)
(* republish the manifest at the generation the index had.                 *)
MergePublish ==
    /\ Ready /\ merge # NoMerge /\ made < MaxRuns
    /\ made' = made + 1 /\ merge' = NoMerge
    /\ IF merge.runs \subseteq {ix.mapped[k].file : k \in DOMAIN ix.mapped}
       THEN /\ ix' = replace_mapped_runs(ix, merge.runs,
                                         Run(made', merge.ver, merge.held))
            /\ manifest' = IF ix'.mapped = << >> THEN manifest
                           ELSE ManifestOf(ix', ix.durable)
       ELSE UNCHANGED <<ix, manifest>>
    /\ UNCHANGED <<rows, committed, jobs, fenced, opens, mode, raced>>

-----------------------------------------------------------------------------
(* Compaction: the rows lose their tombstones and the index is cleared     *)
(* with the swap, then rebuilt from the rows; a failure fences the handle. *)

CompactAdopt ==
    /\ Ready /\ made < MaxRuns /\ ~Resident(ix.frozen)
    /\ rows' = [i \in Ids |-> IF rows[i].live THEN rows[i] ELSE NoRow]
    /\ ix' = NoIndex
    /\ UNCHANGED <<committed, made, manifest, jobs, merge, fenced, opens, mode, raced>>

CompactRebuild ==
    /\ ix = NoIndex /\ ~fenced
    /\ made' = made + 1
    /\ ix' = [EmptyIndex EXCEPT
                !.mapped = <<Run(made', committed, build_one_vector_index(rows))>>,
                !.durable = committed]
    /\ manifest' = ManifestOf(ix', committed)
    /\ UNCHANGED <<rows, committed, jobs, merge, fenced, opens, mode, raced>>

CompactFails ==
    /\ ix = NoIndex /\ ~fenced
    /\ fenced' = TRUE
    /\ UNCHANGED <<rows, committed, ix, made, manifest, jobs, merge, opens, mode, raced>>

-----------------------------------------------------------------------------
(* Open. *)

(* load_vector_run_set refuses runs out of order or from a later commit. *)
Loadable(m) ==
    /\ m.runs # << >> /\ m.gen <= committed
    /\ \A k \in DOMAIN m.runs :
        /\ m.runs[k].gen <= committed
        /\ k > 1 => m.runs[k-1].gen <= m.runs[k].gen

(* One row of catch_up_vector_index. *)
CatchUpRow(x, floor, ceiling, i) ==
    CASE rows[i].ver <= floor -> x
      [] rows[i].ver > floor /\ rows[i].ver <= ceiling ->
           IF mapped_holds_since(x, i, rows[i].ver) THEN x ELSE remove(x, i)
      [] OTHER -> IF rows[i].live /\ rows[i].vec # 0
                  THEN insert(x, i, rows[i].vec) ELSE remove(x, i)

(* The whole pass; ids without a live row go at the end. *)
CatchUp(x, floor, ceiling) ==
    LET walked == FoldLeft(LAMBDA acc, i : CatchUpRow(acc, floor, ceiling, i),
                           x, SetToSeq(Ids))
    IN  MappedRemove(walked, {i \in Ids : ~rows[i].live})

Load(m, file) ==
    IF Loadable(m)
    THEN CatchUp(from_mapped_runs(m.runs, m.gen),
                 Min({m.runs[1].gen, m.gen}), m.gen)
    ELSE LET content == build_one_vector_index(rows)
         IN  IF content = Nothing THEN EmptyIndex
             ELSE [EmptyIndex EXCEPT !.mapped = <<Run(file, committed, content)>>,
                                     !.durable = committed]

Open(m, file) ==
    /\ ix' = Load(m, file)
    /\ manifest' = IF Loadable(m) THEN m
                   ELSE IF ix'.mapped = << >> THEN NoManifest
                   ELSE ManifestOf(ix', committed)
    /\ made' = IF Loadable(m) THEN file - 1 ELSE file
    /\ merge' = NoMerge /\ jobs' = << >> /\ fenced' = FALSE
    /\ opens' = opens + 1
    /\ UNCHANGED <<rows, committed, mode, raced>>

Kill ==
    /\ opens < MaxOpens
    /\ Open(manifest, made + 1)

(* Drop for Db: the workers are joined, so the backlog is empty, then      *)
(* consolidate_derived_indexes flushes the resident graph and publishes a  *)
(* manifest at the committed version; a later open loads it.               *)
CloseAndOpen ==
    /\ opens < MaxOpens /\ Ready /\ jobs = << >> /\ merge = NoMerge
    /\ ~Resident(ix.frozen)
    /\ LET flush == Resident(ix.active)
           file  == IF flush THEN made + 1 ELSE made
           last  == IF flush
                    THEN [ix EXCEPT !.mapped = Append(@,
                             Run(file, committed, ix.active)), !.active = Nothing]
                    ELSE ix
       IN  Open(ManifestOf(last, committed), file + 1)

-----------------------------------------------------------------------------
Init ==
    /\ mode \in Modes /\ raced = FALSE
    /\ rows = [i \in Ids |-> NoRow] /\ committed = 0
    /\ ix = EmptyIndex /\ made = 0 /\ manifest = NoManifest
    /\ jobs = << >> /\ merge = NoMerge /\ fenced = FALSE /\ opens = 0

Next ==
    \/ \E i \in Ids : PutVector(i) \/ PutOther(i) \/ PutCleared(i) \/ Delete(i)
    \/ Worker
    \/ FreezeDerived \/ PublishDerived \/ MergePlan \/ MergePublish
    \/ CompactAdopt \/ CompactRebuild \/ CompactFails
    \/ Kill \/ CloseAndOpen

Spec == Init /\ [][Next]_vars

Settled == ix # NoIndex /\ jobs = << >>

Expected == {<<i, rows[i].vec>> : i \in {j \in Ids : rows[j].live}}
Served == {p \in Visible(ix) : p[2] # 0}

Exact == Settled => Served = {p \in Expected : p[2] # 0}

(* Without a secondary or text index on the table: when no job is pending, *)
(* the generations a search visits hold the current vector of every live   *)
(* row and nothing else, after any sequence of commits, publications,      *)
(* merges, compactions, closes and kills.  A merge planned while jobs were *)
(* pending is excluded: at the generation it is stamped with, the vector   *)
(* it carries may already be replaced.                                     *)
VectorsSearchable == ~raced => Exact

(* db.rs, wait_vector_indexing: "Block until every async-committed vector  *)
(* is searchable", for a table with any indexes.                           *)
VectorsAlwaysSearchable == Exact
=============================================================================
