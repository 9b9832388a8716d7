----------------------------- MODULE RunManifests -----------------------------
(***************************************************************************)
(* The disposable primary index: immutable runs of index entries, and the  *)
(* run manifest primary.runs that says which of them together cover one    *)
(* generation of the canonical manifest (run_manifest.rs).  Its publishers *)
(* are the background checkpoint, the level compaction, the checkpoint     *)
(* that opens a rewrite or a bulk load, the rewrite and the bulk load.     *)
(* The first two exclude each other by primary_manifest_publication, the   *)
(* others hold the commit mutex and not that one.  Every step between two  *)
(* changes of the directory may be the last before a crash.                *)
(*                                                                         *)
(* A segment is a number never used twice, and a generation is the set of  *)
(* segments: primary_generation hashes their ids and lengths with the      *)
(* version, and is taken to be injective.  A run holds the entries of a    *)
(* set of segments.  File names are numbers; primary.pidx is Base, the     *)
(* one name that is written again.                                         *)
(***************************************************************************)
EXTENDS Integers, FiniteSets, FiniteSetsExt

CONSTANTS LevelFanout,     \* PRIMARY_LEVEL_FANOUT
          MaxSegments,     \* segments built in a behaviour
          MaxFailures      \* publications that fail in a behaviour

Base == 0
BaseLevel == 9             \* PRIMARY_BASE_LEVEL
NoRun == [name |-> -1, level |-> 0, gen |-> {}, covers |-> {}]
Nobody == "nobody"

VARIABLES canon,       \* on disk: the segments of the canonical manifest
          runsFile,    \* on disk: primary.runs as [gen, runs]
          runFiles,    \* on disk: run files by name, as [gen, covers]
          index,       \* in memory: State::index as [gen, runs]
          maker,       \* the holder of the commit mutex or the background
                       \* checkpoint, with the step it is at
          made,        \* the run it built
          merge,       \* the level compaction: step, inputs, output, run set
          publication, \* holder of primary_manifest_publication
          segments,    \* segments built so far
          failures

rmVars == <<canon, runsFile, runFiles, index, maker, made, merge, publication,
            segments, failures>>

Covered(runs) == UNION {r.covers : r \in runs}

\* A name no file and no list of runs uses (file names hold a new Ulid).
FreshName ==
    LET used == DOMAIN runFiles \cup {made.name, merge.out.name} \cup
                  {r.name : r \in runsFile.runs \cup index.runs \cup merge.runs}
    IN  CHOOSE n \in 1..(Cardinality(used) + 1) : n \notin used
NoMerge == [step |-> "idle", inputs |-> {}, out |-> NoRun, runs |-> {},
            gen |-> {}]

\* cleanup_primary_run_orphans: remove the run files primary.runs does not
\* list; primary.pidx and the pending name of a merge are never matched.
Swept(fs, listed) ==
    [n \in {m \in DOMAIN fs : m = Base \/ \E r \in listed : r.name = m}
       |-> fs[n]]

\* A file is created or written over under its final name.
Written(fs, r) ==
    [n \in DOMAIN fs \cup {r.name} |->
       IF n = r.name THEN [gen |-> r.gen, covers |-> r.covers] ELSE fs[n]]

Removed(fs, name) == [n \in DOMAIN fs \ {name} |-> fs[n]]

\* PrimaryRunManifest::publish, which may fail before or after the rename.
PublishRuns(gen, runs, fails) ==
    /\ fails => failures < MaxFailures
    /\ failures' = IF fails THEN failures + 1 ELSE failures
    /\ IF fails THEN runsFile' \in {runsFile, [gen |-> gen, runs |-> runs]}
                ELSE runsFile' = [gen |-> gen, runs |-> runs]

\* load_primary_runs accepts primary.runs for the canonical generation when
\* every file it lists is there and is the build it lists.
LoadsStaleFiles(g, fs) ==
    /\ runsFile.gen = g
    /\ \A r \in runsFile.runs : r.name \in DOMAIN fs

load_primary_runs(g, fs) ==
    /\ runsFile.gen = g
    /\ \A r \in runsFile.runs : r.name \in DOMAIN fs /\ fs[r.name].gen = r.gen

\* What the loaded index would hold: the contents of the files.
Loaded(fs) == UNION {fs[r.name].covers : r \in runsFile.runs}

rmInit ==
    LET r == [name |-> Base, level |-> BaseLevel, gen |-> {1}, covers |-> {1}]
    IN  /\ canon = {1}
        /\ runsFile = [gen |-> {1}, runs |-> {r}]
        /\ runFiles = [n \in {Base} |-> [gen |-> {1}, covers |-> {1}]]
        /\ index = [gen |-> {1}, runs |-> {r}]
        /\ maker = Nobody
        /\ made = NoRun
        /\ merge = NoMerge
        /\ publication = Nobody
        /\ segments = 1
        /\ failures = 0

\* A new run over the segment about to be published; the first run of an
\* index is the base.
NewRun(gen) ==
    IF index.runs = {}
    THEN [name |-> Base, level |-> BaseLevel, gen |-> gen,
          covers |-> {segments + 1}]
    ELSE [name |-> FreshName, level |-> 0, gen |-> gen,
          covers |-> {segments + 1}]

Build(step) ==
    LET r == NewRun(index.gen \cup {segments + 1})
    IN  /\ segments < MaxSegments
        /\ maker' = step
        /\ made' = r
        /\ runFiles' = Written(runFiles, r)
        /\ segments' = segments + 1

-----------------------------------------------------------------------------
(* The background checkpoint, from where it takes the publication mutex.   *)

FlushBuild ==
    /\ maker = Nobody /\ publication = Nobody
    /\ publication' = "flush"
    /\ Build("flushBuilt")
    /\ UNCHANGED <<canon, runsFile, index, merge, failures>>

\* Its run manifest goes out before the canonical one.
FlushPublishRuns ==
    /\ maker = "flushBuilt"
    /\ \E fails \in BOOLEAN :
         PublishRuns(made.gen, index.runs \cup {made}, fails)
    /\ maker' = "flushRuns"
    /\ UNCHANGED <<canon, runFiles, index, made, merge, publication, segments>>

\* The canonical manifest; a failure thaws the frozen generation and leaves
\* the run manifest as it is.
FlushPublish ==
    /\ maker = "flushRuns"
    /\ \/ /\ canon' = made.gen
          /\ maker' = "flushPublished"
          /\ UNCHANGED <<made, publication, failures>>
       \/ /\ failures < MaxFailures
          /\ failures' = failures + 1
          /\ maker' = Nobody /\ made' = NoRun /\ publication' = Nobody
          /\ UNCHANGED canon
    /\ UNCHANGED <<runsFile, runFiles, index, merge, segments>>

FlushAdopt ==
    /\ maker = "flushPublished"
    /\ index' = [gen |-> made.gen, runs |-> index.runs \cup {made}]
    /\ runFiles' = Swept(runFiles, runsFile.runs)
    /\ maker' = Nobody /\ made' = NoRun /\ publication' = Nobody
    /\ UNCHANGED <<canon, runsFile, merge, segments, failures>>

-----------------------------------------------------------------------------
(* checkpoint_locked, which opens a rewrite and a bulk load, under the     *)
(* commit mutex: the canonical manifest goes out first.                    *)

CheckpointBuild ==
    /\ maker = Nobody
    /\ Build("checkpointBuilt")
    /\ UNCHANGED <<canon, runsFile, index, merge, publication, failures>>

CheckpointPublishManifest ==
    /\ maker = "checkpointBuilt"
    /\ \/ /\ canon' = made.gen /\ maker' = "checkpointPublished"
          /\ UNCHANGED <<made, failures>>
       \/ /\ failures < MaxFailures /\ failures' = failures + 1
          /\ maker' = Nobody /\ made' = NoRun
          /\ UNCHANGED canon
    /\ UNCHANGED <<runsFile, runFiles, index, merge, publication, segments>>

\* A failure of the run manifest still adopts; it fences writes and ends the
\* operation before the sweep.
CheckpointAdoptRuns ==
    /\ maker = "checkpointPublished"
    /\ \E fails \in BOOLEAN :
         /\ PublishRuns(made.gen, index.runs \cup {made}, fails)
         /\ maker' = IF fails THEN "fenced" ELSE "locked"
         /\ runFiles' = IF fails THEN runFiles ELSE Swept(runFiles, runsFile'.runs)
    /\ index' = [gen |-> made.gen, runs |-> index.runs \cup {made}]
    /\ made' = NoRun
    /\ UNCHANGED <<canon, merge, publication, segments>>

\* Nothing to checkpoint, or nothing to do after it.
Lock ==
    /\ maker \in {Nobody, "locked"}
    /\ maker' = IF maker = Nobody THEN "locked" ELSE Nobody
    /\ UNCHANGED <<canon, runsFile, runFiles, index, made, merge, publication,
                   segments, failures>>

-----------------------------------------------------------------------------
(* The rewrite: one segment replaces all, and primary.pidx is written over *)
(* before the canonical manifest goes out.                                 *)

RewriteBuildRuns ==
    LET s == {segments + 1}
        r == [name |-> Base, level |-> BaseLevel, gen |-> s, covers |-> s]
    IN  /\ maker = "locked" /\ segments < MaxSegments
        /\ maker' = "rewriteBuilt"
        /\ made' = r
        /\ runFiles' = Written(runFiles, r)
        /\ segments' = segments + 1
        /\ UNCHANGED <<canon, runsFile, index, merge, publication, failures>>

RewritePublish ==
    /\ maker = "rewriteBuilt"
    /\ \/ /\ canon' = made.gen /\ maker' = "rewritePublished"
          /\ UNCHANGED <<made, failures>>
       \/ /\ failures < MaxFailures /\ failures' = failures + 1
          /\ maker' = Nobody /\ made' = NoRun
          /\ UNCHANGED canon
    /\ UNCHANGED <<runsFile, runFiles, index, merge, publication, segments>>

RewriteAdoptRuns ==
    /\ maker = "rewritePublished"
    /\ \E fails \in BOOLEAN :
         /\ PublishRuns(made.gen, {made}, fails)
         /\ maker' = IF fails THEN "fenced" ELSE Nobody
         /\ runFiles' = IF fails THEN runFiles ELSE Swept(runFiles, runsFile'.runs)
    /\ index' = [gen |-> made.gen, runs |-> {made}]
    /\ made' = NoRun
    /\ UNCHANGED <<canon, merge, publication, segments>>

-----------------------------------------------------------------------------
(* bulk_insert_sorted: its run manifest goes out first, and is put back    *)
(* when the canonical manifest fails.                                      *)

BulkBuild ==
    /\ maker = "locked"
    /\ Build("bulkBuilt")
    /\ UNCHANGED <<canon, runsFile, index, merge, publication, failures>>

BulkPublishRuns ==
    /\ maker = "bulkBuilt"
    /\ \E fails \in BOOLEAN :
         /\ PublishRuns(made.gen, index.runs \cup {made}, fails)
         /\ maker' = IF fails THEN Nobody ELSE "bulkRuns"
         /\ made' = IF fails THEN NoRun ELSE made
         /\ runFiles' = IF fails THEN Removed(runFiles, made.name) ELSE runFiles
    /\ UNCHANGED <<canon, index, merge, publication, segments>>

BulkPublish ==
    /\ maker = "bulkRuns"
    /\ \/ /\ canon' = made.gen
          /\ maker' = "bulkPublished"
          /\ UNCHANGED <<runsFile, runFiles, made, failures>>
       \/ /\ failures < MaxFailures /\ failures' = failures + 1
          /\ runsFile' = [gen |-> index.gen, runs |-> index.runs]
          /\ runFiles' = Removed(runFiles, made.name)
          /\ maker' = Nobody /\ made' = NoRun
          /\ UNCHANGED canon
    /\ UNCHANGED <<index, merge, publication, segments>>

BulkAdopt ==
    /\ maker = "bulkPublished"
    /\ index' = [gen |-> made.gen, runs |-> index.runs \cup {made}]
    /\ runFiles' = Swept(runFiles, runsFile.runs)
    /\ maker' = Nobody /\ made' = NoRun
    /\ UNCHANGED <<canon, runsFile, merge, publication, segments, failures>>

-----------------------------------------------------------------------------
(* compact_one_primary_level.                                              *)

AtLevel(l) == {r \in index.runs : r.level = l}

\* primary_compaction_level: the lowest level with a full group of runs.
primary_compaction_level(l) ==
    /\ l # BaseLevel
    /\ Cardinality(AtLevel(l)) >= LevelFanout
    /\ \A k \in 0..(l - 1) : Cardinality(AtLevel(k)) < LevelFanout

\* The oldest runs of the level, merged into a file under a name no sweep
\* touches.
MergeSelect ==
    \E l \in 0..(BaseLevel - 1) :
        /\ merge.step = "idle"
        /\ primary_compaction_level(l)
        /\ \E chosen \in SUBSET AtLevel(l) :
             /\ Cardinality(chosen) = LevelFanout
             /\ \A r \in chosen, o \in AtLevel(l) \ chosen : Max(r.covers) < Max(o.covers)
             /\ merge' = [NoMerge EXCEPT
                   !.step = "merged", !.inputs = chosen,
                   !.out = [name |-> FreshName, gen |-> index.gen,
                            level |-> IF l + 1 < BaseLevel THEN l + 1 ELSE l,
                            covers |-> Covered(chosen)]]
        /\ UNCHANGED <<canon, runsFile, runFiles, index, maker, made, publication,
                       segments, failures>>

MergeName ==
    /\ merge.step = "merged" /\ publication = Nobody
    /\ publication' = "merge"
    /\ runFiles' = Written(runFiles, merge.out)
    /\ merge' = [merge EXCEPT !.step = "named"]
    /\ UNCHANGED <<canon, runsFile, index, maker, made, segments, failures>>

\* Under the commit mutex: the run set to publish, when the inputs are still
\* in use.
MergeCapture ==
    /\ merge.step = "named" /\ maker \in {Nobody, "fenced"}
    /\ IF merge.inputs \subseteq index.runs
       THEN /\ merge' = [merge EXCEPT !.step = "captured", !.gen = index.gen,
                           !.runs = (index.runs \ merge.inputs)
                                       \cup {merge.out}]
            /\ UNCHANGED <<runFiles, publication>>
       ELSE /\ runFiles' = Removed(runFiles, merge.out.name)
            /\ merge' = NoMerge /\ publication' = Nobody
    /\ UNCHANGED <<canon, runsFile, index, maker, made, segments, failures>>

\* Without the commit mutex.
MergePublish ==
    /\ merge.step = "captured"
    /\ \E fails \in BOOLEAN :
         /\ PublishRuns(merge.gen, merge.runs, fails)
         /\ merge' = IF fails THEN NoMerge ELSE [merge EXCEPT !.step = "published"]
         /\ publication' = IF fails THEN Nobody ELSE publication
    /\ UNCHANGED <<canon, runFiles, index, maker, made, segments>>

\* Under the commit mutex again: adopt, or put back the run set of the
\* generation that was published meanwhile.
MergeAdoptAnyway ==
    /\ merge.step = "published" /\ maker \in {Nobody, "fenced"}
    /\ index' = [index EXCEPT !.runs = (@ \ merge.inputs) \cup {merge.out}]
    /\ runFiles' = Swept(runFiles, runsFile.runs)
    /\ merge' = NoMerge /\ publication' = Nobody
    /\ UNCHANGED <<canon, runsFile, maker, made, segments, failures>>

MergeAdoptRuns ==
    /\ merge.step = "published" /\ maker \in {Nobody, "fenced"}
    /\ IF index.gen = merge.gen /\ merge.inputs \subseteq index.runs
       THEN /\ index' = [index EXCEPT !.runs =
                           (@ \ merge.inputs) \cup {merge.out}]
            /\ runFiles' = Swept(runFiles, runsFile.runs)
            /\ UNCHANGED <<runsFile, failures>>
       ELSE \E fails \in BOOLEAN :
              /\ PublishRuns(index.gen, index.runs, fails)
              /\ runFiles' = IF fails THEN runFiles
                                   ELSE Removed(runFiles, merge.out.name)
              /\ UNCHANGED index
    /\ merge' = NoMerge /\ publication' = Nobody
    /\ UNCHANGED <<canon, maker, made, segments>>

-----------------------------------------------------------------------------
\* A crash, and the read-write open after it: the run set when it is the
\* canonical generation's, otherwise a new base built from the segments.
Reopen ==
    LET base == [name |-> Base, level |-> BaseLevel, gen |-> canon,
                 covers |-> canon]
        runs == IF load_primary_runs(canon, runFiles)
                THEN {[r EXCEPT !.covers = runFiles[r.name].covers] :
                        r \in runsFile.runs}
                ELSE {base}
    IN  /\ index' = [gen |-> canon, runs |-> runs]
        /\ runsFile' = [gen |-> canon, runs |-> runs]
        /\ runFiles' = Swept(IF load_primary_runs(canon, runFiles) THEN runFiles
                          ELSE Written(runFiles, base), runs)
        /\ maker' = Nobody /\ made' = NoRun /\ publication' = Nobody
        /\ merge' = NoMerge
        /\ UNCHANGED <<canon, segments, failures>>

rmNext ==
    \/ FlushBuild \/ FlushPublishRuns \/ FlushPublish \/ FlushAdopt
    \/ CheckpointBuild \/ CheckpointPublishManifest \/ CheckpointAdoptRuns \/ Lock
    \/ RewriteBuildRuns \/ RewritePublish \/ RewriteAdoptRuns
    \/ BulkBuild \/ BulkPublishRuns \/ BulkPublish \/ BulkAdopt
    \/ MergeSelect \/ MergeName \/ MergeCapture \/ MergePublish \/ MergeAdoptRuns
    \/ Reopen

rmSpec == rmInit /\ [][rmNext]_rmVars

-----------------------------------------------------------------------------
\* Whatever the publishers interleave, fail at or leave behind in a crash:
\* the runs in memory hold exactly the entries of the generation they are
\* for, and primary.runs, if the next open would accept it, lists runs that
\* hold exactly the entries of the canonical manifest's segments, so that the
\* index it loads is the one a rebuild would make (load_primary_runs).
RunsCoverSegments ==
    /\ Covered(index.runs) = index.gen
    /\ load_primary_runs(canon, runFiles) => Loaded(runFiles) = canon

\* A run in use has its file: a merge's output is not swept while it is being
\* published ("so a concurrent checkpoint cannot delete an in-flight output",
\* compact_one_primary_level).
RunsKeepTheirFiles ==
    maker = Nobody /\ merge.step = "idle" /\ failures = 0 =>
        \A r \in index.runs : r.name \in DOMAIN runFiles
=============================================================================
