------------------------- MODULE RunManifestsProofs --------------------------
(***************************************************************************)
(* Proof about RunManifests for any number of segments, failures and fan-  *)
(* out: through every interleaving of the five publishers of primary.runs, *)
(* with crashes and failed publications between any two of their steps,    *)
(* the primary index the next open would accept is the one a rebuild from  *)
(* the canonical segments would make.                                      *)
(***************************************************************************)
EXTENDS RunManifests, FiniteSetTheorems, TLAPS

Segs == SUBSET Nat
Run == [name : Int, level : Int, gen : Segs, covers : Segs]
Content == [gen : Segs, covers : Segs]
Steps == {"idle", "merged", "named", "captured", "published"}
Runs == SUBSET Run
RunSet == [gen : Segs, runs : Runs]
Merge == [step : Steps, inputs : Runs, out : Run, runs : Runs, gen : Segs]

\* Every run some list or some publisher still knows.
Listed == runsFile.runs \cup index.runs \cup merge.runs \cup {made, merge.out}

Used == DOMAIN runFiles \cup {r.name : r \in Listed}

-----------------------------------------------------------------------------
(* The invariants.                                                         *)

TypeInv ==
    /\ canon \in Segs /\ segments \in Nat
    /\ runsFile \in RunSet /\ index \in RunSet /\ merge \in Merge /\ made \in Run
    /\ runFiles \in [DOMAIN runFiles -> Content]
    /\ \E n \in Nat : Used \subseteq -1..n

\* Every list of runs covers the generation it is for, and the run a publisher
\* is about to add covers what the generation adds.
CoverInv ==
    /\ Covered(index.runs) = index.gen
    /\ Covered(runsFile.runs) = runsFile.gen
    /\ Covered(merge.runs) = merge.gen
    /\ merge.out.covers = Covered(merge.inputs)
    /\ maker \in {"flushBuilt", "flushRuns", "flushPublished",
                  "checkpointBuilt", "checkpointPublished",
                  "bulkBuilt", "bulkRuns", "bulkPublished"}
          => made.gen = index.gen \cup made.covers
    /\ maker \in {"rewriteBuilt", "rewritePublished"} => made.gen = made.covers

\* A name stands for one run, except primary.pidx, and there the generation
\* tells the contents.
NameInv ==
    /\ \A r \in Listed : r.name < 0 => r = NoRun
    /\ \A r \in Listed : r.name = Base => r.covers = r.gen
    /\ \A r, o \in Listed : r.name = o.name /\ r.name # Base => r = o
    /\ merge.step = "merged" => merge.out.name > 0

\* A file that is there with the generation a list gives holds what the list
\* says.
FileInv ==
    /\ \A n \in DOMAIN runFiles : n \in Nat
    /\ Base \in DOMAIN runFiles => runFiles[Base].covers = runFiles[Base].gen
    /\ \A r \in Listed : r.name \in DOMAIN runFiles /\ runFiles[r.name].gen = r.gen
                            => runFiles[r.name].covers = r.covers

RInv == TypeInv /\ CoverInv /\ NameInv /\ FileInv

-----------------------------------------------------------------------------

\* FreshName is a name nobody uses.
LEMMA FreshIsFresh ==
    ASSUME TypeInv
    PROVE  FreshName \in Nat /\ FreshName # Base /\ FreshName \notin Used
<1>1. Used = DOMAIN runFiles \cup {made.name, merge.out.name} \cup
               {r.name : r \in runsFile.runs \cup index.runs \cup merge.runs}
  BY DEF Used, Listed
<1>2. PICK n \in Nat : Used \subseteq -1..n
  BY DEF TypeInv
<1>3. IsFiniteSet(Used)
  <2>1. IsFiniteSet(-1..n)
    BY FS_Interval
  <2>2. QED
    BY <1>2, <2>1, FS_Subset, Zenon
<1>4. PICK k \in Nat : k = Cardinality(Used)
  BY <1>3, FS_CardinalityType
<1>5. \E m \in 1..(k + 1) : m \notin Used
  <2> SUFFICES ASSUME 1..(k + 1) \subseteq Used PROVE FALSE
    OBVIOUS
  <2>1. Cardinality(1..(k + 1)) <= k
    BY <1>3, <1>4, FS_Subset
  <2>2. Cardinality(1..(k + 1)) = k + 1
    <3>1. 1 \in Int /\ k + 1 \in Int
      OBVIOUS
    <3>2. Cardinality(1..(k + 1)) = IF 1 > k + 1 THEN 0 ELSE (k + 1) - 1 + 1
      BY <3>1, FS_Interval
    <3>3. QED
      BY <3>2
  <2>3. QED
    BY <2>1, <2>2
<1>6. FreshName = CHOOSE m \in 1..(k + 1) : m \notin Used
  BY <1>1, <1>4 DEF FreshName
<1>7. FreshName \in 1..(k + 1) /\ FreshName \notin Used
  BY <1>5, <1>6
<1>8. QED
  BY <1>7 DEF Base

\* Steps that add no run and no file, and write no file over.
LEMMA Shrinks ==
    ASSUME TypeInv, NameInv, FileInv, Listed' \subseteq Listed \cup {NoRun},
           DOMAIN runFiles' \subseteq DOMAIN runFiles,
           runFiles' = [n \in DOMAIN runFiles' |-> runFiles[n]],
           merge' = merge \/ merge'.step # "merged"
    PROVE  NameInv' /\ FileInv' /\ (\E n \in Nat : Used \subseteq -1..n)'
                  /\ runFiles' \in [DOMAIN runFiles' -> Content]
<1>1. NoRun.name = -1 /\ -1 \notin DOMAIN runFiles
  BY DEF NoRun, FileInv
<1>2. NameInv'
  BY <1>1 DEF NameInv, Base
<1>3. FileInv'
  BY <1>1 DEF FileInv
<1>4. PICK n \in Nat : Used \subseteq -1..n
  BY DEF TypeInv
<1>5. Used' \subseteq -1..n
  BY <1>1, <1>4 DEF Used
<1>6. runFiles' \in [DOMAIN runFiles' -> Content]
  BY DEF TypeInv
<1>7. QED
  BY <1>2, <1>3, <1>4, <1>5, <1>6

\* A run with a new name, or a new primary.pidx, that is built and written.
LEMMA Grows ==
    ASSUME TypeInv, NameInv, FileInv, NEW run \in Run,
           \/ run.name \in Nat /\ run.name # Base /\ run.name \notin Used
           \/ run.name = Base /\ run.covers = run.gen,
           Listed' \subseteq Listed \cup {NoRun, run},
           runFiles' = Written(runFiles, run),
           merge' = merge
    PROVE  NameInv' /\ FileInv' /\ (\E n \in Nat : Used \subseteq -1..n)'
                  /\ runFiles' \in [DOMAIN runFiles' -> Content]
<1>1. /\ NoRun.name = -1 /\ -1 \notin DOMAIN runFiles /\ run.name \in Nat
      /\ \A r \in Listed : r.name \in Used
  BY DEF NoRun, FileInv, Base, Used
<1>2. NameInv'
  BY <1>1 DEF NameInv, Base
<1>3. /\ DOMAIN runFiles' = DOMAIN runFiles \cup {run.name}
      /\ runFiles'[run.name] = [gen |-> run.gen, covers |-> run.covers]
      /\ \A n \in DOMAIN runFiles : n # run.name => runFiles'[n] = runFiles[n]
  BY DEF Written
<1>4. FileInv'
  BY <1>1, <1>3 DEF FileInv, NameInv, Base
<1>5. PICK n \in Nat : Used \subseteq -1..n
  BY DEF TypeInv
<1>6. PICK m \in Nat : n <= m /\ run.name <= m
  BY <1>1
<1>7. Used' \subseteq -1..m
  BY <1>1, <1>3, <1>5, <1>6 DEF Used
<1>8. runFiles' \in [DOMAIN runFiles' -> Content]
  BY <1>3 DEF TypeInv, Run, Content, Written
<1>9. QED
  BY <1>2, <1>4, <1>6, <1>7, <1>8

\* Records of the right fields.
LEMMA RunIs ==
    ASSUME NEW n \in Int, NEW l \in Int, NEW g \in Segs, NEW c \in Segs
    PROVE  [name |-> n, level |-> l, gen |-> g, covers |-> c] \in Run
BY DEF Run

\* A generation with its list of runs.
LEMMA RunSetIs ==
    ASSUME NEW g \in Segs, NEW R \in Runs
    PROVE  [gen |-> g, runs |-> R] \in RunSet
BY DEF RunSet

\* A level compaction under way.
LEMMA MergeIs ==
    ASSUME NEW s \in Steps, NEW I \in Runs, NEW o \in Run, NEW R \in Runs,
           NEW g \in Segs
    PROVE  [step |-> s, inputs |-> I, out |-> o, runs |-> R, gen |-> g] \in Merge
BY DEF Merge

\* What a list with one more run covers.
LEMMA CoveredAdd == \A R, x : Covered(R \cup {x}) = Covered(R) \cup x.covers
BY DEF Covered

\* A merge's output stands for its inputs.
LEMMA CoveredReplace ==
    ASSUME NEW R, NEW I \in SUBSET R, NEW x, x.covers = Covered(I)
    PROVE  Covered((R \ I) \cup {x}) = Covered(R)
BY DEF Covered

\* Nothing covers nothing.
LEMMA CoveredEmpty == Covered({}) = {} /\ NoRun \in Run /\ NoMerge \in Merge
                        /\ NoMerge.runs = {} /\ NoMerge.gen = {}
                        /\ NoMerge.out = NoRun /\ NoMerge.inputs = {}
                        /\ NoMerge.step = "idle" /\ NoRun.covers = {}
<1>1. {} \in Segs /\ -1 \in Int /\ 0 \in Int /\ {} \in Runs /\ "idle" \in Steps
  BY DEF Segs, Runs, Steps
<1>2. NoRun \in Run /\ NoRun.covers = {}
  BY <1>1, RunIs DEF NoRun
<1>3. NoMerge \in Merge
  BY <1>1, <1>2, MergeIs DEF NoMerge
<1>4. QED
  BY <1>2, <1>3 DEF Covered, NoMerge

\* The types that do not depend on names.
Shapes ==
    /\ canon \in Segs /\ segments \in Nat
    /\ runsFile \in RunSet /\ index \in RunSet /\ merge \in Merge /\ made \in Run

\* The three publishers that add a segment start by writing its run.
LEMMA BuildStep ==
    ASSUME RInv, NEW step \in {"flushBuilt", "checkpointBuilt", "bulkBuilt"},
           Build(step), UNCHANGED <<canon, runsFile, index, merge>>
    PROVE  RInv'
<1> DEFINE run == NewRun(index.gen \cup {segments + 1})
<1>1. /\ made' = run /\ runFiles' = Written(runFiles, run) /\ maker' = step
      /\ segments' = segments + 1
  BY DEF Build
<1>2. segments + 1 \in Nat /\ index.gen \in Segs
  <2>1. segments \in Nat
    BY DEF RInv, TypeInv
  <2>2. segments + 1 \in Nat
    BY <2>1
  <2>3. QED
    BY <2>2 DEF RInv, TypeInv, RunSet
<1>3. /\ run \in Run /\ run.gen = index.gen \cup run.covers
      /\ \/ run.name \in Nat /\ run.name # Base /\ run.name \notin Used
         \/ run.name = Base /\ run.covers = run.gen
  <2>1. /\ index.gen \cup {segments + 1} \in Segs /\ {segments + 1} \in Segs
        /\ 0 \in Int /\ BaseLevel \in Int /\ Base \in Int
    BY <1>2 DEF Segs, BaseLevel, Base
  <2>2. CASE index.runs = {}
    <3>1. index.gen = {}
      BY <2>2 DEF RInv, CoverInv, Covered
    <3>2. run = [name |-> Base, level |-> BaseLevel,
                 gen |-> index.gen \cup {segments + 1}, covers |-> {segments + 1}]
      BY <2>2 DEF NewRun
    <3>3. run \in Run
      BY <2>1, <3>2, RunIs
    <3>4. /\ run.name = Base /\ run.gen = index.gen \cup {segments + 1}
          /\ run.covers = {segments + 1}
      BY <3>2
    <3> HIDE DEF run
    <3>5. QED
      BY <3>1, <3>3, <3>4
  <2>3. CASE index.runs # {}
    <3>1. FreshName \in Nat /\ FreshName # Base /\ FreshName \notin Used
      BY FreshIsFresh DEF RInv
    <3>2. run = [name |-> FreshName, level |-> 0,
                 gen |-> index.gen \cup {segments + 1}, covers |-> {segments + 1}]
      BY <2>3 DEF NewRun
    <3>3. run \in Run
      <4>1. FreshName \in Int
        BY <3>1
      <4>2. QED
        BY <2>1, <3>2, <4>1, RunIs
    <3>4. /\ run.name = FreshName /\ run.gen = index.gen \cup {segments + 1}
          /\ run.covers = {segments + 1}
      BY <3>2
    <3> HIDE DEF run
    <3>5. QED
      BY <3>1, <3>3, <3>4
  <2>4. QED
    BY <2>2, <2>3, Zenon
<1> HIDE DEF run
<1>4. Listed' \subseteq Listed \cup {NoRun, run}
  BY <1>1 DEF Listed
<1>5. NameInv' /\ FileInv' /\ (\E n \in Nat : Used \subseteq -1..n)'
        /\ runFiles' \in [DOMAIN runFiles' -> Content]
  BY <1>1, <1>3, <1>4, Grows, Zenon DEF RInv
<1>6. TypeInv'
  <2>1. Shapes'
    BY <1>1, <1>2, <1>3 DEF RInv, TypeInv, Shapes
  <2>2. QED
    BY <1>5, <2>1 DEF TypeInv, Shapes
<1>7. CoverInv'
  BY <1>1, <1>3 DEF RInv, CoverInv
<1>8. QED
  BY <1>5, <1>6, <1>7 DEF RInv

\* A step that writes no file needs to keep the shapes and the covers.
LEMMA QuietStep ==
    ASSUME RInv, Shapes', CoverInv', Listed' \subseteq Listed \cup {NoRun},
           DOMAIN runFiles' \subseteq DOMAIN runFiles,
           runFiles' = [n \in DOMAIN runFiles' |-> runFiles[n]],
           merge' = merge \/ merge'.step # "merged"
    PROVE  RInv'
<1>1. NameInv' /\ FileInv' /\ (\E n \in Nat : Used \subseteq -1..n)'
        /\ runFiles' \in [DOMAIN runFiles' -> Content]
  BY Shrinks DEF RInv
<1>2. TypeInv'
  BY <1>1 DEF TypeInv, Shapes
<1>3. QED
  BY <1>1, <1>2 DEF RInv

\* Sweeping and removing files is quiet.
LEMMA FilesQuiet ==
    ASSUME RInv
    PROVE  /\ runFiles = [n \in DOMAIN runFiles |-> runFiles[n]]
           /\ \A R : /\ DOMAIN Swept(runFiles, R) \subseteq DOMAIN runFiles
                     /\ Swept(runFiles, R) = [n \in DOMAIN Swept(runFiles, R) |-> runFiles[n]]
           /\ \A x : /\ DOMAIN Removed(runFiles, x) \subseteq DOMAIN runFiles
                     /\ Removed(runFiles, x) = [n \in DOMAIN Removed(runFiles, x) |-> runFiles[n]]
BY DEF RInv, TypeInv, Swept, Removed

-----------------------------------------------------------------------------
(* The steps of the publishers.                                            *)

\* What the publishers compute is of the right shape.
LEMMA Fields ==
    ASSUME RInv
    PROVE  /\ made \in Run /\ made.gen \in Segs /\ merge.out \in Run
           /\ merge.inputs \in Runs /\ merge.runs \in Runs /\ merge.gen \in Segs
           /\ index.gen \in Segs /\ index.runs \in Runs /\ runsFile.runs \in Runs
           /\ index.runs \cup {made} \in Runs /\ {made} \in Runs
           /\ (index.runs \ merge.inputs) \cup {merge.out} \in Runs
           /\ runsFile \in RunSet /\ index \in RunSet /\ merge \in Merge
           /\ canon \in Segs /\ segments \in Nat
<1>1. /\ made \in Run /\ merge \in Merge /\ index \in RunSet /\ runsFile \in RunSet
      /\ canon \in Segs /\ segments \in Nat
  BY DEF RInv, TypeInv
<1>2. made.gen \in Segs
  BY <1>1 DEF Run
<1>3. /\ merge.out \in Run /\ merge.inputs \in Runs /\ merge.runs \in Runs
      /\ merge.gen \in Segs
  BY <1>1 DEF Merge
<1>4. index.gen \in Segs /\ index.runs \in Runs /\ runsFile.runs \in Runs
  BY <1>1 DEF RunSet
<1>5. QED
  BY <1>1, <1>2, <1>3, <1>4 DEF Runs

\* Publishing a list of known runs that covers its generation leaves on disk
\* a list that covers its own.
LEMMA PublishStep ==
    ASSUME RInv, NEW g \in Segs, NEW R \in Runs, NEW fails \in BOOLEAN,
           PublishRuns(g, R, fails), Covered(R) = g, R \subseteq Listed
    PROVE  /\ runsFile' \in RunSet /\ Covered(runsFile'.runs) = runsFile'.gen
           /\ runsFile'.runs \subseteq Listed
<1>1. runsFile' = runsFile \/ runsFile' = [gen |-> g, runs |-> R]
  BY DEF PublishRuns
<1>2. CASE runsFile' = runsFile
  BY <1>2 DEF RInv, TypeInv, CoverInv, Listed
<1>3. CASE runsFile' = [gen |-> g, runs |-> R]
  BY <1>3, RunSetIs
<1>4. QED
  BY <1>1, <1>2, <1>3

\* The background checkpoint.
LEMMA FlushStep ==
    ASSUME RInv, FlushPublishRuns \/ FlushPublish \/ FlushAdopt
    PROVE  RInv'
<1>0. CoverInv
  BY DEF RInv
<1>1. CASE FlushPublishRuns
  <2>1. PICK fails \in BOOLEAN : PublishRuns(made.gen, index.runs \cup {made}, fails)
    BY <1>1 DEF FlushPublishRuns
  <2>2. Covered(index.runs \cup {made}) = made.gen
    BY <1>0, <1>1, CoveredAdd, Zenon DEF CoverInv, FlushPublishRuns
  <2>3. index.runs \cup {made} \subseteq Listed
    BY DEF Listed
  <2>4. runsFile' \in RunSet /\ Covered(runsFile'.runs) = runsFile'.gen /\ runsFile'.runs \subseteq Listed
    BY <2>1, <2>2, <2>3, Fields, PublishStep
  <2>5. Shapes'
    BY <1>1, <2>4, Fields DEF FlushPublishRuns, Shapes
  <2>6. CoverInv'
    BY <1>0, <1>1, <2>4 DEF CoverInv, FlushPublishRuns
  <2>7. Listed' \subseteq Listed
    BY <1>1, <2>4 DEF Listed, FlushPublishRuns
  <2>8. QED
    BY <1>1, <2>5, <2>6, <2>7, FilesQuiet, QuietStep DEF FlushPublishRuns
<1>2. CASE FlushPublish
  <2>1. Shapes' /\ Listed' \subseteq Listed \cup {NoRun}
    BY <1>2, Fields, CoveredEmpty DEF FlushPublish, Shapes, Listed
  <2>2. CoverInv'
    BY <1>0, <1>2 DEF CoverInv, FlushPublish, Nobody
  <2>3. QED
    BY <1>2, <2>1, <2>2, FilesQuiet, QuietStep DEF FlushPublish
<1>3. CASE FlushAdopt
  <2>1. index' \in RunSet
    BY <1>3, Fields, RunSetIs DEF FlushAdopt
  <2>2. Shapes' /\ Listed' \subseteq Listed \cup {NoRun}
    BY <1>3, <2>1, Fields, CoveredEmpty DEF FlushAdopt, Shapes, Listed
  <2>3. Covered(index.runs \cup {made}) = made.gen
    BY <1>0, <1>3, CoveredAdd, Zenon DEF CoverInv, FlushAdopt
  <2>4. CoverInv'
    BY <1>0, <1>3, <2>3 DEF CoverInv, FlushAdopt, Nobody
  <2>5. QED
    BY <1>3, <2>2, <2>4, FilesQuiet, QuietStep DEF FlushAdopt
<1>4. QED
  BY <1>1, <1>2, <1>3

\* checkpoint_locked.
LEMMA CheckpointStep ==
    ASSUME RInv, CheckpointPublishManifest \/ CheckpointAdoptRuns \/ Lock
    PROVE  RInv'
<1>0. CoverInv
  BY DEF RInv
<1>1. CASE CheckpointPublishManifest
  <2>1. Shapes' /\ Listed' \subseteq Listed \cup {NoRun}
    BY <1>1, Fields, CoveredEmpty DEF CheckpointPublishManifest, Shapes, Listed
  <2>2. CoverInv'
    BY <1>0, <1>1 DEF CoverInv, CheckpointPublishManifest, Nobody
  <2>3. QED
    BY <1>1, <2>1, <2>2, FilesQuiet, QuietStep DEF CheckpointPublishManifest
<1>2. CASE CheckpointAdoptRuns
  <2>1. PICK fails \in BOOLEAN :
          /\ PublishRuns(made.gen, index.runs \cup {made}, fails)
          /\ maker' = IF fails THEN "fenced" ELSE "locked"
          /\ runFiles' = IF fails THEN runFiles ELSE Swept(runFiles, runsFile'.runs)
    BY <1>2 DEF CheckpointAdoptRuns
  <2>2. Covered(index.runs \cup {made}) = made.gen
    BY <1>0, <1>2, CoveredAdd, Zenon DEF CoverInv, CheckpointAdoptRuns
  <2>3. index.runs \cup {made} \subseteq Listed
    BY DEF Listed
  <2>4. runsFile' \in RunSet /\ Covered(runsFile'.runs) = runsFile'.gen /\ runsFile'.runs \subseteq Listed
    BY <2>1, <2>2, <2>3, Fields, PublishStep
  <2>5. index' \in RunSet
    BY <1>2, Fields, RunSetIs DEF CheckpointAdoptRuns
  <2>6. Shapes' /\ Listed' \subseteq Listed \cup {NoRun}
    BY <1>2, <2>4, <2>5, Fields, CoveredEmpty DEF CheckpointAdoptRuns, Shapes, Listed
  <2>7. CoverInv'
    BY <1>0, <1>2, <2>1, <2>2, <2>4 DEF CoverInv, CheckpointAdoptRuns
  <2>8. QED
    BY <1>2, <2>1, <2>6, <2>7, FilesQuiet, QuietStep DEF CheckpointAdoptRuns
<1>3. CASE Lock
  <2>1. Shapes' /\ Listed' \subseteq Listed \cup {NoRun}
    BY <1>3, Fields DEF Lock, Shapes, Listed
  <2>2. CoverInv'
    BY <1>0, <1>3 DEF CoverInv, Lock, Nobody
  <2>3. QED
    BY <1>3, <2>1, <2>2, FilesQuiet, QuietStep DEF Lock
<1>4. QED
  BY <1>1, <1>2, <1>3

\* The rewrite.
LEMMA RewriteStep ==
    ASSUME RInv, RewriteBuildRuns \/ RewritePublish \/ RewriteAdoptRuns
    PROVE  RInv'
<1>0. CoverInv
  BY DEF RInv
<1>1. CASE RewriteBuildRuns
  <2> DEFINE s == {segments + 1}
             run == [name |-> Base, level |-> BaseLevel, gen |-> s, covers |-> s]
  <2>1. s \in Segs /\ segments + 1 \in Nat
    BY Fields DEF Segs
  <2>2. run \in Run /\ run.name = Base /\ run.covers = run.gen
    <3>1. Base \in Int /\ BaseLevel \in Int
      BY DEF Base, BaseLevel
    <3> HIDE DEF s
    <3>2. QED
      BY <2>1, <3>1, RunIs
  <2>3. /\ made' = run /\ runFiles' = Written(runFiles, run) /\ maker' = "rewriteBuilt"
        /\ segments' = segments + 1 /\ UNCHANGED <<canon, runsFile, index, merge>>
    BY <1>1 DEF RewriteBuildRuns
  <2> HIDE DEF run
  <2>4. Listed' \subseteq Listed \cup {NoRun, run}
    BY <2>3 DEF Listed
  <2>5. NameInv' /\ FileInv' /\ (\E n \in Nat : Used \subseteq -1..n)'
          /\ runFiles' \in [DOMAIN runFiles' -> Content]
    BY <2>2, <2>3, <2>4, Grows DEF RInv
  <2>6. Shapes'
    BY <2>1, <2>2, <2>3, Fields DEF Shapes
  <2>7. TypeInv'
    BY <2>5, <2>6 DEF TypeInv, Shapes
  <2>8. CoverInv'
    BY <1>0, <2>2, <2>3 DEF CoverInv
  <2>9. QED
    BY <2>5, <2>7, <2>8 DEF RInv
<1>2. CASE RewritePublish
  <2>1. Shapes' /\ Listed' \subseteq Listed \cup {NoRun}
    BY <1>2, Fields, CoveredEmpty DEF RewritePublish, Shapes, Listed
  <2>2. CoverInv'
    BY <1>0, <1>2 DEF CoverInv, RewritePublish, Nobody
  <2>3. QED
    BY <1>2, <2>1, <2>2, FilesQuiet, QuietStep DEF RewritePublish
<1>3. CASE RewriteAdoptRuns
  <2>1. PICK fails \in BOOLEAN :
          /\ PublishRuns(made.gen, {made}, fails)
          /\ maker' = IF fails THEN "fenced" ELSE Nobody
          /\ runFiles' = IF fails THEN runFiles ELSE Swept(runFiles, runsFile'.runs)
    BY <1>3 DEF RewriteAdoptRuns
  <2>2. Covered({made}) = made.gen
    BY <1>0, <1>3 DEF Covered, CoverInv, RewriteAdoptRuns
  <2>3. {made} \subseteq Listed
    BY DEF Listed
  <2>4. runsFile' \in RunSet /\ Covered(runsFile'.runs) = runsFile'.gen /\ runsFile'.runs \subseteq Listed
    BY <2>1, <2>2, <2>3, Fields, PublishStep
  <2>5. index' \in RunSet
    BY <1>3, Fields, RunSetIs, Zenon DEF RewriteAdoptRuns
  <2>6. Shapes' /\ Listed' \subseteq Listed \cup {NoRun}
    BY <1>3, <2>4, <2>5, Fields, CoveredEmpty DEF RewriteAdoptRuns, Shapes, Listed
  <2>7. CoverInv'
    BY <1>0, <1>3, <2>1, <2>2, <2>4 DEF CoverInv, RewriteAdoptRuns, Nobody
  <2>8. QED
    BY <1>3, <2>1, <2>6, <2>7, FilesQuiet, QuietStep DEF RewriteAdoptRuns
<1>4. QED
  BY <1>1, <1>2, <1>3

\* The bulk load.
LEMMA BulkStep ==
    ASSUME RInv, BulkPublishRuns \/ BulkPublish \/ BulkAdopt
    PROVE  RInv'
<1>0. CoverInv
  BY DEF RInv
<1>1. CASE BulkPublishRuns
  <2>1. PICK fails \in BOOLEAN :
          /\ PublishRuns(made.gen, index.runs \cup {made}, fails)
          /\ maker' = IF fails THEN Nobody ELSE "bulkRuns"
          /\ made' = IF fails THEN NoRun ELSE made
          /\ runFiles' = IF fails THEN Removed(runFiles, made.name) ELSE runFiles
    BY <1>1 DEF BulkPublishRuns
  <2>2. Covered(index.runs \cup {made}) = made.gen
    BY <1>0, <1>1, CoveredAdd, Zenon DEF CoverInv, BulkPublishRuns
  <2>3. index.runs \cup {made} \subseteq Listed
    BY DEF Listed
  <2>4. runsFile' \in RunSet /\ Covered(runsFile'.runs) = runsFile'.gen /\ runsFile'.runs \subseteq Listed
    BY <2>1, <2>2, <2>3, Fields, PublishStep
  <2>5. Shapes' /\ Listed' \subseteq Listed \cup {NoRun}
    BY <1>1, <2>1, <2>4, Fields, CoveredEmpty DEF BulkPublishRuns, Shapes, Listed
  <2>6. CoverInv'
    BY <1>0, <1>1, <2>1, <2>4 DEF CoverInv, BulkPublishRuns, Nobody
  <2>7. QED
    BY <1>1, <2>1, <2>5, <2>6, FilesQuiet, QuietStep DEF BulkPublishRuns
<1>2. CASE BulkPublish
  <2>1. runsFile' = runsFile \/ runsFile' = [gen |-> index.gen, runs |-> index.runs]
    BY <1>2 DEF BulkPublish
  <2>2. runsFile' \in RunSet /\ Covered(runsFile'.runs) = runsFile'.gen /\ runsFile'.runs \subseteq Listed
    BY <1>0, <2>1, Fields, RunSetIs DEF CoverInv, Listed
  <2>3. Shapes' /\ Listed' \subseteq Listed \cup {NoRun}
    BY <1>2, <2>2, Fields, CoveredEmpty DEF BulkPublish, Shapes, Listed
  <2>4. CoverInv'
    BY <1>0, <1>2, <2>2 DEF CoverInv, BulkPublish, Nobody
  <2>5. QED
    BY <1>2, <2>3, <2>4, FilesQuiet, QuietStep DEF BulkPublish
<1>3. CASE BulkAdopt
  <2>1. index' \in RunSet
    BY <1>3, Fields, RunSetIs DEF BulkAdopt
  <2>2. Shapes' /\ Listed' \subseteq Listed \cup {NoRun}
    BY <1>3, <2>1, Fields, CoveredEmpty DEF BulkAdopt, Shapes, Listed
  <2>3. Covered(index.runs \cup {made}) = made.gen
    BY <1>0, <1>3, CoveredAdd, Zenon DEF CoverInv, BulkAdopt
  <2>4. CoverInv'
    BY <1>0, <1>3, <2>3 DEF CoverInv, BulkAdopt, Nobody
  <2>5. QED
    BY <1>3, <2>2, <2>4, FilesQuiet, QuietStep DEF BulkAdopt
<1>4. QED
  BY <1>1, <1>2, <1>3

\* The level compaction takes a name for its output.
LEMMA SelectStep ==
    ASSUME RInv, MergeSelect
    PROVE  RInv'
<1>0. TypeInv /\ CoverInv /\ NameInv /\ FileInv
  BY DEF RInv
<1>1. PICK l \in 0..(BaseLevel - 1), chosen \in SUBSET index.runs :
        merge' = [NoMerge EXCEPT !.step = "merged", !.inputs = chosen,
                   !.out = [name |-> FreshName, gen |-> index.gen,
                            level |-> IF l + 1 < BaseLevel THEN l + 1 ELSE l,
                            covers |-> Covered(chosen)]]
  BY Zenon DEF MergeSelect, AtLevel
<1>2. PICK level \in Int : level = IF l + 1 < BaseLevel THEN l + 1 ELSE l
  BY DEF BaseLevel
<1> DEFINE run == [name |-> FreshName, level |-> level, gen |-> index.gen,
                   covers |-> Covered(chosen)]
<1>3. merge' = [step |-> "merged", inputs |-> chosen, out |-> run, runs |-> {},
                gen |-> {}]
  BY <1>1, <1>2, Zenon DEF NoMerge
<1>4. FreshName \in Nat /\ FreshName \in Int /\ FreshName # Base /\ FreshName \notin Used
  BY <1>0, FreshIsFresh
<1>5. chosen \in Runs /\ Covered(chosen) \in Segs
  BY Fields DEF Runs, Covered, Run, Segs
<1>6. /\ run \in Run /\ run.name = FreshName /\ run.gen = index.gen
      /\ run.covers = Covered(chosen)
  BY <1>4, <1>5, Fields, RunIs
<1> HIDE DEF run
<1>7. /\ merge'.step = "merged" /\ merge'.inputs = chosen /\ merge'.out = run
      /\ merge'.runs = {} /\ merge'.gen = {}
  BY <1>3
<1>8. merge' \in Merge
  <2>1. {} \in Runs /\ {} \in Segs /\ "merged" \in Steps
    BY DEF Runs, Segs, Steps
  <2>2. QED
    BY <1>3, <1>5, <1>6, <2>1, MergeIs, Zenon
<1>9. UNCHANGED <<canon, runsFile, runFiles, index, maker, made, segments>>
  BY DEF MergeSelect
<1>10. Listed' \subseteq Listed \cup {run} /\ \A r \in Listed : r.name \in Used
  BY <1>7, <1>9 DEF Listed, Used
<1>11. NameInv'
  BY <1>0, <1>4, <1>6, <1>7, <1>10 DEF NameInv, Base
<1>12. FileInv'
  <2>1. run.name \notin DOMAIN runFiles
    BY <1>4, <1>6 DEF Used
  <2>2. QED
    BY <1>0, <1>9, <1>10, <2>1 DEF FileInv
<1>13. CoverInv'
  BY <1>0, <1>6, <1>7, <1>9, CoveredEmpty DEF CoverInv
<1>14. TypeInv'
  <2>1. PICK n \in Nat : Used \subseteq -1..n
    BY <1>0 DEF TypeInv
  <2>2. PICK m \in Nat : n <= m /\ FreshName <= m
    BY <1>4
  <2>3. Used' \subseteq -1..m
    BY <1>4, <1>6, <1>9, <1>10, <2>1, <2>2 DEF Used
  <2>4. QED
    BY <1>0, <1>8, <1>9, <2>2, <2>3 DEF TypeInv
<1>15. QED
  BY <1>11, <1>12, <1>13, <1>14 DEF RInv

\* It moves its file to that name.
LEMMA NameStep ==
    ASSUME RInv, MergeName
    PROVE  RInv'
<1>0. TypeInv /\ CoverInv /\ NameInv /\ FileInv
  BY DEF RInv
<1>1. /\ runFiles' = Written(runFiles, merge.out) /\ merge.step = "merged"
      /\ merge' = [merge EXCEPT !.step = "named"]
      /\ UNCHANGED <<canon, runsFile, index, maker, made, segments>>
  BY DEF MergeName
<1>2. /\ merge'.step = "named" /\ merge'.out = merge.out /\ merge'.runs = merge.runs
      /\ merge'.inputs = merge.inputs /\ merge'.gen = merge.gen /\ merge' \in Merge
  BY <1>0, <1>1 DEF TypeInv, Merge, Steps
<1>3. Listed' = Listed /\ merge.out \in Listed
  BY <1>1, <1>2 DEF Listed
<1>4. merge.out.name \in Nat /\ merge.out.name # Base
  BY <1>0, <1>1, Fields DEF NameInv, Run, Base
<1>5. /\ DOMAIN runFiles' = DOMAIN runFiles \cup {merge.out.name}
      /\ runFiles'[merge.out.name] = [gen |-> merge.out.gen, covers |-> merge.out.covers]
      /\ \A n \in DOMAIN runFiles : n # merge.out.name => runFiles'[n] = runFiles[n]
  BY <1>1 DEF Written
<1>6. FileInv'
  BY <1>0, <1>3, <1>4, <1>5 DEF FileInv, NameInv, Base
<1>7. NameInv'
  BY <1>0, <1>2, <1>3 DEF NameInv
<1>8. CoverInv'
  BY <1>0, <1>1, <1>2 DEF CoverInv
<1>9. TypeInv'
  <2>1. runFiles' \in [DOMAIN runFiles' -> Content]
    <3>1. [gen |-> merge.out.gen, covers |-> merge.out.covers] \in Content
      BY Fields DEF Run, Content
    <3>2. runFiles' = [n \in DOMAIN runFiles' |-> runFiles'[n]]
      BY <1>1 DEF Written
    <3>3. \A n \in DOMAIN runFiles' : runFiles'[n] \in Content
      BY <1>0, <1>5, <3>1 DEF TypeInv
    <3>4. QED
      BY <3>2, <3>3
  <2>2. Used' = Used
    BY <1>3, <1>5 DEF Used
  <2>3. QED
    BY <1>0, <1>1, <1>2, <2>1, <2>2 DEF TypeInv
<1>10. QED
  BY <1>6, <1>7, <1>8, <1>9 DEF RInv

\* It publishes a run set and adopts it, or puts the current one back.
LEMMA MergeStep ==
    ASSUME RInv, MergeCapture \/ MergePublish \/ MergeAdoptRuns
    PROVE  RInv'
<1>0. CoverInv
  BY DEF RInv
<1>nil. /\ NoMerge \in Merge /\ NoMerge.step # "merged"
      /\ NoMerge.runs = {} /\ NoMerge.out = NoRun /\ NoMerge.gen = {}
      /\ NoMerge.out.covers = Covered(NoMerge.inputs) /\ Covered({}) = {}
  BY CoveredEmpty
<1>1. CASE MergeCapture
  <2>1. CASE merge.inputs \subseteq index.runs
    <3>1. /\ merge' = [merge EXCEPT !.step = "captured", !.gen = index.gen,
                          !.runs = (index.runs \ merge.inputs) \cup {merge.out}]
          /\ UNCHANGED <<runFiles, canon, runsFile, index, maker, made, segments>>
      BY <1>1, <2>1 DEF MergeCapture
    <3>2. merge' = [step |-> "captured", inputs |-> merge.inputs, out |-> merge.out,
                    runs |-> (index.runs \ merge.inputs) \cup {merge.out},
                    gen |-> index.gen]
      BY <3>1, Fields, Zenon DEF Merge
    <3>3. merge' \in Merge
      <4>1. "captured" \in Steps
        BY DEF Steps
      <4>2. QED
        BY <3>2, <4>1, Fields, MergeIs, Zenon
    <3>4. /\ merge'.step = "captured" /\ merge'.inputs = merge.inputs
          /\ merge'.out = merge.out /\ merge'.gen = index.gen
          /\ merge'.runs = (index.runs \ merge.inputs) \cup {merge.out}
      BY <3>2
    <3>5. Covered(merge'.runs) = merge'.gen
      BY <1>0, <2>1, <3>4, CoveredReplace DEF CoverInv
    <3>6. CoverInv'
      BY <1>0, <3>1, <3>4, <3>5 DEF CoverInv
    <3>7. Shapes' /\ Listed' \subseteq Listed \cup {NoRun}
      BY <3>1, <3>3, <3>4, Fields DEF Shapes, Listed
    <3>8. QED
      BY <3>1, <3>4, <3>6, <3>7, FilesQuiet, QuietStep
  <2>2. CASE ~(merge.inputs \subseteq index.runs)
    <3>1. /\ runFiles' = Removed(runFiles, merge.out.name) /\ merge' = NoMerge
          /\ UNCHANGED <<canon, runsFile, index, maker, made, segments>>
      BY <1>1, <2>2 DEF MergeCapture
    <3>2. Shapes' /\ Listed' \subseteq Listed \cup {NoRun} /\ CoverInv'
      BY <1>0, <1>nil, <3>1, Fields, Zenon DEF Shapes, Listed, CoverInv
    <3>3. QED
      BY <1>nil, <3>1, <3>2, FilesQuiet, QuietStep
  <2>3. QED
    BY <2>1, <2>2
<1>2. CASE MergePublish
  <2>1. PICK fails \in BOOLEAN :
          /\ PublishRuns(merge.gen, merge.runs, fails)
          /\ merge' = IF fails THEN NoMerge ELSE [merge EXCEPT !.step = "published"]
    BY <1>2 DEF MergePublish
  <2>2. UNCHANGED <<canon, runFiles, index, maker, made, segments>>
    BY <1>2 DEF MergePublish
  <2>3. runsFile' \in RunSet /\ Covered(runsFile'.runs) = runsFile'.gen /\ runsFile'.runs \subseteq Listed
    BY <1>0, <2>1, Fields, PublishStep DEF CoverInv, Listed
  <2>4. CASE merge' = NoMerge
    <3>1. Shapes' /\ Listed' \subseteq Listed \cup {NoRun} /\ CoverInv'
      BY <1>0, <1>nil, <2>2, <2>3, <2>4, Fields, Zenon DEF Shapes, Listed, CoverInv
    <3>2. QED
      BY <1>nil, <2>2, <2>4, <3>1, FilesQuiet, QuietStep
  <2>5. CASE merge' = [merge EXCEPT !.step = "published"]
    <3>1. /\ merge'.step = "published" /\ merge'.out = merge.out
          /\ merge'.runs = merge.runs /\ merge'.inputs = merge.inputs
          /\ merge'.gen = merge.gen /\ merge' \in Merge
      BY <2>5, Fields DEF Merge, Steps
    <3>2. Shapes' /\ Listed' \subseteq Listed \cup {NoRun} /\ CoverInv'
      BY <1>0, <2>2, <2>3, <3>1, Fields DEF Shapes, Listed, CoverInv
    <3>3. QED
      BY <2>2, <3>1, <3>2, FilesQuiet, QuietStep
  <2>6. QED
    BY <2>1, <2>4, <2>5
<1>3. CASE MergeAdoptRuns
  <2>1. merge' = NoMerge /\ UNCHANGED <<canon, maker, made, segments>>
    BY <1>3 DEF MergeAdoptRuns
  <2>2. CASE index.gen = merge.gen /\ merge.inputs \subseteq index.runs
    <3>1. /\ index' = [index EXCEPT !.runs = (@ \ merge.inputs) \cup {merge.out}]
          /\ runFiles' = Swept(runFiles, runsFile.runs) /\ UNCHANGED runsFile
      BY <1>3, <2>2 DEF MergeAdoptRuns
    <3>2. index' = [gen |-> index.gen,
                    runs |-> (index.runs \ merge.inputs) \cup {merge.out}]
      BY <3>1, Fields DEF RunSet
    <3>3. index' \in RunSet
      BY <3>2, Fields, RunSetIs
    <3>4. Covered(index'.runs) = index'.gen
      BY <1>0, <2>2, <3>2, CoveredReplace DEF CoverInv
    <3>5. index'.gen = index.gen /\ index'.runs \subseteq index.runs \cup {merge.out}
      BY <3>2
    <3>6. Shapes' /\ Listed' \subseteq Listed \cup {NoRun} /\ CoverInv'
      BY <1>0, <1>nil, <2>1, <3>1, <3>3, <3>4, <3>5, Fields, Zenon DEF Shapes, Listed, CoverInv
    <3>7. QED
      BY <1>nil, <2>1, <3>1, <3>6, FilesQuiet, QuietStep
  <2>3. CASE ~(index.gen = merge.gen /\ merge.inputs \subseteq index.runs)
    <3>1. PICK fails \in BOOLEAN :
            /\ PublishRuns(index.gen, index.runs, fails)
            /\ runFiles' = IF fails THEN runFiles ELSE Removed(runFiles, merge.out.name)
            /\ UNCHANGED index
      BY <1>3, <2>3 DEF MergeAdoptRuns
    <3>2. runsFile' \in RunSet /\ Covered(runsFile'.runs) = runsFile'.gen /\ runsFile'.runs \subseteq Listed
      BY <1>0, <3>1, Fields, PublishStep DEF CoverInv, Listed
    <3>3. Shapes' /\ Listed' \subseteq Listed \cup {NoRun} /\ CoverInv'
      BY <1>0, <1>nil, <2>1, <3>1, <3>2, Fields, Zenon DEF Shapes, Listed, CoverInv
    <3>4. QED
      BY <1>nil, <2>1, <3>1, <3>3, FilesQuiet, QuietStep
  <2>4. QED
    BY <2>2, <2>3
<1>4. QED
  BY <1>1, <1>2, <1>3

-----------------------------------------------------------------------------
(* The open after a crash, and the theorem.                                *)

\* What the open would load is what the list says.
LEMMA LoadedIsListed ==
    ASSUME RInv, load_primary_runs(canon, runFiles)
    PROVE  /\ \A r \in runsFile.runs : runFiles[r.name].covers = r.covers
           /\ Loaded(runFiles) = Covered(runsFile.runs) /\ runsFile.gen = canon
           /\ Covered(runsFile.runs) = canon
<1>1. \A r \in runsFile.runs : runFiles[r.name].covers = r.covers
  BY DEF RInv, FileInv, Listed, load_primary_runs
<1>2. runsFile.gen = canon /\ Covered(runsFile.runs) = runsFile.gen
  BY DEF RInv, CoverInv, load_primary_runs
<1>3. QED
  BY <1>1, <1>2 DEF Loaded, Covered

\* The open keeps a list it may trust and otherwise rebuilds primary.pidx.
LEMMA ReopenStep ==
    ASSUME RInv, Reopen
    PROVE  RInv'
<1>0. TypeInv /\ CoverInv /\ NameInv /\ FileInv
  BY DEF RInv
<1> DEFINE base == [name |-> Base, level |-> BaseLevel, gen |-> canon,
                    covers |-> canon]
<1>1. /\ maker' = Nobody /\ made' = NoRun /\ merge' = NoMerge
      /\ UNCHANGED <<canon, segments>>
  BY DEF Reopen
<1>2. /\ NoMerge \in Merge /\ NoMerge.step # "merged"
      /\ NoMerge.runs = {} /\ NoMerge.out = NoRun /\ NoMerge.gen = {}
      /\ NoMerge.out.covers = Covered(NoMerge.inputs) /\ Covered({}) = {}
      /\ NoRun \in Run
  BY CoveredEmpty
<1>3. CASE load_primary_runs(canon, runFiles)
  <2>1. {[r EXCEPT !.covers = runFiles[r.name].covers] : r \in runsFile.runs} = runsFile.runs
    <3>1. \A r \in runsFile.runs : [r EXCEPT !.covers = runFiles[r.name].covers] = r
      BY <1>3, LoadedIsListed, Fields DEF Runs, Run
    <3>2. QED
      BY <3>1
  <2>2. /\ index' = [gen |-> canon, runs |-> runsFile.runs]
        /\ runsFile' = [gen |-> canon, runs |-> runsFile.runs]
        /\ runFiles' = Swept(runFiles, runsFile.runs)
    BY <1>3, <2>1, Zenon DEF Reopen
  <2>3. index' \in RunSet /\ runsFile' \in RunSet
    BY <2>2, Fields, RunSetIs
  <2>4. /\ index'.runs = runsFile.runs /\ runsFile'.runs = runsFile.runs
        /\ index'.gen = canon /\ runsFile'.gen = canon
    BY <2>2
  <2>5. Shapes' /\ Listed' \subseteq Listed \cup {NoRun}
    BY <1>1, <1>2, <2>3, <2>4, Fields DEF Shapes, Listed
  <2>6. CoverInv'
    BY <1>1, <1>2, <1>3, <2>4, LoadedIsListed DEF CoverInv, Nobody
  <2>7. QED
    BY <1>1, <1>2, <2>2, <2>5, <2>6, FilesQuiet, QuietStep
<1>4. CASE ~load_primary_runs(canon, runFiles)
  <2>1. /\ index' = [gen |-> canon, runs |-> {base}]
        /\ runsFile' = [gen |-> canon, runs |-> {base}]
        /\ runFiles' = Swept(Written(runFiles, base), {base})
    BY <1>4 DEF Reopen
  <2>2. base \in Run /\ base.name = Base /\ base.gen = canon /\ base.covers = canon
    <3>1. Base \in Int /\ BaseLevel \in Int
      BY DEF Base, BaseLevel
    <3>2. QED
      BY <3>1, Fields, RunIs
  <2> HIDE DEF base
  <2>3. /\ index' \in RunSet /\ runsFile' \in RunSet
        /\ index'.runs = {base} /\ runsFile'.runs = {base}
        /\ index'.gen = canon /\ runsFile'.gen = canon
    <3>1. {base} \in Runs
      BY <2>2 DEF Runs
    <3>2. QED
      BY <2>1, <3>1, Fields, RunSetIs, Zenon
  <2>4. Listed' = {base, NoRun}
    BY <1>1, <1>2, <2>3 DEF Listed
  <2>5. DOMAIN runFiles' = {Base} /\ runFiles'[Base] = [gen |-> canon, covers |-> canon]
    BY <2>1, <2>2 DEF Swept, Written
  <2>6. NameInv'
    BY <1>1, <1>2, <2>2, <2>4 DEF NameInv, Base, NoRun
  <2>7. FileInv'
    <3>1. NoRun.name = -1
      BY DEF NoRun
    <3>2. QED
      BY <2>2, <2>4, <2>5, <3>1 DEF FileInv, Base
  <2>8. CoverInv'
    <3>1. Covered({base}) = canon
      BY <2>2 DEF Covered
    <3>2. QED
      BY <1>1, <1>2, <2>3, <3>1 DEF CoverInv, Nobody
  <2>9. TypeInv'
    <3>1. Used' \subseteq -1..0
      BY <2>2, <2>4, <2>5 DEF Used, Base, NoRun
    <3>2. runFiles' \in [DOMAIN runFiles' -> Content]
      <4>1. runFiles'[Base] \in Content
        BY <2>5, Fields DEF Content
      <4>2. runFiles' = [n \in DOMAIN runFiles' |-> runFiles'[n]]
        BY <2>1 DEF Swept
      <4>3. QED
        BY <2>5, <4>1, <4>2
    <3>3. QED
      BY <1>1, <1>2, <2>3, <3>1, <3>2, Fields DEF TypeInv
  <2>10. QED
    BY <2>6, <2>7, <2>8, <2>9 DEF RInv
<1>5. QED
  BY <1>3, <1>4

\* The invariant holds of a database with one segment and its primary.pidx.
LEMMA InitRInv == rmInit => RInv
<1> SUFFICES ASSUME rmInit PROVE RInv
  OBVIOUS
<1> DEFINE base == [name |-> Base, level |-> BaseLevel, gen |-> {1}, covers |-> {1}]
<1>1. /\ canon = {1} /\ runsFile = [gen |-> {1}, runs |-> {base}]
      /\ runFiles = [n \in {Base} |-> [gen |-> {1}, covers |-> {1}]]
      /\ index = [gen |-> {1}, runs |-> {base}] /\ maker = Nobody
      /\ made = NoRun /\ merge = NoMerge /\ segments = 1
  BY DEF rmInit
<1>2. {1} \in Segs /\ Base \in Int /\ BaseLevel \in Int /\ segments \in Nat
  BY <1>1 DEF Segs, Base, BaseLevel
<1>3. base \in Run /\ base.name = Base /\ base.gen = {1} /\ base.covers = {1}
  BY <1>2, RunIs
<1> HIDE DEF base
<1>4. /\ NoMerge \in Merge /\ NoMerge.step # "merged"
      /\ NoMerge.runs = {} /\ NoMerge.out = NoRun /\ NoMerge.gen = {}
      /\ NoMerge.out.covers = Covered(NoMerge.inputs) /\ Covered({}) = {}
      /\ NoRun \in Run
  BY CoveredEmpty
<1>5. Listed = {base, NoRun} /\ NoRun.name = -1
  BY <1>1, <1>4 DEF Listed, NoRun
<1>6. CoverInv
  BY <1>1, <1>3, <1>4 DEF CoverInv, Covered, Nobody
<1>7. NameInv
  BY <1>1, <1>3, <1>4, <1>5 DEF NameInv, Base
<1>8. DOMAIN runFiles = {Base} /\ runFiles[Base] = [gen |-> {1}, covers |-> {1}]
  BY <1>1
<1>9. FileInv
  BY <1>3, <1>5, <1>8 DEF FileInv, Base
<1>10. TypeInv
  <2>1. Used \subseteq -1..0
    BY <1>3, <1>5, <1>8 DEF Used, Base
  <2>2. runsFile \in RunSet /\ index \in RunSet
    BY <1>1, <1>2, <1>3, RunSetIs, Zenon DEF Runs
  <2>3. runFiles \in [DOMAIN runFiles -> Content]
    BY <1>1, <1>2 DEF Content
  <2>4. QED
    BY <1>1, <1>2, <1>4, <2>1, <2>2, <2>3 DEF TypeInv
<1>11. QED
  BY <1>6, <1>7, <1>9, <1>10 DEF RInv

\* Every step of every publisher, every crash and every open preserves it.
LEMMA StepRInv == ASSUME RInv, [rmNext]_rmVars PROVE RInv'
<1>1. CASE FlushBuild
  BY <1>1, BuildStep DEF FlushBuild
<1>2. CASE CheckpointBuild
  BY <1>2, BuildStep DEF CheckpointBuild
<1>3. CASE BulkBuild
  BY <1>3, BuildStep DEF BulkBuild
<1>4. CASE UNCHANGED rmVars
  BY <1>4 DEF rmVars, RInv, TypeInv, CoverInv, NameInv, FileInv, Listed, Used
<1>5. QED
  BY <1>1, <1>2, <1>3, <1>4, FlushStep, CheckpointStep, RewriteStep, BulkStep,
     SelectStep, NameStep, MergeStep, ReopenStep DEF rmNext

\* Whatever the five publishers of primary.runs interleave, fail at or leave
\* behind in a crash, for any number of segments: the runs in memory hold the
\* entries of their generation, and the run manifest load_primary_runs would
\* accept lists runs with exactly the entries of the canonical segments.
THEOREM RunsAlwaysCoverSegments == rmSpec => []RunsCoverSegments
<1>1. RInv => RunsCoverSegments
  BY LoadedIsListed DEF RunsCoverSegments, RInv, CoverInv
<1>2. RInv /\ [rmNext]_rmVars => RInv'
  BY StepRInv
<1>3. QED
  BY <1>1, <1>2, InitRInv, PTL DEF rmSpec
====
