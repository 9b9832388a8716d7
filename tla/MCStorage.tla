------------------------------ MODULE MCStorage ------------------------------
(***************************************************************************)
(* The structures of the storage engine, checked side by side.  A          *)
(* behaviour drives one of them, named by `part`; the others stay as they  *)
(* start, so the states are the sum of the parts' and every property below *)
(* is the property of its part.                                            *)
(*                                                                         *)
(* The instances: three manifest generations; one row, three versions and  *)
(* two blobs under two snapshot readers, one writer and a rewrite; five    *)
(* segments under a merge and every publisher of run manifests; two        *)
(* vectors over three commits; two commits, a read, a failure and a        *)
(* reopening of a secondary index; two committers over full pools; five    *)
(* calls on chunked maps whose chunks split at three entries.              *)
(***************************************************************************)
EXTENDS ManifestStore, VersionStore, RunManifests, MaintenanceProtocol, TLC

CONSTANTS v1, v2   \* vectors

VARIABLES part,
    \* VectorIndexing
    viMode, rows, viCommitted, ix, viMade, viManifest, jobs, viMerge, viFenced,
    opens, raced,
    \* IndexedReads
    rowHist, idx, idxFile, job, levelMerge, log, reader, identity,
    irSpent, dropped,
    \* ChunkedMaps
    deltaMap, cowMap, entries, mapCalls

VI == INSTANCE VectorIndexing WITH
    Ids <- {v1, v2}, Modes <- {"Sync", "Async"}, OtherIndex <- FALSE,
    MergeFanout <- 2, MaxCommits <- 3, MaxRuns <- 4, MaxOpens <- 1,
    mode <- viMode, committed <- viCommitted, made <- viMade,
    manifest <- viManifest, merge <- viMerge, fenced <- viFenced

IR == INSTANCE IndexedReads WITH
    Ids <- {1, 2}, Keys <- {1, 2}, BatchRows <- 1,
    InitialTables <- {<<FALSE, <<1, 1>>>>, <<TRUE, <<1, 2>>>>},
    ScanChunk <- 1, LogMax <- 1, TailEntries <- 1, Fanout <- 2, Attempts <- 2,
    MaxCommits <- 2, MaxFaults <- 1, MaxOpens <- 1, MaxReads <- 1,
    hist <- rowHist, disk <- idxFile, merge <- levelMerge, spent <- irSpent

CM == INSTANCE ChunkedMaps WITH
    DeltaChunkEntries <- 1, CowChunkEntries <- 1, PrefixSpan <- 2,
    MapKeys <- 1..4, MaxMapCalls <- 5

-----------------------------------------------------------------------------
vectors == <<viMode, rows, viCommitted, ix, viMade, viManifest, jobs, viMerge,
             viFenced, opens, raced>>
secondary == <<rowHist, idx, idxFile, job, levelMerge, log, reader, identity,
               irSpent, dropped>>
maps == <<deltaMap, cowMap, entries, mapCalls>>

Parts == {"manifest", "versions", "runs", "vectors", "secondary", "maintenance",
          "maps"}

\* A part that is not driven has one initial state.
stInit ==
    /\ part \in Parts
    /\ Init /\ vsInit /\ rmInit /\ VI!Init /\ IR!irInit
    /\ mpInit /\ CM!cmInit
    /\ part # "vectors" => viMode = "Sync"
    /\ part # "secondary" => ~identity

\* No part tells its vectors, or its committing threads, apart.
Symmetry == Permutations({v1, v2}) \cup Permutations(Committers)

Drive(p) == part = p /\ UNCHANGED part

stNext ==
    \/ /\ Drive("manifest") /\ Next
       /\ UNCHANGED <<vsVars, rmVars, vectors, secondary, mpVars, maps>>
    \/ /\ Drive("versions") /\ vsNext
       /\ UNCHANGED <<vars, rmVars, vectors, secondary, mpVars, maps>>
    \/ /\ Drive("runs") /\ rmNext
       /\ UNCHANGED <<vars, vsVars, vectors, secondary, mpVars, maps>>
    \/ /\ Drive("vectors") /\ VI!Next
       /\ UNCHANGED <<vars, vsVars, rmVars, secondary, mpVars, maps>>
    \/ /\ Drive("secondary") /\ IR!irNext
       /\ UNCHANGED <<vars, vsVars, rmVars, vectors, mpVars, maps>>
    \/ /\ Drive("maintenance") /\ mpNext
       /\ UNCHANGED <<vars, vsVars, rmVars, vectors, secondary, maps>>
    \/ /\ Drive("maps") /\ CM!cmNext
       /\ UNCHANGED <<vars, vsVars, rmVars, vectors, secondary, mpVars>>

stVars == <<part, vars, vsVars, rmVars, mpVars, vectors, secondary, maps>>

stSpec == stInit /\ [][stNext]_stVars

-----------------------------------------------------------------------------
(* The manifest, the version store, the run manifests and the maintenance  *)
(* protocol bring their own properties; these are the instances'.          *)

\* VectorIndexing: a settled index finds the vectors of the latest rows.
VectorsSearchable == part = "vectors" => VI!VectorsSearchable

\* IndexedReads: the index holds the latest keys of the rows, but after the
\* close that index_close shows.
IndexMatchesLatest == part = "secondary" => IR!IndexMatchesLatest

\* IndexedReads: a statement returns the rows of one version, and a lookup by
\* an identity those that no commit has changed since.
ReadsExact == part = "secondary" => IR!ReadsExact

\* ChunkedMaps: iteration, lookups and ranges return exactly the entries.
MapsExact == part = "maps" => CM!MapsExact
=============================================================================
