---------------------------- MODULE VersionStore ----------------------------
(***************************************************************************)
(* The multi-version store under concurrent readers: commits, background   *)
(* checkpoints and the canonical rewrite (rewrite_segments_shared, the     *)
(* compaction) against the sharded snapshot registry, the read view and    *)
(* the out-of-line blob files.                                             *)
(*                                                                         *)
(* One table.  A version entry is [id, ver, blob]: every row payload lives *)
(* in a blob file of its own, and blob = 0 is a tombstone.  `delta`,       *)
(* `frozen` and `base` are the active delta, the generation a background   *)
(* checkpoint writes, and the published runs with their segments.  Every   *)
(* reader is a thread with its own shard of the registry.                  *)
(***************************************************************************)
EXTENDS Integers, Sequences, FiniteSets, FiniteSetsExt

CONSTANTS Ids,           \* row ids
          Threads,       \* number of reader threads, one registry shard each
          Writers,       \* committing transactions
          MaxCommits,    \* bound: commits in a behaviour
          MaxBlobs,      \* bound: blob files ever written
          MaxRewrites    \* bound: compactions

ASSUME VersionAssumption == Threads \in Nat \ {0} /\ MaxRewrites \in Int

VARIABLES
    hist,       \* the committed changes, version = index
    delta, frozen, base,
    blobFiles,  \* blob files on disk
    named,      \* how many blob names were drawn
    pend,       \* Shared::pending_blob_publications
    tx,         \* tx[w]: the blob of a prepared commit, 0 if none
    snaps,      \* snaps[r]: the version its shard counts, 0 if none
    rd,         \* rd[r]: what a reader is doing
    rw          \* the rewrite: where it is, watermarks, kept entries

Readers == 1..Threads
store == <<hist, delta, frozen, base>>
blobs == <<blobFiles, named, pend, tx>>
vsVars == <<store, blobs, snaps, rd, rw>>

Entry == [id : Ids, ver : 1..MaxCommits, blob : 0..MaxBlobs]
Absent == [id |-> CHOOSE i \in Ids : TRUE, ver |-> 0, blob |-> 0]
Idle == [pc |-> "idle", how |-> "none", ver |-> 0, entry |-> Absent, got |-> 0]
NoRewrite == [pc |-> "idle", shard |-> 0, marks |-> {}, keep |-> {}, left |-> 0]

vsInit ==
    /\ hist = << >> /\ delta = {} /\ frozen = {} /\ base = {}
    /\ blobFiles = {} /\ named = 0 /\ pend = {} /\ tx = [w \in Writers |-> 0]
    /\ snaps = [r \in Readers |-> 0] /\ rd = [r \in Readers |-> Idle]
    /\ rw = [NoRewrite EXCEPT !.left = MaxRewrites]

committed == Len(hist)

-----------------------------------------------------------------------------
(* The newest version of a row at or before a version. *)

NewestIn(entries, id, ver) ==
    LET seen == {e \in entries : e.id = id /\ e.ver <= ver}
    IN  IF seen = {} THEN Absent
        ELSE CHOOSE e \in seen : \A o \in seen : o.ver <= e.ver

(* PrimaryTableView::newest: a version found in the overlays is the answer *)
(* and the runs are not searched.                                          *)
Newest(id, ver) ==
    LET overlay == NewestIn(delta \cup frozen, id, ver)
    IN  IF overlay.ver # 0 THEN overlay ELSE NewestIn(base, id, ver)

(* The row as the commits left it, the reference for every read. *)
Truth(id, ver) ==
    LET of == {v \in 1..ver : hist[v].id = id}
    IN  IF of = {} \/ hist[Max(of)].blob = 0 THEN 0 ELSE Max(of)

Payload(e) == IF e.blob = 0 THEN 0 ELSE e.ver

-----------------------------------------------------------------------------
(* Commits.  The rewrite holds the commit mutex from its first step to its *)
(* last, so no commit applies and no checkpoint swaps while it runs.       *)
CommitMutexFree == rw.pc = "idle"

(* commit_staged up to the commit mutex: BlobSink writes the file, the     *)
(* name joins pending_blob_publications, the file is renamed into place.   *)
StageBlob(w) ==
    /\ tx[w] = 0 /\ named < MaxBlobs /\ committed < MaxCommits
    /\ named' = named + 1
    /\ blobFiles' = blobFiles \cup {named'} /\ pend' = pend \cup {named'}
    /\ tx' = [tx EXCEPT ![w] = named']
    /\ UNCHANGED <<store, snaps, rd, rw>>

Applied(id, blob) ==
    LET e == [id |-> id, ver |-> committed + 1, blob |-> blob]
    IN  hist' = Append(hist, e) /\ delta' = delta \cup {e}

(* The commit applies and publishes; PendingBlobPublications is dropped    *)
(* when the call returns.                                                  *)
CommitPut(w) ==
    /\ CommitMutexFree /\ tx[w] # 0 /\ committed < MaxCommits
    /\ \E id \in Ids : Applied(id, tx[w])
    /\ pend' = pend \ {tx[w]} /\ tx' = [tx EXCEPT ![w] = 0]
    /\ UNCHANGED <<frozen, base, blobFiles, named, snaps, rd, rw>>

(* A commit that fails validation leaves its published blob behind. *)
CommitFails(w) ==
    /\ tx[w] # 0
    /\ pend' = pend \ {tx[w]} /\ tx' = [tx EXCEPT ![w] = 0]
    /\ UNCHANGED <<store, blobFiles, named, snaps, rd, rw>>

CommitDelete ==
    /\ CommitMutexFree /\ committed < MaxCommits
    /\ \E id \in Ids : Newest(id, committed).blob # 0 /\ Applied(id, 0)
    /\ UNCHANGED <<frozen, base, blobs, snaps, rd, rw>>

-----------------------------------------------------------------------------
(* The background checkpoint: freeze the delta, adopt it as a run, or thaw *)
(* it when publication fails.                                              *)

Freeze ==
    /\ CommitMutexFree /\ frozen = {} /\ delta # {}
    /\ frozen' = delta /\ delta' = {}
    /\ UNCHANGED <<hist, base, blobs, snaps, rd, rw>>

AdoptFrozen ==
    /\ CommitMutexFree /\ frozen # {}
    /\ base' = base \cup frozen /\ frozen' = {}
    /\ UNCHANGED <<hist, delta, blobs, snaps, rd, rw>>

Thaw ==
    /\ CommitMutexFree /\ frozen # {}
    /\ delta' = delta \cup frozen /\ frozen' = {}
    /\ UNCHANGED <<hist, base, blobs, snaps, rd, rw>>

-----------------------------------------------------------------------------
(* The rewrite. *)

(* Mutant: it does not wait. *)
RewriteBeginAtOnce ==
    /\ rw.pc = "idle" /\ rw.left > 0 /\ hist # << >>
    /\ base' = base \cup delta /\ delta' = {}
    /\ rw' = [rw EXCEPT !.pc = "scan", !.shard = 0, !.marks = {},
                        !.left = @ - 1]
    /\ UNCHANGED <<hist, frozen, blobs, snaps, rd>>

(* lock_commit_for_maintenance waits for the frozen generation; then the   *)
(* checkpoint under the mutex drains the delta.                            *)
RewriteBegin ==
    /\ rw.pc = "idle" /\ rw.left > 0 /\ frozen = {} /\ hist # << >>
    /\ base' = base \cup delta /\ delta' = {}
    /\ rw' = [rw EXCEPT !.pc = "scan", !.shard = 0, !.marks = {},
                        !.left = @ - 1]
    /\ UNCHANGED <<hist, frozen, blobs, snaps, rd>>

(* SnapshotRegistry::versions locks one shard after another. *)
RewriteScanShard ==
    /\ rw.pc = "scan"
    /\ LET s == rw.shard + 1
       IN  rw' = [rw EXCEPT !.shard = s,
                            !.marks = @ \cup ({snaps[s]} \ {0}),
                            !.pc = IF s = Threads THEN "build" ELSE @]
    /\ UNCHANGED <<store, blobs, snaps, rd>>

(* Mutant: only the latest version is kept. *)
WatermarksLatestOnly(marks) == {committed}

Watermarks(marks) == marks \cup {committed}

(* Mutant: a tombstone is dropped even after a kept put. *)
KeptNoTombstones(entries, marks) ==
    {e \in entries : e.blob # 0 /\ \E m \in marks : NewestIn(entries, e.id, m) = e}

(* What the new segment holds: for every watermark the newest version at   *)
(* or before it, tombstones only when they follow a put that is kept.      *)
Kept(entries, marks) ==
    LET newest == {e \in entries : \E m \in marks : NewestIn(entries, e.id, m) = e}
    IN  {e \in newest : \/ e.blob # 0
                        \/ \E p \in newest : /\ p.id = e.id /\ p.ver < e.ver
                                             /\ p.blob # 0}

(* The segment, the primary run and the blob references are written while  *)
(* readers go on.                                                          *)
RewriteBuild ==
    /\ rw.pc = "build"
    /\ rw' = [rw EXCEPT !.keep = Kept(base, Watermarks(rw.marks)), !.pc = "adopt"]
    /\ UNCHANGED <<store, blobs, snaps, rd>>

(* Manifest publication and the swap under the state write lock. *)
RewriteAdopt ==
    /\ rw.pc = "adopt"
    /\ base' = rw.keep /\ rw' = [rw EXCEPT !.pc = "gc"]
    /\ UNCHANGED <<hist, delta, frozen, blobs, snaps, rd>>

(* Mutant: the collector does not look at the pending publications. *)
ReferencedOnly == {e.blob : e \in rw.keep} \ {0}

Referenced == ({e.blob : e \in rw.keep} \ {0}) \cup pend

(* gc_blob_files, holding the pending set's lock. *)
RewriteGc ==
    /\ rw.pc = "gc"
    /\ blobFiles' = blobFiles \cap Referenced
    /\ rw' = [NoRewrite EXCEPT !.left = rw.left]
    /\ UNCHANGED <<store, named, pend, tx, snaps, rd>>

(* An error before the publication leaves everything as it was; one after  *)
(* it skips the cleanup.                                                   *)
RewriteFails ==
    /\ rw.pc # "idle"
    /\ rw' = [NoRewrite EXCEPT !.left = rw.left]
    /\ UNCHANGED <<store, blobs, snaps, rd>>

-----------------------------------------------------------------------------
(* Readers. *)

Step(r, to) == rd' = [rd EXCEPT ![r] = to]

(* Db::snapshot: load the published version ... *)
SnapLoad(r) ==
    /\ rd[r].pc = "idle" /\ committed > 0
    /\ Step(r, [Idle EXCEPT !.pc = "loaded", !.how = "taken", !.ver = committed])
    /\ UNCHANGED <<store, blobs, snaps, rw>>

(* ... register it ... *)
SnapRegister(r) ==
    /\ rd[r].pc = "loaded"
    /\ snaps' = [snaps EXCEPT ![r] = rd[r].ver]
    /\ Step(r, [rd[r] EXCEPT !.pc = "listed"])
    /\ UNCHANGED <<store, blobs, rw>>

(* Mutant: the version is not loaded again after the registration. *)
SnapConfirmNever(r) ==
    /\ rd[r].pc = "listed"
    /\ Step(r, [rd[r] EXCEPT !.pc = "open"])
    /\ UNCHANGED <<store, blobs, snaps, rw>>

(* ... and load it again: a commit in between means one more round, with   *)
(* the older registration dropped.                                         *)
SnapConfirm(r) ==
    /\ rd[r].pc = "listed"
    /\ IF rd[r].ver = committed
       THEN Step(r, [rd[r] EXCEPT !.pc = "open"]) /\ UNCHANGED snaps
       ELSE /\ snaps' = [snaps EXCEPT ![r] = 0]
            /\ Step(r, [rd[r] EXCEPT !.pc = "loaded", !.ver = committed])
    /\ UNCHANGED <<store, blobs, rw>>

(* Snapshot::clone: another thread registers the same version in its own   *)
(* shard.                                                                  *)
SnapClone(r) ==
    /\ rd[r].pc = "idle"
    /\ \E o \in Readers :
           /\ rd[o].pc = "open"
           /\ snaps' = [snaps EXCEPT ![r] = rd[o].ver]
           /\ Step(r, [Idle EXCEPT !.pc = "open", !.how = "clone",
                                   !.ver = rd[o].ver])
    /\ UNCHANGED <<store, blobs, rw>>

(* shared_get_at at a snapshot: the entry is found through the read view;  *)
(* the payload is decoded after.                                           *)
Lookup(r) ==
    /\ rd[r].pc = "open"
    /\ \E id \in Ids :
           Step(r, [rd[r] EXCEPT !.pc = "reading",
                        !.entry = Newest(id, rd[r].ver)])
    /\ UNCHANGED <<store, blobs, snaps, rw>>

(* decode_record_keep opens the blob file: -1 is the error of a missing    *)
(* one.                                                                    *)
Decode(r) ==
    /\ rd[r].pc = "reading"
    /\ LET e == rd[r].entry
           value == IF e.blob # 0 /\ e.blob \notin blobFiles THEN -1 ELSE Payload(e)
       IN  Step(r, [rd[r] EXCEPT !.pc = "open", !.got = value, !.entry = Absent])
    /\ UNCHANGED <<store, blobs, snaps, rw>>

(* Drop for Snapshot. *)
Release(r) ==
    /\ rd[r].pc = "open"
    /\ Step(r, Idle) /\ snaps' = [snaps EXCEPT ![r] = 0]
    /\ UNCHANGED <<store, blobs, rw>>

vsNext ==
    \/ \E w \in Writers : StageBlob(w) \/ CommitPut(w) \/ CommitFails(w)
    \/ CommitDelete
    \/ Freeze \/ AdoptFrozen \/ Thaw
    \/ RewriteBegin \/ RewriteScanShard \/ RewriteBuild \/ RewriteAdopt
    \/ RewriteGc \/ RewriteFails
    \/ \E r \in Readers :
           \/ SnapLoad(r) \/ SnapRegister(r) \/ SnapConfirm(r) \/ SnapClone(r)
           \/ Lookup(r) \/ Decode(r) \/ Release(r)

vsSpec == vsInit /\ [][vsNext]_vsVars

-----------------------------------------------------------------------------
Holds(r) == rd[r].pc \in {"open", "reading"}

(* Every row of the table can be read at version v: the directory finds    *)
(* the version the commits left, and its blob is on disk.                  *)
Readable(v) ==
    \A id \in Ids : LET e == Newest(id, v)
                    IN  /\ Payload(e) = Truth(id, v)
                        /\ e.blob # 0 => e.blob \in blobFiles

(* "Compaction must never delete data still referenced by a snapshot"      *)
(* (specs.md): whatever commits, checkpoints and rewrites do, a snapshot   *)
(* that Db::snapshot returned reads the whole table as of its version,     *)
(* blobs included, until it is released.                                   *)
SnapshotPreserved ==
    \A r \in Readers : Holds(r) /\ rd[r].how = "taken" =>
        /\ Readable(rd[r].ver)
        /\ rd[r].entry.blob # 0 => rd[r].entry.blob \in blobFiles

(* README, "Live snapshots are always preserved", of a snapshot that was   *)
(* cloned as well.                                                         *)
ClonesPreserved ==
    \A r \in Readers : rd[r].pc = "open" /\ rd[r].how = "clone" =>
        Readable(rd[r].ver)

(* The latest committed state is always readable, and a commit that was    *)
(* prepared finds its blob when it applies, however a rewrite's garbage    *)
(* collection falls between its publication and its turn at the mutex.     *)
LatestReadable ==
    /\ Readable(committed)
    /\ \A w \in Writers : tx[w] # 0 => tx[w] \in blobFiles

(* What lets a lookup stop at the overlays: a version of a row in the      *)
(* active or frozen delta is newer than every version of it in a run.      *)
OverlayNewer ==
    \A o \in delta \cup frozen, b \in base : o.id = b.id => o.ver > b.ver

TakenBy(r) == rd[r].how = "taken" /\ rd[r].pc \in {"open", "reading"}

Promise == INSTANCE SnapshotStore WITH
    history <- [v \in 1..committed |-> [id \in Ids |-> Truth(id, v)]],
    snap <- [r \in Readers |-> IF TakenBy(r) THEN rd[r].ver ELSE 0],
    got <- [r \in Readers |-> IF TakenBy(r) THEN rd[r].got ELSE 0]

(* The store implements the abstract history of table contents: every read *)
(* at a snapshot returns the row of the commit the snapshot was taken at.  *)
ImplementsSnapshots == Promise!Spec
=============================================================================
