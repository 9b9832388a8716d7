----------------------------- MODULE Checkpoint -----------------------------
(***************************************************************************)
(* WAL rotation, checkpoints and recovery of one database handle:          *)
(* flush_frozen_checkpoint_inner (the background checkpoint, which swaps   *)
(* the writer while commits go on), checkpoint_locked (the one taken under *)
(* the commit mutex) and the replay of Db::open_with.                      *)
(*                                                                         *)
(* `hist` is the sequence of published commits (version = index); `wal`    *)
(* the WAL files, with the length that a barrier has covered; `man` the    *)
(* manifest a process reads and `disk` the manifests a power loss may      *)
(* leave (ManifestStore shows how a publication gets there). A manifest    *)
(* is [seg, wal, req]: the commits in its segments, the anchor of its WAL  *)
(* chain and the extent that chain must have.                              *)
(***************************************************************************)
EXTENDS WalChain

CONSTANTS Durability,    \* the modes of opts.durability explored
          MaxCommits,    \* bound: commits in a behaviour
          MaxWal,        \* bound: largest WAL id
          MaxFaults      \* bound: crashes and I/O failures

ASSUME CheckpointAssumption ==
    /\ Durability \subseteq {"Safe", "Balanced", "Fast"} /\ Durability # {}
    /\ MaxCommits \in Nat /\ MaxWal \in Nat \ {0} /\ MaxFaults \in Nat

VARIABLES
    mode,       \* DbOptions::durability
    hist,       \* the published commits
    made,       \* how many commits were ever made
    assured,    \* how many versions a successful barrier has covered
    wal,        \* the WAL directory
    man, disk,  \* the manifest, and those a power loss may leave
    up,         \* the handle: open, closed or crashed, refused by open
    cur,        \* CommitState::wal, by id
    unsynced,   \* its WalWriter::unsynced
    grp,        \* CommitState::wal_sync_group is open
    fenced,     \* Shared::canonical_error is set
    job,        \* FrozenCheckpointJob and where the worker is with it
    faults

files == <<wal, man, disk>>
handle == <<up, cur, unsynced, grp, fenced>>
commits == <<mode, hist, made, assured>>
vars == <<commits, files, handle, job, faults>>

Id == 1..MaxWal
Commits == 1..MaxCommits
Empty == [recs |-> <<>>, synced |-> 0, torn |-> FALSE]
Manifest == [seg : Seq(Commits), wal : Id, req : Id]
NoJob == [pc |-> "none", ver |-> 0, wal |-> 0, cut |-> 0]

(* One type invariant: the shape of the files, the manifests and the job. *)
TypeOK ==
    /\ mode \in Durability
    /\ hist \in Seq(Commits)
    /\ made \in 0..MaxCommits /\ assured \in 0..MaxCommits
    /\ DOMAIN wal \subseteq Id
    /\ \A id \in DOMAIN wal :
           /\ wal[id] \in [recs : Seq([v : Commits, c : Commits]),
                           synced : 0..MaxCommits, torn : BOOLEAN]
           /\ wal[id].synced <= Len(wal[id].recs)
    /\ man \in disk /\ disk \subseteq Manifest
    /\ up \in {"up", "down", "refused"}
    /\ cur \in Id /\ unsynced \in BOOLEAN /\ grp \in BOOLEAN /\ fenced \in BOOLEAN
    /\ job \in [pc : {"none", "bridge", "active", "swap", "sync", "copy", "final",
                      "clean"},
                ver : 0..MaxCommits, wal : 0..MaxWal, cut : 0..MaxCommits]
    /\ faults \in 0..MaxFaults

(* create_with: an empty WAL 1 and the manifest that anchors it. *)
Init ==
    /\ mode \in Durability
    /\ hist = <<>> /\ made = 0 /\ assured = 0
    /\ wal = [id \in {1} |-> Empty]
    /\ man = [seg |-> <<>>, wal |-> 1, req |-> 1] /\ disk = {man}
    /\ up = "up" /\ cur = 1 /\ unsynced = FALSE /\ grp = FALSE /\ fenced = FALSE
    /\ job = NoJob /\ faults = 0

Fault == faults < MaxFaults /\ faults' = faults + 1

Put(w, id, file) == [i \in DOMAIN w \cup {id} |-> IF i = id THEN file ELSE w[i]]
Drop(w, ids) == Restrict(w, DOMAIN w \ ids)
(* Mutant: a barrier is credited with a record that is not there. *)
SyncedTooFar(file) == [file EXCEPT !.synced = Len(file.recs) + 1]

Synced(file) == [file EXCEPT !.synced = Len(file.recs)]

(* Manifest::publish followed by publication_sync_error. *)
Published(m) == man' = m /\ disk' = {m} /\ UNCHANGED <<fenced, faults>>
PublishFailed == Fault /\ UNCHANGED <<man, disk, fenced>>
PublishSyncFailed(m) ==
    Fault /\ man' = m /\ disk' = disk \cup {m} /\ fenced' = TRUE

-----------------------------------------------------------------------------
(* Commits and WAL barriers, the part of CommitPath that rotation meets.   *)

(* A commit appends its record to the current writer and publishes it; in  *)
(* Safe mode it then waits for its sync group. The fence was looked at     *)
(* when the call began and may be set by now.                              *)
Commit ==
    /\ up = "up" /\ made < MaxCommits
    /\ hist' = Append(hist, made + 1) /\ made' = made + 1
    /\ wal' = [wal EXCEPT ![cur].recs = Append(@, Rec(Len(hist) + 1, made + 1))]
    /\ unsynced' = TRUE
    /\ grp' = (mode = "Safe")
    /\ UNCHANGED <<mode, assured, man, disk, up, cur, fenced, job, faults>>

(* The group leader's barrier. *)
GroupSync ==
    /\ up = "up" /\ grp /\ grp' = FALSE
    /\ \/ /\ wal' = [wal EXCEPT ![cur] = Synced(@)]
          /\ unsynced' = FALSE /\ assured' = Len(hist)
          /\ UNCHANGED <<fenced, faults>>
       \/ /\ Fault /\ fenced' = TRUE
          /\ UNCHANGED <<wal, unsynced, assured>>
    /\ UNCHANGED <<mode, hist, made, man, disk, up, cur, job>>

(* The Balanced timer syncs the current writer when no group is open. *)
TimerSync ==
    /\ up = "up" /\ mode = "Balanced" /\ ~grp /\ unsynced
    /\ \/ /\ wal' = [wal EXCEPT ![cur] = Synced(@)]
          /\ unsynced' = FALSE /\ assured' = Len(hist)
          /\ UNCHANGED <<fenced, faults>>
       \/ /\ Fault /\ fenced' = TRUE
          /\ UNCHANGED <<wal, unsynced, assured>>
    /\ UNCHANGED <<mode, hist, made, man, disk, up, cur, grp, job>>

-----------------------------------------------------------------------------
(* The background checkpoint. *)

(* schedule_frozen_checkpoint: the delta since the last checkpoint becomes *)
(* the job; the WAL boundary and the version describe the same commits.    *)
Freeze ==
    /\ up = "up" /\ ~grp /\ job = NoJob /\ Len(hist) > Len(man.seg)
    /\ cur + 2 \in Id
    /\ job' = [pc |-> "bridge", ver |-> Len(hist),
               wal |-> cur, cut |-> Len(wal[cur].recs)]
    /\ UNCHANGED <<commits, files, handle, faults>>

(* The worker writes the segment and the index run, which may fail, and    *)
(* creates the bridge: create_new is refused when the file exists, and a   *)
(* failed sync of the new file leaves it behind.                           *)
ReserveBridge ==
    /\ up = "up" /\ job.pc = "bridge"
    /\ LET bridge == job.wal + 1
       IN  \/ /\ bridge \notin DOMAIN wal
              /\ wal' = Put(wal, bridge, Empty)
              /\ \/ job' = [job EXCEPT !.pc = "active"] /\ UNCHANGED faults
                 \/ Fault /\ job' = NoJob
           \/ /\ bridge \in DOMAIN wal
              /\ job' = NoJob /\ UNCHANGED <<wal, faults>>
           \/ Fault /\ job' = NoJob /\ UNCHANGED wal
    /\ UNCHANGED <<commits, man, disk, handle>>

(* create_new of the next writer's file; any failure removes the bridge.   *)
(* A failed sync of the new file leaves it behind; after that step both    *)
(* files are removed on a failure (ReservedWalFiles).                      *)
ReserveActive ==
    /\ up = "up" /\ job.pc = "active"
    /\ LET bridge == job.wal + 1
           active == job.wal + 2
       IN  \/ /\ active \notin DOMAIN wal
              /\ \/ /\ wal' = Put(wal, active, Empty)
                    /\ job' = [job EXCEPT !.pc = "swap"] /\ UNCHANGED faults
                 \/ /\ Fault
                    /\ wal' = Put(Drop(wal, {bridge}), active, Empty)
                    /\ job' = NoJob
                 \/ /\ wal' = Drop(wal, {bridge})
                    /\ job' = NoJob /\ Fault
           \/ /\ active \in DOMAIN wal
              /\ wal' = Drop(wal, {bridge}) /\ job' = NoJob /\ UNCHANGED faults
    /\ UNCHANGED <<commits, man, disk, handle>>

(* Mutant: the writer is replaced before the extent is recorded. *)
SwapUnrecorded ==
    /\ up = "up" /\ job.pc = "swap" /\ ~grp
    /\ cur' = job.wal + 2 /\ unsynced' = FALSE
    /\ job' = [job EXCEPT !.pc = "sync"]
    /\ UNCHANGED <<commits, files, up, grp, fenced, faults>>

(* Under the commit mutex, no group open: record the extent in the         *)
(* manifest, then replace the writer.                                      *)
Swap ==
    /\ up = "up" /\ job.pc = "swap" /\ ~grp
    /\ LET m == [man EXCEPT !.req = job.wal + 2]
       IN  \/ /\ Published(m)
              /\ cur' = job.wal + 2 /\ unsynced' = FALSE
              /\ job' = [job EXCEPT !.pc = "sync"]
              /\ UNCHANGED wal
           \/ /\ PublishFailed
              /\ wal' = Drop(wal, {job.wal + 1, job.wal + 2}) /\ job' = NoJob
              /\ UNCHANGED <<cur, unsynced>>
           \/ /\ PublishSyncFailed(m)
              /\ job' = NoJob /\ UNCHANGED <<wal, cur, unsynced>>
    /\ UNCHANGED <<commits, up, grp>>

(* old_wal.sync_data, after the swap and outside the mutex. *)
SyncOld ==
    /\ up = "up" /\ job.pc = "sync"
    /\ \/ /\ wal' = [wal EXCEPT ![job.wal] = Synced(@)]
          /\ job' = [job EXCEPT !.pc = "copy"] /\ UNCHANGED faults
       \/ Fault /\ job' = NoJob /\ UNCHANGED wal
    /\ UNCHANGED <<commits, man, disk, handle>>

(* Mutant: the copy starts one record too late. *)
CopyTailShort ==
    /\ up = "up" /\ job.pc = "copy"
    /\ LET tail == SubSeq(wal[job.wal].recs, job.cut + 2, Len(wal[job.wal].recs))
       IN  wal' = [wal EXCEPT ![job.wal + 1] = Synced([Empty EXCEPT !.recs = tail])]
    /\ job' = [job EXCEPT !.pc = "final"]
    /\ UNCHANGED <<commits, man, disk, handle, faults>>

(* Mutant: the copy is renamed into place without being synced. *)
CopyTailUnsynced ==
    /\ up = "up" /\ job.pc = "copy"
    /\ LET tail == SubSeq(wal[job.wal].recs, job.cut + 1, Len(wal[job.wal].recs))
       IN  wal' = [wal EXCEPT ![job.wal + 1] = [Empty EXCEPT !.recs = tail]]
    /\ job' = [job EXCEPT !.pc = "final"]
    /\ UNCHANGED <<commits, man, disk, handle, faults>>

(* The records after the cutoff are copied to a temporary file, synced and *)
(* renamed over the bridge.                                                *)
CopyTail ==
    /\ up = "up" /\ job.pc = "copy"
    /\ LET tail == SubSeq(wal[job.wal].recs, job.cut + 1, Len(wal[job.wal].recs))
       IN  \/ /\ wal' = [wal EXCEPT ![job.wal + 1] =
                             Synced([Empty EXCEPT !.recs = tail])]
              /\ job' = [job EXCEPT !.pc = "final"] /\ UNCHANGED faults
           \/ Fault /\ job' = NoJob /\ UNCHANGED wal
    /\ UNCHANGED <<commits, man, disk, handle>>

(* The manifest of the checkpoint: the frozen commits are in a segment and *)
(* the chain starts at the bridge.                                         *)
PublishFinal ==
    /\ up = "up" /\ job.pc = "final"
    /\ LET m == [seg |-> SubSeq(hist, 1, job.ver),
                 wal |-> job.wal + 1, req |-> job.wal + 2]
       IN  \/ Published(m) /\ job' = [job EXCEPT !.pc = "clean"]
           \/ PublishFailed /\ job' = NoJob
           \/ PublishSyncFailed(m) /\ job' = NoJob
    /\ UNCHANGED <<commits, wal, up, cur, unsynced, grp>>

(* cleanup_orphans: the chain before the new anchor goes away. *)
Cleanup ==
    /\ up = "up" /\ job.pc = "clean"
    /\ wal' = Drop(wal, 1..(job.wal)) /\ job' = NoJob
    /\ UNCHANGED <<commits, man, disk, handle, faults>>

-----------------------------------------------------------------------------
(* checkpoint_locked: everything under the commit mutex, with no group and *)
(* no frozen generation; here too the fence was looked at before the wait  *)
(* for the mutex. File::create truncates a leftover successor. An error    *)
(* after the publication fences the handle and skips the cleanup.          *)
CheckpointLocked ==
    /\ up = "up" /\ ~grp /\ job = NoJob /\ cur + 1 \in Id
    /\ LET next == cur + 1
           m == [seg |-> hist, wal |-> next, req |-> next]
           created == Put(wal, next, Empty)
       IN  \/ /\ Published(m) /\ wal' = Drop(created, 1..cur)
              /\ cur' = next /\ unsynced' = FALSE
           \/ /\ PublishFailed /\ wal' = created
              /\ UNCHANGED <<cur, unsynced>>
           \/ /\ PublishSyncFailed(m) /\ wal' = created
              /\ cur' = next /\ unsynced' = FALSE
           \/ /\ Fault /\ man' = m /\ disk' = {m} /\ fenced' = TRUE
              /\ wal' = created /\ cur' = next /\ unsynced' = FALSE
    /\ UNCHANGED <<commits, up, grp, job>>

-----------------------------------------------------------------------------
(* Crashes, close and open. *)

Down(w) ==
    /\ up' = "down" /\ wal' = w
    /\ unsynced' = FALSE /\ grp' = FALSE /\ fenced' = FALSE /\ job' = NoJob

(* A killed process leaves its files as they are, and possibly the start   *)
(* of a record at the end of the current one.                              *)
Kill ==
    /\ up = "up" /\ Fault
    /\ \E partial \in BOOLEAN : Down([wal EXCEPT ![cur].torn = partial])
    /\ UNCHANGED <<commits, man, disk, cur>>

(* Drop for Db: the background checkpoint is drained, then the writer is   *)
(* synced if it has unsynced appends.                                      *)
Close ==
    /\ up = "up" /\ ~grp /\ job = NoJob
    /\ Down(IF unsynced THEN [wal EXCEPT ![cur] = Synced(@)] ELSE wal)
    /\ UNCHANGED <<commits, man, disk, cur, faults>>

(* What a power loss may leave of a file: at least what was synced, and    *)
(* possibly part of the record after that.                                 *)
Left(id) ==
    {[recs |-> SubSeq(wal[id].recs, 1, n), synced |-> n, torn |-> t] :
        n \in wal[id].synced..Len(wal[id].recs), t \in BOOLEAN}
    \ {[recs |-> wal[id].recs, synced |-> Len(wal[id].recs), torn |-> t] :
        t \in IF wal[id].torn \/ id = cur THEN {} ELSE {TRUE}}

(* The directories a power loss may leave: every unsynced file on its own. *)
Leftovers ==
    LET open == {id \in DOMAIN wal : Cardinality(Left(id)) > 1}
        sure == [id \in DOMAIN wal \ open |-> CHOOSE f \in Left(id) : TRUE]
        pick == {g \in [open -> UNION {Left(id) : id \in open}] :
                    \A id \in open : g[id] \in Left(id)}
    IN  {[id \in DOMAIN wal |-> IF id \in open THEN g[id] ELSE sure[id]] :
            g \in pick}

PowerLoss ==
    /\ up # "refused" /\ Fault
    /\ \E w \in Leftovers : Down(w)
    /\ \E d \in disk : man' = d /\ disk' = {d}
    /\ UNCHANGED <<commits, cur>>

(* Db::open_with: validate the chain or refuse; drop the files before the  *)
(* anchor; replay, truncating an incomplete tail; adopt the last file as   *)
(* the writer and record the extent when it is beyond the required one.    *)
Open ==
    /\ up = "down"
    /\ IF ValidChain(wal, man.seg, man.wal, man.req)
       THEN LET active == ActiveWal(wal, man.wal)
                extent == IF active > man.req
                          THEN [man EXCEPT !.req = active] ELSE man
            IN  /\ up' = "up" /\ cur' = active
                /\ hist' = Recovered(wal, man.seg, man.wal)
                /\ assured' = IF assured < Len(hist') THEN assured ELSE Len(hist')
                /\ wal' = LET kept == Drop(wal, 1..(man.wal - 1))
                          IN  IF kept[active].torn
                              THEN [kept EXCEPT ![active] =
                                       Synced([@ EXCEPT !.torn = FALSE])]
                              ELSE kept
                /\ man' = extent /\ disk' = {extent}
       ELSE up' = "refused" /\ UNCHANGED <<cur, hist, assured, files>>
    /\ UNCHANGED <<mode, made, unsynced, grp, fenced, job, faults>>

Next ==
    \/ Commit \/ GroupSync \/ TimerSync
    \/ Freeze \/ ReserveBridge \/ ReserveActive \/ Swap \/ SyncOld \/ CopyTail
    \/ PublishFinal \/ Cleanup \/ CheckpointLocked
    \/ Kill \/ Close \/ PowerLoss \/ Open

Spec == Init /\ [][Next]_vars
-----------------------------------------------------------------------------
(* A file was left behind after the id that follows the chain: the next    *)
(* writer's file, when its first sync fails and only the bridge is removed.*)
Hole == \E id \in DOMAIN wal : id > cur /\ id - 1 \notin DOMAIN wal

KillRecovers ==
    /\ ValidChain(wal, man.seg, man.wal, man.req)
    /\ Recovered(wal, man.seg, man.wal) = hist

(* At every moment of a checkpoint a killed process is recovered to        *)
(* exactly the commits it had published: no rotation step, failure path or *)
(* cleanup makes the chain unreadable, loses a commit or replays one twice,*)
(* a reservation that left a hole in the chain excepted.                   *)
KillRecoversAll == up = "up" /\ ~Hole => KillRecovers

(* README: "after a crash, the database opens to the last fully committed  *)
(* state", with no exception for a failed reservation.                     *)
KillAlwaysRecovers == up = "up" => KillRecovers

(* Some record of the chain comes after one that no barrier has covered.   *)
Exposed ==
    \E id, later \in DOMAIN wal :
        /\ id < later /\ wal[later].recs # <<>>
        /\ wal[id].synced < Len(wal[id].recs)

(* What a power loss now would leave: whichever manifest survives, the     *)
(* chain is accepted and replays to a prefix of the published commits that *)
(* holds every commit a successful barrier has covered.                    *)
PowerLossRecovers ==
    \A d \in disk : \A w \in Leftovers :
        /\ ValidChain(w, d.seg, d.wal, d.req)
        /\ LET r == Recovered(w, d.seg, d.wal)
           IN  Len(r) >= assured /\ r = SubSeq(hist, 1, Len(r))

(* A power loss is recovered whenever no record sits in a file after one   *)
(* whose tail was never synced: the bridge, the two manifests of a         *)
(* background checkpoint and every failure path keep that.                 *)
RecoversUnlessExposed == up = "up" /\ ~Hole /\ ~Exposed => PowerLossRecovers


(* No commit lands in a WAL file beyond the extent that every surviving    *)
(* manifest records, so the loss of that file is always detected. A handle *)
(* whose publication is in doubt is fenced, and a commit that had already  *)
(* passed the fence is excepted.                                           *)
ExtentRecorded ==
    up = "up" /\ ~fenced /\ wal[cur].recs # <<>> => \A d \in disk : cur <= d.req
=============================================================================
