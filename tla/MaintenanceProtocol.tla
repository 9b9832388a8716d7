------------------------- MODULE MaintenanceProtocol -------------------------
(***************************************************************************)
(* Who waits for whom when memory runs short.  Committing threads, the     *)
(* checkpoint worker, the derived-index worker, the run-merge worker and   *)
(* an explicit maintenance call share the commit mutex, the maintenance    *)
(* exclusion (MaintenanceSerial), the maintenance memory pool and two      *)
(* publication mutexes.  A commit that would overfill the index-delta pool *)
(* schedules a consolidation and waits for it (db/commit.rs, memory.rs and *)
(* db/maintenance.rs).                                                     *)
(*                                                                         *)
(* Bytes are counted in commits: each adds one unit to the primary delta   *)
(* and, when the table has a derived index, one to the derived overlays,   *)
(* by way of the queue of the vector worker when that index is an          *)
(* asynchronous vector index.  Work done without a lock is one step.  The  *)
(* WAL group and what the jobs publish are in other modules.               *)
(***************************************************************************)
EXTENDS Integers, FiniteSets

CONSTANTS Committers,       \* committing threads
          HasDerived,       \* whether the written table has a derived index
          AsyncVectors,     \* whether that is an asynchronous vector index
          IndexPool,        \* index_delta_pool_bytes
          MaintenancePool,  \* maintenance_pool_bytes
          MemtableMax,      \* memtable_max_bytes, the soft threshold
          CommitBound,      \* bound on commits
          MaxExplicit,      \* bound on explicit maintenance calls
          FaultBound        \* bound on failing background jobs

VARIABLES at,              \* what each thread is about to do
          mutex,           \* owner of the commit mutex
          serial,          \* owner of MaintenanceSerial
          leased,          \* bytes the serial owner's lease accounts
          mergeMemory,     \* bytes the run merge holds in the same pool
          primaryPub,      \* owner of primary_manifest_publication
          derivedPub,      \* owner of derived_manifest_publication
          active,          \* bytes of the active primary delta
          frozenBytes,     \* bytes of the frozen generation, 0 when none
          derived,         \* bytes of the derived overlays
          frozenDerived,   \* bytes of the frozen derived overlays
          backlog,         \* vector_backlog: vectors queued for the worker
          charged,         \* index_delta of the memory governor
          running,         \* the two background status flags
          lastError,       \* their last_error slots
          refused,         \* how the last MemoryLimit was met
          spent            \* commits, explicit calls and faults so far

mpVars == <<at, mutex, serial, leased, mergeMemory, primaryPub, derivedPub,
            active, frozenBytes, derived, frozenDerived, backlog, charged,
            running, lastError, refused, spent>>

Workers == {"checkpoint", "derived", "merge", "explicit"}
AllThreads == Committers \cup Workers
Jobs    == {"checkpoint", "derived"}

Free == "free"

\* Thread names are distinct, and the pools are amounts of memory.
Setting ==
    /\ Committers \cap (Workers \cup {Free}) = {}
    /\ IndexPool \in Nat /\ MaintenancePool \in Nat /\ MemtableMax \in Nat
    /\ HasDerived \in BOOLEAN /\ AsyncVectors \in BOOLEAN

ASSUME MaintenanceAssumption == Setting

mpInit ==
    /\ at = [t \in AllThreads |-> "idle"]
    /\ mutex = Free /\ serial = Free /\ leased = 0 /\ mergeMemory = 0
    /\ primaryPub = Free /\ derivedPub = Free
    /\ active = 0 /\ frozenBytes = 0 /\ derived = 0 /\ frozenDerived = 0
    /\ backlog = 0 /\ charged = 0
    /\ running = [j \in Jobs |-> FALSE]
    /\ lastError = [j \in Jobs |-> FALSE]
    /\ refused = "never"
    /\ spent = [commits |-> 0, explicit |-> 0, faults |-> 0]

-----------------------------------------------------------------------------
(* Steps shared by the handlers.                                           *)

Goto(t, where) == at' = [at EXCEPT ![t] = where]

LockCommit(t) == mutex = Free /\ mutex' = t

UnlockCommit(t) == mutex = t /\ mutex' = Free

\* acquire_frozen_lease: wait for the exclusion only, never for the pool.
acquire_frozen_lease(owner, bytes) ==
    /\ serial = Free
    /\ serial' = owner
    /\ leased' = bytes

\* Dropping the lease: the exclusion and the memory it accounts.
ReleaseLease == serial' = Free /\ leased' = 0

Increment == 1 + (IF HasDerived THEN 1 ELSE 0)

index_would_exceed == charged + Increment > IndexPool

\* set_index_delta_bytes, called by every job and by those that schedule one:
\* what the active delta and the overlays hold replaces the count.  Vectors
\* still queued are in neither.
set_index_delta_bytes(bytes) == charged' = bytes

background_checkpoint_supported == backlog = 0

\* schedule_frozen_checkpoint by the owner of the commit mutex.
CanFreezePrimary ==
    /\ background_checkpoint_supported
    /\ ~running["checkpoint"] /\ frozenBytes = 0 /\ active > 0

schedule_frozen_checkpoint ==
    /\ CanFreezePrimary
    /\ frozenBytes' = active
    /\ active' = 0
    /\ set_index_delta_bytes(derived)
    /\ running' = [running EXCEPT !["checkpoint"] = TRUE]

\* schedule_frozen_derived; overlays a failed job left frozen go first, and
\* the vector overlay is not frozen while vectors are queued for it.
CanFreezeDerived ==
    /\ ~running["derived"]
    /\ frozenDerived > 0 \/ (derived > 0 /\ backlog = 0)

schedule_frozen_derived ==
    /\ CanFreezeDerived
    /\ frozenDerived' = IF frozenDerived > 0 THEN frozenDerived ELSE derived
    /\ derived' = IF frozenDerived > 0 THEN derived ELSE 0
    /\ set_index_delta_bytes(active + (IF frozenDerived > 0 THEN derived ELSE 0))
    /\ running' = [running EXCEPT !["derived"] = TRUE]
    /\ lastError' = [lastError EXCEPT !["derived"] = FALSE]

Publications == <<primaryPub, derivedPub>>
Deltas       == <<active, frozenBytes, derived, frozenDerived, backlog, charged>>
Lease        == <<serial, leased>>

-----------------------------------------------------------------------------
(* A commit: finish_prepared_commit from taking the mutex on.              *)

CommitBegin(c) ==
    /\ at[c] = "idle"
    /\ spent.commits < CommitBound
    /\ spent' = [spent EXCEPT !.commits = @ + 1]
    /\ IF ~running["checkpoint"] /\ lastError["checkpoint"]
       THEN lastError' = [lastError EXCEPT !["checkpoint"] = FALSE] /\ at' = at
       ELSE Goto(c, "lock") /\ UNCHANGED lastError
    /\ UNCHANGED <<mutex, Lease, mergeMemory, Publications, Deltas, running,
                   refused>>

CommitLock(c) ==
    /\ at[c] = "lock"
    /\ LockCommit(c)
    /\ Goto(c, "validated")
    /\ UNCHANGED <<Lease, mergeMemory, Publications, Deltas, running,
                   lastError, refused, spent>>

\* Room in the pool: publish the commit and release the mutex.
CommitApply(c) ==
    /\ at[c] = "validated"
    /\ ~index_would_exceed
    /\ UnlockCommit(c)
    /\ active' = active + 1
    /\ derived' = derived + (IF AsyncVectors THEN 0 ELSE Increment - 1)
    /\ backlog' = backlog + (IF AsyncVectors THEN Increment - 1 ELSE 0)
    /\ charged' = charged + Increment
    /\ Goto(c, "applied")
    /\ UNCHANGED <<Lease, mergeMemory, Publications, frozenBytes, frozenDerived,
                   running, lastError, refused, spent>>

\* Mutant: hard pressure consolidates the primary delta only.
PressurePrimaryOnly == IF frozenBytes > 0 THEN "waitCheckpoint" ELSE "leaseCheckpoint"

\* Pressure, in the order of the checks in the code: a publication under way
\* is waited for without the mutex, derived overlays are consolidated first,
\* then a checkpoint under way is waited for, then one is scheduled.
PressureBranch ==
    CASE running["derived"]          -> "waitDerived"
      [] ~running["derived"] /\ derived + frozenDerived > 0 -> "leaseDerived"
      [] ~running["derived"] /\ derived + frozenDerived = 0 /\ frozenBytes > 0
                                     -> "waitCheckpoint"
      [] OTHER                       -> "leaseCheckpoint"

CommitPressure(c) ==
    /\ at[c] = "validated"
    /\ index_would_exceed
    /\ Goto(c, PressureBranch)
    /\ mutex' = IF PressureBranch \in {"waitDerived", "waitCheckpoint"}
                THEN Free ELSE c
    /\ UNCHANGED <<Lease, mergeMemory, Publications, Deltas, running,
                   lastError, refused, spent>>

\* The commit mutex stays held while the vector worker drains its queue
\* (wait_vector_indexing_shared) and while the lease is waited for.
CommitLeaseDerived(c) ==
    /\ at[c] = "leaseDerived"
    /\ backlog = 0
    /\ acquire_frozen_lease("derived", derived)
    /\ schedule_frozen_derived
    /\ UnlockCommit(c)
    /\ at' = [at EXCEPT ![c] = "waitDerived", !["derived"] = "publish"]
    /\ UNCHANGED <<mergeMemory, Publications, active, frozenBytes, backlog,
                   refused, spent>>

CommitLeaseCheckpoint(c) ==
    /\ at[c] = "leaseCheckpoint"
    /\ UnlockCommit(c)
    /\ \/ /\ acquire_frozen_lease("checkpoint", active)
          /\ schedule_frozen_checkpoint
          /\ at' = [at EXCEPT ![c] = "waitCheckpoint",
                              !["checkpoint"] = "publish"]
          /\ UNCHANGED <<mergeMemory, refused>>
       \/ /\ serial = Free   \* taken, refused by the scheduler and dropped
          /\ ~CanFreezePrimary
          /\ index_would_exceed
          /\ refused' = IF running["checkpoint"] THEN "worker busy"
                        ELSE IF backlog > 0 THEN "vectors queued"
                        ELSE IF charged = 0 THEN "nothing left"
                        ELSE "bytes left"
          /\ Goto(c, "idle")
          /\ UNCHANGED <<Lease, mergeMemory, frozenBytes, active, charged,
                         running>>
    /\ UNCHANGED <<Publications, derived, frozenDerived, backlog, lastError,
                   spent>>

\* wait_for_background_checkpoint and wait_for_background_derived: a recorded
\* failure is taken and returned, otherwise the commit starts over.
CommitWait(c, job, where) ==
    /\ at[c] = where
    /\ ~running[job]
    /\ Goto(c, IF lastError[job] THEN "idle" ELSE "lock")
    /\ lastError' = [lastError EXCEPT ![job] = FALSE]
    /\ UNCHANGED <<mutex, Lease, mergeMemory, Publications, Deltas, running,
                   refused, spent>>

-----------------------------------------------------------------------------
(* post_commit_maintenance.                                                *)

derived_schedule_needed == 2 * charged >= IndexPool /\ derived > 0

PostCommitSkip(c) ==
    /\ at[c] = "applied"
    /\ ~derived_schedule_needed /\ active < MemtableMax
    /\ Goto(c, "idle")
    /\ UNCHANGED <<mutex, Lease, mergeMemory, Publications, Deltas, running,
                   lastError, refused, spent>>

PostCommitLock(c) ==
    /\ at[c] = "applied"
    /\ derived_schedule_needed \/ active >= MemtableMax
    /\ LockCommit(c)
    /\ Goto(c, "post")
    /\ UNCHANGED <<Lease, mergeMemory, Publications, Deltas, running,
                   lastError, refused, spent>>

\* try_acquire_frozen_lease gives up when the exclusion is taken; a scheduler
\* that finds nothing to freeze has cleared the last error all the same.  A
\* running derived job defers the soft checkpoint.
post_commit_maintenance(c) ==
    LET try     == /\ derived_schedule_needed /\ ~running["derived"]
                   /\ serial = Free
        publish == try /\ CanFreezeDerived
        soft    == active >= MemtableMax /\ ~running["derived"] /\ frozenBytes = 0
    IN  /\ at[c] = "post"
        /\ \/ /\ publish
              /\ acquire_frozen_lease("derived", derived)
              /\ schedule_frozen_derived
              /\ UnlockCommit(c)
              /\ at' = [at EXCEPT ![c] = "idle", !["derived"] = "publish"]
           \/ /\ ~publish
              /\ mutex' = IF soft THEN c ELSE Free
              /\ Goto(c, IF soft THEN "leaseSoft" ELSE "idle")
              /\ lastError' = [lastError EXCEPT !["derived"] = @ /\ ~try]
              /\ UNCHANGED <<Lease, derived, frozenDerived, charged, running>>
        /\ UNCHANGED <<mergeMemory, Publications, active, frozenBytes, backlog,
                       refused, spent>>

PostCommitCheckpoint(c) ==
    /\ at[c] = "leaseSoft"
    /\ UnlockCommit(c)
    /\ \/ /\ acquire_frozen_lease("checkpoint", active)
          /\ schedule_frozen_checkpoint
          /\ at' = [at EXCEPT ![c] = "idle", !["checkpoint"] = "publish"]
       \/ /\ serial = Free
          /\ ~CanFreezePrimary
          /\ Goto(c, "idle")
          /\ UNCHANGED <<Lease, active, frozenBytes, charged, running>>
    /\ UNCHANGED <<mergeMemory, Publications, derived, frozenDerived, backlog,
                   lastError, refused, spent>>

-----------------------------------------------------------------------------
(* The checkpoint worker: flush_frozen_checkpoint.                         *)

\* Publication mutex first, then the commit mutex to rotate and to adopt.
CheckpointPublish ==
    /\ at["checkpoint"] = "publish"
    /\ primaryPub = Free
    /\ primaryPub' = "checkpoint"
    /\ Goto("checkpoint", "adopt")
    /\ UNCHANGED <<mutex, Lease, mergeMemory, derivedPub, Deltas, running,
                   lastError, refused, spent>>

\* One hold of the commit mutex: the generation is adopted and released.
CheckpointAdopt ==
    /\ at["checkpoint"] = "adopt"
    /\ mutex = Free
    /\ frozenBytes' = 0
    /\ set_index_delta_bytes(active + derived)
    /\ Goto("checkpoint", "drop")
    /\ UNCHANGED <<mutex, Lease, mergeMemory, Publications, active, derived,
                   frozenDerived, backlog, running, lastError, refused, spent>>

\* A failure releases the lease first and then takes the mutex to thaw.
CheckpointFails ==
    /\ at["checkpoint"] \in {"publish", "adopt"}
    /\ spent.faults < FaultBound
    /\ spent' = [spent EXCEPT !.faults = @ + 1]
    /\ primaryPub' = IF primaryPub = "checkpoint" THEN Free ELSE primaryPub
    /\ ReleaseLease
    /\ Goto("checkpoint", "thaw")
    /\ UNCHANGED <<mutex, mergeMemory, derivedPub, Deltas, running,
                   lastError, refused>>

thaw_frozen_checkpoint ==
    /\ at["checkpoint"] = "thaw"
    /\ mutex = Free
    /\ active' = active + frozenBytes
    /\ frozenBytes' = 0
    /\ set_index_delta_bytes(active + frozenBytes + derived)
    /\ lastError' = [lastError EXCEPT !["checkpoint"] = TRUE]
    /\ running' = [running EXCEPT !["checkpoint"] = FALSE]
    /\ Goto("checkpoint", "idle")
    /\ UNCHANGED <<mutex, Lease, mergeMemory, Publications, derived,
                   frozenDerived, backlog, refused, spent>>

\* The job and its lease are dropped before the status says it is done.
CheckpointDrop ==
    /\ at["checkpoint"] = "drop"
    /\ primaryPub' = Free
    /\ ReleaseLease
    /\ Goto("checkpoint", "status")
    /\ UNCHANGED <<mutex, mergeMemory, derivedPub, Deltas, running,
                   lastError, refused, spent>>

CheckpointDone ==
    /\ at["checkpoint"] = "status"
    /\ running' = [running EXCEPT !["checkpoint"] = FALSE]
    /\ Goto("checkpoint", "idle")
    /\ UNCHANGED <<mutex, Lease, mergeMemory, Publications, Deltas,
                   lastError, refused, spent>>

-----------------------------------------------------------------------------
(* The derived worker: flush_frozen_derived.                               *)

DerivedPublish ==
    /\ at["derived"] = "publish"
    /\ derivedPub = Free
    /\ derivedPub' = "derived"
    /\ Goto("derived", "adopt")
    /\ UNCHANGED <<mutex, Lease, mergeMemory, primaryPub, Deltas, running,
                   lastError, refused, spent>>

DerivedAdopt ==
    /\ at["derived"] = "adopt"
    /\ mutex = Free
    /\ frozenDerived' = 0
    /\ derivedPub' = Free
    /\ ReleaseLease
    /\ set_index_delta_bytes(active + derived)
    /\ Goto("derived", "status")
    /\ UNCHANGED <<mutex, mergeMemory, primaryPub, active, frozenBytes, derived,
                   backlog, running, lastError, refused, spent>>

\* The failed job drops its lease; the overlays stay frozen for a retry.
DerivedFails ==
    /\ at["derived"] \in {"publish", "adopt"}
    /\ spent.faults < FaultBound
    /\ spent' = [spent EXCEPT !.faults = @ + 1]
    /\ derivedPub' = IF derivedPub = "derived" THEN Free ELSE derivedPub
    /\ ReleaseLease
    /\ Goto("derived", "recharge")
    /\ UNCHANGED <<mutex, mergeMemory, primaryPub, Deltas, running,
                   lastError, refused>>

\* Needs the commit mutex to charge the retained bytes, then reports.
DerivedRecharge ==
    /\ at["derived"] = "recharge"
    /\ mutex = Free
    /\ set_index_delta_bytes(active + derived + frozenDerived)
    /\ lastError' = [lastError EXCEPT !["derived"] = TRUE]
    /\ running' = [running EXCEPT !["derived"] = FALSE]
    /\ Goto("derived", "idle")
    /\ UNCHANGED <<mutex, Lease, mergeMemory, Publications, active, frozenBytes,
                   derived, frozenDerived, backlog, refused, spent>>

DerivedDone ==
    /\ at["derived"] = "status"
    /\ running' = [running EXCEPT !["derived"] = FALSE]
    /\ Goto("derived", "idle")
    /\ UNCHANGED <<mutex, Lease, mergeMemory, Publications, Deltas,
                   lastError, refused, spent>>

\* The vector worker adds a queued vector to its overlay, unless the row has
\* changed since.  It takes the state lock alone, which no thread keeps while
\* it waits.
VectorStep ==
    /\ backlog > 0
    /\ backlog' = backlog - 1
    /\ derived' \in {derived, derived + 1}
    /\ UNCHANGED <<at, mutex, Lease, mergeMemory, Publications, active,
                   frozenBytes, frozenDerived, charged, running, lastError,
                   refused, spent>>

-----------------------------------------------------------------------------
(* Run merges: they reserve memory, never the exclusion, and give it back  *)
(* before publication (compact_one_primary_level, build_vector_merge).     *)

MergeReserve ==
    /\ at["merge"] = "idle"
    /\ leased + mergeMemory + 1 <= MaintenancePool
    /\ mergeMemory' = 1
    /\ Goto("merge", "built")
    /\ UNCHANGED <<mutex, Lease, Publications, Deltas, running, lastError,
                   refused, spent>>

\* Mutant: the merge keeps its permit through publication.
MergeKeepsMemory ==
    /\ at["merge"] = "built"
    /\ \E where \in {"pubPrimary", "pubDerived"} : Goto("merge", where)
    /\ UNCHANGED <<mutex, Lease, mergeMemory, Publications, Deltas, running,
                   lastError, refused, spent>>

MergeRelease ==
    /\ at["merge"] = "built"
    /\ mergeMemory' = 0
    /\ \E where \in {"pubPrimary", "pubDerived"} : Goto("merge", where)
    /\ UNCHANGED <<mutex, Lease, Publications, Deltas, running, lastError,
                   refused, spent>>

MergePublication ==
    /\ \/ /\ at["merge"] = "pubPrimary"
          /\ primaryPub = Free
          /\ primaryPub' = "merge"
          /\ UNCHANGED derivedPub
       \/ /\ at["merge"] = "pubDerived"
          /\ derivedPub = Free
          /\ derivedPub' = "merge"
          /\ UNCHANGED primaryPub
    /\ Goto("merge", "commit")
    /\ UNCHANGED <<mutex, Lease, mergeMemory, Deltas, running, lastError,
                   refused, spent>>

MergeAdopt ==
    /\ at["merge"] = "commit"
    /\ mutex = Free
    /\ primaryPub' = IF primaryPub = "merge" THEN Free ELSE primaryPub
    /\ derivedPub' = IF derivedPub = "merge" THEN Free ELSE derivedPub
    /\ Goto("merge", "idle")
    /\ UNCHANGED <<mutex, Lease, mergeMemory, Deltas, running, lastError,
                   refused, spent>>

-----------------------------------------------------------------------------
(* Explicit maintenance: index builds, compaction, DDL and Db::checkpoint. *)

ExplicitBegin ==
    /\ at["explicit"] = "idle"
    /\ spent.explicit < MaxExplicit
    /\ spent' = [spent EXCEPT !.explicit = @ + 1]
    /\ Goto("explicit", "waitJobs")
    /\ UNCHANGED <<mutex, Lease, mergeMemory, Publications, Deltas, running,
                   lastError, refused>>

\* lock_commit_for_maintenance waits for both jobs without the mutex, a
\* recorded failure ends the call, and rechecks once it owns the mutex.
ExplicitWait ==
    /\ at["explicit"] = "waitJobs"
    /\ \A j \in Jobs : ~running[j]
    /\ Goto("explicit", IF \E j \in Jobs : lastError[j] THEN "idle"
                        ELSE "lock")
    /\ lastError' = [j \in Jobs |-> FALSE]
    /\ UNCHANGED <<mutex, Lease, mergeMemory, Publications, Deltas, running,
                   refused, spent>>

\* Mutant: no recheck after the mutex is taken.
MaintenanceStartsAnyway == TRUE

MaintenanceMayStart == frozenBytes = 0 /\ ~running["derived"]

lock_commit_for_maintenance ==
    /\ at["explicit"] = "lock"
    /\ mutex = Free
    /\ mutex' = IF MaintenanceMayStart THEN "explicit" ELSE Free
    /\ Goto("explicit", IF MaintenanceMayStart THEN "leaseFull"
                        ELSE "waitJobs")
    /\ UNCHANGED <<Lease, mergeMemory, Publications, Deltas, running,
                   lastError, refused, spent>>

\* acquire_maintenance_memory: the exclusion, then the whole pool.
ExplicitSerial ==
    /\ at["explicit"] = "leaseFull"
    /\ serial = Free
    /\ serial' = "explicit"
    /\ Goto("explicit", "reserveAll")
    /\ UNCHANGED <<mutex, leased, mergeMemory, Publications, Deltas, running,
                   lastError, refused, spent>>

ExplicitReserve ==
    /\ at["explicit"] = "reserveAll"
    /\ leased + mergeMemory + MaintenancePool <= MaintenancePool
    /\ leased' = MaintenancePool
    /\ Goto("explicit", "work")
    /\ UNCHANGED <<mutex, serial, mergeMemory, Publications, Deltas, running,
                   lastError, refused, spent>>

\* Compaction and index builds work in place; Db::checkpoint has waited for
\* the vector worker, hands its lease to a background job and waits for it.
ExplicitWork ==
    /\ at["explicit"] = "work"
    /\ mutex' = Free
    /\ \/ /\ active' = 0 /\ derived' = 0 /\ frozenDerived' = 0
          /\ set_index_delta_bytes(0)
          /\ ReleaseLease
          /\ Goto("explicit", "idle")
          /\ UNCHANGED <<frozenBytes, running, lastError>>
       \/ /\ schedule_frozen_checkpoint
          /\ serial' = "checkpoint"
          /\ at' = [at EXCEPT !["explicit"] = "flush",
                              !["checkpoint"] = "publish"]
          /\ UNCHANGED <<leased, derived, frozenDerived, lastError>>
       \/ /\ backlog = 0
          /\ schedule_frozen_derived
          /\ serial' = "derived"
          /\ at' = [at EXCEPT !["explicit"] = "flush",
                              !["derived"] = "publish"]
          /\ UNCHANGED <<leased, active, frozenBytes>>
    /\ UNCHANGED <<mergeMemory, Publications, backlog, refused, spent>>

ExplicitFlushed ==
    /\ at["explicit"] = "flush"
    /\ \A j \in Jobs : ~running[j]
    /\ lastError' = [j \in Jobs |-> FALSE]
    /\ Goto("explicit", "idle")
    /\ UNCHANGED <<mutex, Lease, mergeMemory, Publications, Deltas, running,
                   refused, spent>>

-----------------------------------------------------------------------------

CommitStep(c) ==
    \/ CommitBegin(c) \/ CommitLock(c) \/ CommitApply(c)
    \/ CommitPressure(c) \/ CommitLeaseDerived(c) \/ CommitLeaseCheckpoint(c)
    \/ CommitWait(c, "derived", "waitDerived")
    \/ CommitWait(c, "checkpoint", "waitCheckpoint")
    \/ PostCommitSkip(c) \/ PostCommitLock(c) \/ post_commit_maintenance(c)
    \/ PostCommitCheckpoint(c)

mpNext ==
    \/ \E c \in Committers : CommitStep(c)
    \/ CheckpointPublish \/ CheckpointAdopt \/ CheckpointFails
    \/ thaw_frozen_checkpoint \/ CheckpointDrop \/ CheckpointDone
    \/ DerivedPublish \/ DerivedAdopt \/ DerivedFails \/ DerivedRecharge
    \/ DerivedDone \/ VectorStep
    \/ MergeReserve \/ MergeRelease \/ MergePublication \/ MergeAdopt
    \/ ExplicitBegin \/ ExplicitWait \/ lock_commit_for_maintenance
    \/ ExplicitSerial \/ ExplicitReserve \/ ExplicitWork \/ ExplicitFlushed

mpSpec == mpInit /\ [][mpNext]_mpVars

-----------------------------------------------------------------------------
(* Properties.                                                             *)

\* The threads whose step t needs before it can move.
WaitsFor(t) ==
    CASE at[t] \in {"lock", "applied", "adopt", "thaw", "recharge", "commit"}
           -> {mutex} \ {Free}
      [] at[t] \in {"leaseDerived", "leaseCheckpoint", "leaseSoft", "leaseFull"}
           -> {serial} \ {Free}
      [] at[t] = "reserveAll" -> IF mergeMemory > 0 THEN {"merge"} ELSE {}
      [] at[t] = "waitDerived" -> IF running["derived"] THEN {"derived"} ELSE {}
      [] at[t] = "waitCheckpoint"
           -> IF running["checkpoint"] THEN {"checkpoint"} ELSE {}
      [] at[t] \in {"waitJobs", "flush"} -> {j \in Jobs : running[j]}
      [] t = "checkpoint" /\ at[t] = "publish" -> {primaryPub} \ {Free}
      [] t = "derived" /\ at[t] = "publish" -> {derivedPub} \ {Free}
      [] at[t] = "pubPrimary" -> {primaryPub} \ {Free}
      [] at[t] = "pubDerived" -> {derivedPub} \ {Free}
      [] OTHER -> {}

\* The threads that wait: no other can be in a standstill.
Waiting == {t \in AllThreads : WaitsFor(t) # {}}

\* A set of threads each of which waits for another of the set.
Standstill(S) == \A t \in S : WaitsFor(t) \cap S # {}

\* No group of committing, worker and maintenance threads ever waits for
\* itself: hard index pressure, the soft threshold, explicit maintenance and
\* run merges can always be served in some order.
NoStandstill == \A S \in (SUBSET Waiting) \ {{}} : ~Standstill(S)

\* The same, except for the commit that waits for the exclusion on behalf of
\* the derived overlays while a checkpoint owns it (commit.rs, pressure loop).
DerivedLeaseBehindCheckpoint ==
    \E c \in Committers : at[c] = "leaseDerived" /\ serial = "checkpoint"

NoOtherStandstill == DerivedLeaseBehindCheckpoint \/ NoStandstill

\* Explicit maintenance works on a database with no frozen generation and no
\* publication in flight, and it alone owns the exclusion and the pool.
MaintenanceAlone ==
    at["explicit"] = "work" =>
        /\ frozenBytes = 0
        /\ ~running["derived"]
        /\ serial = "explicit"
        /\ mergeMemory = 0
        /\ at["checkpoint"] \in {"idle", "status"}

\* A commit is refused for memory only when the pool counts nothing that could
\* be consolidated.  Two exceptions: the instant in which the checkpoint worker
\* has dropped its lease but not yet its status, and vectors queued for an
\* asynchronous index, behind which the primary delta is not frozen.
RefusedOnlyWhenDrained == refused # "bytes left"

\* Without the second exception.  The refusal says that the pool is full "after
\* consolidation" (finish_prepared_commit), and with vectors queued none of
\* the primary delta was tried: the commit neither waits for the vector worker
\* nor consolidates.
RefusedOnlyAfterConsolidation == refused \notin {"bytes left", "vectors queued"}
=============================================================================
