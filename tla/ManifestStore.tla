--------------------------- MODULE ManifestStore ---------------------------
(***************************************************************************)
(* The canonical publication protocol of manifest.rs: the two names        *)
(* `manifest` and `manifest.prev`, the renames that replace them, and the  *)
(* directory barrier that makes those renames durable; with its callers:   *)
(* a handle that writes a generation's files, publishes the generation and *)
(* removes what no manifest names, and `Db::open_with`, which loads, heals *)
(* and refreshes the pair before it serves.                                *)
(*                                                                         *)
(* A generation stands for one manifest together with the segment and WAL  *)
(* files it names; temporary files are left out, because write_synced      *)
(* completes them before any rename refers to them.                        *)
(***************************************************************************)
EXTENDS Integers, FiniteSets

CONSTANTS
    None,       \* the name does not exist
    Bad,        \* the file exists and does not decode
    MaxGen,     \* bound: generations published in one behaviour
    MaxFaults   \* bound: crashes, damages and failed system calls

Gen == 1..MaxGen

ASSUME ManifestAssumption ==
    /\ MaxGen \in Nat \ {0}
    /\ MaxFaults \in Nat
    /\ None \notin Int /\ Bad \notin Int /\ None # Bad

VARIABLES
    ns,       \* the directory as every process sees it
    disk,     \* the directories a power loss may leave behind
    files,    \* generations whose segment and WAL files exist
    pc,       \* where the handle is in publish, heal, refresh or open
    op,       \* the routine that runs the renames: publish, heal, refresh
    gen,      \* the generation being published, or the one open has loaded
    mem,      \* the generation the handle serves
    fenced,   \* Shared::canonical_error is set
    skipped,  \* some open served a directory it had no barrier for
    faults

vars == <<ns, disk, files, pc, op, gen, mem, fenced, skipped, faults>>
handle == <<files, mem, fenced, skipped>>

Slot == Gen \cup {None, Bad}
Namespace == [cur : Slot, prev : Slot]
Phase == {"down", "up", "rotate", "remove", "install", "sync", "refresh",
          "refreshSync", "check", "cleanup"}

Init ==
    /\ ns = [cur |-> 1, prev |-> 1]
    /\ disk = {ns}
    /\ files = {1}
    /\ pc = "up"
    /\ op = "publish"
    /\ gen = 1
    /\ mem = 1
    /\ fenced = FALSE
    /\ skipped = FALSE
    /\ faults = 0

-----------------------------------------------------------------------------
(* Directory operations. A rename is atomic. Until the next barrier each   *)
(* one may or may not have reached the disk, independently of the others.  *)

Renamed(n, r, g) ==
    CASE r = "rotate"  -> [cur |-> None, prev |-> g]
      [] r = "install" -> [n EXCEPT !.cur = g]
      [] r = "restore" -> [cur |-> g, prev |-> None]
      [] r = "remove"  -> [n EXCEPT !.cur = None]
      [] r = "refresh" -> [n EXCEPT !.prev = g]

Rename(r, g) ==
    /\ ns' = Renamed(ns, r, g)
    /\ disk' = disk \cup {Renamed(d, r, g) : d \in disk}

fsync_dir ==
    /\ disk' = {ns}
    /\ UNCHANGED ns

(* Manifest::load: the primary, else the fallback, else no database. *)
Load(n) == IF n.cur \in Gen THEN n.cur
           ELSE IF n.prev \in Gen THEN n.prev ELSE None

Fault == faults < MaxFaults /\ faults' = faults + 1

-----------------------------------------------------------------------------
(* Outcomes of the running routine.                                        *)

(* Err: nothing was published; open fails, a publishing handle goes on.    *)
ReturnErr ==
    /\ pc' = IF op = "publish" THEN "up" ELSE "down"
    /\ gen' = mem
    /\ UNCHANGED <<op, handle>>

(* Mutant: a publication whose barrier failed does not fence the handle. *)
ReturnSyncFailedUnfenced ==
    /\ IF op = "publish" THEN pc' = "up" /\ mem' = gen ELSE pc' = "down" /\ UNCHANGED mem
    /\ UNCHANGED <<op, gen, files, fenced, skipped>>

(* SyncFailed: the publishing handle adopts the generation, fences further *)
(* writes and removes nothing; open returns an error.                      *)
ReturnSyncFailed ==
    /\ IF op = "publish"
       THEN pc' = "up" /\ mem' = gen /\ fenced' = TRUE
       ELSE pc' = "down" /\ UNCHANGED <<mem, fenced>>
    /\ UNCHANGED <<op, gen, files, skipped>>

ReturnComplete ==
    /\ pc' = IF op = "heal" THEN "check" ELSE "cleanup"
    /\ mem' = gen
    /\ UNCHANGED <<op, gen, files, fenced, skipped>>

-----------------------------------------------------------------------------
(* Manifest::publish, with the checkpoint or DDL around it.                *)

(* Mutant: the manifest is published before the files it names exist. *)
StartPublishEarly ==
    /\ pc = "up" /\ ~fenced /\ mem < MaxGen
    /\ gen' = mem + 1 /\ op' = "publish" /\ pc' = "rotate"
    /\ UNCHANGED <<ns, disk, files, mem, fenced, skipped, faults>>

(* The caller writes the next generation's files before the manifest that  *)
(* references them.                                                        *)
StartPublish ==
    /\ pc = "up" /\ ~fenced /\ mem < MaxGen
    /\ gen' = mem + 1
    /\ files' = files \cup {gen'}
    /\ op' = "publish"
    /\ pc' = "rotate"
    /\ UNCHANGED <<ns, disk, mem, fenced, skipped, faults>>

Rotate ==
    /\ pc = "rotate"
    /\ pc' = "install"
    /\ IF ns.cur # None THEN Rename("rotate", ns.cur) ELSE UNCHANGED <<ns, disk>>
    /\ UNCHANGED <<op, gen, handle, faults>>

(* The temporary file cannot be written, or the rotation fails. *)
RotateFails ==
    /\ pc = "rotate"
    /\ Fault
    /\ ReturnErr
    /\ UNCHANGED <<ns, disk>>

Install ==
    /\ pc = "install"
    /\ Rename("install", gen)
    /\ pc' = "sync"
    /\ UNCHANGED <<op, gen, handle, faults>>

(* The rename onto `manifest` fails. publish tries to put the fallback     *)
(* back under its old name; that rename and its barrier may fail unseen.   *)
Restored ==
    LET put == Renamed(ns, "restore", ns.prev)
    IN  /\ ns' = put
        /\ \/ disk' = {put}
           \/ disk' = disk \cup {Renamed(d, "restore", ns.prev) : d \in disk}

InstallFails ==
    /\ pc = "install"
    /\ Fault
    /\ \/ op = "publish" /\ ns.prev # None /\ (Restored \/ fsync_dir)
       \/ UNCHANGED <<ns, disk>>
    /\ ReturnErr

Sync ==
    /\ pc = "sync"
    /\ fsync_dir
    /\ pc' = "refresh"
    /\ UNCHANGED <<op, gen, handle, faults>>

Refresh ==
    /\ pc = "refresh"
    /\ Rename("refresh", gen)
    /\ pc' = "refreshSync"
    /\ UNCHANGED <<op, gen, handle, faults>>

RefreshSync ==
    /\ pc = "refreshSync"
    /\ fsync_dir
    /\ ReturnComplete
    /\ UNCHANGED faults

(* A failed barrier, or a failed write or rename of the fallback. *)
BarrierFails ==
    /\ pc \in {"sync", "refresh", "refreshSync"}
    /\ Fault
    /\ ReturnSyncFailed
    /\ UNCHANGED <<ns, disk>>

(* cleanup_orphans: keep what the manifest and the fallback name. *)
Cleanup ==
    /\ pc = "cleanup"
    /\ files' = files \cap {gen, ns.prev}
    /\ pc' = "up"
    /\ mem' = gen
    /\ op' = "publish"
    /\ UNCHANGED <<ns, disk, gen, fenced, skipped, faults>>

-----------------------------------------------------------------------------
(* Db::open_with up to the point where the handle accepts work.            *)

(* Mutant: a primary that exists is taken without being decoded. *)
OpenUndecoded ==
    /\ pc = "down" /\ ns.cur # None
    /\ gen' = ns.cur /\ pc' = "check" /\ op' = "refresh" /\ fenced' = FALSE
    /\ UNCHANGED <<ns, disk, files, mem, skipped, faults>>

(* Load, check that the generation's files are there, heal if the fallback *)
(* was used.                                                               *)
Open ==
    /\ pc = "down"
    /\ Load(ns) \in files
    /\ gen' = Load(ns)
    /\ IF ns.cur \in Gen THEN pc' = "check" /\ op' = "refresh"
                         ELSE pc' = "remove" /\ op' = "heal"
    /\ fenced' = FALSE
    /\ UNCHANGED <<ns, disk, files, mem, skipped, faults>>

(* Mutant: heal rotates the unreadable primary, as publish does. *)
RemoveByRotation ==
    /\ pc = "remove" /\ pc' = "install"
    /\ IF ns.cur # None THEN Rename("rotate", ns.cur) ELSE UNCHANGED <<ns, disk>>
    /\ UNCHANGED <<op, gen, handle, faults>>

(* heal deletes the unreadable primary and never rotates it. *)
Remove ==
    /\ pc = "remove"
    /\ pc' = "install"
    /\ IF ns.cur # None THEN Rename("remove", None) ELSE UNCHANGED <<ns, disk>>
    /\ UNCHANGED <<op, gen, handle, faults>>

RemoveFails ==
    /\ pc = "remove" /\ ns.cur # None
    /\ Fault
    /\ ReturnErr
    /\ UNCHANGED <<ns, disk>>

(* The fallback is rewritten, behind a barrier, unless it already holds    *)
(* the loaded generation.                                                  *)
CheckPrevious ==
    /\ pc = "check"
    /\ op' = "refresh"
    /\ IF ns.prev # gen
       THEN pc' = "refresh" /\ UNCHANGED skipped
       ELSE pc' = "cleanup" /\ skipped' = (skipped \/ disk # {ns})
    /\ UNCHANGED <<ns, disk, files, gen, mem, fenced, faults>>

-----------------------------------------------------------------------------
(* The environment.                                                        *)

Close ==
    /\ pc = "up"
    /\ pc' = "down"
    /\ UNCHANGED <<ns, disk, op, gen, handle, faults>>

(* The process dies: the operating system keeps every rename it was given. *)
Kill ==
    /\ pc # "down"
    /\ Fault
    /\ pc' = "down"
    /\ UNCHANGED <<ns, disk, op, gen, handle>>

(* The machine dies: each rename since the last barrier may be gone. *)
PowerLoss ==
    /\ Fault
    /\ \E d \in disk : ns' = d /\ disk' = {d}
    /\ pc' = "down"
    /\ UNCHANGED <<op, gen, handle>>

(* One of two good copies becomes unreadable while the database is closed. *)
Damage ==
    /\ pc = "down" /\ disk = {ns}
    /\ ns.cur \in Gen /\ ns.prev = ns.cur
    /\ Fault
    /\ \/ ns' = [ns EXCEPT !.cur = Bad]
       \/ ns' = [ns EXCEPT !.prev = Bad]
    /\ disk' = {ns'}
    /\ UNCHANGED <<pc, op, gen, handle>>

Next ==
    \/ StartPublish \/ Rotate \/ RotateFails \/ Install \/ InstallFails
    \/ Sync \/ Refresh \/ RefreshSync \/ BarrierFails \/ Cleanup
    \/ Open \/ Remove \/ RemoveFails \/ CheckPrevious
    \/ Close \/ Kill \/ PowerLoss \/ Damage

Spec == Init /\ [][Next]_vars

-----------------------------------------------------------------------------
TypeOK ==
    /\ ns \in Namespace
    /\ disk \subseteq Namespace
    /\ files \subseteq Gen
    /\ pc \in Phase
    /\ op \in {"publish", "heal", "refresh"}
    /\ gen \in Gen
    /\ mem \in Gen
    /\ fenced \in BOOLEAN
    /\ skipped \in BOOLEAN
    /\ faults \in Nat

(* Whatever subset of the renames a power loss keeps, at any point of      *)
(* publish, heal, refresh_previous or open, Manifest::load still finds a   *)
(* copy that decodes.                                                      *)
AlwaysLoadable == \A d \in disk : Load(d) # None

(* A handle that accepts writes serves the generation that every power     *)
(* loss would load: an acknowledged publication is never rolled back, and  *)
(* a failed one is never resurrected.                                      *)
ServedIsDurable ==
    pc = "up" /\ ~fenced /\ ~skipped => \A d \in disk : Load(d) = mem

(* cleanup_orphans never removes the files of a generation that a power    *)
(* loss could still make the current one, and publication never refers to  *)
(* files that are not there.                                               *)
FilesOf(d) == Load(d) \in files
NoDanglingManifest == ~skipped => \A d \in disk : FilesOf(d)

(* docs/disk-format.md: "Obsolete WALs are removed only after canonical    *)
(* publication is durable", with no exception for an open that finds the   *)
(* fallback already equal to the manifest.                                 *)
ObsoleteFilesRemovedOnlyWhenDurable == \A d \in disk : FilesOf(d)
=============================================================================
