--------------------------- MODULE StorageProofs ----------------------------
(***************************************************************************)
(* Proofs about the manifest publication (ManifestStore) and about the     *)
(* threads that maintain the store (MaintenanceProtocol), for every number *)
(* of generations, faults, committing threads, pool sizes and bounds.      *)
(*                                                                         *)
(* A published manifest is durable, loadable and never names a removed     *)
(* file. Explicit maintenance works alone; a commit is refused for memory  *)
(* with bytes left to consolidate only while a checkpoint worker clears    *)
(* its flag or vectors are queued; and no circle of waiting threads closes *)
(* but through the one wait that the run lease_deadlock shows.             *)
(***************************************************************************)
EXTENDS ManifestStore, MaintenanceProtocol, TLAPS

-----------------------------------------------------------------------------
(* The manifest.                                                           *)

(* The two names: every directory a power loss may leave holds a readable  *)
(* copy, and an unreadable primary is there only when nothing is pending.  *)
Directory ==
    /\ ns \in disk
    /\ \A d \in disk : d.cur \in Gen \/ d.prev \in Gen
    /\ ns.cur = Bad => disk = {ns}

(* What each phase of publish, heal and open knows of the names. *)
Phases ==
    /\ pc \in {"check", "remove"} => op # "publish"
    /\ pc \in {"up", "rotate"} => op = "publish"
    /\ pc # "down" /\ op = "publish" => ns.cur # Bad /\ ns.prev # Bad
    /\ pc = "remove" => ns.cur \notin Gen
    /\ pc = "install" => ns.cur = None
    /\ pc \in {"sync", "refresh", "refreshSync", "check", "cleanup"} => ns.cur = gen
    /\ pc \in {"refreshSync", "cleanup"} => ns.prev = gen
    /\ pc \notin {"down", "up"} => gen \in files

(* The handle has not begun to install the next generation. *)
Serving == pc \in {"up", "rotate"} \/ (pc = "install" /\ op = "publish")

(* What is served, and what is about to be, is what every power loss loads.*)
Settled ==
    /\ pc = "cleanup" /\ ~skipped => disk = {ns}
    /\ Serving /\ ~fenced /\ ~skipped => \A d \in disk : Load(d) = mem

(* The inductive invariant. *)
IInv == TypeOK /\ Directory /\ Phases /\ Settled /\ NoDanglingManifest

-----------------------------------------------------------------------------
(* What the directory operations do, per rename. *)
LEMMA RenamedCases ==
    ASSUME NEW n \in Namespace, NEW g
    PROVE  /\ Renamed(n, "rotate", g) = [cur |-> None, prev |-> g]
           /\ Renamed(n, "install", g) = [cur |-> g, prev |-> n.prev]
           /\ Renamed(n, "restore", g) = [cur |-> g, prev |-> None]
           /\ Renamed(n, "remove", g) = [cur |-> None, prev |-> n.prev]
           /\ Renamed(n, "refresh", g) = [cur |-> n.cur, prev |-> g]
BY DEF Renamed, Namespace

(* Neither mark of an unusable file is a generation. *)
LEMMA MarksAreNotGenerations ==
    None \notin Gen /\ Bad \notin Gen /\ None # Bad /\ Gen \subseteq Int
BY ManifestAssumption DEF Gen

(* The initial directory satisfies the invariant. *)
LEMMA InitIInv == Init => IInv
<1> SUFFICES ASSUME Init PROVE IInv
  OBVIOUS
<1>1. 1 \in Gen
  BY ManifestAssumption DEF Gen
<1>2. ns = [cur |-> 1, prev |-> 1] /\ disk = {ns} /\ Load(ns) = 1
  BY <1>1 DEF Init, Load
<1>3. TypeOK
  <2>1. ns \in Namespace /\ disk \subseteq Namespace
    BY <1>1, <1>2 DEF Namespace, Slot
  <2>2. pc \in Phase /\ op \in {"publish", "heal", "refresh"}
    BY DEF Init, Phase
  <2>3. fenced \in BOOLEAN /\ skipped \in BOOLEAN
    BY Zenon DEF Init
  <2>4. files \subseteq Gen /\ gen \in Gen /\ mem \in Gen /\ faults \in Nat
    BY <1>1 DEF Init
  <2> QED
    BY <2>1, <2>2, <2>3, <2>4 DEF TypeOK
<1>4. Directory /\ Phases
  BY <1>1, <1>2, MarksAreNotGenerations DEF Init, Directory, Phases
<1>5. Settled
  BY <1>2 DEF Init, Settled
<1>6. NoDanglingManifest
  BY <1>2 DEF Init, NoDanglingManifest, FilesOf
<1> QED
  BY <1>3, <1>4, <1>5, <1>6 DEF IInv

(* Every step of publish, heal, open and of the environment preserves the  *)
(* invariant: one step per action, one per part of the invariant below it. *)
LEMMA NextIInv == IInv /\ [Next]_vars => IInv'
<1> SUFFICES ASSUME IInv, [Next]_vars PROVE IInv'
  OBVIOUS
<1> USE MarksAreNotGenerations DEF IInv
<1>1. CASE StartPublish
  <2>1. TypeOK'
    BY <1>1, ManifestAssumption DEF StartPublish, TypeOK, Phase, Gen
  <2>2. Directory'
    BY <1>1 DEF StartPublish, Directory
  <2>3. Phases'
    BY <1>1 DEF StartPublish, TypeOK, Directory, Phases
  <2>4. Settled'
    BY <1>1
       DEF StartPublish, TypeOK, Directory, Phases, Settled, Serving,
           Load
  <2>5. NoDanglingManifest'
    BY <1>1 DEF StartPublish, NoDanglingManifest, FilesOf
  <2> QED
    BY <2>1, <2>2, <2>3, <2>4, <2>5
<1>2. CASE Rotate
  <2>1. CASE ns.cur = None
    <3> ns' = ns /\ disk' = disk
      BY <1>2, <2>1 DEF Rotate
    <3> QED
      BY <1>2, <2>1
         DEF Rotate, handle, TypeOK, Directory, Phases, Phase, Serving,
             Settled, NoDanglingManifest, FilesOf
  <2>2. CASE ns.cur # None
    <3>0. ns.cur \in Gen /\ Load(ns) = ns.cur
      BY <1>2, <2>2 DEF Rotate, TypeOK, Namespace, Slot, Phases, Load
    <3> DEFINE new == [cur |-> None, prev |-> ns.cur]
    <3>1. ns' = new /\ disk' = disk \cup {new} /\ Load(new) = ns.cur
      BY <1>2, <2>2, <3>0, RenamedCases DEF Rotate, Rename, Directory, TypeOK, Load
    <3>2. TypeOK'
      BY <1>2, <3>0, <3>1 DEF Rotate, handle, TypeOK, Namespace, Slot, Phase
    <3>3. Directory' /\ Phases'
      BY <1>2, <3>0, <3>1 DEF Rotate, handle, Directory, Phases
    <3>4. Settled'
      BY <1>2, <3>0, <3>1 DEF Rotate, handle, Directory, Phases, Serving, Settled
    <3>5. NoDanglingManifest'
      BY <1>2, <3>0, <3>1 DEF Rotate, handle, Directory, NoDanglingManifest, FilesOf
    <3> QED
      BY <3>2, <3>3, <3>4, <3>5
  <2> QED
    BY <2>1, <2>2
<1>3. CASE RotateFails
  <2>1. TypeOK'
    BY <1>3 DEF RotateFails, Fault, ReturnErr, handle, TypeOK, Phase
  <2>2. Directory'
    BY <1>3 DEF RotateFails, ReturnErr, handle, Directory
  <2>3. Phases'
    BY <1>3
       DEF RotateFails, ReturnErr, handle, TypeOK, Directory, Phases
  <2>4. Settled'
    BY <1>3
       DEF RotateFails, ReturnErr, handle, TypeOK, Directory, Phases,
           Settled, Serving, Load
  <2>5. NoDanglingManifest'
    BY <1>3
       DEF RotateFails, ReturnErr, handle, NoDanglingManifest, FilesOf
  <2> QED
    BY <2>1, <2>2, <2>3, <2>4, <2>5
<1>4. CASE Install
  <2>1. TypeOK'
    BY <1>4, RenamedCases
       DEF Install, Rename, handle, TypeOK, Namespace, Slot, Phase
  <2>2. Directory'
    BY <1>4, RenamedCases
       DEF Install, Rename, handle, TypeOK, Directory, Phases
  <2>3. Phases'
    BY <1>4, RenamedCases
       DEF Install, Rename, handle, TypeOK, Directory, Phases
  <2>4. Settled'
    BY <1>4, RenamedCases
       DEF Install, Rename, handle, TypeOK, Directory, Phases, Settled,
           Serving, Load
  <2>5. NoDanglingManifest'
    BY <1>4, RenamedCases
       DEF Install, Rename, handle, TypeOK, Directory, Phases, Settled,
           NoDanglingManifest, FilesOf, Load
  <2> QED
    BY <2>1, <2>2, <2>3, <2>4, <2>5
<1>5. CASE InstallFails
  <2>1. TypeOK'
    BY <1>5, RenamedCases
       DEF InstallFails, Fault, ReturnErr, Restored, fsync_dir, handle,
           TypeOK, Namespace, Slot, Phase
  <2>2. Directory'
    BY <1>5, RenamedCases
       DEF InstallFails, ReturnErr, Restored, fsync_dir, handle, TypeOK,
           Directory, Phases
  <2>3. Phases'
    BY <1>5, RenamedCases
       DEF InstallFails, ReturnErr, Restored, fsync_dir, handle, TypeOK,
           Directory, Phases
  <2>4. Settled'
    BY <1>5, RenamedCases
       DEF InstallFails, ReturnErr, Restored, fsync_dir, handle, TypeOK,
           Directory, Phases, Settled, Serving, Load
  <2>5. NoDanglingManifest'
    BY <1>5, RenamedCases
       DEF InstallFails, ReturnErr, Restored, fsync_dir, handle, TypeOK,
           Directory, Phases, Settled, NoDanglingManifest, FilesOf, Load
  <2> QED
    BY <2>1, <2>2, <2>3, <2>4, <2>5
<1>6. CASE Sync
  <2>1. TypeOK'
    BY <1>6 DEF Sync, fsync_dir, handle, TypeOK, Phase
  <2>2. Directory'
    BY <1>6 DEF Sync, fsync_dir, handle, TypeOK, Directory, Phases
  <2>3. Phases'
    BY <1>6 DEF Sync, fsync_dir, handle, TypeOK, Directory, Phases
  <2>4. Settled'
    BY <1>6
       DEF Sync, fsync_dir, handle, TypeOK, Directory, Phases, Settled,
           Serving, Load
  <2>5. NoDanglingManifest'
    BY <1>6
       DEF Sync, fsync_dir, handle, TypeOK, Directory, Phases, Settled,
           NoDanglingManifest, FilesOf, Load
  <2> QED
    BY <2>1, <2>2, <2>3, <2>4, <2>5
<1>7. CASE Refresh
  <2>1. TypeOK'
    BY <1>7, RenamedCases
       DEF Refresh, Rename, handle, TypeOK, Namespace, Slot, Phase
  <2>2. Directory'
    BY <1>7, RenamedCases
       DEF Refresh, Rename, handle, TypeOK, Directory, Phases
  <2>3. Phases'
    BY <1>7, RenamedCases
       DEF Refresh, Rename, handle, TypeOK, Directory, Phases
  <2>4. Settled'
    BY <1>7, RenamedCases
       DEF Refresh, Rename, handle, TypeOK, Directory, Phases, Settled,
           Serving, Load
  <2>5. NoDanglingManifest'
    BY <1>7, RenamedCases
       DEF Refresh, Rename, handle, TypeOK, Directory, Phases, Settled,
           NoDanglingManifest, FilesOf, Load
  <2> QED
    BY <2>1, <2>2, <2>3, <2>4, <2>5
<1>8. CASE RefreshSync
  <2>1. TypeOK'
    BY <1>8 DEF RefreshSync, fsync_dir, ReturnComplete, TypeOK, Phase
  <2>2. Directory'
    BY <1>8
       DEF RefreshSync, fsync_dir, ReturnComplete, TypeOK, Directory,
           Phases
  <2>3. Phases'
    BY <1>8
       DEF RefreshSync, fsync_dir, ReturnComplete, TypeOK, Directory,
           Phases
  <2>4. Settled'
    BY <1>8
       DEF RefreshSync, fsync_dir, ReturnComplete, TypeOK, Directory,
           Phases, Settled, Serving, Load
  <2>5. NoDanglingManifest'
    BY <1>8
       DEF RefreshSync, fsync_dir, ReturnComplete, TypeOK, Directory,
           Phases, Settled, NoDanglingManifest, FilesOf, Load
  <2> QED
    BY <2>1, <2>2, <2>3, <2>4, <2>5
<1>9. CASE BarrierFails
  <2>1. TypeOK'
    <3>1. fenced' \in BOOLEAN
      BY <1>9, Zenon DEF BarrierFails, ReturnSyncFailed, TypeOK
    <3> QED
      BY <1>9, <3>1 DEF BarrierFails, Fault, ReturnSyncFailed, TypeOK, Phase
  <2>2. Directory'
    BY <1>9 DEF BarrierFails, ReturnSyncFailed, Directory
  <2>3. Phases'
    BY <1>9
       DEF BarrierFails, ReturnSyncFailed, TypeOK, Directory, Phases
  <2>4. Settled'
    BY <1>9
       DEF BarrierFails, ReturnSyncFailed, TypeOK, Directory, Phases,
           Settled, Serving, Load
  <2>5. NoDanglingManifest'
    BY <1>9
       DEF BarrierFails, ReturnSyncFailed, NoDanglingManifest, FilesOf
  <2> QED
    BY <2>1, <2>2, <2>3, <2>4, <2>5
<1>10. CASE Cleanup
  <2>1. TypeOK'
    BY <1>10, Zenon DEF Cleanup, TypeOK, Phase
  <2>2. Directory'
    BY <1>10 DEF Cleanup, Directory
  <2>3. Phases'
    BY <1>10 DEF Cleanup, TypeOK, Directory, Phases
  <2>4. Settled'
    BY <1>10
       DEF Cleanup, TypeOK, Directory, Phases, Settled, Serving, Load
  <2>5. NoDanglingManifest'
    BY <1>10
       DEF Cleanup, TypeOK, Directory, Phases, Settled,
           NoDanglingManifest, FilesOf, Load
  <2> QED
    BY <2>1, <2>2, <2>3, <2>4, <2>5
<1>11. CASE Open
  <2>1. TypeOK'
    BY <1>11, Zenon DEF Open, TypeOK, Phase, Load
  <2>2. Directory'
    BY <1>11 DEF Open, Directory
  <2>3. Phases'
    BY <1>11 DEF Open, TypeOK, Directory, Phases, Load
  <2>4. Settled'
    BY <1>11 DEF Open, Settled, Serving
  <2>5. NoDanglingManifest'
    BY <1>11 DEF Open, NoDanglingManifest, FilesOf
  <2> QED
    BY <2>1, <2>2, <2>3, <2>4, <2>5
<1>12. CASE Remove
  <2>1. CASE ns.cur = None
    <3> ns' = ns /\ disk' = disk
      BY <1>12, <2>1 DEF Remove
    <3> QED
      BY <1>12, <2>1
         DEF Remove, handle, TypeOK, Directory, Phases, Phase, Serving,
             Settled, NoDanglingManifest, FilesOf
  <2>2. CASE ns.cur # None
    <3>0. ns.cur = Bad /\ disk = {ns} /\ ns.prev \in Gen /\ Load(ns) = ns.prev
      BY <1>12, <2>2 DEF Remove, TypeOK, Namespace, Slot, Phases, Directory, Load
    <3> DEFINE new == [cur |-> None, prev |-> ns.prev]
    <3>1. ns' = new /\ disk' = {ns, new} /\ Load(new) = ns.prev
      BY <1>12, <2>2, <3>0, RenamedCases DEF Remove, Rename, TypeOK, Load
    <3>2. TypeOK'
      BY <1>12, <3>0, <3>1 DEF Remove, handle, TypeOK, Namespace, Slot, Phase
    <3>3. Directory' /\ Phases'
      BY <1>12, <3>0, <3>1 DEF Remove, handle, Directory, Phases
    <3>4. Settled'
      BY <1>12, <3>0, <3>1 DEF Remove, handle, Phases, Serving, Settled
    <3>5. NoDanglingManifest'
      BY <1>12, <3>0, <3>1 DEF Remove, handle, NoDanglingManifest, FilesOf
    <3> QED
      BY <3>2, <3>3, <3>4, <3>5
  <2> QED
    BY <2>1, <2>2
<1>13. CASE RemoveFails
  <2>1. TypeOK'
    BY <1>13 DEF RemoveFails, Fault, ReturnErr, handle, TypeOK, Phase
  <2>2. Directory'
    BY <1>13 DEF RemoveFails, ReturnErr, handle, Directory
  <2>3. Phases'
    BY <1>13
       DEF RemoveFails, ReturnErr, handle, TypeOK, Directory, Phases
  <2>4. Settled'
    BY <1>13 DEF RemoveFails, ReturnErr, handle, Phases, Settled, Serving
  <2>5. NoDanglingManifest'
    BY <1>13
       DEF RemoveFails, ReturnErr, handle, NoDanglingManifest, FilesOf
  <2> QED
    BY <2>1, <2>2, <2>3, <2>4, <2>5
<1>14. CASE CheckPrevious
  <2>1. TypeOK'
    BY <1>14, Zenon DEF CheckPrevious, TypeOK, Phase
  <2>2. Directory'
    BY <1>14 DEF CheckPrevious, Directory
  <2>3. Phases'
    BY <1>14 DEF CheckPrevious, TypeOK, Directory, Phases
  <2>4. Settled'
    BY <1>14, Zenon
       DEF CheckPrevious, TypeOK, Directory, Phases, Settled, Serving,
           Load
  <2>5. NoDanglingManifest'
    BY <1>14, Zenon DEF CheckPrevious, NoDanglingManifest, FilesOf
  <2> QED
    BY <2>1, <2>2, <2>3, <2>4, <2>5
<1>15. CASE Close
  <2>1. TypeOK'
    BY <1>15 DEF Close, handle, TypeOK, Phase
  <2>2. Directory'
    BY <1>15 DEF Close, handle, Directory
  <2>3. Phases'
    BY <1>15 DEF Close, handle, TypeOK, Directory, Phases
  <2>4. Settled'
    BY <1>15 DEF Close, handle, Settled, Serving
  <2>5. NoDanglingManifest'
    BY <1>15 DEF Close, handle, NoDanglingManifest, FilesOf
  <2> QED
    BY <2>1, <2>2, <2>3, <2>4, <2>5
<1>16. CASE Kill
  <2>1. TypeOK'
    BY <1>16 DEF Kill, Fault, handle, TypeOK, Phase
  <2>2. Directory'
    BY <1>16 DEF Kill, handle, Directory
  <2>3. Phases'
    BY <1>16 DEF Kill, handle, TypeOK, Directory, Phases
  <2>4. Settled'
    BY <1>16 DEF Kill, handle, Settled, Serving
  <2>5. NoDanglingManifest'
    BY <1>16 DEF Kill, handle, NoDanglingManifest, FilesOf
  <2> QED
    BY <2>1, <2>2, <2>3, <2>4, <2>5
<1>17. CASE PowerLoss
  <2>1. TypeOK'
    BY <1>17 DEF PowerLoss, Fault, handle, TypeOK, Phase
  <2>2. Directory'
    BY <1>17 DEF PowerLoss, handle, TypeOK, Directory, Phases
  <2>3. Phases'
    BY <1>17 DEF PowerLoss, handle, TypeOK, Directory, Phases
  <2>4. Settled'
    BY <1>17 DEF PowerLoss, handle, Settled, Serving
  <2>5. NoDanglingManifest'
    BY <1>17 DEF PowerLoss, handle, NoDanglingManifest, FilesOf
  <2> QED
    BY <2>1, <2>2, <2>3, <2>4, <2>5
<1>18. CASE Damage
  <2>1. ns \in Namespace /\ ns.cur \in Gen /\ ns.prev = ns.cur /\ Load(ns) = ns.cur
    BY <1>18 DEF Damage, TypeOK, Load
  <2>2. PICK new \in {[cur |-> Bad, prev |-> ns.prev], [cur |-> ns.cur, prev |-> Bad]} :
            ns' = new /\ disk' = {new}
    BY <1>18, <2>1 DEF Damage, Namespace
  <2>3. new \in Namespace /\ Load(new) = ns.cur
        /\ (new.cur \in Gen \/ new.prev \in Gen)
    BY <2>1, <2>2 DEF Namespace, Slot, Load
  <2>4. TypeOK'
    BY <1>18, <2>2, <2>3 DEF Damage, Fault, handle, TypeOK
  <2>5. Directory' /\ Phases'
    BY <1>18, <2>2, <2>3 DEF Damage, handle, Directory, Phases
  <2>6. Settled'
    BY <1>18 DEF Damage, handle, Serving, Settled
  <2>7. NoDanglingManifest'
    BY <1>18, <2>1, <2>2, <2>3 DEF Damage, handle, Directory, NoDanglingManifest, FilesOf
  <2> QED
    BY <2>4, <2>5, <2>6, <2>7
<1>19. CASE UNCHANGED vars
  BY <1>19 DEF vars, TypeOK, Directory, Phases, Serving, Settled,
               NoDanglingManifest, FilesOf
<1> QED
  BY <1>1, <1>2, <1>3, <1>4, <1>5, <1>6, <1>7, <1>8, <1>9, <1>10, <1>11,
     <1>12, <1>13, <1>14, <1>15, <1>16, <1>17, <1>18, <1>19 DEF Next

-----------------------------------------------------------------------------
(* The invariant gives the four properties the runs check. *)
LEMMA IInvImplies ==
    IInv => TypeOK /\ AlwaysLoadable /\ ServedIsDurable /\ NoDanglingManifest
<1> SUFFICES ASSUME IInv PROVE AlwaysLoadable /\ ServedIsDurable
  BY DEF IInv
<1>1. AlwaysLoadable
  BY MarksAreNotGenerations DEF IInv, Directory, AlwaysLoadable, Load
<1>2. ServedIsDurable
  BY DEF IInv, Settled, Serving, ServedIsDurable
<1> QED
  BY <1>1, <1>2

(* The invariant holds throughout every behaviour. *)
LEMMA IInvAlways == Spec => []IInv
BY InitIInv, NextIInv, PTL DEF Spec

(* The names, the phases and the generations keep their types through every*)
(* publish, heal, open and crash.                                          *)
THEOREM TypeCorrect == Spec => []TypeOK
BY IInvAlways, IInvImplies, PTL

(* At every step of Manifest::publish, heal and refresh_previous, whatever *)
(* subset of the pending renames a power loss keeps, Manifest::load finds  *)
(* a copy that decodes.                                                    *)
THEOREM ManifestAlwaysLoadable == Spec => []AlwaysLoadable
BY IInvAlways, IInvImplies, PTL

(* A handle that accepts writes serves exactly the generation that every   *)
(* power loss would load, unless some open skipped its barrier.            *)
THEOREM PublicationIsDurable == Spec => []ServedIsDurable
BY IInvAlways, IInvImplies, PTL

(* cleanup_orphans never removes files that a manifest surviving a power   *)
(* loss names, unless some open skipped its barrier.                       *)
THEOREM FilesOutliveManifests == Spec => []NoDanglingManifest
BY IInvAlways, IInvImplies, PTL

-----------------------------------------------------------------------------
(* Who works, and what it owns.                                            *)

\* The program counters at which a thread owns the commit mutex.
CommitHolds == {"validated", "leaseDerived", "leaseCheckpoint", "post", "leaseSoft"}
ExplicitHolds == {"leaseFull", "reserveAll", "work"}

Pcs == {"idle", "lock", "validated", "applied", "leaseDerived", "leaseCheckpoint",
        "waitDerived", "waitCheckpoint", "post", "leaseSoft", "publish", "adopt",
        "drop", "thaw", "status", "recharge", "built", "pubPrimary", "pubDerived",
        "commit", "waitJobs", "leaseFull", "reserveAll", "work", "flush"}

PcType == at \in [AllThreads -> Pcs]

CountType ==
    /\ leased \in Nat /\ mergeMemory \in Nat
    /\ active \in Nat /\ frozenBytes \in Nat /\ derived \in Nat /\ frozenDerived \in Nat
    /\ backlog \in Nat /\ charged \in Nat

FlagType == running \in [Jobs -> BOOLEAN] /\ lastError \in [Jobs -> BOOLEAN]

\* Who owns the commit mutex and the exclusion can be told from the program
\* counters.
OwnerInv ==
    /\ \A c \in Committers : at[c] \in CommitHolds => mutex = c
    /\ at["explicit"] \in ExplicitHolds => mutex = "explicit"
    /\ at["checkpoint"] \in {"publish", "adopt", "drop"} => serial = "checkpoint"
    /\ at["derived"] \in {"publish", "adopt"} => serial = "derived"
    /\ at["explicit"] \in {"reserveAll", "work"} => serial = "explicit"

\* A job's flag covers its whole life, and a frozen generation has a
\* checkpoint that will adopt or thaw it.
JobInv ==
    /\ at["checkpoint"] \in {"idle", "publish", "adopt", "thaw", "drop", "status"}
    /\ running["checkpoint"] <=> at["checkpoint"] # "idle"
    /\ running["derived"] <=> at["derived"] # "idle"
    /\ frozenBytes > 0 <=> at["checkpoint"] \in {"publish", "adopt", "thaw"}

\* What the owner of the mutex found out stays true while it owns it.
HeldInv ==
    /\ at["explicit"] \in ExplicitHolds => frozenBytes = 0 /\ ~running["derived"]
    /\ at["explicit"] = "work" => leased = MaintenancePool /\ mergeMemory = 0
    /\ \A c \in Committers : at[c] = "leaseCheckpoint" =>
         /\ ~running["derived"] /\ frozenDerived = 0 /\ frozenBytes = 0
         /\ active = 0 => charged = 0

\* What the pool counts beyond the overlays comes from commits whose rows the
\* active delta still holds.
PoolInv == active = 0 => charged <= derived + frozenDerived

MInv == PcType /\ CountType /\ FlagType /\ OwnerInv /\ JobInv /\ HeldInv /\ RefusedOnlyWhenDrained

\* The invariant holds when nothing runs.
LEMMA InitMInv == ASSUME Setting, mpInit PROVE MInv
BY DEF Setting, mpInit, MInv, PcType, Pcs, CountType, FlagType, OwnerInv, JobInv, HeldInv,
       AllThreads, Workers, Jobs, CommitHolds, ExplicitHolds, RefusedOnlyWhenDrained

\* The steps of a committing thread preserve it: what a commit publishes or
\* freezes it publishes or freezes as the owner of the mutex.
LEMMA CommitMInv ==
    ASSUME Setting, MInv, PoolInv, NEW c \in Committers, CommitStep(c) PROVE MInv'
<1> USE DEF Jobs, Goto, Lease, Publications, Deltas, LockCommit, UnlockCommit,
            ReleaseLease, set_index_delta_bytes, Free
<1>0. /\ PcType /\ CountType /\ FlagType /\ OwnerInv /\ JobInv /\ HeldInv
      /\ RefusedOnlyWhenDrained
      /\ \A d \in Committers : /\ d \in AllThreads /\ d # Free /\ d # "checkpoint"
                               /\ d # "derived" /\ d # "merge" /\ d # "explicit"
      /\ {"checkpoint", "derived", "merge", "explicit"} \subseteq AllThreads
  BY DEF MInv, Setting, AllThreads, Workers
<1>1. CASE CommitBegin(c)
  <2>1. CASE at' = at
    <3>1. PcType' /\ CountType' /\ FlagType'
      BY <1>0, <1>1, <2>1, Zenon DEF CommitBegin, PcType, Pcs, CountType, FlagType,
         Setting
    <3>2. OwnerInv' /\ JobInv'
      BY <1>0, <1>1, <2>1 DEF CommitBegin, OwnerInv, JobInv, CommitHolds,
         ExplicitHolds, PcType, CountType, FlagType
    <3>3. HeldInv' /\ RefusedOnlyWhenDrained'
      BY <1>0, <1>1, <2>1, Zenon DEF CommitBegin, HeldInv, OwnerInv, JobInv,
         CommitHolds, ExplicitHolds, PcType, CountType, FlagType, Setting,
         RefusedOnlyWhenDrained
    <3>4. QED
      BY <3>1, <3>2, <3>3 DEF MInv
  <2>2. CASE at' = [at EXCEPT ![c] = "lock"]
    <3>1. PcType' /\ CountType' /\ FlagType'
      BY <1>0, <1>1, <2>2 DEF CommitBegin, PcType, Pcs, CountType, FlagType,
         Setting
    <3>2. OwnerInv' /\ JobInv'
      BY <1>0, <1>1, <2>2 DEF CommitBegin, OwnerInv, JobInv, CommitHolds,
         ExplicitHolds, PcType, CountType, FlagType
    <3>3. HeldInv' /\ RefusedOnlyWhenDrained'
      BY <1>0, <1>1, <2>2, Zenon DEF CommitBegin, HeldInv, OwnerInv, JobInv,
         CommitHolds, ExplicitHolds, PcType, CountType, FlagType, Setting,
         RefusedOnlyWhenDrained
    <3>4. QED
      BY <3>1, <3>2, <3>3 DEF MInv
  <2>3. QED
    BY <1>0, <1>1, <2>1, <2>2 DEF CommitBegin, CountType, FlagType, PcType
<1>2. CASE CommitLock(c)
  <2>1. PcType' /\ CountType' /\ FlagType'
    BY <1>0, <1>2 DEF CommitLock, PcType, Pcs, CountType, FlagType, Setting
  <2>2. OwnerInv' /\ JobInv'
    BY <1>0, <1>2 DEF CommitLock, OwnerInv, JobInv, CommitHolds, ExplicitHolds,
       PcType, CountType, FlagType
  <2>3. HeldInv' /\ RefusedOnlyWhenDrained'
    BY <1>0, <1>2, Zenon DEF CommitLock, HeldInv, OwnerInv, JobInv, CommitHolds,
       ExplicitHolds, PcType, CountType, FlagType, Setting,
       RefusedOnlyWhenDrained
  <2>4. QED
    BY <2>1, <2>2, <2>3 DEF MInv
<1>3. CASE CommitApply(c)
  <2>1. CASE HasDerived
    <3>1. PcType' /\ CountType' /\ FlagType'
      BY <1>0, <1>3, <2>1 DEF CommitApply, Increment, PcType, Pcs, CountType,
         FlagType, Setting
    <3>2. OwnerInv' /\ JobInv'
      BY <1>0, <1>3, <2>1 DEF CommitApply, Increment, OwnerInv, JobInv,
         CommitHolds, ExplicitHolds, PcType, CountType, FlagType
    <3>3. HeldInv' /\ RefusedOnlyWhenDrained'
      BY <1>0, <1>3, <2>1, Zenon DEF CommitApply, Increment, HeldInv, OwnerInv, JobInv,
         CommitHolds, ExplicitHolds, PcType, CountType, FlagType, Setting,
         RefusedOnlyWhenDrained
    <3>4. QED
      BY <3>1, <3>2, <3>3 DEF MInv
  <2>2. CASE ~HasDerived
    <3>1. PcType' /\ CountType' /\ FlagType'
      BY <1>0, <1>3, <2>2 DEF CommitApply, Increment, PcType, Pcs, CountType,
         FlagType, Setting
    <3>2. OwnerInv' /\ JobInv'
      BY <1>0, <1>3, <2>2 DEF CommitApply, Increment, OwnerInv, JobInv,
         CommitHolds, ExplicitHolds, PcType, CountType, FlagType
    <3>3. HeldInv' /\ RefusedOnlyWhenDrained'
      BY <1>0, <1>3, <2>2, Zenon DEF CommitApply, Increment, HeldInv, OwnerInv, JobInv,
         CommitHolds, ExplicitHolds, PcType, CountType, FlagType, Setting,
         RefusedOnlyWhenDrained
    <3>4. QED
      BY <3>1, <3>2, <3>3 DEF MInv
  <2>3. QED
    BY <1>0, <1>3, <2>1, <2>2 DEF CommitApply, Increment, CountType, FlagType,
       PcType
<1>4. CASE CommitPressure(c)
  <2>1. CASE running["derived"]
    <3>1. PcType' /\ CountType' /\ FlagType'
      BY <1>0, <1>4, <2>1 DEF CommitPressure, PressureBranch, PcType, Pcs,
         CountType, FlagType, Setting
    <3>2. OwnerInv' /\ JobInv'
      BY <1>0, <1>4, <2>1 DEF CommitPressure, PressureBranch, OwnerInv, JobInv,
         CommitHolds, ExplicitHolds, PcType, CountType, FlagType
    <3>3. HeldInv' /\ RefusedOnlyWhenDrained'
      BY <1>0, <1>4, <2>1, Zenon DEF CommitPressure, PressureBranch, HeldInv, OwnerInv,
         JobInv, CommitHolds, ExplicitHolds, PcType, CountType, FlagType,
         Setting, RefusedOnlyWhenDrained
    <3>4. QED
      BY <3>1, <3>2, <3>3 DEF MInv
  <2>2. CASE ~running["derived"] /\ derived + frozenDerived > 0
    <3>1. PcType' /\ CountType' /\ FlagType'
      BY <1>0, <1>4, <2>2 DEF CommitPressure, PressureBranch, PcType, Pcs,
         CountType, FlagType, Setting
    <3>2. OwnerInv' /\ JobInv'
      BY <1>0, <1>4, <2>2 DEF CommitPressure, PressureBranch, OwnerInv, JobInv,
         CommitHolds, ExplicitHolds, PcType, CountType, FlagType
    <3>3. HeldInv' /\ RefusedOnlyWhenDrained'
      BY <1>0, <1>4, <2>2, Zenon DEF CommitPressure, PressureBranch, HeldInv, OwnerInv,
         JobInv, CommitHolds, ExplicitHolds, PcType, CountType, FlagType,
         Setting, RefusedOnlyWhenDrained
    <3>4. QED
      BY <3>1, <3>2, <3>3 DEF MInv
  <2>3. CASE ~running["derived"] /\ derived + frozenDerived = 0 /\ frozenBytes > 0
    <3>1. PcType' /\ CountType' /\ FlagType'
      BY <1>0, <1>4, <2>3 DEF CommitPressure, PressureBranch, PcType, Pcs,
         CountType, FlagType, Setting
    <3>2. OwnerInv' /\ JobInv'
      BY <1>0, <1>4, <2>3 DEF CommitPressure, PressureBranch, OwnerInv, JobInv,
         CommitHolds, ExplicitHolds, PcType, CountType, FlagType
    <3>3. HeldInv' /\ RefusedOnlyWhenDrained'
      BY <1>0, <1>4, <2>3, Zenon DEF CommitPressure, PressureBranch, HeldInv, OwnerInv,
         JobInv, CommitHolds, ExplicitHolds, PcType, CountType, FlagType,
         Setting, RefusedOnlyWhenDrained
    <3>4. QED
      BY <3>1, <3>2, <3>3 DEF MInv
  <2>4. CASE ~running["derived"] /\ derived + frozenDerived = 0 /\ frozenBytes = 0
    <3>1. PcType' /\ CountType' /\ FlagType'
      BY <1>0, <1>4, <2>4 DEF CommitPressure, PressureBranch, PcType, Pcs,
         CountType, FlagType, Setting
    <3>2. OwnerInv' /\ JobInv'
      BY <1>0, <1>4, <2>4 DEF CommitPressure, PressureBranch, OwnerInv, JobInv,
         CommitHolds, ExplicitHolds, PcType, CountType, FlagType
    <3>3. HeldInv' /\ RefusedOnlyWhenDrained'
      <4>1. HeldInv'
        BY <1>0, <1>4, <2>4 DEF CommitPressure, PressureBranch, HeldInv, PoolInv,
           OwnerInv, JobInv, CommitHolds, ExplicitHolds, PcType, CountType,
           FlagType, Setting
      <4>2. RefusedOnlyWhenDrained'
        BY <1>0, <1>4, <2>4, Zenon DEF CommitPressure, PressureBranch, HeldInv,
           CountType, FlagType, RefusedOnlyWhenDrained
      <4>3. QED
        BY <4>1, <4>2
    <3>4. QED
      BY <3>1, <3>2, <3>3 DEF MInv
  <2>5. QED
    BY <1>0, <1>4, <2>1, <2>2, <2>3, <2>4 DEF CommitPressure, PressureBranch,
       CountType, FlagType, PcType
<1>5. CASE CommitLeaseDerived(c)
  <2>1. PcType' /\ CountType' /\ FlagType'
    BY <1>0, <1>5 DEF CommitLeaseDerived, acquire_frozen_lease,
       schedule_frozen_derived, CanFreezeDerived, PcType, Pcs, CountType,
       FlagType, Setting
  <2>2. OwnerInv' /\ JobInv'
    BY <1>0, <1>5 DEF CommitLeaseDerived, acquire_frozen_lease,
       schedule_frozen_derived, CanFreezeDerived, OwnerInv, JobInv, CommitHolds,
       ExplicitHolds, PcType, CountType, FlagType
  <2>3. HeldInv' /\ RefusedOnlyWhenDrained'
    BY <1>0, <1>5, Zenon DEF CommitLeaseDerived, acquire_frozen_lease,
       schedule_frozen_derived, CanFreezeDerived, HeldInv, OwnerInv, JobInv,
       CommitHolds, ExplicitHolds, PcType, CountType, FlagType, Setting,
       RefusedOnlyWhenDrained
  <2>4. QED
    BY <2>1, <2>2, <2>3 DEF MInv
<1>6. CASE CommitLeaseCheckpoint(c)
  <2>1. CASE serial' # serial
    <3>1. PcType' /\ CountType' /\ FlagType'
      BY <1>0, <1>6, <2>1, ZenonT(30) DEF CommitLeaseCheckpoint, acquire_frozen_lease,
         schedule_frozen_checkpoint, CanFreezePrimary, PcType, Pcs,
         CountType, FlagType, Setting
    <3>2. OwnerInv' /\ JobInv'
      BY <1>0, <1>6, <2>1, Zenon DEF CommitLeaseCheckpoint, acquire_frozen_lease,
         schedule_frozen_checkpoint, CanFreezePrimary, OwnerInv,
         JobInv, CommitHolds, ExplicitHolds, PcType, CountType, FlagType
    <3>3. HeldInv' /\ RefusedOnlyWhenDrained'
      BY <1>0, <1>6, <2>1, ZenonT(30) DEF CommitLeaseCheckpoint, acquire_frozen_lease,
         schedule_frozen_checkpoint, CanFreezePrimary, HeldInv,
         OwnerInv, JobInv, CommitHolds, ExplicitHolds, PcType, CountType,
         FlagType, Setting, RefusedOnlyWhenDrained
    <3>4. QED
      BY <3>1, <3>2, <3>3 DEF MInv
  <2>2. CASE serial' = serial
    <3>1. PcType' /\ CountType' /\ FlagType'
      BY <1>0, <1>6, <2>2, Zenon DEF CommitLeaseCheckpoint, acquire_frozen_lease,
         schedule_frozen_checkpoint, CanFreezePrimary, PcType, Pcs,
         CountType, FlagType, Setting
    <3>2. OwnerInv' /\ JobInv'
      BY <1>0, <1>6, <2>2, ZenonT(30) DEF CommitLeaseCheckpoint, acquire_frozen_lease,
         schedule_frozen_checkpoint, CanFreezePrimary, OwnerInv,
         JobInv, CommitHolds, ExplicitHolds, PcType, CountType, FlagType
    <3>3. HeldInv' /\ RefusedOnlyWhenDrained'
      <4>1. HeldInv'
        BY <1>0, <1>6, <2>2, Zenon DEF CommitLeaseCheckpoint, acquire_frozen_lease,
           schedule_frozen_checkpoint, CanFreezePrimary, HeldInv,
           OwnerInv, JobInv, CommitHolds, ExplicitHolds, PcType, CountType,
           FlagType, Setting
      <4>2. RefusedOnlyWhenDrained'
        <5>1. frozenBytes = 0 /\ (active = 0 => charged = 0)
          BY <1>0, <1>6, Zenon DEF CommitLeaseCheckpoint, HeldInv
        <5>2. ~CanFreezePrimary
          BY <1>6, <2>2, Zenon DEF CommitLeaseCheckpoint, acquire_frozen_lease
        <5>3. ~running["checkpoint"] /\ ~(backlog > 0) => active = 0
          BY <1>0, <5>1, <5>2 DEF CanFreezePrimary, CountType,
             background_checkpoint_supported
        <5>4. ~running["checkpoint"] /\ ~(backlog > 0) => charged = 0
          BY <5>1, <5>3
        <5>5. refused' = IF running["checkpoint"] THEN "worker busy"
                         ELSE IF backlog > 0 THEN "vectors queued"
                         ELSE IF charged = 0 THEN "nothing left"
                         ELSE "bytes left"
          BY <1>6, <2>2, Zenon DEF CommitLeaseCheckpoint, acquire_frozen_lease
        <5>6. QED
          BY <5>4, <5>5, Zenon DEF RefusedOnlyWhenDrained
      <4>3. QED
        BY <4>1, <4>2
    <3>4. QED
      BY <3>1, <3>2, <3>3 DEF MInv
  <2>3. QED
    BY <1>0, <1>6, <2>1, <2>2, Zenon DEF CommitLeaseCheckpoint, acquire_frozen_lease,
       schedule_frozen_checkpoint, CanFreezePrimary, CountType,
       FlagType, PcType
<1>7. ASSUME NEW job \in Jobs, NEW where, CommitWait(c, job, where)
      PROVE  MInv'
  <2>1. PcType' /\ CountType' /\ FlagType'
    BY <1>0, <1>7 DEF CommitWait, PcType, Pcs, CountType, FlagType, Setting
  <2>2. OwnerInv' /\ JobInv'
    BY <1>0, <1>7 DEF CommitWait, OwnerInv, JobInv, CommitHolds, ExplicitHolds,
       PcType, CountType, FlagType
  <2>3. HeldInv' /\ RefusedOnlyWhenDrained'
    BY <1>0, <1>7, Zenon DEF CommitWait, HeldInv, OwnerInv, JobInv, CommitHolds,
       ExplicitHolds, PcType, CountType, FlagType, Setting,
       RefusedOnlyWhenDrained
  <2>4. QED
    BY <2>1, <2>2, <2>3 DEF MInv
<1>8. CASE PostCommitSkip(c)
  <2>1. PcType' /\ CountType' /\ FlagType'
    BY <1>0, <1>8 DEF PostCommitSkip, PcType, Pcs, CountType, FlagType, Setting
  <2>2. OwnerInv' /\ JobInv'
    BY <1>0, <1>8 DEF PostCommitSkip, OwnerInv, JobInv, CommitHolds,
       ExplicitHolds, PcType, CountType, FlagType
  <2>3. HeldInv' /\ RefusedOnlyWhenDrained'
    BY <1>0, <1>8, Zenon DEF PostCommitSkip, HeldInv, OwnerInv, JobInv, CommitHolds,
       ExplicitHolds, PcType, CountType, FlagType, Setting,
       RefusedOnlyWhenDrained
  <2>4. QED
    BY <2>1, <2>2, <2>3 DEF MInv
<1>9. CASE PostCommitLock(c)
  <2>1. PcType' /\ CountType' /\ FlagType'
    BY <1>0, <1>9 DEF PostCommitLock, PcType, Pcs, CountType, FlagType, Setting
  <2>2. OwnerInv' /\ JobInv'
    BY <1>0, <1>9 DEF PostCommitLock, OwnerInv, JobInv, CommitHolds,
       ExplicitHolds, PcType, CountType, FlagType
  <2>3. HeldInv' /\ RefusedOnlyWhenDrained'
    BY <1>0, <1>9, Zenon DEF PostCommitLock, HeldInv, OwnerInv, JobInv, CommitHolds,
       ExplicitHolds, PcType, CountType, FlagType, Setting,
       RefusedOnlyWhenDrained
  <2>4. QED
    BY <2>1, <2>2, <2>3 DEF MInv
<1>10. CASE post_commit_maintenance(c)
  <2>1. CASE running' # running
    <3>1. PcType' /\ CountType' /\ FlagType'
      <4>1. PcType'
        BY <1>0, <1>10, <2>1 DEF post_commit_maintenance, acquire_frozen_lease,
           schedule_frozen_derived, CanFreezeDerived, PcType, Pcs
      <4>2. CountType'
        BY <1>0, <1>10, <2>1 DEF post_commit_maintenance, acquire_frozen_lease,
           schedule_frozen_derived, CanFreezeDerived, CountType, Setting
      <4>3. FlagType'
        BY <1>0, <1>10, <2>1, Zenon DEF post_commit_maintenance, acquire_frozen_lease,
           schedule_frozen_derived, CanFreezeDerived, FlagType
      <4>4. QED
        BY <4>1, <4>2, <4>3
    <3>2. OwnerInv' /\ JobInv'
      BY <1>0, <1>10, <2>1 DEF post_commit_maintenance, acquire_frozen_lease,
         schedule_frozen_derived, CanFreezeDerived, OwnerInv, JobInv,
         CommitHolds, ExplicitHolds, PcType, CountType, FlagType
    <3>3. HeldInv' /\ RefusedOnlyWhenDrained'
      <4>1. HeldInv'
        BY <1>0, <1>10, <2>1 DEF post_commit_maintenance, acquire_frozen_lease,
           schedule_frozen_derived, CanFreezeDerived, HeldInv, OwnerInv, JobInv,
           CommitHolds, ExplicitHolds, PcType, CountType, FlagType, Setting
      <4>2. RefusedOnlyWhenDrained'
        BY <1>0, <1>10, <2>1, Zenon DEF post_commit_maintenance, acquire_frozen_lease,
           schedule_frozen_derived, RefusedOnlyWhenDrained
      <4>3. QED
        BY <4>1, <4>2
    <3>4. QED
      BY <3>1, <3>2, <3>3 DEF MInv
  <2>2. CASE running' = running
    <3>1. PcType' /\ CountType' /\ FlagType'
      BY <1>0, <1>10, <2>2 DEF post_commit_maintenance, acquire_frozen_lease,
         schedule_frozen_derived, CanFreezeDerived, PcType, Pcs, CountType,
         FlagType, Setting
    <3>2. OwnerInv' /\ JobInv'
      BY <1>0, <1>10, <2>2 DEF post_commit_maintenance, acquire_frozen_lease,
         schedule_frozen_derived, CanFreezeDerived, OwnerInv, JobInv,
         CommitHolds, ExplicitHolds, PcType, CountType, FlagType
    <3>3. HeldInv' /\ RefusedOnlyWhenDrained'
      BY <1>0, <1>10, <2>2, ZenonT(30) DEF post_commit_maintenance, acquire_frozen_lease,
         schedule_frozen_derived, CanFreezeDerived, HeldInv, OwnerInv, JobInv,
         CommitHolds, ExplicitHolds, PcType, CountType, FlagType, Setting,
         RefusedOnlyWhenDrained
    <3>4. QED
      BY <3>1, <3>2, <3>3 DEF MInv
  <2>3. QED
    BY <1>0, <1>10, <2>1, <2>2 DEF post_commit_maintenance,
       acquire_frozen_lease, schedule_frozen_derived, CanFreezeDerived,
       CountType, FlagType, PcType
<1>11. CASE PostCommitCheckpoint(c)
  <2>1. CASE serial' = "checkpoint"
    <3>1. PcType' /\ CountType' /\ FlagType'
      <4>1. PcType'
        BY <1>0, <1>11, <2>1 DEF PostCommitCheckpoint, acquire_frozen_lease,
           schedule_frozen_checkpoint, CanFreezePrimary, PcType, Pcs
      <4>2. CountType'
        BY <1>0, <1>11, <2>1 DEF PostCommitCheckpoint, acquire_frozen_lease,
           schedule_frozen_checkpoint, CanFreezePrimary, CountType, Setting
      <4>3. FlagType'
        BY <1>0, <1>11, <2>1, Zenon DEF PostCommitCheckpoint, acquire_frozen_lease,
           schedule_frozen_checkpoint, CanFreezePrimary, FlagType
      <4>4. QED
        BY <4>1, <4>2, <4>3
    <3>2. OwnerInv' /\ JobInv'
      BY <1>0, <1>11, <2>1 DEF PostCommitCheckpoint, acquire_frozen_lease,
         schedule_frozen_checkpoint, CanFreezePrimary, OwnerInv, JobInv,
         CommitHolds, ExplicitHolds, PcType, CountType, FlagType
    <3>3. HeldInv' /\ RefusedOnlyWhenDrained'
      BY <1>0, <1>11, <2>1, ZenonT(30) DEF PostCommitCheckpoint, acquire_frozen_lease,
         schedule_frozen_checkpoint, CanFreezePrimary, HeldInv, OwnerInv,
         JobInv, CommitHolds, ExplicitHolds, PcType, CountType, FlagType,
         Setting, RefusedOnlyWhenDrained
    <3>4. QED
      BY <3>1, <3>2, <3>3 DEF MInv
  <2>2. CASE serial' # "checkpoint"
    <3>1. PcType' /\ CountType' /\ FlagType'
      BY <1>0, <1>11, <2>2 DEF PostCommitCheckpoint, acquire_frozen_lease,
         schedule_frozen_checkpoint, CanFreezePrimary, PcType, Pcs, CountType,
         FlagType, Setting
    <3>2. OwnerInv' /\ JobInv'
      BY <1>0, <1>11, <2>2 DEF PostCommitCheckpoint, acquire_frozen_lease,
         schedule_frozen_checkpoint, CanFreezePrimary, OwnerInv, JobInv,
         CommitHolds, ExplicitHolds, PcType, CountType, FlagType
    <3>3. HeldInv' /\ RefusedOnlyWhenDrained'
      BY <1>0, <1>11, <2>2, Zenon DEF PostCommitCheckpoint, acquire_frozen_lease,
         schedule_frozen_checkpoint, CanFreezePrimary, HeldInv, OwnerInv,
         JobInv, CommitHolds, ExplicitHolds, PcType, CountType, FlagType,
         Setting, RefusedOnlyWhenDrained
    <3>4. QED
      BY <3>1, <3>2, <3>3 DEF MInv
  <2>3. QED
    BY <1>0, <1>11, <2>1, <2>2 DEF PostCommitCheckpoint, acquire_frozen_lease,
       schedule_frozen_checkpoint, CanFreezePrimary, CountType, FlagType, PcType
<1>12. QED
  BY <1>1, <1>2, <1>3, <1>4, <1>5, <1>6, <1>7, <1>8, <1>9, <1>10, <1>11
  DEF CommitStep

\* So do the steps of the workers and of explicit maintenance.
LEMMA WorkerMInv ==
    ASSUME Setting, MInv, mpNext, ~\E c \in Committers : CommitStep(c) PROVE MInv'
<1> USE DEF Jobs, Goto, Lease, Publications, Deltas, LockCommit, UnlockCommit,
            ReleaseLease, set_index_delta_bytes, Free
<1>0. /\ PcType /\ CountType /\ FlagType /\ OwnerInv /\ JobInv /\ HeldInv
      /\ RefusedOnlyWhenDrained
      /\ \A d \in Committers : /\ d \in AllThreads /\ d # Free /\ d # "checkpoint"
                               /\ d # "derived" /\ d # "merge" /\ d # "explicit"
      /\ {"checkpoint", "derived", "merge", "explicit"} \subseteq AllThreads
  BY DEF MInv, Setting, AllThreads, Workers
<1>1. CASE CheckpointPublish
  <2>1. PcType' /\ CountType' /\ FlagType'
    BY <1>0, <1>1 DEF CheckpointPublish, PcType, Pcs, CountType, FlagType,
       Setting
  <2>2. OwnerInv' /\ JobInv'
    BY <1>0, <1>1 DEF CheckpointPublish, OwnerInv, JobInv, CommitHolds,
       ExplicitHolds, PcType, CountType, FlagType
  <2>3. HeldInv' /\ RefusedOnlyWhenDrained'
    BY <1>0, <1>1, Zenon DEF CheckpointPublish, HeldInv, OwnerInv, JobInv, CommitHolds,
       ExplicitHolds, PcType, CountType, FlagType, Setting,
       RefusedOnlyWhenDrained
  <2>4. QED
    BY <2>1, <2>2, <2>3 DEF MInv
<1>2. CASE CheckpointAdopt
  <2>1. PcType' /\ CountType' /\ FlagType'
    BY <1>0, <1>2 DEF CheckpointAdopt, PcType, Pcs, CountType, FlagType, Setting
  <2>2. OwnerInv' /\ JobInv'
    BY <1>0, <1>2 DEF CheckpointAdopt, OwnerInv, JobInv, CommitHolds,
       ExplicitHolds, PcType, CountType, FlagType
  <2>3. HeldInv' /\ RefusedOnlyWhenDrained'
    BY <1>0, <1>2, Zenon DEF CheckpointAdopt, HeldInv, OwnerInv, JobInv, CommitHolds,
       ExplicitHolds, PcType, CountType, FlagType, Setting,
       RefusedOnlyWhenDrained
  <2>4. QED
    BY <2>1, <2>2, <2>3 DEF MInv
<1>3. CASE CheckpointFails
  <2>1. PcType' /\ CountType' /\ FlagType'
    BY <1>0, <1>3 DEF CheckpointFails, PcType, Pcs, CountType, FlagType, Setting
  <2>2. OwnerInv' /\ JobInv'
    BY <1>0, <1>3 DEF CheckpointFails, OwnerInv, JobInv, CommitHolds,
       ExplicitHolds, PcType, CountType, FlagType
  <2>3. HeldInv' /\ RefusedOnlyWhenDrained'
    BY <1>0, <1>3, Zenon DEF CheckpointFails, HeldInv, OwnerInv, JobInv, CommitHolds,
       ExplicitHolds, PcType, CountType, FlagType, Setting,
       RefusedOnlyWhenDrained
  <2>4. QED
    BY <2>1, <2>2, <2>3 DEF MInv
<1>4. CASE thaw_frozen_checkpoint
  <2>1. PcType' /\ CountType' /\ FlagType'
    BY <1>0, <1>4 DEF thaw_frozen_checkpoint, PcType, Pcs, CountType, FlagType,
       Setting
  <2>2. OwnerInv' /\ JobInv'
    BY <1>0, <1>4 DEF thaw_frozen_checkpoint, OwnerInv, JobInv, CommitHolds,
       ExplicitHolds, PcType, CountType, FlagType
  <2>3. HeldInv' /\ RefusedOnlyWhenDrained'
    BY <1>0, <1>4, Zenon DEF thaw_frozen_checkpoint, HeldInv, OwnerInv, JobInv,
       CommitHolds, ExplicitHolds, PcType, CountType, FlagType, Setting,
       RefusedOnlyWhenDrained
  <2>4. QED
    BY <2>1, <2>2, <2>3 DEF MInv
<1>5. CASE CheckpointDrop
  <2>1. PcType' /\ CountType' /\ FlagType'
    BY <1>0, <1>5 DEF CheckpointDrop, PcType, Pcs, CountType, FlagType, Setting
  <2>2. OwnerInv' /\ JobInv'
    BY <1>0, <1>5 DEF CheckpointDrop, OwnerInv, JobInv, CommitHolds,
       ExplicitHolds, PcType, CountType, FlagType
  <2>3. HeldInv' /\ RefusedOnlyWhenDrained'
    BY <1>0, <1>5, Zenon DEF CheckpointDrop, HeldInv, OwnerInv, JobInv, CommitHolds,
       ExplicitHolds, PcType, CountType, FlagType, Setting,
       RefusedOnlyWhenDrained
  <2>4. QED
    BY <2>1, <2>2, <2>3 DEF MInv
<1>6. CASE CheckpointDone
  <2>1. PcType' /\ CountType' /\ FlagType'
    BY <1>0, <1>6 DEF CheckpointDone, PcType, Pcs, CountType, FlagType, Setting
  <2>2. OwnerInv' /\ JobInv'
    BY <1>0, <1>6 DEF CheckpointDone, OwnerInv, JobInv, CommitHolds,
       ExplicitHolds, PcType, CountType, FlagType
  <2>3. HeldInv' /\ RefusedOnlyWhenDrained'
    BY <1>0, <1>6, Zenon DEF CheckpointDone, HeldInv, OwnerInv, JobInv, CommitHolds,
       ExplicitHolds, PcType, CountType, FlagType, Setting,
       RefusedOnlyWhenDrained
  <2>4. QED
    BY <2>1, <2>2, <2>3 DEF MInv
<1>7. CASE DerivedPublish
  <2>1. PcType' /\ CountType' /\ FlagType'
    BY <1>0, <1>7 DEF DerivedPublish, PcType, Pcs, CountType, FlagType, Setting
  <2>2. OwnerInv' /\ JobInv'
    BY <1>0, <1>7 DEF DerivedPublish, OwnerInv, JobInv, CommitHolds,
       ExplicitHolds, PcType, CountType, FlagType
  <2>3. HeldInv' /\ RefusedOnlyWhenDrained'
    BY <1>0, <1>7, Zenon DEF DerivedPublish, HeldInv, OwnerInv, JobInv, CommitHolds,
       ExplicitHolds, PcType, CountType, FlagType, Setting,
       RefusedOnlyWhenDrained
  <2>4. QED
    BY <2>1, <2>2, <2>3 DEF MInv
<1>8. CASE DerivedAdopt
  <2>1. PcType' /\ CountType' /\ FlagType'
    BY <1>0, <1>8 DEF DerivedAdopt, PcType, Pcs, CountType, FlagType, Setting
  <2>2. OwnerInv' /\ JobInv'
    BY <1>0, <1>8 DEF DerivedAdopt, OwnerInv, JobInv, CommitHolds,
       ExplicitHolds, PcType, CountType, FlagType
  <2>3. HeldInv' /\ RefusedOnlyWhenDrained'
    BY <1>0, <1>8, Zenon DEF DerivedAdopt, HeldInv, OwnerInv, JobInv, CommitHolds,
       ExplicitHolds, PcType, CountType, FlagType, Setting,
       RefusedOnlyWhenDrained
  <2>4. QED
    BY <2>1, <2>2, <2>3 DEF MInv
<1>9. CASE DerivedFails
  <2>1. PcType' /\ CountType' /\ FlagType'
    BY <1>0, <1>9 DEF DerivedFails, PcType, Pcs, CountType, FlagType, Setting
  <2>2. OwnerInv' /\ JobInv'
    BY <1>0, <1>9 DEF DerivedFails, OwnerInv, JobInv, CommitHolds,
       ExplicitHolds, PcType, CountType, FlagType
  <2>3. HeldInv' /\ RefusedOnlyWhenDrained'
    BY <1>0, <1>9, Zenon DEF DerivedFails, HeldInv, OwnerInv, JobInv, CommitHolds,
       ExplicitHolds, PcType, CountType, FlagType, Setting,
       RefusedOnlyWhenDrained
  <2>4. QED
    BY <2>1, <2>2, <2>3 DEF MInv
<1>10. CASE DerivedRecharge
  <2>1. PcType' /\ CountType' /\ FlagType'
    BY <1>0, <1>10 DEF DerivedRecharge, PcType, Pcs, CountType, FlagType,
       Setting
  <2>2. OwnerInv' /\ JobInv'
    BY <1>0, <1>10 DEF DerivedRecharge, OwnerInv, JobInv, CommitHolds,
       ExplicitHolds, PcType, CountType, FlagType
  <2>3. HeldInv' /\ RefusedOnlyWhenDrained'
    BY <1>0, <1>10, Zenon DEF DerivedRecharge, HeldInv, OwnerInv, JobInv, CommitHolds,
       ExplicitHolds, PcType, CountType, FlagType, Setting,
       RefusedOnlyWhenDrained
  <2>4. QED
    BY <2>1, <2>2, <2>3 DEF MInv
<1>11. CASE DerivedDone
  <2>1. PcType' /\ CountType' /\ FlagType'
    BY <1>0, <1>11 DEF DerivedDone, PcType, Pcs, CountType, FlagType, Setting
  <2>2. OwnerInv' /\ JobInv'
    BY <1>0, <1>11 DEF DerivedDone, OwnerInv, JobInv, CommitHolds,
       ExplicitHolds, PcType, CountType, FlagType
  <2>3. HeldInv' /\ RefusedOnlyWhenDrained'
    BY <1>0, <1>11, Zenon DEF DerivedDone, HeldInv, OwnerInv, JobInv, CommitHolds,
       ExplicitHolds, PcType, CountType, FlagType, Setting,
       RefusedOnlyWhenDrained
  <2>4. QED
    BY <2>1, <2>2, <2>3 DEF MInv
<1>12. CASE MergeReserve
  <2>1. PcType' /\ CountType' /\ FlagType'
    BY <1>0, <1>12 DEF MergeReserve, PcType, Pcs, CountType, FlagType, Setting
  <2>2. OwnerInv' /\ JobInv'
    BY <1>0, <1>12 DEF MergeReserve, OwnerInv, JobInv, CommitHolds,
       ExplicitHolds, PcType, CountType, FlagType
  <2>3. HeldInv' /\ RefusedOnlyWhenDrained'
    <3>1. HeldInv'
      BY <1>0, <1>12 DEF MergeReserve, HeldInv, OwnerInv, JobInv, CommitHolds,
         ExplicitHolds, PcType, CountType, FlagType, Setting
    <3>2. RefusedOnlyWhenDrained'
      BY <1>0, <1>12, Zenon DEF MergeReserve, HeldInv, CountType, FlagType,
         RefusedOnlyWhenDrained
    <3>3. QED
      BY <3>1, <3>2
  <2>4. QED
    BY <2>1, <2>2, <2>3 DEF MInv
<1>13. CASE MergeRelease
  <2>1. PcType' /\ CountType' /\ FlagType'
    BY <1>0, <1>13 DEF MergeRelease, PcType, Pcs, CountType, FlagType, Setting
  <2>2. OwnerInv' /\ JobInv'
    BY <1>0, <1>13 DEF MergeRelease, OwnerInv, JobInv, CommitHolds,
       ExplicitHolds, PcType, CountType, FlagType
  <2>3. HeldInv' /\ RefusedOnlyWhenDrained'
    BY <1>0, <1>13, ZenonT(30) DEF MergeRelease, HeldInv, OwnerInv, JobInv, CommitHolds,
       ExplicitHolds, PcType, CountType, FlagType, Setting,
       RefusedOnlyWhenDrained
  <2>4. QED
    BY <2>1, <2>2, <2>3 DEF MInv
<1>14. CASE MergePublication
  <2>1. PcType' /\ CountType' /\ FlagType'
    BY <1>0, <1>14 DEF MergePublication, PcType, Pcs, CountType, FlagType,
       Setting
  <2>2. OwnerInv' /\ JobInv'
    BY <1>0, <1>14 DEF MergePublication, OwnerInv, JobInv, CommitHolds,
       ExplicitHolds, PcType, CountType, FlagType
  <2>3. HeldInv' /\ RefusedOnlyWhenDrained'
    BY <1>0, <1>14, Zenon DEF MergePublication, HeldInv, OwnerInv, JobInv, CommitHolds,
       ExplicitHolds, PcType, CountType, FlagType, Setting,
       RefusedOnlyWhenDrained
  <2>4. QED
    BY <2>1, <2>2, <2>3 DEF MInv
<1>15. CASE MergeAdopt
  <2>1. PcType' /\ CountType' /\ FlagType'
    BY <1>0, <1>15 DEF MergeAdopt, PcType, Pcs, CountType, FlagType, Setting
  <2>2. OwnerInv' /\ JobInv'
    BY <1>0, <1>15 DEF MergeAdopt, OwnerInv, JobInv, CommitHolds, ExplicitHolds,
       PcType, CountType, FlagType
  <2>3. HeldInv' /\ RefusedOnlyWhenDrained'
    BY <1>0, <1>15, Zenon DEF MergeAdopt, HeldInv, OwnerInv, JobInv, CommitHolds,
       ExplicitHolds, PcType, CountType, FlagType, Setting,
       RefusedOnlyWhenDrained
  <2>4. QED
    BY <2>1, <2>2, <2>3 DEF MInv
<1>16. CASE ExplicitBegin
  <2>1. PcType' /\ CountType' /\ FlagType'
    BY <1>0, <1>16 DEF ExplicitBegin, PcType, Pcs, CountType, FlagType, Setting
  <2>2. OwnerInv' /\ JobInv'
    BY <1>0, <1>16 DEF ExplicitBegin, OwnerInv, JobInv, CommitHolds,
       ExplicitHolds, PcType, CountType, FlagType
  <2>3. HeldInv' /\ RefusedOnlyWhenDrained'
    BY <1>0, <1>16, Zenon DEF ExplicitBegin, HeldInv, OwnerInv, JobInv, CommitHolds,
       ExplicitHolds, PcType, CountType, FlagType, Setting,
       RefusedOnlyWhenDrained
  <2>4. QED
    BY <2>1, <2>2, <2>3 DEF MInv
<1>17. CASE ExplicitWait
  <2>1. PcType' /\ CountType' /\ FlagType'
    BY <1>0, <1>17 DEF ExplicitWait, PcType, Pcs, CountType, FlagType, Setting
  <2>2. OwnerInv' /\ JobInv'
    BY <1>0, <1>17 DEF ExplicitWait, OwnerInv, JobInv, CommitHolds,
       ExplicitHolds, PcType, CountType, FlagType
  <2>3. HeldInv' /\ RefusedOnlyWhenDrained'
    BY <1>0, <1>17, Zenon DEF ExplicitWait, HeldInv, OwnerInv, JobInv, CommitHolds,
       ExplicitHolds, PcType, CountType, FlagType, Setting,
       RefusedOnlyWhenDrained
  <2>4. QED
    BY <2>1, <2>2, <2>3 DEF MInv
<1>18. CASE lock_commit_for_maintenance
  <2>1. CASE MaintenanceMayStart
    <3>1. PcType' /\ CountType' /\ FlagType'
      BY <1>0, <1>18, <2>1 DEF lock_commit_for_maintenance, MaintenanceMayStart,
         PcType, Pcs, CountType, FlagType, Setting
    <3>2. OwnerInv' /\ JobInv'
      BY <1>0, <1>18, <2>1 DEF lock_commit_for_maintenance, MaintenanceMayStart,
         OwnerInv, JobInv, CommitHolds, ExplicitHolds, PcType, CountType,
         FlagType
    <3>3. HeldInv' /\ RefusedOnlyWhenDrained'
      BY <1>0, <1>18, <2>1, Zenon DEF lock_commit_for_maintenance, MaintenanceMayStart,
         HeldInv, OwnerInv, JobInv, CommitHolds, ExplicitHolds, PcType,
         CountType, FlagType, Setting, RefusedOnlyWhenDrained
    <3>4. QED
      BY <3>1, <3>2, <3>3 DEF MInv
  <2>2. CASE ~MaintenanceMayStart
    <3>1. PcType' /\ CountType' /\ FlagType'
      BY <1>0, <1>18, <2>2 DEF lock_commit_for_maintenance, MaintenanceMayStart,
         PcType, Pcs, CountType, FlagType, Setting
    <3>2. OwnerInv' /\ JobInv'
      BY <1>0, <1>18, <2>2 DEF lock_commit_for_maintenance, MaintenanceMayStart,
         OwnerInv, JobInv, CommitHolds, ExplicitHolds, PcType, CountType,
         FlagType
    <3>3. HeldInv' /\ RefusedOnlyWhenDrained'
      BY <1>0, <1>18, <2>2, Zenon DEF lock_commit_for_maintenance, MaintenanceMayStart,
         HeldInv, OwnerInv, JobInv, CommitHolds, ExplicitHolds, PcType,
         CountType, FlagType, Setting, RefusedOnlyWhenDrained
    <3>4. QED
      BY <3>1, <3>2, <3>3 DEF MInv
  <2>3. QED
    BY <1>0, <1>18, <2>1, <2>2 DEF lock_commit_for_maintenance,
       MaintenanceMayStart, CountType, FlagType, PcType
<1>19. CASE ExplicitSerial
  <2>1. PcType' /\ CountType' /\ FlagType'
    BY <1>0, <1>19 DEF ExplicitSerial, PcType, Pcs, CountType, FlagType, Setting
  <2>2. OwnerInv' /\ JobInv'
    BY <1>0, <1>19 DEF ExplicitSerial, OwnerInv, JobInv, CommitHolds,
       ExplicitHolds, PcType, CountType, FlagType
  <2>3. HeldInv' /\ RefusedOnlyWhenDrained'
    BY <1>0, <1>19, Zenon DEF ExplicitSerial, HeldInv, OwnerInv, JobInv, CommitHolds,
       ExplicitHolds, PcType, CountType, FlagType, Setting,
       RefusedOnlyWhenDrained
  <2>4. QED
    BY <2>1, <2>2, <2>3 DEF MInv
<1>20. CASE ExplicitReserve
  <2>1. PcType' /\ CountType' /\ FlagType'
    BY <1>0, <1>20 DEF ExplicitReserve, PcType, Pcs, CountType, FlagType,
       Setting
  <2>2. OwnerInv' /\ JobInv'
    BY <1>0, <1>20 DEF ExplicitReserve, OwnerInv, JobInv, CommitHolds,
       ExplicitHolds, PcType, CountType, FlagType
  <2>3. HeldInv' /\ RefusedOnlyWhenDrained'
    <3>1. HeldInv'
      BY <1>0, <1>20 DEF ExplicitReserve, HeldInv, OwnerInv, JobInv,
         CommitHolds, ExplicitHolds, PcType, CountType, FlagType, Setting
    <3>2. RefusedOnlyWhenDrained'
      BY <1>0, <1>20, Zenon DEF ExplicitReserve, HeldInv, CountType, FlagType,
         RefusedOnlyWhenDrained
    <3>3. QED
      BY <3>1, <3>2
  <2>4. QED
    BY <2>1, <2>2, <2>3 DEF MInv
<1>21. CASE ExplicitWork
  <2>1. CASE at'["explicit"] = "idle"
    <3>1. PcType' /\ CountType' /\ FlagType'
      BY <1>0, <1>21, <2>1 DEF ExplicitWork, schedule_frozen_checkpoint,
         CanFreezePrimary, schedule_frozen_derived, CanFreezeDerived, PcType,
         Pcs, CountType, FlagType, Setting
    <3>2. OwnerInv' /\ JobInv'
      BY <1>0, <1>21, <2>1 DEF ExplicitWork, schedule_frozen_checkpoint,
         CanFreezePrimary, schedule_frozen_derived, CanFreezeDerived, OwnerInv,
         JobInv, CommitHolds, ExplicitHolds, PcType, CountType, FlagType
    <3>3. HeldInv' /\ RefusedOnlyWhenDrained'
      BY <1>0, <1>21, <2>1, Zenon DEF ExplicitWork, schedule_frozen_checkpoint,
         CanFreezePrimary, schedule_frozen_derived, CanFreezeDerived, HeldInv,
         OwnerInv, JobInv, CommitHolds, ExplicitHolds, PcType, CountType,
         FlagType, Setting, RefusedOnlyWhenDrained
    <3>4. QED
      BY <3>1, <3>2, <3>3 DEF MInv
  <2>2. CASE serial' = "checkpoint"
    <3>1. PcType' /\ CountType' /\ FlagType'
      BY <1>0, <1>21, <2>2, Zenon DEF ExplicitWork, schedule_frozen_checkpoint,
         CanFreezePrimary, schedule_frozen_derived, CanFreezeDerived, PcType,
         Pcs, CountType, FlagType, Setting
    <3>2. OwnerInv' /\ JobInv'
      BY <1>0, <1>21, <2>2 DEF ExplicitWork, schedule_frozen_checkpoint,
         CanFreezePrimary, schedule_frozen_derived, CanFreezeDerived, OwnerInv,
         JobInv, CommitHolds, ExplicitHolds, PcType, CountType, FlagType
    <3>3. HeldInv' /\ RefusedOnlyWhenDrained'
      BY <1>0, <1>21, <2>2, ZenonT(30) DEF ExplicitWork, schedule_frozen_checkpoint,
         CanFreezePrimary, schedule_frozen_derived, CanFreezeDerived, HeldInv,
         OwnerInv, JobInv, CommitHolds, ExplicitHolds, PcType, CountType,
         FlagType, Setting, RefusedOnlyWhenDrained
    <3>4. QED
      BY <3>1, <3>2, <3>3 DEF MInv
  <2>3. CASE serial' = "derived"
    <3>1. PcType' /\ CountType' /\ FlagType'
      <4>1. PcType'
        BY <1>0, <1>21, <2>3 DEF ExplicitWork, schedule_frozen_checkpoint,
           CanFreezePrimary, schedule_frozen_derived, CanFreezeDerived, PcType,
           Pcs
      <4>2. CountType'
        BY <1>0, <1>21, <2>3 DEF ExplicitWork, schedule_frozen_checkpoint,
           CanFreezePrimary, schedule_frozen_derived, CanFreezeDerived,
           CountType, Setting
      <4>3. FlagType'
        BY <1>0, <1>21, <2>3, Zenon DEF ExplicitWork, schedule_frozen_checkpoint,
           CanFreezePrimary, schedule_frozen_derived, CanFreezeDerived, FlagType
      <4>4. QED
        BY <4>1, <4>2, <4>3
    <3>2. OwnerInv' /\ JobInv'
      BY <1>0, <1>21, <2>3 DEF ExplicitWork, schedule_frozen_checkpoint,
         CanFreezePrimary, schedule_frozen_derived, CanFreezeDerived, OwnerInv,
         JobInv, CommitHolds, ExplicitHolds, PcType, CountType, FlagType
    <3>3. HeldInv' /\ RefusedOnlyWhenDrained'
      BY <1>0, <1>21, <2>3, ZenonT(30) DEF ExplicitWork, schedule_frozen_checkpoint,
         CanFreezePrimary, schedule_frozen_derived, CanFreezeDerived, HeldInv,
         OwnerInv, JobInv, CommitHolds, ExplicitHolds, PcType, CountType,
         FlagType, Setting, RefusedOnlyWhenDrained
    <3>4. QED
      BY <3>1, <3>2, <3>3 DEF MInv
  <2>4. QED
    BY <1>0, <1>21, <2>1, <2>2, <2>3 DEF ExplicitWork,
       schedule_frozen_checkpoint, CanFreezePrimary, schedule_frozen_derived,
       CanFreezeDerived, CountType, FlagType, PcType
<1>22. CASE ExplicitFlushed
  <2>1. PcType' /\ CountType' /\ FlagType'
    BY <1>0, <1>22 DEF ExplicitFlushed, PcType, Pcs, CountType, FlagType,
       Setting
  <2>2. OwnerInv' /\ JobInv'
    BY <1>0, <1>22 DEF ExplicitFlushed, OwnerInv, JobInv, CommitHolds,
       ExplicitHolds, PcType, CountType, FlagType
  <2>3. HeldInv' /\ RefusedOnlyWhenDrained'
    BY <1>0, <1>22, Zenon DEF ExplicitFlushed, HeldInv, OwnerInv, JobInv, CommitHolds,
       ExplicitHolds, PcType, CountType, FlagType, Setting,
       RefusedOnlyWhenDrained
  <2>4. QED
    BY <2>1, <2>2, <2>3 DEF MInv
<1>23. CASE VectorStep
  <2>1. PcType' /\ CountType' /\ FlagType'
    BY <1>0, <1>23 DEF VectorStep, PcType, CountType, FlagType
  <2>2. OwnerInv' /\ JobInv'
    BY <1>0, <1>23, Zenon DEF VectorStep, OwnerInv, JobInv
  <2>3. HeldInv' /\ RefusedOnlyWhenDrained'
    BY <1>0, <1>23, Zenon DEF VectorStep, HeldInv, RefusedOnlyWhenDrained
  <2>4. QED
    BY <2>1, <2>2, <2>3 DEF MInv
<1>24. QED
  BY <1>1, <1>2, <1>3, <1>4, <1>5, <1>6, <1>7, <1>8, <1>9, <1>10, <1>11, <1>12,
     <1>13, <1>14, <1>15, <1>16, <1>17, <1>18, <1>19, <1>20, <1>21, <1>22, <1>23
     DEF mpNext

\* Every recount of the pool leaves at most what the overlays hold when the
\* active delta is empty; a commit that adds to it fills the active delta too.
LEMMA CommitPool ==
    ASSUME CountType, PoolInv, NEW c \in Committers, CommitStep(c) PROVE PoolInv'
<1> USE DEF Goto, Lease, Publications, Deltas, set_index_delta_bytes, PoolInv
<1>1. CASE UNCHANGED Deltas
  BY <1>1, Zenon
<1>2. CASE CommitApply(c)
  BY <1>2 DEF CommitApply, CountType
<1>3. CASE CommitLeaseDerived(c)
  BY <1>3 DEF CommitLeaseDerived, schedule_frozen_derived, CountType
<1>4. CASE CommitLeaseCheckpoint(c)
  <2>1. /\ charged' = derived \/ (active' = active /\ charged' = charged)
        /\ derived' = derived /\ frozenDerived' = frozenDerived
    BY <1>4, Zenon DEF CommitLeaseCheckpoint, schedule_frozen_checkpoint
  <2>2. derived <= derived + frozenDerived
    BY DEF CountType
  <2>3. QED
    BY <2>1, <2>2, Zenon
<1>5. CASE post_commit_maintenance(c)
  BY <1>5 DEF post_commit_maintenance, schedule_frozen_derived, CountType
<1>6. CASE PostCommitCheckpoint(c)
  BY <1>6 DEF PostCommitCheckpoint, schedule_frozen_checkpoint, CountType
<1>7. QED
  BY <1>1, <1>2, <1>3, <1>4, <1>5, <1>6, Zenon DEF CommitStep, CommitBegin,
     CommitLock, CommitPressure, CommitWait, PostCommitSkip, PostCommitLock

\* The workers and explicit maintenance recount, or leave the count alone.
LEMMA WorkerPool ==
    ASSUME CountType, PoolInv, mpNext, ~\E c \in Committers : CommitStep(c)
    PROVE  PoolInv'
<1> USE DEF Goto, Lease, Publications, Deltas, set_index_delta_bytes, PoolInv
<1>1. CASE CheckpointAdopt
  BY <1>1 DEF CheckpointAdopt, CountType
<1>2. CASE thaw_frozen_checkpoint
  BY <1>2 DEF thaw_frozen_checkpoint, CountType
<1>3. CASE DerivedAdopt
  BY <1>3 DEF DerivedAdopt, CountType
<1>4. CASE DerivedRecharge
  BY <1>4 DEF DerivedRecharge, CountType
<1>5. CASE VectorStep
  <2>1. /\ derived' = derived \/ derived' = derived + 1
        /\ active' = active /\ frozenDerived' = frozenDerived /\ charged' = charged
    BY <1>5, Zenon DEF VectorStep
  <2>2. charged <= derived + frozenDerived => charged <= derived + 1 + frozenDerived
    BY DEF CountType
  <2>3. QED
    BY <2>1, <2>2, Zenon
<1>6. CASE ExplicitWork
  BY <1>6 DEF ExplicitWork, schedule_frozen_checkpoint, schedule_frozen_derived,
     CountType
<1>7. CASE UNCHANGED Deltas
  BY <1>7, Zenon
<1>8. QED
  BY <1>1, <1>2, <1>3, <1>4, <1>5, <1>6, <1>7, Zenon DEF mpNext,
     CheckpointPublish, CheckpointFails, CheckpointDrop, CheckpointDone,
     DerivedPublish, DerivedFails, DerivedDone, MergeReserve, MergeRelease,
     MergePublication, MergeAdopt, ExplicitBegin, ExplicitWait,
     lock_commit_for_maintenance, ExplicitSerial, ExplicitReserve,
     ExplicitFlushed

\* Hence both always hold.
LEMMA AlwaysMInv == mpSpec => [](MInv /\ PoolInv)
<1>1. mpInit => MInv /\ PoolInv
  <2>1. mpInit => MInv
    BY InitMInv, MaintenanceAssumption
  <2>2. mpInit => PoolInv
    BY DEF mpInit, PoolInv
  <2>3. QED
    BY <2>1, <2>2
<1>2. MInv /\ PoolInv /\ [mpNext]_mpVars => MInv' /\ PoolInv'
  <2> SUFFICES ASSUME MInv, PoolInv, [mpNext]_mpVars PROVE MInv' /\ PoolInv'
    OBVIOUS
  <2>1. CASE UNCHANGED mpVars
    <3>1. MInv'
      BY <2>1, Zenon DEF mpVars, MInv, PcType, CountType, FlagType, OwnerInv,
         JobInv, HeldInv, RefusedOnlyWhenDrained
    <3>2. PoolInv'
      BY <2>1, Zenon DEF mpVars, PoolInv
    <3>3. QED
      BY <3>1, <3>2
  <2>2. CASE mpNext
    <3>1. MInv'
      BY <2>2, CommitMInv, WorkerMInv, MaintenanceAssumption, Zenon
    <3>2. CountType
      BY Zenon DEF MInv
    <3>3. PoolInv'
      BY <2>2, <3>2, CommitPool, WorkerPool, Zenon
    <3>4. QED
      BY <3>1, <3>3
  <2>3. QED
    BY <2>1, <2>2
<1>3. QED
  BY <1>1, <1>2, PTL DEF mpSpec

\* lock_commit_for_maintenance and the full lease do their work: whatever
\* commits, workers and merges do, an index build, a compaction or a DDL
\* statement that got to its work runs with no frozen generation, no derived
\* publication and no merge memory outstanding, for any number of threads.
THEOREM MaintenanceWorksAlone == mpSpec => []MaintenanceAlone
<1>1. MInv => MaintenanceAlone
  BY DEF MInv, OwnerInv, JobInv, HeldInv, CountType, ExplicitHolds, MaintenanceAlone
<1>2. QED
  BY <1>1, AlwaysMInv, PTL

\* The pressure loop of finish_prepared_commit returns MemoryLimit only when
\* the pool counted nothing, in the instant in which the checkpoint worker has
\* given up its lease and not yet its status flag, or while vectors are queued
\* for an asynchronous index (the branch VectorRefusal.cfg shows).
THEOREM RefusalsAreHonest == mpSpec => []RefusedOnlyWhenDrained
<1>1. MInv => RefusedOnlyWhenDrained
  BY DEF MInv
<1>2. QED
  BY <1>1, AlwaysMInv, PTL

-----------------------------------------------------------------------------
(* Who can wait for whom.                                                  *)

\* Where each thread can be.
RoleInv ==
    /\ \A c \in Committers :
         at[c] \in {"idle", "lock", "applied", "waitDerived", "waitCheckpoint"} \cup CommitHolds
    /\ at["derived"] \in {"idle", "publish", "adopt", "recharge", "status"}
    /\ at["merge"] \in {"idle", "built", "pubPrimary", "pubDerived", "commit"}
    /\ at["explicit"] \in {"idle", "waitJobs", "lock", "flush"} \cup ExplicitHolds

\* The owner of a lock is at a place that holds it.
HolderInv ==
    /\ mutex # Free => \/ mutex \in Committers /\ at[mutex] \in CommitHolds
                       \/ mutex = "explicit" /\ at["explicit"] \in ExplicitHolds
    /\ serial # Free => \/ serial = "checkpoint" /\ at["checkpoint"] \in {"publish", "adopt", "drop"}
                        \/ serial = "derived" /\ at["derived"] \in {"publish", "adopt"}
                        \/ serial = "explicit" /\ at["explicit"] \in {"reserveAll", "work"}

\* So is the owner of a publication mutex; only a merge that has built its
\* runs holds merge memory.
PublisherInv ==
    /\ primaryPub # Free => \/ primaryPub = "checkpoint" /\ at["checkpoint"] \in {"adopt", "drop"}
                            \/ primaryPub = "merge" /\ at["merge"] = "commit"
    /\ derivedPub # Free => \/ derivedPub = "derived" /\ at["derived"] = "adopt"
                            \/ derivedPub = "merge" /\ at["merge"] = "commit"
    /\ mergeMemory > 0 => at["merge"] = "built"

\* A commit that waits for the exclusion saw no publication under way, and
\* the soft checkpoint no frozen generation: both last as long as the mutex.
LeaseInv ==
    \A c \in Committers :
        /\ at[c] \in {"leaseDerived", "leaseSoft"} => ~running["derived"]
        /\ at[c] = "leaseSoft" => frozenBytes = 0

\* What is added to MInv to see who waits for whom.
WaitInv == RoleInv /\ HolderInv /\ PublisherInv /\ LeaseInv

\* The steps of a committing thread keep it.
LEMMA CommitWaitInv ==
    ASSUME Setting, MInv, WaitInv, NEW c \in Committers, CommitStep(c) PROVE WaitInv'
<1> USE DEF Jobs, Goto, Lease, Publications, Deltas, LockCommit, UnlockCommit,
            ReleaseLease, set_index_delta_bytes, Free, CommitHolds, ExplicitHolds
<1>0. /\ PcType /\ FlagType /\ CountType /\ OwnerInv /\ JobInv /\ HeldInv
      /\ RoleInv /\ HolderInv /\ PublisherInv /\ LeaseInv
      /\ \A d \in Committers : /\ d \in AllThreads /\ d # Free /\ d # "checkpoint"
                               /\ d # "derived" /\ d # "merge" /\ d # "explicit"
      /\ {"checkpoint", "derived", "merge", "explicit"} \subseteq AllThreads
  BY DEF MInv, WaitInv, Setting, AllThreads, Workers
<1>1. CASE CommitBegin(c)
  <2>1. RoleInv'
    BY <1>0, <1>1 DEF CommitBegin, RoleInv, PcType
  <2>2. HolderInv'
    BY <1>0, <1>1 DEF CommitBegin, HolderInv, OwnerInv, RoleInv, JobInv,
       PcType
  <2>3. PublisherInv'
    BY <1>0, <1>1 DEF CommitBegin, PublisherInv, OwnerInv, RoleInv,
       JobInv, PcType, CountType
  <2>4. LeaseInv'
    BY <1>0, <1>1 DEF CommitBegin, LeaseInv, OwnerInv, RoleInv, PcType,
       FlagType
  <2>5. QED
    BY <2>1, <2>2, <2>3, <2>4 DEF WaitInv
<1>2. CASE CommitLock(c)
  <2>1. RoleInv'
    BY <1>0, <1>2 DEF CommitLock, RoleInv, PcType
  <2>2. HolderInv'
    BY <1>0, <1>2 DEF CommitLock, HolderInv, OwnerInv, RoleInv, JobInv,
       PcType
  <2>3. PublisherInv'
    BY <1>0, <1>2 DEF CommitLock, PublisherInv, OwnerInv, RoleInv, JobInv,
       PcType, CountType
  <2>4. LeaseInv'
    BY <1>0, <1>2 DEF CommitLock, LeaseInv, OwnerInv, RoleInv, PcType,
       FlagType
  <2>5. QED
    BY <2>1, <2>2, <2>3, <2>4 DEF WaitInv
<1>3. CASE CommitApply(c)
  <2>1. RoleInv'
    BY <1>0, <1>3 DEF CommitApply, RoleInv, PcType
  <2>2. HolderInv'
    BY <1>0, <1>3 DEF CommitApply, HolderInv, OwnerInv, RoleInv, JobInv,
       PcType
  <2>3. PublisherInv'
    BY <1>0, <1>3 DEF CommitApply, PublisherInv, OwnerInv, RoleInv,
       JobInv, PcType, CountType
  <2>4. LeaseInv'
    BY <1>0, <1>3 DEF CommitApply, LeaseInv, OwnerInv, RoleInv, PcType,
       FlagType
  <2>5. QED
    BY <2>1, <2>2, <2>3, <2>4 DEF WaitInv
<1>4. CASE CommitPressure(c)
  <2>1. RoleInv'
    BY <1>0, <1>4 DEF CommitPressure, PressureBranch, RoleInv, PcType
  <2>2. HolderInv'
    BY <1>0, <1>4 DEF CommitPressure, PressureBranch, HolderInv, OwnerInv,
       RoleInv, JobInv, PcType
  <2>3. PublisherInv'
    BY <1>0, <1>4 DEF CommitPressure, PressureBranch, PublisherInv,
       OwnerInv, RoleInv, JobInv, PcType, CountType
  <2>4. LeaseInv'
    BY <1>0, <1>4 DEF CommitPressure, PressureBranch, LeaseInv, OwnerInv,
       RoleInv, PcType, FlagType
  <2>5. QED
    BY <2>1, <2>2, <2>3, <2>4 DEF WaitInv
<1>5. CASE CommitLeaseDerived(c)
  <2>1. RoleInv'
    BY <1>0, <1>5 DEF CommitLeaseDerived, acquire_frozen_lease,
       schedule_frozen_derived, RoleInv, PcType
  <2>2. HolderInv'
    BY <1>0, <1>5 DEF CommitLeaseDerived, acquire_frozen_lease,
       schedule_frozen_derived, HolderInv, OwnerInv, RoleInv, JobInv,
       PcType
  <2>3. PublisherInv'
    BY <1>0, <1>5 DEF CommitLeaseDerived, acquire_frozen_lease,
       schedule_frozen_derived, PublisherInv, OwnerInv, RoleInv, JobInv,
       PcType, CountType
  <2>4. LeaseInv'
    BY <1>0, <1>5 DEF CommitLeaseDerived, acquire_frozen_lease,
       schedule_frozen_derived, LeaseInv, OwnerInv, RoleInv, PcType,
       FlagType
  <2>5. QED
    BY <2>1, <2>2, <2>3, <2>4 DEF WaitInv
<1>6. CASE CommitLeaseCheckpoint(c)
  <2>1. RoleInv'
    BY <1>0, <1>6, Zenon DEF CommitLeaseCheckpoint, acquire_frozen_lease,
       schedule_frozen_checkpoint, RoleInv, PcType
  <2>2. HolderInv'
    BY <1>0, <1>6, ZenonT(30) DEF CommitLeaseCheckpoint, acquire_frozen_lease,
       schedule_frozen_checkpoint, HolderInv, OwnerInv, RoleInv, JobInv,
       PcType
  <2>3. PublisherInv'
    BY <1>0, <1>6, ZenonT(30) DEF CommitLeaseCheckpoint, acquire_frozen_lease,
       schedule_frozen_checkpoint, PublisherInv, OwnerInv, RoleInv,
       JobInv, PcType, CountType
  <2>4. LeaseInv'
    BY <1>0, <1>6, ZenonT(30) DEF CommitLeaseCheckpoint, acquire_frozen_lease,
       schedule_frozen_checkpoint, LeaseInv, OwnerInv, RoleInv, PcType,
       FlagType
  <2>5. QED
    BY <2>1, <2>2, <2>3, <2>4 DEF WaitInv
<1>7. CASE CommitWait(c, "derived", "waitDerived")
  <2>1. RoleInv'
    BY <1>0, <1>7, Zenon DEF CommitWait, RoleInv, PcType
  <2>2. HolderInv'
    BY <1>0, <1>7, SMTT(20) DEF CommitWait, HolderInv, OwnerInv, RoleInv, JobInv,
       PcType
  <2>3. PublisherInv'
    BY <1>0, <1>7 DEF CommitWait, PublisherInv, OwnerInv, RoleInv, JobInv,
       PcType, CountType
  <2>4. LeaseInv'
    BY <1>0, <1>7 DEF CommitWait, LeaseInv, OwnerInv, RoleInv, PcType,
       FlagType
  <2>5. QED
    BY <2>1, <2>2, <2>3, <2>4 DEF WaitInv
<1>8. CASE CommitWait(c, "checkpoint", "waitCheckpoint")
  <2>1. RoleInv'
    BY <1>0, <1>8, Zenon DEF CommitWait, RoleInv, PcType
  <2>2. HolderInv'
    BY <1>0, <1>8 DEF CommitWait, HolderInv, OwnerInv, RoleInv, JobInv,
       PcType
  <2>3. PublisherInv'
    BY <1>0, <1>8 DEF CommitWait, PublisherInv, OwnerInv, RoleInv, JobInv,
       PcType, CountType
  <2>4. LeaseInv'
    BY <1>0, <1>8 DEF CommitWait, LeaseInv, OwnerInv, RoleInv, PcType,
       FlagType
  <2>5. QED
    BY <2>1, <2>2, <2>3, <2>4 DEF WaitInv
<1>9. CASE PostCommitSkip(c)
  <2>1. RoleInv'
    BY <1>0, <1>9, SMTT(20) DEF PostCommitSkip, RoleInv, PcType
  <2>2. HolderInv'
    BY <1>0, <1>9, SMTT(20) DEF PostCommitSkip, HolderInv, OwnerInv, RoleInv,
       JobInv, PcType
  <2>3. PublisherInv'
    BY <1>0, <1>9 DEF PostCommitSkip, PublisherInv, OwnerInv, RoleInv,
       JobInv, PcType, CountType
  <2>4. LeaseInv'
    BY <1>0, <1>9 DEF PostCommitSkip, LeaseInv, OwnerInv, RoleInv, PcType,
       FlagType
  <2>5. QED
    BY <2>1, <2>2, <2>3, <2>4 DEF WaitInv
<1>10. CASE PostCommitLock(c)
  <2>1. RoleInv'
    BY <1>0, <1>10 DEF PostCommitLock, RoleInv, PcType
  <2>2. HolderInv'
    BY <1>0, <1>10, SMTT(20) DEF PostCommitLock, HolderInv, OwnerInv, RoleInv,
       JobInv, PcType
  <2>3. PublisherInv'
    BY <1>0, <1>10 DEF PostCommitLock, PublisherInv, OwnerInv, RoleInv,
       JobInv, PcType, CountType
  <2>4. LeaseInv'
    BY <1>0, <1>10 DEF PostCommitLock, LeaseInv, OwnerInv, RoleInv,
       PcType, FlagType
  <2>5. QED
    BY <2>1, <2>2, <2>3, <2>4 DEF WaitInv
<1>11. CASE post_commit_maintenance(c)
  <2>1. RoleInv'
    BY <1>0, <1>11, ZenonT(30) DEF post_commit_maintenance, acquire_frozen_lease,
       schedule_frozen_derived, RoleInv, PcType
  <2>2. HolderInv'
    BY <1>0, <1>11, ZenonT(30) DEF post_commit_maintenance, acquire_frozen_lease,
       schedule_frozen_derived, HolderInv, OwnerInv, RoleInv, JobInv,
       PcType
  <2>3. PublisherInv'
    BY <1>0, <1>11, SMTT(20) DEF post_commit_maintenance, acquire_frozen_lease,
       schedule_frozen_derived, PublisherInv, OwnerInv, RoleInv, JobInv,
       PcType, CountType
  <2>4. LeaseInv'
    BY <1>0, <1>11 DEF post_commit_maintenance, acquire_frozen_lease,
       schedule_frozen_derived, LeaseInv, OwnerInv, RoleInv, PcType,
       FlagType
  <2>5. QED
    BY <2>1, <2>2, <2>3, <2>4 DEF WaitInv
<1>12. CASE PostCommitCheckpoint(c)
  <2>1. RoleInv'
    BY <1>0, <1>12, SMTT(20) DEF PostCommitCheckpoint, acquire_frozen_lease,
       schedule_frozen_checkpoint, RoleInv, PcType
  <2>2. HolderInv'
    BY <1>0, <1>12, SMTT(20) DEF PostCommitCheckpoint, acquire_frozen_lease,
       schedule_frozen_checkpoint, HolderInv, OwnerInv, RoleInv, JobInv,
       PcType
  <2>3. PublisherInv'
    BY <1>0, <1>12 DEF PostCommitCheckpoint, acquire_frozen_lease,
       schedule_frozen_checkpoint, PublisherInv, OwnerInv, RoleInv,
       JobInv, PcType, CountType
  <2>4. LeaseInv'
    BY <1>0, <1>12 DEF PostCommitCheckpoint, acquire_frozen_lease,
       schedule_frozen_checkpoint, LeaseInv, OwnerInv, RoleInv, PcType,
       FlagType
  <2>5. QED
    BY <2>1, <2>2, <2>3, <2>4 DEF WaitInv
<1>13. QED
  BY <1>1, <1>2, <1>3, <1>4, <1>5, <1>6, <1>7, <1>8, <1>9, <1>10, <1>11,
     <1>12 DEF CommitStep

\* So do those of the workers and of explicit maintenance.
LEMMA WorkerWaitInv ==
    ASSUME Setting, MInv, WaitInv, mpNext, ~\E c \in Committers : CommitStep(c)
    PROVE  WaitInv'
<1> USE DEF Jobs, Goto, Lease, Publications, Deltas, LockCommit, UnlockCommit,
            ReleaseLease, set_index_delta_bytes, Free, CommitHolds, ExplicitHolds
<1>0. /\ PcType /\ FlagType /\ CountType /\ OwnerInv /\ JobInv /\ HeldInv
      /\ RoleInv /\ HolderInv /\ PublisherInv /\ LeaseInv
      /\ \A d \in Committers : /\ d \in AllThreads /\ d # Free /\ d # "checkpoint"
                               /\ d # "derived" /\ d # "merge" /\ d # "explicit"
      /\ {"checkpoint", "derived", "merge", "explicit"} \subseteq AllThreads
  BY DEF MInv, WaitInv, Setting, AllThreads, Workers
<1>1. CASE CheckpointPublish
  <2>1. RoleInv'
    BY <1>0, <1>1, SMTT(20) DEF CheckpointPublish, RoleInv, PcType
  <2>2. HolderInv'
    BY <1>0, <1>1, SMTT(20) DEF CheckpointPublish, HolderInv, OwnerInv, RoleInv,
       JobInv, PcType
  <2>3. PublisherInv'
    BY <1>0, <1>1 DEF CheckpointPublish, PublisherInv, OwnerInv, RoleInv,
       JobInv, PcType, CountType
  <2>4. LeaseInv'
    BY <1>0, <1>1 DEF CheckpointPublish, LeaseInv, OwnerInv, RoleInv,
       PcType, FlagType
  <2>5. QED
    BY <2>1, <2>2, <2>3, <2>4 DEF WaitInv
<1>2. CASE CheckpointAdopt
  <2>1. RoleInv'
    BY <1>0, <1>2, SMTT(20) DEF CheckpointAdopt, RoleInv, PcType
  <2>2. HolderInv'
    BY <1>0, <1>2, SMTT(20) DEF CheckpointAdopt, HolderInv, OwnerInv, RoleInv,
       JobInv, PcType
  <2>3. PublisherInv'
    BY <1>0, <1>2 DEF CheckpointAdopt, PublisherInv, OwnerInv, RoleInv,
       JobInv, PcType, CountType
  <2>4. LeaseInv'
    BY <1>0, <1>2 DEF CheckpointAdopt, LeaseInv, OwnerInv, RoleInv,
       PcType, FlagType
  <2>5. QED
    BY <2>1, <2>2, <2>3, <2>4 DEF WaitInv
<1>3. CASE CheckpointFails
  <2>1. RoleInv'
    BY <1>0, <1>3 DEF CheckpointFails, RoleInv, PcType
  <2>2. HolderInv'
    BY <1>0, <1>3 DEF CheckpointFails, HolderInv, OwnerInv, RoleInv,
       JobInv, PcType
  <2>3. PublisherInv'
    BY <1>0, <1>3 DEF CheckpointFails, PublisherInv, OwnerInv, RoleInv,
       JobInv, PcType, CountType
  <2>4. LeaseInv'
    BY <1>0, <1>3 DEF CheckpointFails, LeaseInv, OwnerInv, RoleInv,
       PcType, FlagType
  <2>5. QED
    BY <2>1, <2>2, <2>3, <2>4 DEF WaitInv
<1>4. CASE thaw_frozen_checkpoint
  <2>1. RoleInv'
    BY <1>0, <1>4, SMTT(20) DEF thaw_frozen_checkpoint, RoleInv, PcType
  <2>2. HolderInv'
    BY <1>0, <1>4, SMTT(20) DEF thaw_frozen_checkpoint, HolderInv, OwnerInv,
       RoleInv, JobInv, PcType
  <2>3. PublisherInv'
    BY <1>0, <1>4 DEF thaw_frozen_checkpoint, PublisherInv, OwnerInv,
       RoleInv, JobInv, PcType, CountType
  <2>4. LeaseInv'
    BY <1>0, <1>4 DEF thaw_frozen_checkpoint, LeaseInv, OwnerInv, RoleInv,
       PcType, FlagType
  <2>5. QED
    BY <2>1, <2>2, <2>3, <2>4 DEF WaitInv
<1>5. CASE CheckpointDrop
  <2>1. RoleInv'
    BY <1>0, <1>5, SMTT(20) DEF CheckpointDrop, RoleInv, PcType
  <2>2. HolderInv'
    BY <1>0, <1>5, SMTT(20) DEF CheckpointDrop, HolderInv, OwnerInv, RoleInv,
       JobInv, PcType
  <2>3. PublisherInv'
    BY <1>0, <1>5, SMTT(20) DEF CheckpointDrop, PublisherInv, OwnerInv, RoleInv,
       JobInv, PcType, CountType
  <2>4. LeaseInv'
    BY <1>0, <1>5 DEF CheckpointDrop, LeaseInv, OwnerInv, RoleInv, PcType,
       FlagType
  <2>5. QED
    BY <2>1, <2>2, <2>3, <2>4 DEF WaitInv
<1>6. CASE CheckpointDone
  <2>1. RoleInv'
    BY <1>0, <1>6, SMTT(20) DEF CheckpointDone, RoleInv, PcType
  <2>2. HolderInv'
    BY <1>0, <1>6, SMTT(20) DEF CheckpointDone, HolderInv, OwnerInv, RoleInv,
       JobInv, PcType
  <2>3. PublisherInv'
    BY <1>0, <1>6 DEF CheckpointDone, PublisherInv, OwnerInv, RoleInv,
       JobInv, PcType, CountType
  <2>4. LeaseInv'
    BY <1>0, <1>6 DEF CheckpointDone, LeaseInv, OwnerInv, RoleInv, PcType,
       FlagType
  <2>5. QED
    BY <2>1, <2>2, <2>3, <2>4 DEF WaitInv
<1>7. CASE DerivedPublish
  <2>1. RoleInv'
    BY <1>0, <1>7, Zenon DEF DerivedPublish, RoleInv, PcType
  <2>2. HolderInv'
    BY <1>0, <1>7, Zenon DEF DerivedPublish, HolderInv, OwnerInv, RoleInv,
       JobInv, PcType
  <2>3. PublisherInv'
    BY <1>0, <1>7 DEF DerivedPublish, PublisherInv, OwnerInv, RoleInv,
       JobInv, PcType, CountType
  <2>4. LeaseInv'
    BY <1>0, <1>7 DEF DerivedPublish, LeaseInv, OwnerInv, RoleInv, PcType,
       FlagType
  <2>5. QED
    BY <2>1, <2>2, <2>3, <2>4 DEF WaitInv
<1>8. CASE DerivedAdopt
  <2>1. RoleInv'
    BY <1>0, <1>8, Zenon DEF DerivedAdopt, RoleInv, PcType
  <2>2. HolderInv'
    BY <1>0, <1>8, Zenon DEF DerivedAdopt, HolderInv, OwnerInv, RoleInv, JobInv,
       PcType
  <2>3. PublisherInv'
    BY <1>0, <1>8 DEF DerivedAdopt, PublisherInv, OwnerInv, RoleInv,
       JobInv, PcType, CountType
  <2>4. LeaseInv'
    BY <1>0, <1>8 DEF DerivedAdopt, LeaseInv, OwnerInv, RoleInv, PcType,
       FlagType
  <2>5. QED
    BY <2>1, <2>2, <2>3, <2>4 DEF WaitInv
<1>9. CASE DerivedFails
  <2>1. RoleInv'
    BY <1>0, <1>9 DEF DerivedFails, RoleInv, PcType
  <2>2. HolderInv'
    BY <1>0, <1>9 DEF DerivedFails, HolderInv, OwnerInv, RoleInv, JobInv,
       PcType
  <2>3. PublisherInv'
    BY <1>0, <1>9 DEF DerivedFails, PublisherInv, OwnerInv, RoleInv,
       JobInv, PcType, CountType
  <2>4. LeaseInv'
    BY <1>0, <1>9 DEF DerivedFails, LeaseInv, OwnerInv, RoleInv, PcType,
       FlagType
  <2>5. QED
    BY <2>1, <2>2, <2>3, <2>4 DEF WaitInv
<1>10. CASE DerivedRecharge
  <2>1. RoleInv'
    BY <1>0, <1>10, SMTT(20) DEF DerivedRecharge, RoleInv, PcType
  <2>2. HolderInv'
    BY <1>0, <1>10 DEF DerivedRecharge, HolderInv, OwnerInv, RoleInv,
       JobInv, PcType
  <2>3. PublisherInv'
    BY <1>0, <1>10 DEF DerivedRecharge, PublisherInv, OwnerInv, RoleInv,
       JobInv, PcType, CountType
  <2>4. LeaseInv'
    BY <1>0, <1>10 DEF DerivedRecharge, LeaseInv, OwnerInv, RoleInv,
       PcType, FlagType
  <2>5. QED
    BY <2>1, <2>2, <2>3, <2>4 DEF WaitInv
<1>11. CASE DerivedDone
  <2>1. RoleInv'
    BY <1>0, <1>11, Zenon DEF DerivedDone, RoleInv, PcType
  <2>2. HolderInv'
    BY <1>0, <1>11 DEF DerivedDone, HolderInv, OwnerInv, RoleInv, JobInv,
       PcType
  <2>3. PublisherInv'
    BY <1>0, <1>11 DEF DerivedDone, PublisherInv, OwnerInv, RoleInv,
       JobInv, PcType, CountType
  <2>4. LeaseInv'
    BY <1>0, <1>11 DEF DerivedDone, LeaseInv, OwnerInv, RoleInv, PcType,
       FlagType
  <2>5. QED
    BY <2>1, <2>2, <2>3, <2>4 DEF WaitInv
<1>12. CASE MergeReserve
  <2>1. RoleInv'
    BY <1>0, <1>12, Zenon DEF MergeReserve, RoleInv, PcType
  <2>2. HolderInv'
    BY <1>0, <1>12, Zenon DEF MergeReserve, HolderInv, OwnerInv, RoleInv, JobInv,
       PcType
  <2>3. PublisherInv'
    BY <1>0, <1>12 DEF MergeReserve, PublisherInv, OwnerInv, RoleInv,
       JobInv, PcType, CountType
  <2>4. LeaseInv'
    BY <1>0, <1>12 DEF MergeReserve, LeaseInv, OwnerInv, RoleInv, PcType,
       FlagType
  <2>5. QED
    BY <2>1, <2>2, <2>3, <2>4 DEF WaitInv
<1>13. CASE MergeRelease
  <2>1. RoleInv'
    BY <1>0, <1>13, SMTT(20) DEF MergeRelease, RoleInv, PcType
  <2>2. HolderInv'
    BY <1>0, <1>13 DEF MergeRelease, HolderInv, OwnerInv, RoleInv, JobInv,
       PcType
  <2>3. PublisherInv'
    BY <1>0, <1>13 DEF MergeRelease, PublisherInv, OwnerInv, RoleInv,
       JobInv, PcType, CountType
  <2>4. LeaseInv'
    BY <1>0, <1>13 DEF MergeRelease, LeaseInv, OwnerInv, RoleInv, PcType,
       FlagType
  <2>5. QED
    BY <2>1, <2>2, <2>3, <2>4 DEF WaitInv
<1>14. CASE MergePublication
  <2>1. RoleInv'
    BY <1>0, <1>14 DEF MergePublication, RoleInv, PcType
  <2>2. HolderInv'
    BY <1>0, <1>14, Zenon DEF MergePublication, HolderInv, OwnerInv, RoleInv,
       JobInv, PcType
  <2>3. PublisherInv'
    BY <1>0, <1>14 DEF MergePublication, PublisherInv, OwnerInv, RoleInv,
       JobInv, PcType, CountType
  <2>4. LeaseInv'
    BY <1>0, <1>14 DEF MergePublication, LeaseInv, OwnerInv, RoleInv,
       PcType, FlagType
  <2>5. QED
    BY <2>1, <2>2, <2>3, <2>4 DEF WaitInv
<1>15. CASE MergeAdopt
  <2>1. RoleInv'
    BY <1>0, <1>15, Zenon DEF MergeAdopt, RoleInv, PcType
  <2>2. HolderInv'
    BY <1>0, <1>15 DEF MergeAdopt, HolderInv, OwnerInv, RoleInv, JobInv,
       PcType
  <2>3. PublisherInv'
    BY <1>0, <1>15 DEF MergeAdopt, PublisherInv, OwnerInv, RoleInv,
       JobInv, PcType, CountType
  <2>4. LeaseInv'
    BY <1>0, <1>15 DEF MergeAdopt, LeaseInv, OwnerInv, RoleInv, PcType,
       FlagType
  <2>5. QED
    BY <2>1, <2>2, <2>3, <2>4 DEF WaitInv
<1>16. CASE ExplicitBegin
  <2>1. RoleInv'
    BY <1>0, <1>16 DEF ExplicitBegin, RoleInv, PcType
  <2>2. HolderInv'
    BY <1>0, <1>16 DEF ExplicitBegin, HolderInv, OwnerInv, RoleInv,
       JobInv, PcType
  <2>3. PublisherInv'
    BY <1>0, <1>16 DEF ExplicitBegin, PublisherInv, OwnerInv, RoleInv,
       JobInv, PcType, CountType
  <2>4. LeaseInv'
    BY <1>0, <1>16 DEF ExplicitBegin, LeaseInv, OwnerInv, RoleInv, PcType,
       FlagType
  <2>5. QED
    BY <2>1, <2>2, <2>3, <2>4 DEF WaitInv
<1>17. CASE ExplicitWait
  <2>1. RoleInv'
    BY <1>0, <1>17, Zenon DEF ExplicitWait, RoleInv, PcType
  <2>2. HolderInv'
    BY <1>0, <1>17, SMTT(20) DEF ExplicitWait, HolderInv, OwnerInv, RoleInv, JobInv,
       PcType
  <2>3. PublisherInv'
    BY <1>0, <1>17 DEF ExplicitWait, PublisherInv, OwnerInv, RoleInv,
       JobInv, PcType, CountType
  <2>4. LeaseInv'
    BY <1>0, <1>17 DEF ExplicitWait, LeaseInv, OwnerInv, RoleInv, PcType,
       FlagType
  <2>5. QED
    BY <2>1, <2>2, <2>3, <2>4 DEF WaitInv
<1>18. CASE lock_commit_for_maintenance
  <2>1. RoleInv'
    BY <1>0, <1>18, SMTT(20) DEF lock_commit_for_maintenance, MaintenanceMayStart,
       RoleInv, PcType
  <2>2. HolderInv'
    BY <1>0, <1>18, SMTT(20) DEF lock_commit_for_maintenance, MaintenanceMayStart,
       HolderInv, OwnerInv, RoleInv, JobInv, PcType
  <2>3. PublisherInv'
    BY <1>0, <1>18 DEF lock_commit_for_maintenance, MaintenanceMayStart,
       PublisherInv, OwnerInv, RoleInv, JobInv, PcType, CountType
  <2>4. LeaseInv'
    BY <1>0, <1>18 DEF lock_commit_for_maintenance, MaintenanceMayStart,
       LeaseInv, OwnerInv, RoleInv, PcType, FlagType
  <2>5. QED
    BY <2>1, <2>2, <2>3, <2>4 DEF WaitInv
<1>19. CASE ExplicitSerial
  <2>1. RoleInv'
    BY <1>0, <1>19, SMTT(20) DEF ExplicitSerial, RoleInv, PcType
  <2>2. HolderInv'
    BY <1>0, <1>19, SMTT(20) DEF ExplicitSerial, HolderInv, OwnerInv, RoleInv,
       JobInv, PcType
  <2>3. PublisherInv'
    BY <1>0, <1>19 DEF ExplicitSerial, PublisherInv, OwnerInv, RoleInv,
       JobInv, PcType, CountType
  <2>4. LeaseInv'
    BY <1>0, <1>19 DEF ExplicitSerial, LeaseInv, OwnerInv, RoleInv,
       PcType, FlagType
  <2>5. QED
    BY <2>1, <2>2, <2>3, <2>4 DEF WaitInv
<1>20. CASE ExplicitReserve
  <2>1. RoleInv'
    BY <1>0, <1>20, Zenon DEF ExplicitReserve, RoleInv, PcType
  <2>2. HolderInv'
    BY <1>0, <1>20, Zenon DEF ExplicitReserve, HolderInv, OwnerInv, RoleInv,
       JobInv, PcType
  <2>3. PublisherInv'
    BY <1>0, <1>20 DEF ExplicitReserve, PublisherInv, OwnerInv, RoleInv,
       JobInv, PcType, CountType
  <2>4. LeaseInv'
    BY <1>0, <1>20, SMTT(20) DEF ExplicitReserve, LeaseInv, OwnerInv, RoleInv,
       PcType, FlagType
  <2>5. QED
    BY <2>1, <2>2, <2>3, <2>4 DEF WaitInv
<1>21. CASE ExplicitWork
  <2>1. RoleInv'
    BY <1>0, <1>21, Zenon DEF ExplicitWork, schedule_frozen_checkpoint,
       schedule_frozen_derived, RoleInv, PcType
  <2>2. HolderInv'
    BY <1>0, <1>21, Zenon DEF ExplicitWork, schedule_frozen_checkpoint,
       schedule_frozen_derived, HolderInv, OwnerInv, RoleInv, JobInv,
       PcType
  <2>3. PublisherInv'
    BY <1>0, <1>21, Zenon DEF ExplicitWork, schedule_frozen_checkpoint,
       schedule_frozen_derived, PublisherInv, OwnerInv, RoleInv, JobInv,
       PcType, CountType
  <2>4. LeaseInv'
    BY <1>0, <1>21 DEF ExplicitWork, schedule_frozen_checkpoint,
       schedule_frozen_derived, LeaseInv, OwnerInv, RoleInv, PcType,
       FlagType
  <2>5. QED
    BY <2>1, <2>2, <2>3, <2>4 DEF WaitInv
<1>22. CASE ExplicitFlushed
  <2>1. RoleInv'
    BY <1>0, <1>22, SMTT(20) DEF ExplicitFlushed, RoleInv, PcType
  <2>2. HolderInv'
    BY <1>0, <1>22, Zenon DEF ExplicitFlushed, HolderInv, OwnerInv, RoleInv,
       JobInv, PcType
  <2>3. PublisherInv'
    BY <1>0, <1>22, SMTT(20) DEF ExplicitFlushed, PublisherInv, OwnerInv, RoleInv,
       JobInv, PcType, CountType
  <2>4. LeaseInv'
    BY <1>0, <1>22 DEF ExplicitFlushed, LeaseInv, OwnerInv, RoleInv,
       PcType, FlagType
  <2>5. QED
    BY <2>1, <2>2, <2>3, <2>4 DEF WaitInv
<1>23. CASE VectorStep
  <2>1. RoleInv' /\ LeaseInv'
    BY <1>0, <1>23, Zenon DEF VectorStep, RoleInv, LeaseInv
  <2>2. HolderInv'
    BY <1>0, <1>23, Zenon DEF VectorStep, HolderInv
  <2>3. PublisherInv'
    BY <1>0, <1>23, Zenon DEF VectorStep, PublisherInv
  <2>4. QED
    BY <2>1, <2>2, <2>3 DEF WaitInv
<1>24. QED
  BY <1>1, <1>2, <1>3, <1>4, <1>5, <1>6, <1>7, <1>8, <1>9, <1>10, <1>11,
     <1>12, <1>13, <1>14, <1>15, <1>16, <1>17, <1>18, <1>19, <1>20, <1>21,
     <1>22, <1>23 DEF mpNext

\* Where every thread is, and what it holds, in every reachable state.
LEMMA AlwaysWaitInv == mpSpec => [](MInv /\ WaitInv)
<1>1. mpInit => MInv /\ WaitInv
  <2> SUFFICES ASSUME mpInit PROVE MInv /\ WaitInv
    OBVIOUS
  <2>1. MInv
    BY InitMInv, MaintenanceAssumption, Zenon
  <2>2. WaitInv
    BY MaintenanceAssumption DEF Setting, mpInit, WaitInv, RoleInv, HolderInv,
       PublisherInv, LeaseInv, AllThreads, Workers, CommitHolds, ExplicitHolds
  <2>3. QED
    BY <2>1, <2>2
<1>2. MInv /\ MInv' /\ WaitInv /\ [mpNext]_mpVars => WaitInv'
  <2> SUFFICES ASSUME MInv, WaitInv, [mpNext]_mpVars PROVE WaitInv'
    BY Zenon
  <2>1. CASE UNCHANGED mpVars
    BY <2>1, SMTT(20) DEF mpVars, WaitInv, RoleInv, HolderInv, PublisherInv, LeaseInv
  <2>2. QED
    BY <2>1, CommitWaitInv, WorkerWaitInv, MaintenanceAssumption
<1>3. QED
  BY <1>1, <1>2, AlwaysMInv, PTL DEF mpSpec

\* What a thread waits for, by where it is.
LEMMA Waits ==
    ASSUME NEW t
    PROVE  /\ at[t] \in {"idle", "validated", "post", "work", "drop", "status", "built"}
                => WaitsFor(t) = {}
           /\ at[t] \in {"lock", "applied", "adopt", "thaw", "recharge", "commit"}
                => WaitsFor(t) = {mutex} \ {Free}
           /\ at[t] \in {"leaseDerived", "leaseCheckpoint", "leaseSoft", "leaseFull"}
                => WaitsFor(t) = {serial} \ {Free}
           /\ at[t] = "reserveAll"
                => WaitsFor(t) = IF mergeMemory > 0 THEN {"merge"} ELSE {}
           /\ at[t] \in {"waitDerived", "waitCheckpoint", "waitJobs", "flush"}
                => WaitsFor(t) \subseteq Jobs
           /\ at[t] = "publish" /\ t = "checkpoint" => WaitsFor(t) = {primaryPub} \ {Free}
           /\ at[t] = "publish" /\ t = "derived" => WaitsFor(t) = {derivedPub} \ {Free}
           /\ at[t] = "pubPrimary" => WaitsFor(t) = {primaryPub} \ {Free}
           /\ at[t] = "pubDerived" => WaitsFor(t) = {derivedPub} \ {Free}
<1>1. CASE at[t] \in {"idle", "validated", "post", "work", "drop", "status", "built"}
  BY <1>1 DEF WaitsFor
<1>2. CASE at[t] \in {"lock", "applied", "adopt", "thaw", "recharge", "commit"}
  BY <1>2 DEF WaitsFor
<1>3. CASE at[t] \in {"leaseDerived", "leaseCheckpoint", "leaseSoft", "leaseFull"}
  BY <1>3 DEF WaitsFor
<1>4. CASE at[t] = "reserveAll"
  BY <1>4 DEF WaitsFor
<1>5. CASE at[t] \in {"waitDerived", "waitCheckpoint", "waitJobs", "flush"}
  BY <1>5, Zenon DEF WaitsFor, Jobs
<1>6. CASE at[t] \in {"publish", "pubPrimary", "pubDerived"}
  BY <1>6 DEF WaitsFor
<1>7. QED
  BY <1>1, <1>2, <1>3, <1>4, <1>5, <1>6, Zenon

\* The threads can be ranked so that each waits for one of a lower rank only:
\* the threads that wait for nothing, the owner of the commit mutex, those
\* that wait for that mutex, those that wait for a publication mutex, and
\* those that wait for a background job.
LEMMA Ranked ==
    ASSUME Setting, MInv, WaitInv, ~DerivedLeaseBehindCheckpoint,
           NEW S, S \subseteq AllThreads, S # {}, Standstill(S)
    PROVE  FALSE
<1>0. /\ OwnerInv /\ JobInv /\ HeldInv /\ RoleInv /\ HolderInv /\ PublisherInv /\ LeaseInv
      /\ Free \notin AllThreads /\ "explicit" \notin Committers
  BY DEF MInv, WaitInv, Setting, AllThreads, Workers, Free
<1>1. \A t \in S : \E u \in S : u \in WaitsFor(t)
  BY DEF Standstill
<1>2. \A t \in S : at[t] \notin {"idle", "validated", "post", "work", "drop", "status", "built"}
  BY <1>1, Waits
<1>3. mutex \notin S
  <2> SUFFICES ASSUME mutex \in S PROVE FALSE
    OBVIOUS
  <2>1. \/ mutex \in Committers /\ at[mutex] \in CommitHolds
        \/ mutex = "explicit" /\ at["explicit"] \in ExplicitHolds
    BY <1>0 DEF HolderInv
  <2>2. CASE at[mutex] = "reserveAll"
    <3>1. mergeMemory > 0 /\ "merge" \in S
      BY <1>1, <2>2, Waits
    <3>2. QED
      BY <1>0, <1>2, <3>1 DEF PublisherInv
  <2>3. CASE at[mutex] \in {"leaseDerived", "leaseCheckpoint", "leaseSoft", "leaseFull"}
    <3>1. serial \in S /\ serial # Free
      BY <1>1, <2>3, Waits
    <3>2. ~running["derived"] /\ (frozenBytes = 0 \/ at[mutex] = "leaseDerived")
      BY <1>0, <2>1, <2>3 DEF HeldInv, LeaseInv, CommitHolds, ExplicitHolds
    <3>3. serial # "derived"
      BY <1>0, <3>1, <3>2 DEF HolderInv, JobInv
    <3>4. serial # "explicit"
      BY <1>0, <2>1, <2>3, <3>1 DEF HolderInv, OwnerInv, ExplicitHolds
    <3>5. serial = "checkpoint" /\ at["checkpoint"] \in {"publish", "adopt"}
      BY <1>0, <1>2, <3>1, <3>3, <3>4 DEF HolderInv
    <3>6. frozenBytes > 0 /\ at[mutex] # "leaseDerived"
      BY <1>0, <2>1, <3>5 DEF JobInv, DerivedLeaseBehindCheckpoint, ExplicitHolds
    <3>7. QED
      BY <3>2, <3>6, SMTT(20)
  <2>4. QED
    BY <1>2, <2>1, <2>2, <2>3 DEF CommitHolds, ExplicitHolds
<1>4. \A t \in S : at[t] \notin {"lock", "applied", "adopt", "thaw", "recharge", "commit"}
  BY <1>1, <1>3, Waits
<1>5. primaryPub \notin S /\ derivedPub \notin S
  BY <1>0, <1>2, <1>4 DEF PublisherInv
<1>6. "checkpoint" \notin S /\ "derived" \notin S
  <2>1. \A j \in Jobs : j \in S => at[j] # "publish"
    BY <1>1, <1>5, Waits, SMTT(20) DEF Jobs
  <2>2. QED
    BY <1>0, <1>2, <1>4, <2>1 DEF JobInv, RoleInv, Jobs
<1>7. "merge" \notin S
  BY <1>0, <1>1, <1>2, <1>4, <1>5, Waits DEF RoleInv
<1>8. \A t \in S : at[t] \notin {"waitDerived", "waitCheckpoint", "waitJobs", "flush"}
  BY <1>1, <1>6, Waits DEF Jobs
<1>9. "explicit" \notin S
  BY <1>0, <1>2, <1>3, <1>4, <1>8 DEF RoleInv, OwnerInv, ExplicitHolds
<1>10. \A c \in Committers : c \notin S
  BY <1>0, <1>2, <1>3, <1>4, <1>8 DEF RoleInv, OwnerInv, CommitHolds
<1>11. QED
  BY <1>6, <1>7, <1>9, <1>10 DEF AllThreads, Workers

\* Hard pressure, the soft threshold, explicit maintenance, background jobs
\* and run merges never close a circle of waiting threads, for any number of
\* committing threads, except through the commit that waits for the exclusion
\* on behalf of the derived overlays while a checkpoint owns it.
THEOREM OthersNeverStandStill == mpSpec => []NoOtherStandstill
<1>1. MInv /\ WaitInv => NoOtherStandstill
  <2> SUFFICES ASSUME MInv, WaitInv, ~DerivedLeaseBehindCheckpoint
               PROVE  NoStandstill
    BY Zenon DEF NoOtherStandstill
  <2>1. ASSUME NEW S \in (SUBSET Waiting) \ {{}}, Standstill(S)
        PROVE  FALSE
    <3>1. S \subseteq AllThreads /\ S # {}
      BY Zenon DEF Waiting
    <3>2. QED
      BY <2>1, <3>1, Ranked, MaintenanceAssumption, Zenon
  <2>2. QED
    BY <2>1, Zenon DEF NoStandstill
<1>2. QED
  BY <1>1, AlwaysWaitInv, PTL
=============================================================================
