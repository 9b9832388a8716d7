------------------------- MODULE VersionStoreProofs --------------------------
(***************************************************************************)
(* Proofs about VersionStore for any rows, threads, writers and bounds:    *)
(* overlays are newer than runs, blob files outlive the versions that name *)
(* them, and every read at a snapshot returns the row as of its version,   *)
(* however commits, checkpoints, thaws and compactions interleave.         *)
(***************************************************************************)
EXTENDS VersionStore, SequenceTheorems, WellFoundedInduction, TLAPS

Ent == [id : Ids, ver : Nat, blob : Nat]
All == delta \cup frozen \cup base

RwState == [pc : {"idle", "scan", "build", "adopt", "gc"}, shard : Nat,
            marks : SUBSET Nat, keep : SUBSET Ent, left : Int]

RdState == [pc : {"idle", "loaded", "listed", "open", "reading"},
            how : {"none", "taken", "clone"}, ver : Nat,
            entry : Ent \cup {Absent}, got : Int]

\* A set of versions of the commits in h.
From(S, h) == \A e \in S : e.ver \in 1..Len(h) /\ h[e.ver] = e

-----------------------------------------------------------------------------
(* The invariants.                                                         *)

\* What is stored are versions the commits made, newest in the delta, then in
\* the frozen generation, then in the runs.
StoreInv ==
    /\ hist \in Seq(Ent)
    /\ \A v \in 1..Len(hist) : hist[v].ver = v
    /\ From(delta, hist) /\ From(frozen, hist) /\ From(base, hist)
    /\ \A d \in delta, f \in frozen : d.id = f.id => d.ver > f.ver
    /\ OverlayNewer

\* The rewrite works on drained overlays and publishes what it computed.
RewriteInv ==
    /\ rw \in RwState
    /\ rw.pc # "idle" => delta = {} /\ frozen = {}
    /\ rw.pc = "scan" => rw.shard < Threads
    /\ rw.pc = "adopt" => rw.keep = Kept(base, Watermarks(rw.marks))
    /\ rw.pc = "gc" => rw.keep = base

\* Blob names are drawn once; a prepared commit's blob is pending and a stored
\* version's blob is on disk.
BlobInv ==
    /\ named \in Nat /\ blobFiles \subseteq 0..named /\ pend \subseteq blobFiles
    /\ tx \in [Writers -> 0..named]
    /\ \A w \in Writers : tx[w] # 0 => tx[w] \in pend
    /\ \A w, x \in Writers : w # x /\ tx[w] # 0 => tx[w] # tx[x]
    /\ \A e \in All : e.blob # 0 => e.blob \in blobFiles

ReaderType == snaps \in [Readers -> Nat] /\ rd \in [Readers -> RdState]

-----------------------------------------------------------------------------
(* Facts about sets of numbers.                                            *)

\* A set of naturals that is not empty has a least element.
LEMMA NatMin ==
    ASSUME NEW T \in SUBSET Nat, T # {}
    PROVE  \E x \in T : \A y \in T : x <= y
<1> DEFINE R == {ss \in Nat \X Nat : ss[1] < ss[2]}
<1>1. IsWellFoundedOn(R, Nat)
  BY NatLessThanWellFounded DEF OpToRel
<1>2. PICK x \in T : \A y \in T : ~(<<y, x>> \in R)
  <2> HIDE DEF R
  <2> QED BY <1>1, WFMin, Zenon
<1>3. \A y \in T : <<y, x>> \in R <=> y < x
  OBVIOUS
<1>4. \A y \in T : ~(y < x)
  <2> HIDE DEF R
  <2> QED BY <1>2, <1>3, Zenon
<1>5. QED
  BY <1>4

\* A bounded one has a greatest element.
LEMMA NatMax ==
    ASSUME NEW n \in Nat, NEW T \in SUBSET (1..n), T # {}
    PROVE  \E x \in T : \A y \in T : y <= x
<1> DEFINE U == {u \in Nat : \E y \in T : u = n - y}
<1>1. \A y \in T : n - y \in U
  OBVIOUS
<1>2. U \in SUBSET Nat /\ U # {}
  BY <1>1, Zenon
<1>3. PICK u \in U : \A w \in U : u <= w
  <2> HIDE DEF U
  <2> QED BY <1>2, NatMin
<1>4. PICK x \in T : u = n - x
  BY <1>3
<1>5. \A y \in T : n - x <= n - y
  BY <1>1, <1>3, <1>4
<1>6. QED
  BY <1>5

\* Max picks it.
LEMMA MaxOf ==
    ASSUME NEW n \in Nat, NEW T \in SUBSET (1..n), T # {}
    PROVE  Max(T) \in T /\ \A y \in T : y <= Max(T)
<1>1. PICK x \in T : \A y \in T : y <= x
  BY NatMax, Zenon
<1>2. \A y \in T : x >= y
  BY <1>1
<1>3. QED
  BY <1>2, Zenon DEF Max

-----------------------------------------------------------------------------
(* Overlays are newer than runs.                                           *)

\* Commits go to the delta above everything else, a frozen generation is
\* adopted or thawed whole: the order of the overlays and runs is kept.
LEMMA StoreStep ==
    ASSUME StoreInv, RewriteInv, BlobInv, [vsNext]_vsVars
    PROVE  StoreInv'
<1> USE DEF StoreInv, RewriteInv, From, OverlayNewer
<1>1. ASSUME NEW id \in Ids, NEW b \in Nat, Applied(id, b),
             UNCHANGED <<frozen, base>>
      PROVE  StoreInv'
  <2> DEFINE e == [id |-> id, ver |-> Len(hist) + 1, blob |-> b]
  <2>1. e \in Ent /\ e.ver = Len(hist) + 1 /\ e.id = id
    BY DEF Ent
  <2>2. hist' = Append(hist, e) /\ delta' = delta \cup {e}
    BY <1>1 DEF Applied, committed
  <2> HIDE DEF e
  <2>3. /\ hist' \in Seq(Ent) /\ Len(hist') = Len(hist) + 1
        /\ \A v \in 1..Len(hist) : hist'[v] = hist[v]
        /\ hist'[Len(hist) + 1] = e
    BY <2>1, <2>2
  <2>4. \A v \in 1..Len(hist') : hist'[v].ver = v
    BY <2>1, <2>3
  <2>5. From(delta', hist') /\ From(frozen', hist') /\ From(base', hist')
    BY <1>1, <2>1, <2>2, <2>3
  <2>6. \A d \in delta', f \in frozen' : d.id = f.id => d.ver > f.ver
    BY <1>1, <2>1, <2>2
  <2>7. OverlayNewer'
    BY <1>1, <2>1, <2>2
  <2>8. QED
    BY <2>3, <2>4, <2>5, <2>6, <2>7
<1>2. CASE Freeze
  BY <1>2 DEF Freeze
<1>3. CASE AdoptFrozen
  BY <1>3 DEF AdoptFrozen
<1>4. CASE Thaw
  BY <1>4 DEF Thaw
<1>5. CASE RewriteBegin
  BY <1>5 DEF RewriteBegin
<1>6. CASE RewriteAdopt
  <2>1. \A e \in rw.keep : e \in base
    BY <1>6 DEF RewriteAdopt, Kept
  <2>2. QED
    BY <1>6, <2>1 DEF RewriteAdopt
<1>7. CASE UNCHANGED store
  BY <1>7, Zenon DEF store
<1>8. QED
  <2>1. CASE \E w \in Writers : CommitPut(w)
    <3>1. PICK w \in Writers : CommitPut(w)
      BY <2>1
    <3>2. PICK id \in Ids : Applied(id, tx[w])
      BY <3>1 DEF CommitPut
    <3>3. tx[w] \in Nat
      BY DEF BlobInv
    <3>4. QED
      BY <1>1, <3>1, <3>2, <3>3 DEF CommitPut
  <2>2. CASE CommitDelete
    BY <1>1, <2>2 DEF CommitDelete
  <2>3. CASE UNCHANGED vsVars
    BY <1>7, <2>3 DEF vsVars
  <2>4. QED
    BY <1>2, <1>3, <1>4, <1>5, <1>6, <1>7, <2>1, <2>2, <2>3, Zenon
    DEF vsNext, StageBlob, CommitFails, RewriteScanShard, RewriteBuild,
        RewriteGc, RewriteFails, SnapLoad, SnapRegister, SnapConfirm,
        SnapClone, Lookup, Decode, Release

\* The rewrite starts on drained overlays, and the commit mutex keeps them
\* drained until it ends.
LEMMA RewriteStep ==
    ASSUME StoreInv, RewriteInv, ReaderType, Threads \in Nat \ {0}, [vsNext]_vsVars
    PROVE  RewriteInv'
<1> USE DEF RewriteInv
<1> DEFINE Same == UNCHANGED <<hist, delta, frozen, base, rw>>
<1>1. CASE Same
  <2>1. Kept(base, Watermarks(rw.marks))' = Kept(base, Watermarks(rw.marks))
    BY <1>1 DEF Kept, NewestIn, Watermarks, committed
  <2>2. QED
    BY <1>1, <2>1
<1>2. CASE rw.pc = "idle" /\ UNCHANGED rw
  BY <1>2
<1>3. CASE RewriteBegin
  <2>1. rw' = [pc |-> "scan", shard |-> 0, marks |-> {}, keep |-> rw.keep,
               left |-> rw.left - 1]
    BY <1>3, Zenon DEF RewriteBegin, RwState
  <2>2. rw.left - 1 \in Int /\ rw.keep \in SUBSET Ent
    BY DEF RwState
  <2>3. rw' \in RwState
    BY <2>1, <2>2 DEF RwState
  <2>4. QED
    BY <1>3, <2>1, <2>3 DEF RewriteBegin
<1>4. CASE RewriteScanShard
  <2>1. rw.shard + 1 \in Readers
    BY <1>4 DEF RewriteScanShard, RwState, Readers
  <2>2. {snaps[rw.shard + 1]} \ {0} \in SUBSET Nat
    BY <2>1 DEF ReaderType
  <2>3. rw' = [pc |-> IF rw.shard + 1 = Threads THEN "build" ELSE "scan",
               shard |-> rw.shard + 1,
               marks |-> rw.marks \cup ({snaps[rw.shard + 1]} \ {0}),
               keep |-> rw.keep, left |-> rw.left]
    BY <1>4, Zenon DEF RewriteScanShard, RwState
  <2>4. rw.shard + 1 \in Nat /\ rw.keep \in SUBSET Ent /\ rw.left \in Int
        /\ rw.marks \cup ({snaps[rw.shard + 1]} \ {0}) \in SUBSET Nat
    BY <2>2 DEF RwState
  <2>5. rw' \in RwState
    BY <2>3, <2>4 DEF RwState
  <2>6. QED
    BY <1>4, <2>1, <2>3, <2>5 DEF RewriteScanShard, Readers, store
<1>5. CASE RewriteBuild
  <2> DEFINE kept == Kept(base, Watermarks(rw.marks))
  <2>1. kept \in SUBSET Ent
    <3>1. kept \subseteq base
      BY DEF Kept
    <3>2. base \subseteq Ent
      BY DEF StoreInv, From
    <3>3. QED
      BY <3>1, <3>2
  <2>2. rw' = [pc |-> "adopt", shard |-> rw.shard, marks |-> rw.marks,
               keep |-> kept, left |-> rw.left]
    BY <1>5, Zenon DEF RewriteBuild, RwState
  <2>3. rw' \in RwState
    <3> HIDE DEF kept
    <3> QED BY <2>1, <2>2 DEF RwState
  <2>4. kept' = kept
    BY <1>5, <2>2 DEF RewriteBuild, store, Watermarks, committed
  <2>5. QED
    <3> HIDE DEF kept
    <3>1. rw'.keep = kept /\ rw'.pc = "adopt"
      BY <2>2
    <3>2. kept' = Kept(base, Watermarks(rw.marks))'
      BY DEF kept
    <3>3. QED
      BY <1>5, <2>3, <2>4, <3>1, <3>2 DEF RewriteBuild, store
<1>6. CASE RewriteAdopt
  BY <1>6 DEF RewriteAdopt, RwState
<1>7. CASE RewriteGc \/ RewriteFails
  BY <1>7 DEF RewriteGc, RewriteFails, RwState, NoRewrite
<1>8. QED
  BY <1>1, <1>2, <1>3, <1>4, <1>5, <1>6, <1>7, Zenon
  DEF vsNext, StageBlob, CommitPut, CommitFails, CommitDelete, CommitMutexFree,
      Freeze, AdoptFrozen, Thaw, SnapLoad, SnapRegister, SnapConfirm,
      SnapClone, Lookup, Decode, Release, vsVars, store

\* The collector leaves the blobs of the versions it kept and of the commits
\* that are prepared.
LEMMA BlobStep ==
    ASSUME StoreInv, RewriteInv, BlobInv, [vsNext]_vsVars
    PROVE  BlobInv'
<1> USE DEF BlobInv, All
<1>1. ASSUME NEW w \in Writers, StageBlob(w)
      PROVE  BlobInv'
  <2>1. named + 1 \notin blobFiles /\ named + 1 # 0
    OBVIOUS
  <2>2. /\ named' = named + 1 /\ blobFiles' = blobFiles \cup {named + 1}
        /\ pend' = pend \cup {named + 1} /\ tx' = [tx EXCEPT ![w] = named + 1]
    BY <1>1 DEF StageBlob
  <2>3. /\ named' \in Nat /\ blobFiles' \subseteq 0..named' /\ pend' \subseteq blobFiles'
        /\ tx' \in [Writers -> 0..named']
    BY <2>2
  <2>4. \A x \in Writers : tx'[x] # 0 => tx'[x] \in pend'
    BY <2>2
  <2>5. \A x \in Writers : x # w => tx'[x] # named + 1 /\ tx'[x] = tx[x]
    BY <2>2
  <2>6. \A x, y \in Writers : x # y /\ tx'[x] # 0 => tx'[x] # tx'[y]
    BY <2>2, <2>5
  <2>7. All' = All
    BY <1>1 DEF StageBlob, store
  <2>8. \A e \in All' : e.blob # 0 => e.blob \in blobFiles'
    BY <2>2, <2>7
  <2>9. QED
    BY <2>3, <2>4, <2>6, <2>8
<1>2. ASSUME NEW w \in Writers, tx[w] # 0, UNCHANGED <<blobFiles, named>>,
             pend' = pend \ {tx[w]}, tx' = [tx EXCEPT ![w] = 0],
             \A e \in All' : e.blob # 0 => e.blob \in blobFiles
      PROVE  BlobInv'
  <2>1. pend' \subseteq blobFiles' /\ tx' \in [Writers -> 0..named']
    <3>1. 0 \in 0..named
      OBVIOUS
    <3>2. tx' \in [Writers -> 0..named]
      BY <1>2, <3>1
    <3>3. QED
      BY <1>2, <3>2, Zenon
  <2>2. \A x \in Writers : tx'[x] # 0 => x # w /\ tx'[x] = tx[x]
    BY <1>2
  <2>3. \A x \in Writers : tx'[x] # 0 => tx'[x] \in pend'
    <3>1. \A x \in Writers : x # w /\ tx[x] # 0 => tx[x] # tx[w] /\ tx[x] \in pend
      OBVIOUS
    <3>2. QED
      BY <1>2, <2>2, <3>1
  <2>4. \A x, y \in Writers : x # y /\ tx'[x] # 0 => tx'[x] # tx'[y]
    BY <1>2, <2>2
  <2>5. QED
    BY <1>2, <2>1, <2>3, <2>4
<1>3. ASSUME NEW w \in Writers, CommitPut(w) \/ CommitFails(w)
      PROVE  BlobInv'
  <2>1. CASE CommitPut(w)
    <3>1. PICK id \in Ids : delta' = delta \cup
             {[id |-> id, ver |-> committed + 1, blob |-> tx[w]]}
      BY <2>1 DEF CommitPut, Applied
    <3>2. \A e \in All' : e.blob # 0 => e.blob \in blobFiles
      BY <2>1, <3>1 DEF CommitPut
    <3>3. QED
      BY <1>2, <2>1, <3>2, Zenon DEF CommitPut
  <2>2. CASE CommitFails(w)
    BY <1>2, <2>2, Zenon DEF CommitFails, store
  <2>3. QED
    BY <1>3, <2>1, <2>2
<1>4. CASE CommitDelete
  <2>1. PICK id \in Ids :
           delta' = delta \cup {[id |-> id, ver |-> committed + 1, blob |-> 0]}
    BY <1>4 DEF CommitDelete, Applied
  <2>2. QED
    BY <1>4, <2>1 DEF CommitDelete, blobs
<1>5. CASE Freeze \/ AdoptFrozen \/ Thaw \/ RewriteBegin
  BY <1>5 DEF Freeze, AdoptFrozen, Thaw, RewriteBegin, blobs
<1>6. CASE RewriteAdopt
  <2>1. rw.keep \subseteq base
    BY <1>6 DEF RewriteAdopt, RewriteInv, Kept
  <2>2. QED
    BY <1>6, <2>1 DEF RewriteAdopt, blobs
<1>7. CASE RewriteGc
  <2>1. delta = {} /\ frozen = {} /\ rw.keep = base
    BY <1>7 DEF RewriteGc, RewriteInv
  <2>2. \A e \in base : e.blob # 0 => e.blob \in Referenced
    BY <2>1 DEF Referenced
  <2>3. pend \subseteq Referenced
    BY DEF Referenced
  <2>4. QED
    BY <1>7, <2>1, <2>2, <2>3 DEF RewriteGc, store
<1>8. CASE UNCHANGED <<store, blobs>>
  BY <1>8 DEF store, blobs
<1>9. QED
  BY <1>1, <1>3, <1>4, <1>5, <1>6, <1>7, <1>8, Zenon
  DEF vsNext, RewriteScanShard, RewriteBuild, RewriteFails, SnapLoad,
      SnapRegister, SnapConfirm, SnapClone, Lookup, Decode, Release, vsVars

-----------------------------------------------------------------------------
(* Lookups.                                                                *)

\* k is the last of the first v commits that wrote its row.
LatestAt(h, k, v) == k \in 1..v /\ \A j \in (k + 1)..v : h[j].id # h[k].id

\* S answers for version v of every row: it holds the row's last version, or
\* that version is a tombstone and S holds no put before it.
Represents(h, S, v) ==
    \A k \in 1..v : LatestAt(h, k, v) =>
        \/ h[k] \in S
        \/ /\ h[k].blob = 0
           /\ \A o \in S : o.id = h[k].id /\ o.ver <= v => o.blob = 0

Seen(S, id, v) == {e \in S : e.id = id /\ e.ver <= v}

\* e is what a lookup in S must return.
IsNewest(e, S, id, v) ==
    IF Seen(S, id, v) = {} THEN e = Absent
    ELSE e \in Seen(S, id, v) /\ \A o \in Seen(S, id, v) : o.ver <= e.ver

\* NewestIn finds the newest version of a row at or before v, if there is one.
LEMMA NewestInIsNewest ==
    ASSUME NEW h \in Seq(Ent), NEW S, From(S, h), NEW id, NEW v \in Nat
    PROVE  IsNewest(NewestIn(S, id, v), S, id, v)
<1> DEFINE seen == Seen(S, id, v)
<1>1. CASE seen = {}
  BY <1>1 DEF NewestIn, IsNewest, Seen
<1>2. CASE seen # {}
  <2> DEFINE T == {e.ver : e \in seen}
  <2>1. T \in SUBSET (1..Len(h)) /\ T # {} /\ Len(h) \in Nat
    BY <1>2 DEF From, Seen
  <2>2. PICK m \in T : \A y \in T : y <= m
    <3> HIDE DEF T
    <3> QED BY <2>1, NatMax, Zenon
  <2>3. PICK e \in seen : e.ver = m
    BY <2>2
  <2>4. \A o \in seen : o.ver <= e.ver
    BY <2>2, <2>3
  <2>5. NewestIn(S, id, v) = CHOOSE x \in seen : \A o \in seen : o.ver <= x.ver
    BY <1>2, Zenon DEF NewestIn, Seen
  <2>6. QED
    BY <1>2, <2>4, <2>5 DEF IsNewest
<1>3. QED
  BY <1>1, <1>2

\* So does the lookup that stops at the overlays, since they are newer.
LEMMA NewestIsNewest ==
    ASSUME StoreInv, NEW id, NEW v \in Nat
    PROVE  IsNewest(Newest(id, v), All, id, v)
<1> DEFINE overlay == delta \cup frozen
           found == NewestIn(overlay, id, v)
<1>1. From(overlay, hist) /\ From(base, hist) /\ hist \in Seq(Ent)
  BY DEF StoreInv, From
<1>2. IsNewest(found, overlay, id, v)
  BY <1>1, NewestInIsNewest
<1>3. IsNewest(NewestIn(base, id, v), base, id, v)
  BY <1>1, NewestInIsNewest
<1>4. Seen(All, id, v) = Seen(overlay, id, v) \cup Seen(base, id, v)
  BY DEF Seen, All
<1>5. CASE Seen(overlay, id, v) = {}
  <2>1. found = Absent /\ found.ver = 0
    BY <1>2, <1>5 DEF IsNewest, Absent
  <2>2. Newest(id, v) = NewestIn(base, id, v)
    BY <2>1 DEF Newest
  <2>3. QED
    BY <1>3, <1>4, <1>5, <2>2, Zenon DEF IsNewest
<1>6. CASE Seen(overlay, id, v) # {}
  <2>1. /\ found \in Seen(overlay, id, v)
        /\ \A o \in Seen(overlay, id, v) : o.ver <= found.ver
    BY <1>2, <1>6, Zenon DEF IsNewest
  <2>2. found.ver \in Nat \ {0} /\ found \in overlay /\ found.id = id
    BY <1>1, <2>1 DEF Seen, From
  <2>3. Newest(id, v) = found
    BY <2>2 DEF Newest
  <2>4. \A b \in Seen(base, id, v) : b.ver <= found.ver
    <3>1. \A b \in Seen(base, id, v) : b \in base /\ b.id = id /\ b.ver \in Nat
      BY <1>1 DEF Seen, From
    <3>2. QED
      BY <2>2, <3>1 DEF StoreInv, OverlayNewer
  <2>5. QED
    BY <1>4, <2>1, <2>3, <2>4, Zenon DEF IsNewest
<1>7. QED
  BY <1>5, <1>6

\* A rewrite keeps what a watermark needs: the versions it drops are not the
\* answer at any of them.
LEMMA KeptRepresents ==
    ASSUME NEW h \in Seq(Ent), \A k \in 1..Len(h) : h[k].ver = k,
           NEW S, From(S, h), NEW W, NEW v \in W, v \in 0..Len(h),
           Represents(h, S, v)
    PROVE  /\ Represents(h, Kept(S, W), v)
           /\ \A e \in S : e.blob # 0 /\ LatestAt(h, e.ver, v) => e \in Kept(S, W)
<1> DEFINE newest == {e \in S : \E m \in W : NewestIn(S, e.id, m) = e}
<1>1. Kept(S, W) = {e \in newest : \/ e.blob # 0
                                   \/ \E p \in newest : /\ p.id = e.id
                                                        /\ p.ver < e.ver
                                                        /\ p.blob # 0}
  BY DEF Kept
<1>2. ASSUME NEW k \in 1..v, LatestAt(h, k, v), h[k] \in S
      PROVE  h[k] \in newest /\ \A o \in S : o.id = h[k].id /\ o.ver <= v
                                               => o.ver <= k
  <2> DEFINE e == NewestIn(S, h[k].id, v)
  <2>1. h[k].ver = k /\ k \in 1..Len(h)
    OBVIOUS
  <2>2. h[k] \in Seen(S, h[k].id, v)
    BY <1>2, <2>1 DEF Seen
  <2>3. IsNewest(e, S, h[k].id, v)
    BY NewestInIsNewest
  <2>4. e \in S /\ e.id = h[k].id /\ e.ver <= v
        /\ \A o \in Seen(S, h[k].id, v) : o.ver <= e.ver
    BY <2>2, <2>3 DEF IsNewest, Seen
  <2>5. e.ver \in 1..Len(h) /\ h[e.ver] = e /\ k <= e.ver
    BY <2>1, <2>2, <2>4 DEF From
  <2>6. e.ver = k
    <3>1. ~(e.ver \in (k + 1)..v)
      BY <1>2, <2>4, <2>5 DEF LatestAt
    <3>2. QED
      BY <2>4, <2>5, <3>1
  <2>7. e = h[k]
    BY <2>5, <2>6
  <2>8. h[k] \in newest
    BY <1>2, <2>7
  <2>9. QED
    BY <2>4, <2>6, <2>8 DEF Seen
<1>3. \A e \in S : e.blob # 0 /\ LatestAt(h, e.ver, v) => e \in Kept(S, W)
  <2> SUFFICES ASSUME NEW e \in S, e.blob # 0, LatestAt(h, e.ver, v)
               PROVE  e \in Kept(S, W)
    OBVIOUS
  <2>1. h[e.ver] = e /\ e.ver \in 1..v
    BY DEF From, LatestAt
  <2>2. e \in newest
    BY <1>2, <2>1
  <2>3. QED
    BY <1>1, <2>2
<1>4. ASSUME NEW k \in 1..v, LatestAt(h, k, v)
      PROVE  \/ h[k] \in Kept(S, W)
             \/ /\ h[k].blob = 0
                /\ \A o \in Kept(S, W) : o.id = h[k].id /\ o.ver <= v => o.blob = 0
  <2>1. CASE h[k] \notin S
    BY <1>1, <1>4, <2>1 DEF Represents
  <2>2. CASE h[k] \in S /\ h[k].blob # 0
    BY <1>1, <1>2, <1>4, <2>2
  <2>3. CASE h[k] \in S /\ h[k].blob = 0 /\ h[k] \notin Kept(S, W)
    <3>1. h[k] \in newest /\ h[k].ver = k
      BY <1>2, <1>4, <2>3
    <3>2. \A p \in newest : ~(p.id = h[k].id /\ p.ver < k /\ p.blob # 0)
      BY <1>1, <2>3, <3>1
    <3>3. \A o \in newest : o.id = h[k].id /\ o.ver <= v => o.ver <= k
      BY <1>2, <1>4, <2>3
    <3>4. \A o \in newest : o.ver \in Nat /\ o.ver = k => o = h[k]
      BY DEF From
    <3>5. \A o \in newest : o.ver \in Nat
      BY DEF From
    <3>6. QED
      <4> HIDE DEF newest
      <4> SUFFICES ASSUME NEW o \in Kept(S, W), o.id = h[k].id, o.ver <= v
                   PROVE  o.blob = 0
        BY <2>3
      <4>1. o \in newest
        BY <1>1
      <4>2. o.ver <= k /\ o.ver \in Nat
        BY <3>3, <3>5, <4>1
      <4>3. CASE o.ver < k
        BY <3>2, <4>1, <4>3
      <4>4. CASE o.ver = k
        BY <2>3, <3>4, <4>1, <4>2, <4>4
      <4>5. QED
        BY <4>2, <4>3, <4>4
  <2>4. QED
    BY <2>1, <2>2, <2>3
<1>5. Represents(h, Kept(S, W), v)
  BY <1>4 DEF Represents
<1>6. QED
  BY <1>3, <1>5

\* A lookup at a version the store answers for returns the row as the commits
\* left it.
LEMMA LookupExact ==
    ASSUME StoreInv, NEW id \in Ids, NEW v \in 0..Len(hist),
           Represents(hist, All, v)
    PROVE  LET e == Newest(id, v)
           IN  /\ Payload(e) = Truth(id, v)
               /\ e \in Ent \cup {Absent}
               /\ e.blob # 0 => e \in All /\ LatestAt(hist, e.ver, v)
<1> DEFINE e == Newest(id, v)
           of == {k \in 1..v : hist[k].id = id}
<1>1. Len(hist) \in Nat /\ v \in Nat /\ From(All, hist)
  BY DEF StoreInv, From, All
<1>2. IsNewest(e, All, id, v)
  BY <1>1, NewestIsNewest
<1>3. \A o \in Seen(All, id, v) : /\ o \in All /\ o.ver \in of /\ o.id = id
                                  /\ hist[o.ver] = o /\ o \in Ent
  BY <1>1 DEF Seen, From, StoreInv
<1>4. CASE of = {}
  <2>1. e = Absent
    BY <1>2, <1>3, <1>4 DEF IsNewest
  <2>2. Truth(id, v) = 0
    BY <1>4 DEF Truth
  <2>3. QED
    BY <2>1, <2>2 DEF Absent, Payload
<1>5. CASE of # {}
  <2> DEFINE m == Max(of)
  <2>1. m \in of /\ \A k \in of : k <= m
    BY <1>1, <1>5, MaxOf, Zenon
  <2>2. m \in 1..v /\ hist[m].id = id /\ m \in 1..Len(hist)
    BY <1>1, <2>1
  <2>3. LatestAt(hist, m, v)
    <3>1. \A j \in (m + 1)..v : j \notin of
      BY <1>1, <2>1, <2>2
    <3>2. \A j \in (m + 1)..v : j \in 1..v
      BY <1>1, <2>2
    <3>3. QED
      BY <2>2, <3>1, <3>2 DEF LatestAt
  <2>4. Truth(id, v) = IF hist[m].blob = 0 THEN 0 ELSE m
    BY <1>5 DEF Truth
  <2>5. \/ hist[m] \in All
        \/ /\ hist[m].blob = 0
           /\ \A o \in All : o.id = id /\ o.ver <= v => o.blob = 0
    BY <2>2, <2>3 DEF Represents
  <2>6. hist[m].ver = m
    BY <2>2 DEF StoreInv
  <2> HIDE DEF m, of, e
  <2>7. CASE hist[m] \in All
    <3>1. hist[m] \in Seen(All, id, v)
      BY <1>1, <2>2, <2>6, <2>7 DEF Seen
    <3>2. e \in Seen(All, id, v) /\ m <= e.ver
      BY <1>2, <2>6, <3>1 DEF IsNewest
    <3>3. e.ver <= m /\ hist[e.ver] = e /\ e.ver \in 1..v
      BY <1>3, <2>1, <3>2 DEF of
    <3>4. e = hist[m] /\ e \in All /\ e.ver = m
      BY <1>3, <2>2, <2>6, <3>2, <3>3
    <3>5. e \in Ent
      BY <1>3, <3>2
    <3>6. QED
      BY <2>3, <2>4, <2>6, <3>4, <3>5 DEF Payload, e
  <2>8. CASE hist[m] \notin All
    <3>1. CASE Seen(All, id, v) = {}
      <4>1. e = Absent
        BY <1>2, <3>1 DEF IsNewest
      <4>2. QED
        BY <2>4, <2>5, <2>8, <4>1 DEF Payload, Absent, e
    <3>2. CASE Seen(All, id, v) # {}
      <4>1. e \in Seen(All, id, v)
        BY <1>2, <3>2 DEF IsNewest
      <4>2. e.blob = 0 /\ e \in Ent
        BY <1>3, <2>5, <2>8, <4>1 DEF Seen
      <4>3. QED
        BY <2>4, <2>5, <2>8, <4>2 DEF Payload, e
    <3>3. QED
      BY <3>1, <3>2
  <2>9. QED
    BY <2>7, <2>8
<1>6. QED
  BY <1>4, <1>5

\* A commit changes nothing at or before the versions already published.
LEMMA Appended ==
    ASSUME StoreInv, NEW e \in Ent, e.ver = Len(hist) + 1,
           hist' = Append(hist, e), NEW v \in 0..Len(hist)
    PROVE  /\ \A id \in Ids : Truth(id, v)' = Truth(id, v)
           /\ \A k \in 1..v : LatestAt(hist, k, v)' <=> LatestAt(hist, k, v)
           /\ \A S : Represents(hist, S, v) => Represents(hist', S \cup {e}, v)
<1>1. \A k \in 1..Len(hist) : hist'[k] = hist[k]
  BY DEF StoreInv
<1>2. Len(hist) \in Nat
  BY DEF StoreInv
<1>3. \A id \in Ids : Truth(id, v)' = Truth(id, v)
  <2> SUFFICES ASSUME NEW id \in Ids PROVE Truth(id, v)' = Truth(id, v)
    OBVIOUS
  <2> DEFINE of == {k \in 1..v : hist[k].id = id}
  <2>1. of' = of
    BY <1>1, <1>2
  <2>2. CASE of = {}
    BY <2>1, <2>2 DEF Truth
  <2>3. CASE of # {}
    <3>1. Max(of) \in of
      <4>1. of \in SUBSET (1..v) /\ v \in Nat
        BY <1>2
      <4> HIDE DEF of
      <4> QED BY <2>3, <4>1, MaxOf, Zenon
    <3>2. hist'[Max(of)] = hist[Max(of)]
      BY <1>1, <1>2, <3>1
    <3>3. QED
      BY <2>1, <2>3, <3>2, Zenon DEF Truth
  <2>4. QED
    BY <2>2, <2>3
<1>4. \A k \in 1..v : LatestAt(hist', k, v) <=> LatestAt(hist, k, v)
  BY <1>1, <1>2 DEF LatestAt
<1>5. ASSUME NEW S, Represents(hist, S, v)
      PROVE  Represents(hist', S \cup {e}, v)
  BY <1>1, <1>2, <1>4, <1>5 DEF Represents
<1>6. QED
  BY <1>3, <1>4, <1>5

-----------------------------------------------------------------------------
(* Readers.                                                                *)

\* A rewrite under way knows the snapshot, or will find it in its shard, or
\* the snapshot is the latest version.
Marked(r) ==
    rw.pc \in {"scan", "build", "adopt"} =>
        \/ rd[r].ver = Len(hist)
        \/ rd[r].ver \in rw.marks
        \/ rw.pc = "scan" /\ rw.shard < r

\* The entry a reader is about to decode is the answer to its lookup, and the
\* store still holds it.
Pending(r) ==
    /\ \E id \in Ids : Payload(rd[r].entry) = Truth(id, rd[r].ver)
    /\ rd[r].entry.blob # 0 => /\ rd[r].entry \in All
                               /\ LatestAt(hist, rd[r].entry.ver, rd[r].ver)

ReaderInv(r) ==
    /\ rd[r].pc # "idle" => rd[r].ver \in 1..Len(hist)
    /\ rd[r].how = "taken" /\ rd[r].pc \in {"listed", "open", "reading"}
          => snaps[r] = rd[r].ver
    /\ TakenBy(r) => Represents(hist, All, rd[r].ver) /\ Marked(r)
    /\ TakenBy(r) /\ rd[r].pc = "reading" => Pending(r)
    /\ rd[r].pc # "reading" => rd[r].entry = Absent

SnapshotInv ==
    /\ ReaderType
    /\ Represents(hist, All, Len(hist))
    /\ \A r \in Readers : ReaderInv(r)

\* What the invariant says of a snapshot that was handed out.
LEMMA TakenFacts ==
    ASSUME NEW r \in Readers, ReaderInv(r), TakenBy(r)
    PROVE  /\ rd[r].ver \in 1..Len(hist)
           /\ Represents(hist, All, rd[r].ver) /\ Marked(r)
<1>1. rd[r].pc # "idle"
  BY DEF TakenBy
<1>2. QED
  BY <1>1 DEF ReaderInv

\* A row's value at a version is a matter of the commits alone.
LEMMA TruthQuiet == ASSUME UNCHANGED hist
                    PROVE  \A i, v : Truth(i, v)' = Truth(i, v)
BY DEF Truth

\* The steps that leave the versions alone as a set, and the readers.
LEMMA SnapshotQuiet ==
    ASSUME StoreInv, SnapshotInv, UNCHANGED <<hist, snaps, rd>>, All' = All,
           \A r \in Readers : TakenBy(r) => Marked(r)'
    PROVE  SnapshotInv'
<1>1. Represents(hist, All, Len(hist))'
  BY DEF SnapshotInv, Represents, LatestAt
<1>2. ASSUME NEW r \in Readers
      PROVE  ReaderInv(r)'
  <2>1. TakenBy(r)' <=> TakenBy(r)
    BY DEF TakenBy
  <2>2. Represents(hist, All, rd[r].ver)' <=> Represents(hist, All, rd[r].ver)
    BY DEF Represents, LatestAt
  <2>3. Pending(r)' <=> Pending(r)
    BY DEF Pending, Truth, LatestAt
  <2>4. ReaderInv(r)
    BY DEF SnapshotInv
  <2>5. QED
    BY <2>1, <2>2, <2>3, <2>4 DEF ReaderInv
<1>3. QED
  BY <1>1, <1>2 DEF SnapshotInv, ReaderType

\* A commit changes nothing that a snapshot reads.
LEMMA SnapshotCommit ==
    ASSUME StoreInv, RewriteInv, SnapshotInv, NEW id \in Ids, NEW b \in Nat,
           Applied(id, b), rw.pc = "idle", UNCHANGED <<frozen, base, snaps, rd, rw>>
    PROVE  SnapshotInv'
<1> DEFINE e == [id |-> id, ver |-> Len(hist) + 1, blob |-> b]
<1>1. e \in Ent /\ e.ver = Len(hist) + 1 /\ e.id = id
  BY DEF Ent, StoreInv
<1>2. hist' = Append(hist, e) /\ All' = All \cup {e}
  BY DEF Applied, committed, All
<1> HIDE DEF e
<1>3. Len(hist) \in Nat /\ Len(hist') = Len(hist) + 1 /\ hist'[Len(hist) + 1] = e
      /\ \A k \in 1..Len(hist) : hist'[k] = hist[k]
  BY <1>1, <1>2 DEF StoreInv
<1>4. \A v \in 0..Len(hist) :
         /\ \A i \in Ids : Truth(i, v)' = Truth(i, v)
         /\ \A k \in 1..v : LatestAt(hist, k, v)' <=> LatestAt(hist, k, v)
         /\ Represents(hist, All, v) => Represents(hist', All \cup {e}, v)
  BY <1>1, <1>2, Appended
<1>5. Represents(hist', All', Len(hist'))
  <2> SUFFICES ASSUME NEW k \in 1..(Len(hist) + 1),
                      LatestAt(hist', k, Len(hist) + 1)
               PROVE  \/ hist'[k] \in All'
                      \/ /\ hist'[k].blob = 0
                         /\ \A o \in All' : o.id = hist'[k].id /\ o.ver <= Len(hist) + 1
                                             => o.blob = 0
    BY <1>3 DEF Represents
  <2>1. CASE k = Len(hist) + 1
    BY <1>2, <1>3, <2>1
  <2>2. CASE k \in 1..Len(hist)
    <3>1. LatestAt(hist, k, Len(hist)) /\ hist'[k] = hist[k] /\ hist[k].id # id
      BY <1>1, <1>3, <2>2 DEF LatestAt
    <3>2. \/ hist[k] \in All
          \/ /\ hist[k].blob = 0
             /\ \A o \in All : o.id = hist[k].id /\ o.ver <= Len(hist) => o.blob = 0
      BY <2>2, <3>1 DEF SnapshotInv, Represents
    <3>3. \A o \in All : o.ver \in 1..Len(hist)
      BY DEF All, StoreInv, From
    <3>4. QED
      BY <1>1, <1>2, <1>3, <3>1, <3>2, <3>3
  <2>3. QED
    BY <1>3, <2>1, <2>2
<1>6. ASSUME NEW r \in Readers
      PROVE  ReaderInv(r)'
  <2>1. ReaderInv(r) /\ rd[r]' = rd[r] /\ snaps'[r] = snaps[r]
    BY DEF SnapshotInv
  <2>2. TakenBy(r)' <=> TakenBy(r)
    BY DEF TakenBy
  <2>3. CASE rd[r].pc = "idle"
    BY <2>1, <2>2, <2>3, Zenon DEF ReaderInv, TakenBy
  <2>4. CASE rd[r].pc # "idle"
    <3>1. rd[r].ver \in 1..Len(hist) /\ rd[r].ver \in 0..Len(hist)
          /\ rd[r].ver \in 1..Len(hist')
      <4>1. rd[r].ver \in 1..Len(hist)
        BY <2>1, <2>4 DEF ReaderInv
      <4>2. Len(hist) \in Nat /\ Len(hist') = Len(hist) + 1
        BY <1>3
      <4>3. QED
        BY <4>1, <4>2
    <3>2. Represents(hist, All, rd[r].ver) => Represents(hist, All, rd[r].ver)'
      BY <1>2, <1>4, <2>1, <3>1, Zenon
    <3>3. Pending(r) => Pending(r)'
      <4>1. \A i \in Ids : Truth(i, rd[r].ver)' = Truth(i, rd[r].ver)
        BY <1>4, <2>1, <3>1
      <4>2. ASSUME NEW k, LatestAt(hist, k, rd[r].ver)
            PROVE  LatestAt(hist, k, rd[r].ver)'
        BY <1>4, <2>1, <3>1, <4>2, Zenon DEF LatestAt
      <4>3. QED
        BY <1>2, <2>1, <4>1, <4>2 DEF Pending, Payload
    <3>4. Marked(r)'
      BY DEF Marked
    <3>5. QED
      BY <2>1, <2>2, <3>1, <3>2, <3>3, <3>4 DEF ReaderInv
  <2>5. QED
    BY <2>3, <2>4
<1>7. QED
  BY <1>2, <1>5, <1>6 DEF SnapshotInv, ReaderType

\* A step of one reader: the others, and the store, are left alone.
LEMMA SnapshotReader ==
    ASSUME StoreInv, RewriteInv, SnapshotInv, NEW r \in Readers,
           NEW to \in RdState, NEW sn \in Nat,
           rd' = [rd EXCEPT ![r] = to], snaps' = [snaps EXCEPT ![r] = sn],
           UNCHANGED <<hist, delta, frozen, base, rw>>, ReaderInv(r)'
    PROVE  SnapshotInv'
<1>1. ReaderType'
  BY DEF SnapshotInv, ReaderType
<1>2. Represents(hist, All, Len(hist))'
  BY DEF SnapshotInv, Represents, LatestAt, All
<1>3. ASSUME NEW q \in Readers, q # r
      PROVE  ReaderInv(q)'
  <2>1. rd'[q] = rd[q] /\ snaps'[q] = snaps[q] /\ ReaderInv(q)
    BY <1>3 DEF SnapshotInv, ReaderType
  <2>2. TakenBy(q)' <=> TakenBy(q)
    BY <2>1 DEF TakenBy
  <2>3. Represents(hist, All, rd[q].ver)' <=> Represents(hist, All, rd[q].ver)
    BY <2>1, ZenonT(30) DEF Represents, LatestAt, All
  <2>4. Pending(q)' <=> Pending(q)
    <3>1. \A i \in Ids : Truth(i, rd[q].ver)' = Truth(i, rd[q].ver)
      BY <2>1, TruthQuiet
    <3>2. LatestAt(hist, rd[q].entry.ver, rd[q].ver)'
            <=> LatestAt(hist, rd[q].entry.ver, rd[q].ver)
      BY <2>1 DEF LatestAt
    <3>3. All' = All /\ Payload(rd[q].entry)' = Payload(rd[q].entry)
      BY <2>1 DEF All, Payload
    <3>4. QED
      BY <2>1, <3>1, <3>2, <3>3 DEF Pending
  <2>5. Marked(q)' <=> Marked(q)
    BY <2>1 DEF Marked
  <2>6. QED
    BY <2>1, <2>2, <2>3, <2>4, <2>5 DEF ReaderInv
<1>4. QED
  BY <1>1, <1>2, <1>3 DEF SnapshotInv

\* The actions of a reader.
LEMMA SnapshotReaderStep ==
    ASSUME StoreInv, RewriteInv, SnapshotInv, NEW r \in Readers,
           \/ SnapLoad(r) \/ SnapRegister(r) \/ SnapConfirm(r) \/ SnapClone(r)
           \/ Lookup(r) \/ Decode(r) \/ Release(r)
    PROVE  SnapshotInv'
<1> DEFINE n == Len(hist)
<1>1. /\ n \in Nat /\ ReaderInv(r) /\ rd[r] \in RdState /\ snaps[r] \in Nat
      /\ snaps = [snaps EXCEPT ![r] = snaps[r]]
      /\ DOMAIN rd = Readers /\ DOMAIN snaps = Readers
  BY SMTT(20) DEF StoreInv, SnapshotInv, ReaderType
<1>2. UNCHANGED <<hist, delta, frozen, base, rw>>
  BY Zenon DEF SnapLoad, SnapRegister, SnapConfirm, SnapClone, Lookup, Decode,
         Release, store
<1>3. Idle \in RdState /\ Idle.entry = Absent /\ Idle.pc = "idle"
  BY DEF Idle, RdState
<1>4. CASE SnapLoad(r)
  <2> DEFINE to == [Idle EXCEPT !.pc = "loaded", !.how = "taken", !.ver = n]
  <2>1. to \in RdState /\ to.pc = "loaded" /\ to.entry = Absent /\ to.ver = n
    BY <1>1, <1>3, Zenon DEF RdState, Idle
  <2>2. rd' = [rd EXCEPT ![r] = to] /\ snaps' = snaps /\ n > 0
    BY <1>4 DEF SnapLoad, Step, committed
  <2> HIDE DEF to
  <2>3. ReaderInv(r)'
    BY <1>1, <1>2, <2>1, <2>2 DEF ReaderInv, TakenBy
  <2>4. QED
    BY <1>1, <1>2, <2>1, <2>2, <2>3, SnapshotReader, Zenon
<1>5. CASE SnapRegister(r)
  <2> DEFINE to == [rd[r] EXCEPT !.pc = "listed"]
  <2>1. to \in RdState /\ to.pc = "listed" /\ to.entry = rd[r].entry
        /\ to.ver = rd[r].ver
    BY <1>1 DEF RdState
  <2>2. rd' = [rd EXCEPT ![r] = to] /\ rd[r].pc = "loaded"
        /\ snaps' = [snaps EXCEPT ![r] = rd[r].ver] /\ rd[r].ver \in Nat
    BY <1>1, <1>5 DEF SnapRegister, Step, RdState
  <2> HIDE DEF to
  <2>3. ReaderInv(r)'
    BY <1>1, <1>2, <2>1, <2>2 DEF ReaderInv, TakenBy
  <2>4. QED
    BY <1>2, <2>1, <2>2, <2>3, SnapshotReader, Zenon
<1>6. CASE SnapConfirm(r)
  <2>1. CASE rd[r].ver = n
    <3> DEFINE to == [rd[r] EXCEPT !.pc = "open"]
    <3>1. to \in RdState /\ to.pc = "open" /\ to.entry = rd[r].entry
          /\ to.ver = n /\ to.how = rd[r].how
      BY <1>1, <2>1 DEF RdState
    <3>2. rd' = [rd EXCEPT ![r] = to] /\ rd[r].pc = "listed" /\ snaps' = snaps
      BY <1>6, <2>1 DEF SnapConfirm, Step, committed
    <3> HIDE DEF to
    <3>3. rd'[r] = to /\ snaps'[r] = snaps[r]
      BY <1>1, <3>2
    <3>4. Represents(hist, All, rd[r].ver)' /\ Marked(r)'
      <4>1. Represents(hist, All, n)
        BY Zenon DEF SnapshotInv
      <4>2. hist' = hist /\ All' = All /\ rd'[r].ver = n
        BY <1>2, <3>1, <3>3 DEF All
      <4>3. Represents(hist, All, rd[r].ver)'
        BY <4>1, <4>2, Zenon DEF Represents, LatestAt
      <4>4. Marked(r)'
        BY <4>2 DEF Marked
      <4>5. QED
        BY <4>3, <4>4
    <3>5. ReaderInv(r)'
      BY <1>1, <1>2, <2>1, <3>1, <3>2, <3>3, <3>4 DEF ReaderInv, TakenBy
    <3>6. QED
      BY <1>1, <1>2, <3>1, <3>2, <3>5, SnapshotReader, Zenon
  <2>2. CASE rd[r].ver # n
    <3> DEFINE to == [rd[r] EXCEPT !.pc = "loaded", !.ver = n]
    <3>1. to \in RdState /\ to.pc = "loaded" /\ to.entry = rd[r].entry
          /\ to.ver = n
      BY <1>1, Zenon DEF RdState
    <3>2. rd' = [rd EXCEPT ![r] = to] /\ rd[r].pc = "listed"
          /\ snaps' = [snaps EXCEPT ![r] = 0]
      BY <1>6, <2>2 DEF SnapConfirm, Step, committed
    <3> HIDE DEF to
    <3>3. n > 0
      BY <1>1, <3>2 DEF ReaderInv
    <3>4. ReaderInv(r)'
      BY <1>1, <1>2, <3>1, <3>2, <3>3 DEF ReaderInv, TakenBy
    <3>5. QED
      BY <1>2, <3>1, <3>2, <3>4, SnapshotReader, Zenon
  <2>3. QED
    BY <2>1, <2>2
<1>7. CASE SnapClone(r)
  <2>1. PICK o \in Readers :
           /\ rd[o].pc = "open" /\ snaps' = [snaps EXCEPT ![r] = rd[o].ver]
           /\ Step(r, [Idle EXCEPT !.pc = "open", !.how = "clone",
                                   !.ver = rd[o].ver])
    BY <1>7, Zenon DEF SnapClone
  <2> DEFINE to == [Idle EXCEPT !.pc = "open", !.how = "clone",
                                !.ver = rd[o].ver]
  <2>2. rd[o].ver \in 1..n /\ rd[o].ver \in Nat
    BY <1>1, <2>1 DEF SnapshotInv, ReaderInv
  <2>3. to \in RdState /\ to.pc = "open" /\ to.how = "clone"
        /\ to.ver = rd[o].ver /\ to.entry = Absent
    BY <1>3, <2>2, Zenon DEF RdState, Idle
  <2>4. rd' = [rd EXCEPT ![r] = to]
    BY <2>1 DEF Step
  <2> HIDE DEF to
  <2>5. ReaderInv(r)'
    BY <1>1, <1>2, <2>2, <2>3, <2>4 DEF ReaderInv, TakenBy
  <2>6. QED
    BY <1>2, <2>1, <2>2, <2>3, <2>4, <2>5, SnapshotReader, Zenon
<1>8. CASE Lookup(r)
  <2>1. PICK id \in Ids :
           Step(r, [rd[r] EXCEPT !.pc = "reading", !.entry = Newest(id, rd[r].ver)])
    BY <1>8, Zenon DEF Lookup
  <2> DEFINE e == Newest(id, rd[r].ver)
             to == [rd[r] EXCEPT !.pc = "reading", !.entry = e]
  <2>2. /\ rd[r].pc = "open" /\ snaps' = snaps /\ rd' = [rd EXCEPT ![r] = to]
        /\ rd[r].ver \in 0..n /\ rd[r].ver \in 1..n
    <3>1. rd[r].pc = "open" /\ snaps' = snaps
      BY <1>8, Zenon DEF Lookup
    <3>2. rd' = [rd EXCEPT ![r] = to]
      BY <2>1 DEF Step
    <3>3. rd[r].ver \in 1..n
      BY <1>1, <3>1 DEF ReaderInv
    <3> HIDE DEF to
    <3>4. QED
      BY <1>1, <3>1, <3>2, <3>3, SMTT(20)
  <2>3. e \in Ent \cup {Absent}
    <3>1. IsNewest(e, All, id, rd[r].ver)
      BY <1>1, <2>2, NewestIsNewest
    <3>2. All \subseteq Ent
      BY DEF All, StoreInv, From
    <3>3. QED
      BY <3>1, <3>2 DEF IsNewest, Seen
  <2>4. /\ to \in RdState /\ to.pc = "reading" /\ to.how = rd[r].how
        /\ to.ver = rd[r].ver /\ to.entry = e
    <3> HIDE DEF e
    <3> QED BY <1>1, <2>3, ZenonT(30) DEF RdState
  <2>5. rd'[r] = to /\ snaps'[r] = snaps[r]
    BY <1>1, <2>2
  <2>6. TakenBy(r)' => TakenBy(r)
    BY <2>2, <2>4, <2>5 DEF TakenBy
  <2>7. ASSUME TakenBy(r)
        PROVE  Represents(hist, All, rd[r].ver)' /\ Marked(r)' /\ Pending(r)'
    <3>1. Represents(hist, All, rd[r].ver) /\ Marked(r)
      BY <1>1, <2>7 DEF ReaderInv
    <3>2. /\ Payload(e) = Truth(id, rd[r].ver)
          /\ e.blob # 0 => e \in All /\ LatestAt(hist, e.ver, rd[r].ver)
      BY <2>2, <3>1, LookupExact
    <3> HIDE DEF e, to
    <3>3. Represents(hist, All, rd[r].ver)' /\ Marked(r)'
      BY <1>2, <2>4, <2>5, <3>1, Zenon DEF Represents, LatestAt, All, Marked
    <3>4. Truth(id, rd[r].ver)' = Truth(id, rd[r].ver)
      BY <1>2, <2>4, <2>5, Zenon DEF Truth
    <3>5. Pending(r)'
      BY <1>2, <2>4, <2>5, <3>2, <3>4 DEF Pending, LatestAt, All, Payload
    <3>6. QED
      BY <3>3, <3>5
  <2> HIDE DEF to, e
  <2>8. ReaderInv(r)'
    BY <1>1, <1>2, <2>2, <2>4, <2>5, <2>6, <2>7 DEF ReaderInv
  <2>9. QED
    BY <1>1, <1>2, <2>2, <2>4, <2>8, SnapshotReader, Zenon
<1>9. CASE Decode(r)
  <2> DEFINE value == IF rd[r].entry.blob # 0 /\ rd[r].entry.blob \notin blobFiles
                      THEN -1 ELSE Payload(rd[r].entry)
             to == [rd[r] EXCEPT !.pc = "open", !.got = value, !.entry = Absent]
  <2>1. value \in Int
    <3>1. rd[r].entry \in Ent \/ rd[r].entry = Absent
      BY <1>1, Zenon DEF RdState
    <3>2. rd[r].entry.ver \in Int
      BY <3>1 DEF Ent, Absent
    <3>3. QED
      BY <3>2 DEF Payload
  <2>2. rd[r].pc = "reading" /\ snaps' = snaps /\ rd' = [rd EXCEPT ![r] = to]
    BY <1>9 DEF Decode, Step
  <2> HIDE DEF value
  <2>3. /\ to \in RdState /\ to.pc = "open" /\ to.how = rd[r].how
        /\ to.ver = rd[r].ver /\ to.entry = Absent
    BY <1>1, <2>1, ZenonT(30) DEF RdState
  <2> HIDE DEF to
  <2>4. rd'[r] = to /\ snaps'[r] = snaps[r]
    BY <1>1, <2>2
  <2>5. TakenBy(r)' => TakenBy(r)
    BY <2>2, <2>3, <2>4, Zenon DEF TakenBy
  <2>6. Represents(hist, All, rd[r].ver)' <=> Represents(hist, All, rd[r].ver)
    BY <1>2, <2>3, <2>4 DEF Represents, LatestAt, All
  <2>7. Marked(r)' <=> Marked(r)
    BY <1>2, <2>3, <2>4 DEF Marked
  <2>8. ReaderInv(r)'
    BY <1>1, <1>2, <2>2, <2>3, <2>4, <2>5, <2>6, <2>7 DEF ReaderInv
  <2>9. QED
    BY <1>1, <1>2, <2>2, <2>3, <2>8, SnapshotReader, Zenon
<1>10. CASE Release(r)
  <2>1. rd' = [rd EXCEPT ![r] = Idle] /\ snaps' = [snaps EXCEPT ![r] = 0]
    BY <1>10 DEF Release, Step
  <2>2. ReaderInv(r)'
    BY <1>1, <1>3, <2>1 DEF ReaderInv, TakenBy
  <2>3. QED
    BY <1>2, <1>3, <2>1, <2>2, SnapshotReader, ZenonT(30)
<1>11. QED
  BY <1>4, <1>5, <1>6, <1>7, <1>8, <1>9, <1>10

\* Every step.
LEMMA SnapshotStep ==
    ASSUME StoreInv, RewriteInv, BlobInv, SnapshotInv, Threads \in Nat \ {0},
           [vsNext]_vsVars
    PROVE  SnapshotInv'
<1> DEFINE n == Len(hist)
<1>0. n \in Nat /\ ReaderType /\ \A r \in Readers : ReaderInv(r)
  BY DEF StoreInv, SnapshotInv
<1>1. ASSUME NEW w \in Writers, CommitPut(w)
      PROVE  SnapshotInv'
  <2>1. PICK id \in Ids : Applied(id, tx[w])
    BY <1>1 DEF CommitPut
  <2>2. tx[w] \in Nat
    BY DEF BlobInv
  <2>3. QED
    BY <1>1, <2>1, <2>2, SnapshotCommit DEF CommitPut, CommitMutexFree
<1>2. CASE CommitDelete
  BY <1>2, SnapshotCommit DEF CommitDelete, CommitMutexFree
<1>3. CASE Freeze \/ AdoptFrozen \/ Thaw
  <2>1. All' = All /\ UNCHANGED <<hist, snaps, rd, rw>>
    BY <1>3 DEF Freeze, AdoptFrozen, Thaw, All
  <2>2. rw'.pc = "idle"
    BY <1>3, <2>1 DEF Freeze, AdoptFrozen, Thaw, CommitMutexFree
  <2>3. \A r \in Readers : Marked(r)'
    BY <2>2 DEF Marked
  <2>4. QED
    BY <2>1, <2>3, SnapshotQuiet
<1>4. CASE RewriteBegin
  <2>1. All' = All /\ UNCHANGED <<hist, snaps, rd>>
    BY <1>4 DEF RewriteBegin, All
  <2>2. rw'.pc = "scan" /\ rw'.shard = 0
    BY <1>4 DEF RewriteBegin, RewriteInv, RwState
  <2>3. \A r \in Readers : Marked(r)'
    BY <2>2 DEF Marked, Readers
  <2>4. QED
    BY <2>1, <2>3, SnapshotQuiet
<1>5. CASE RewriteScanShard
  <2> DEFINE s == rw.shard + 1
  <2>1. All' = All /\ UNCHANGED <<hist, snaps, rd>>
    BY <1>5 DEF RewriteScanShard, store, All
  <2>2. /\ rw'.shard = s /\ rw'.marks = rw.marks \cup ({snaps[s]} \ {0})
        /\ rw'.pc = IF s = Threads THEN "build" ELSE "scan"
        /\ rw.shard \in Nat /\ rw.pc = "scan"
    BY <1>5 DEF RewriteScanShard, RewriteInv, RwState
  <2>3. ASSUME NEW r \in Readers, TakenBy(r)
        PROVE  Marked(r)'
    <3>1. Marked(r) /\ snaps[r] = rd[r].ver /\ rd[r].ver \in 1..n /\ r \in 1..Threads
      BY <1>0, <2>3 DEF ReaderInv, TakenBy, Readers
    <3>2. CASE r = s
      BY <2>1, <2>2, <3>1, <3>2 DEF Marked
    <3>3. CASE rw.shard < r /\ r # s
      <4>1. s < r /\ s # Threads
        BY <2>2, <3>1, <3>3
      <4>2. QED
        BY <2>1, <2>2, <4>1 DEF Marked
    <3>4. CASE rd[r].ver = n \/ rd[r].ver \in rw.marks
      BY <2>1, <2>2, <3>4 DEF Marked
    <3>5. QED
      BY <2>2, <3>1, <3>2, <3>3, <3>4, Zenon DEF Marked
  <2>4. QED
    BY <2>1, <2>3, SnapshotQuiet
<1>6. CASE RewriteBuild
  <2>1. All' = All /\ UNCHANGED <<hist, snaps, rd>>
    BY <1>6 DEF RewriteBuild, store, All
  <2>2. rw.pc = "build" /\ rw'.pc = "adopt" /\ rw'.marks = rw.marks
    BY <1>6 DEF RewriteBuild, RewriteInv, RwState
  <2>3. \A r \in Readers : TakenBy(r) => Marked(r)'
    BY <1>0, <2>1, <2>2 DEF Marked, ReaderInv
  <2>4. QED
    BY <2>1, <2>3, SnapshotQuiet
<1>7. CASE RewriteAdopt
  <2> DEFINE W == Watermarks(rw.marks)
  <2>1. /\ rw.pc = "adopt" /\ delta = {} /\ frozen = {} /\ All = base
        /\ base' = Kept(base, W) /\ All' = Kept(base, W)
        /\ rw'.pc = "gc" /\ UNCHANGED <<hist, snaps, rd>>
    BY <1>7 DEF RewriteAdopt, RewriteInv, RwState, All
  <2>2. /\ hist \in Seq(Ent) /\ (\A k \in 1..n : hist[k].ver = k)
        /\ From(base, hist)
    BY DEF StoreInv
  <2>3. \A v \in W : v \in 0..n /\ Represents(hist, base, v) =>
           /\ Represents(hist, Kept(base, W), v)
           /\ \A e \in base : e.blob # 0 /\ LatestAt(hist, e.ver, v)
                                => e \in Kept(base, W)
    BY <2>2, KeptRepresents
  <2> HIDE DEF W
  <2>4. n \in W
    BY DEF W, Watermarks, committed
  <2>5. Represents(hist, All, n)'
    <3>1. Represents(hist, Kept(base, W), n)
      BY <1>0, <2>1, <2>3, <2>4 DEF SnapshotInv
    <3>2. QED
      BY <2>1, <3>1 DEF Represents, LatestAt
  <2>6. ASSUME NEW r \in Readers
        PROVE  ReaderInv(r)'
    <3>1. rd'[r] = rd[r] /\ snaps'[r] = snaps[r] /\ ReaderInv(r)
      BY <1>0, <2>1
    <3>2. TakenBy(r)' <=> TakenBy(r)
      BY <3>1 DEF TakenBy
    <3>3. Marked(r)'
      BY <2>1, Zenon DEF Marked
    <3>4. CASE TakenBy(r)
      <4>1. rd[r].ver \in W /\ rd[r].ver \in 0..n
            /\ Represents(hist, base, rd[r].ver)
        <5>1. /\ rd[r].ver \in 1..n /\ Marked(r)
              /\ Represents(hist, base, rd[r].ver)
          BY <2>1, <3>1, <3>4, TakenFacts
        <5>2. rd[r].ver \in W
          BY <2>1, <5>1 DEF Marked, W, Watermarks, committed
        <5>3. QED
          BY <1>0, <5>1, <5>2
      <4>2. /\ Represents(hist, Kept(base, W), rd[r].ver)
            /\ \A e \in base : e.blob # 0 /\ LatestAt(hist, e.ver, rd[r].ver)
                                 => e \in Kept(base, W)
        BY <2>3, <4>1, Zenon
      <4>3. Represents(hist, All, rd[r].ver)'
        BY <2>1, <3>1, <4>2, Zenon DEF Represents, LatestAt
      <4>4. Pending(r) => Pending(r)'
        BY <2>1, <3>1, <4>2, ZenonT(30) DEF Pending, Truth, LatestAt
      <4>5. QED
        BY <2>1, <3>1, <3>2, <3>3, <4>3, <4>4 DEF ReaderInv
    <3>5. CASE ~TakenBy(r)
      BY <2>1, <3>1, <3>2, <3>5, Zenon DEF ReaderInv
    <3>6. QED
      BY <3>4, <3>5
  <2>7. QED
    BY <1>0, <2>1, <2>5, <2>6 DEF SnapshotInv, ReaderType
<1>8. CASE RewriteGc \/ RewriteFails
  <2>1. All' = All /\ UNCHANGED <<hist, snaps, rd>>
    BY <1>8 DEF RewriteGc, RewriteFails, store, All
  <2>2. rw'.pc = "idle"
    BY <1>8 DEF RewriteGc, RewriteFails, NoRewrite
  <2>3. \A r \in Readers : Marked(r)'
    BY <2>2 DEF Marked
  <2>4. QED
    BY <2>1, <2>3, SnapshotQuiet
<1>9. CASE UNCHANGED <<hist, delta, frozen, base, snaps, rd, rw>>
  <2>1. All' = All /\ \A r \in Readers : Marked(r)' <=> Marked(r)
    BY <1>9 DEF All, Marked
  <2>2. \A r \in Readers : TakenBy(r) => Marked(r)'
    BY <1>0, <2>1 DEF ReaderInv
  <2>3. QED
    BY <1>9, <2>1, <2>2, SnapshotQuiet
<1>10. QED
  BY <1>1, <1>2, <1>3, <1>4, <1>5, <1>6, <1>7, <1>8, <1>9, SnapshotReaderStep
  DEF vsNext, vsVars, store, StageBlob, CommitFails

-----------------------------------------------------------------------------
(* The theorems.                                                           *)

IInv == StoreInv /\ RewriteInv /\ BlobInv /\ SnapshotInv

\* The invariant holds of an empty store.
LEMMA InitIInv == ASSUME Threads \in Nat \ {0}, MaxRewrites \in Int, vsInit
                  PROVE  IInv
<1> USE DEF vsInit
<1>1. StoreInv
  BY DEF StoreInv, From, OverlayNewer
<1>2. RewriteInv
  <2>1. rw = [pc |-> "idle", shard |-> 0, marks |-> {}, keep |-> {},
              left |-> MaxRewrites]
    BY Zenon DEF NoRewrite
  <2>2. rw \in RwState
    <3>1. 0 \in Nat /\ {} \in SUBSET Nat /\ {} \in SUBSET Ent
      OBVIOUS
    <3> HIDE DEF vsInit
    <3> QED BY <2>1, <3>1 DEF RwState
  <2>3. QED
    BY <2>1, <2>2 DEF RewriteInv
<1>3. BlobInv
  BY DEF BlobInv, All
<1>4. SnapshotInv
  <2>1. Len(hist) = 0 /\ Idle \in RdState /\ Idle.pc = "idle" /\ Idle.entry = Absent
    BY DEF Idle, RdState
  <2>2. Represents(hist, All, Len(hist))
    BY <2>1 DEF Represents
  <2>3. QED
    BY <2>1, <2>2 DEF SnapshotInv, ReaderType, ReaderInv, TakenBy
<1>5. QED
  BY <1>1, <1>2, <1>3, <1>4 DEF IInv

\* Every step preserves it.
LEMMA StepIInv == ASSUME Threads \in Nat \ {0}, IInv, [vsNext]_vsVars
                  PROVE  IInv'
BY StoreStep, RewriteStep, BlobStep, SnapshotStep DEF IInv, SnapshotInv

\* Hence it always holds.
LEMMA Inductive == vsSpec => []IInv
<1>1. vsInit => IInv
  BY InitIInv, VersionAssumption
<1>2. IInv /\ [vsNext]_vsVars => IInv'
  BY StepIInv, VersionAssumption
<1>3. QED
  BY <1>1, <1>2, PTL DEF vsSpec

\* A version the store answers for is readable, blobs included.
LEMMA RepresentedIsReadable ==
    ASSUME IInv, NEW v \in 0..Len(hist), Represents(hist, All, v)
    PROVE  Readable(v)
BY LookupExact DEF IInv, Readable, BlobInv

\* What lets PrimaryTableView::newest stop at the overlays: through every
\* interleaving of commits, freezes, adoptions, thaws and rewrites, a version
\* in the active or frozen delta is newer than the run's versions of its row.
THEOREM OverlaysAreNewer == vsSpec => []OverlayNewer
<1>1. IInv => OverlayNewer
  BY DEF IInv, StoreInv
<1>2. QED
  BY <1>1, Inductive, PTL

\* Compaction never drops a version or a blob a snapshot can read: whatever
\* Db::snapshot returned is readable, row by row and blob by blob, until it is
\* released, although the rewrite reads the registry one shard at a time.
THEOREM SnapshotsArePreserved == vsSpec => []SnapshotPreserved
<1>1. ASSUME IInv PROVE SnapshotPreserved
  <2> SUFFICES ASSUME NEW r \in Readers, Holds(r), rd[r].how = "taken"
               PROVE  /\ Readable(rd[r].ver)
                      /\ rd[r].entry.blob # 0 => rd[r].entry.blob \in blobFiles
    BY Zenon DEF SnapshotPreserved
  <2>1. TakenBy(r) /\ ReaderInv(r) /\ rd[r].ver \in 0..Len(hist)
    <3>1. TakenBy(r)
      BY DEF Holds, TakenBy
    <3>2. ReaderInv(r) /\ Len(hist) \in Nat
      BY <1>1 DEF IInv, SnapshotInv, StoreInv
    <3>3. rd[r].ver \in 1..Len(hist)
      BY <3>1, <3>2, TakenFacts, Zenon
    <3>4. QED
      BY <3>1, <3>2, <3>3
  <2>2. Readable(rd[r].ver)
    BY <1>1, <2>1, RepresentedIsReadable DEF ReaderInv
  <2>3. rd[r].entry.blob # 0 => rd[r].entry \in All
    <3>1. CASE rd[r].pc = "reading"
      BY <2>1, <3>1, Zenon DEF ReaderInv, Pending
    <3>2. CASE rd[r].pc # "reading"
      BY <2>1, <3>2 DEF ReaderInv, Absent
    <3>3. QED
      BY <3>1, <3>2, Zenon
  <2>4. QED
    BY <1>1, <2>2, <2>3, Zenon DEF IInv, BlobInv
<1>2. QED
  BY <1>1, Inductive, PTL

\* The latest committed state is readable through every checkpoint and rewrite,
\* and the garbage collector leaves the blobs of prepared commits alone.
THEOREM LatestIsReadable == vsSpec => []LatestReadable
<1>1. ASSUME IInv PROVE LatestReadable
  <2>1. Readable(committed)
    BY <1>1, RepresentedIsReadable DEF IInv, SnapshotInv, StoreInv, committed
  <2>2. QED
    BY <1>1, <2>1, Zenon DEF IInv, BlobInv, LatestReadable
<1>2. QED
  BY <1>1, Inductive, PTL

-----------------------------------------------------------------------------
(* Refinement of SnapshotStore.                                            *)

History == [v \in 1..committed |-> [id \in Ids |-> Truth(id, v)]]
SnapOf == [r \in Readers |-> IF TakenBy(r) THEN rd[r].ver ELSE 0]
GotOf == [r \in Readers |-> IF TakenBy(r) THEN rd[r].got ELSE 0]

\* The refinement mapping's history is a sequence of table contents.
LEMMA HistoryIsSeq ==
    ASSUME StoreInv
    PROVE  /\ \A v \in 0..Len(hist), id \in Ids : Truth(id, v) \in Nat
           /\ History \in Seq([Ids -> Nat]) /\ Len(History) = Len(hist)
           /\ \A id \in Ids : Truth(id, 0) = 0
<1>1. Len(hist) \in Nat
  BY DEF StoreInv
<1>2. \A id \in Ids : Truth(id, 0) = 0
  BY DEF Truth
<1>3. ASSUME NEW v \in 0..Len(hist), NEW id \in Ids
      PROVE  Truth(id, v) \in Nat
  <2> DEFINE of == {k \in 1..v : hist[k].id = id}
  <2>1. CASE of = {}
    BY <2>1 DEF Truth
  <2>2. CASE of # {}
    <3>1. of \in SUBSET (1..v) /\ v \in Nat
      BY <1>1
    <3>2. Max(of) \in of
      <4> HIDE DEF of
      <4> QED BY <2>2, <3>1, MaxOf, Zenon
    <3>3. Max(of) \in Nat
      BY <3>1, <3>2
    <3>4. QED
      BY <2>2, <3>3 DEF Truth
  <2>3. QED
    BY <2>1, <2>2
<1>4. \A v \in 1..Len(hist) : [id \in Ids |-> Truth(id, v)] \in [Ids -> Nat]
  BY <1>1, <1>3
<1>5. QED
  BY <1>1, <1>2, <1>3, <1>4 DEF History, committed

\* Append as a function.
LEMMA AppendIs ==
    ASSUME NEW S, NEW s \in Seq(S), NEW x \in S
    PROVE  Append(s, x) = [v \in 1..(Len(s) + 1) |->
                             IF v = Len(s) + 1 THEN x ELSE s[v]]
<1>1. /\ Append(s, x) \in Seq(S) /\ Len(Append(s, x)) = Len(s) + 1
      /\ \A v \in 1..Len(s) : Append(s, x)[v] = s[v]
      /\ Append(s, x)[Len(s) + 1] = x
  OBVIOUS
<1>2. Append(s, x) = [v \in 1..(Len(s) + 1) |-> Append(s, x)[v]]
  <2>1. PICK t \in Seq(S) : t = Append(s, x)
    BY <1>1, Zenon
  <2>2. t \in [1..Len(t) -> S]
    BY LenProperties
  <2>3. t = [v \in 1..Len(t) |-> t[v]]
    BY <2>2
  <2>4. QED
    BY <1>1, <2>1, <2>3
<1>3. \A v \in 1..(Len(s) + 1) :
        Append(s, x)[v] = IF v = Len(s) + 1 THEN x ELSE s[v]
  BY <1>1
<1>4. QED
  BY <1>2, <1>3

\* A commit appends one row image to the history.
LEMMA CommitRefines ==
    ASSUME StoreInv, NEW id \in Ids, NEW b \in Nat, Applied(id, b)
    PROVE  \E value \in {0, Len(History) + 1} :
             History' = Append(History, [i \in Ids |->
                 IF i = id THEN value
                 ELSE IF Len(History) = 0 THEN 0 ELSE History[Len(History)][i]])
<1>1. PICK n \in Nat : n = Len(hist)
  BY DEF StoreInv
<1> DEFINE e == [id |-> id, ver |-> n + 1, blob |-> b]
           value == IF b = 0 THEN 0 ELSE n + 1
           row == [i \in Ids |-> IF i = id THEN value
                     ELSE IF Len(History) = 0 THEN 0
                     ELSE History[Len(History)][i]]
<1>2. e \in Ent /\ e.ver = n + 1 /\ e.id = id /\ e.blob = b
  BY DEF Ent
<1>3. hist' = Append(hist, e)
  BY <1>1 DEF Applied, committed
<1>4. /\ Len(History) = n /\ History \in Seq([Ids -> Nat])
      /\ \A i \in Ids : Truth(i, 0) = 0
  BY <1>1, HistoryIsSeq, Zenon
<1> HIDE DEF e
<1>5. /\ Len(hist') = n + 1 /\ hist'[n + 1] = e
      /\ \A k \in 1..n : hist'[k] = hist[k]
  BY <1>1, <1>2, <1>3 DEF StoreInv
<1>6. \A v \in 0..n : \A i \in Ids : Truth(i, v)' = Truth(i, v)
  BY <1>1, <1>2, <1>3, Appended
<1>7. Truth(id, n + 1)' = value
  <2>1. PICK of : of = {k \in 1..(n + 1) : hist'[k].id = id}
    BY Zenon
  <2>2. n + 1 \in of /\ \A y \in of : y <= n + 1
    BY <1>2, <1>5, <2>1
  <2>3. Max(of) = n + 1
    <3>1. of \in SUBSET (1..(n + 1)) /\ of # {}
      BY <2>1, <2>2
    <3>2. PICK m \in Nat : m = n + 1
      OBVIOUS
    <3>3. of \in SUBSET (1..m)
      BY <3>1, <3>2
    <3>4. Max(of) \in of /\ \A y \in of : y <= Max(of)
      BY <3>1, <3>3, MaxOf, Zenon
    <3>5. PICK x : x = Max(of)
      OBVIOUS
    <3>6. x \in 1..m /\ x <= n + 1 /\ n + 1 <= x
      BY <2>2, <3>3, <3>4, <3>5, Zenon
    <3>7. QED
      BY <3>5, <3>6
  <2>4. Truth(id, n + 1)' = IF of = {} \/ hist'[Max(of)].blob = 0 THEN 0 ELSE Max(of)
    BY <2>1 DEF Truth
  <2>5. QED
    BY <1>2, <1>5, <2>2, <2>3, <2>4
<1>8. ASSUME NEW i \in Ids, i # id
      PROVE  Truth(i, n + 1)' = Truth(i, n)
  <2>1. PICK of : of = {k \in 1..n : hist[k].id = i}
    BY Zenon
  <2>2. of = {k \in 1..(n + 1) : hist'[k].id = i}
    BY <1>2, <1>5, <1>8, <2>1
  <2>3. Truth(i, n) = IF of = {} \/ hist[Max(of)].blob = 0 THEN 0 ELSE Max(of)
    BY <2>1 DEF Truth
  <2>4. Truth(i, n + 1)' = IF of = {} \/ hist'[Max(of)].blob = 0 THEN 0 ELSE Max(of)
    BY <2>2 DEF Truth
  <2>5. CASE of # {}
    <3>1. of \in SUBSET (1..n)
      BY <2>1
    <3>2. Max(of) \in 1..n
      BY <2>5, <3>1, MaxOf, Zenon
    <3>3. QED
      BY <1>5, <2>3, <2>4, <3>2
  <2>6. QED
    BY <2>3, <2>4, <2>5
<1>9. \A i \in Ids : row[i] = Truth(i, n + 1)'
  BY <1>1, <1>4, <1>7, <1>8 DEF History, committed
<1>10. History' = Append(History, row)
  <2>0. row \in [Ids -> Nat]
    BY <1>4
  <2>1. History' = [v \in 1..(n + 1) |-> [i \in Ids |-> Truth(i, v)']]
    BY <1>5 DEF History, committed
  <2>2. History = [v \in 1..n |-> [i \in Ids |-> Truth(i, v)]]
    BY <1>1 DEF History, committed
  <2>3. row = [i \in Ids |-> Truth(i, n + 1)']
    BY <1>9
  <2> HIDE DEF row
  <2>4. \A v \in 1..n : [i \in Ids |-> Truth(i, v)'] = [i \in Ids |-> Truth(i, v)]
    BY <1>6
  <2>5. Append(History, row) = [v \in 1..(n + 1) |->
             IF v = n + 1 THEN row ELSE History[v]]
    <3>1. PICK S : S = [Ids -> Nat]
      BY ZenonT(30)
    <3>2. PICK h, x : h = History /\ x = row
      OBVIOUS
    <3>3. h \in Seq(S) /\ x \in S /\ Len(h) = n
      BY <1>4, <2>0, <3>1, <3>2
    <3>4. Append(h, x) = [v \in 1..(Len(h) + 1) |->
                            IF v = Len(h) + 1 THEN x ELSE h[v]]
      BY <3>3, AppendIs
    <3>5. QED
      BY <3>2, <3>3, <3>4
  <2>6. \A v \in 1..(n + 1) : [i \in Ids |-> Truth(i, v)']
             = IF v = n + 1 THEN row ELSE History[v]
    BY <2>2, <2>3, <2>4
  <2>7. QED
    BY <2>1, <2>5, <2>6
<1>11. QED
  BY <1>4, <1>10, Zenon

\* Before a snapshot is handed out nothing was read at it.
GotInv == \A r \in Readers : rd[r].pc \in {"loaded", "listed"} => rd[r].got = 0

\* A snapshot that is handed out starts with nothing read.
LEMMA GotStep ==
    ASSUME ReaderType, GotInv, [vsNext]_vsVars
    PROVE  GotInv'
<1> USE DEF GotInv, ReaderType, RdState, Step
<1>1. ASSUME NEW r \in Readers, SnapLoad(r) PROVE GotInv'
  BY <1>1 DEF SnapLoad, Idle
<1>2. ASSUME NEW r \in Readers, SnapRegister(r) PROVE GotInv'
  BY <1>2 DEF SnapRegister
<1>3. ASSUME NEW r \in Readers, SnapConfirm(r) PROVE GotInv'
  <2>1. rd[r] \in RdState /\ rd[r].got = 0
    BY <1>3 DEF SnapConfirm
  <2> DEFINE open  == [rd[r] EXCEPT !.pc = "open"]
             again == [rd[r] EXCEPT !.pc = "loaded", !.ver = committed]
  <2>2. rd' = [rd EXCEPT ![r] = open] \/ rd' = [rd EXCEPT ![r] = again]
    BY <1>3 DEF SnapConfirm
  <2>3. open.got = 0 /\ again.got = 0
    BY <2>1
  <2> HIDE DEF open, again
  <2>4. QED
    BY <2>2, <2>3
<1>4. ASSUME NEW r \in Readers, SnapClone(r) PROVE GotInv'
  BY <1>4 DEF SnapClone, Idle
<1>5. ASSUME NEW r \in Readers, Lookup(r) PROVE GotInv'
  BY <1>5 DEF Lookup
<1>6. ASSUME NEW r \in Readers, Decode(r) PROVE GotInv'
  BY <1>6 DEF Decode
<1>7. ASSUME NEW r \in Readers, Release(r) PROVE GotInv'
  BY <1>7 DEF Release, Idle
<1>8. CASE UNCHANGED rd
  BY <1>8, Zenon
<1>9. QED
  BY <1>1, <1>2, <1>3, <1>4, <1>5, <1>6, <1>7, <1>8, ZenonT(30)
  DEF vsNext, vsVars, StageBlob, CommitPut, CommitFails, CommitDelete, Freeze,
      AdoptFrozen, Thaw, RewriteBegin, RewriteScanShard, RewriteBuild,
      RewriteAdopt, RewriteGc, RewriteFails

\* The promised actions, over the refinement mapping.
LEMMA PromisedActions ==
    /\ (\E id \in Ids, value \in {0, Len(History) + 1} :
           History' = Append(History, [i \in Ids |->
               IF i = id THEN value
               ELSE IF Len(History) = 0 THEN 0 ELSE History[Len(History)][i]]))
         /\ UNCHANGED <<SnapOf, GotOf>>  =>  Promise!Commit
    /\ \A r \in Readers :
         /\ SnapOf' = [SnapOf EXCEPT ![r] = Len(History)]
            /\ UNCHANGED <<History, GotOf>>  =>  Promise!Take(r)
         /\ SnapOf[r] # 0
            /\ (\E id \in Ids : GotOf' = [GotOf EXCEPT ![r] =
                   IF SnapOf[r] = 0 THEN 0 ELSE History[SnapOf[r]][id]])
            /\ UNCHANGED <<History, SnapOf>>  =>  Promise!Read(r)
         /\ SnapOf' = [SnapOf EXCEPT ![r] = 0]
            /\ GotOf' = [GotOf EXCEPT ![r] = 0]
            /\ UNCHANGED History  =>  Promise!Release(r)
<1>1. ASSUME NEW r \in Readers
      PROVE  SnapOf' = [SnapOf EXCEPT ![r] = Len(History)]
            /\ UNCHANGED <<History, GotOf>>  =>  Promise!Take(r)
  BY ZenonT(30) DEF Promise!Take, History, SnapOf, GotOf
<1>2. ASSUME NEW r \in Readers
      PROVE  SnapOf[r] # 0
            /\ (\E id \in Ids : GotOf' = [GotOf EXCEPT ![r] =
                   IF SnapOf[r] = 0 THEN 0 ELSE History[SnapOf[r]][id]])
            /\ UNCHANGED <<History, SnapOf>>  =>  Promise!Read(r)
  BY Zenon DEF Promise!Read, Promise!RowAt, History, SnapOf, GotOf
<1>3. ASSUME NEW r \in Readers
      PROVE  SnapOf' = [SnapOf EXCEPT ![r] = 0]
            /\ GotOf' = [GotOf EXCEPT ![r] = 0]
            /\ UNCHANGED History  =>  Promise!Release(r)
  BY Zenon DEF Promise!Release, History, SnapOf, GotOf
<1>4. (\E id \in Ids, value \in {0, Len(History) + 1} :
           History' = Append(History, [i \in Ids |->
               IF i = id THEN value
               ELSE IF Len(History) = 0 THEN 0 ELSE History[Len(History)][i]]))
         /\ UNCHANGED <<SnapOf, GotOf>>  =>  Promise!Commit
  BY Zenon DEF Promise!Commit, Promise!RowAt, History, SnapOf, GotOf
<1>5. QED
  BY <1>1, <1>2, <1>3, <1>4, Zenon

\* A reader's step that changes neither what it reads at nor what it got.
Stutters == UNCHANGED <<History, SnapOf, GotOf>>

\* A step of a reader implements a step of the abstract reader, or none.
LEMMA ReaderRefines ==
    ASSUME IInv, GotInv, NEW r \in Readers, UNCHANGED hist,
           \/ SnapLoad(r) \/ SnapRegister(r) \/ SnapConfirm(r) \/ SnapClone(r)
           \/ Lookup(r) \/ Decode(r) \/ Release(r)
    PROVE  Stutters \/ Promise!Take(r) \/ Promise!Read(r) \/ Promise!Release(r)
<1> USE DEF Step
<1>1. /\ rd \in [Readers -> RdState] /\ ReaderInv(r)
      /\ \A q \in Readers : rd[q].ver \in Nat /\ rd[q].got \in Int
  BY DEF IInv, SnapshotInv, ReaderType, RdState
<1>2. History' = History /\ Len(History) = Len(hist)
  <2>1. History' = History
    BY DEF History, committed, Truth
  <2>2. Len(History) = Len(hist)
    BY HistoryIsSeq DEF IInv
  <2>3. QED
    BY <2>1, <2>2
<1> DEFINE Open(to) == to.how = "taken" /\ to.pc \in {"open", "reading"}
<1>3. ASSUME NEW to, rd' = [rd EXCEPT ![r] = to]
      PROVE  /\ Open(to) => /\ SnapOf' = [SnapOf EXCEPT ![r] = to.ver]
                            /\ GotOf' = [GotOf EXCEPT ![r] = to.got]
             /\ ~Open(to) => /\ SnapOf' = [SnapOf EXCEPT ![r] = 0]
                             /\ GotOf' = [GotOf EXCEPT ![r] = 0]
  <2>1. rd'[r] = to /\ \A q \in Readers : q # r => rd'[q] = rd[q]
    BY <1>1, <1>3, Zenon
  <2>2. /\ TakenBy(r)' <=> Open(to)
        /\ \A q \in Readers : q # r => (TakenBy(q)' <=> TakenBy(q))
    BY <2>1 DEF TakenBy
  <2> HIDE DEF Open
  <2>3. CASE Open(to)
    <3>1. SnapOf' = [SnapOf EXCEPT ![r] = to.ver]
      BY <2>1, <2>2, <2>3, Zenon DEF SnapOf
    <3>2. GotOf' = [GotOf EXCEPT ![r] = to.got]
      BY <2>1, <2>2, <2>3, Zenon DEF GotOf
    <3>3. QED
      BY <2>3, <3>1, <3>2, Zenon
  <2>4. CASE ~Open(to)
    <3>1. SnapOf' = [SnapOf EXCEPT ![r] = 0]
      BY <2>1, <2>2, <2>4, Zenon DEF SnapOf
    <3>2. GotOf' = [GotOf EXCEPT ![r] = 0]
      BY <2>1, <2>2, <2>4, Zenon DEF GotOf
    <3>3. QED
      BY <2>4, <3>1, <3>2
  <2>5. QED
    BY <2>3, <2>4
<1>4. ASSUME NEW to, rd' = [rd EXCEPT ![r] = to],
             Open(to) <=> TakenBy(r),
             TakenBy(r) => to.ver = rd[r].ver /\ to.got = rd[r].got
      PROVE  Stutters
  <2>1. /\ TakenBy(r) => SnapOf[r] = to.ver /\ GotOf[r] = to.got
        /\ ~TakenBy(r) => SnapOf[r] = 0 /\ GotOf[r] = 0
    BY <1>4 DEF SnapOf, GotOf
  <2>2. /\ SnapOf' = [SnapOf EXCEPT ![r] = SnapOf[r]]
        /\ GotOf' = [GotOf EXCEPT ![r] = GotOf[r]]
    <3> HIDE DEF Open
    <3> QED BY <1>3, <1>4, <2>1, Zenon
  <2>3. SnapOf' = SnapOf /\ GotOf' = GotOf
    BY <2>2, Zenon DEF SnapOf, GotOf
  <2>4. QED
    BY <1>2, <2>3 DEF Stutters
<1>5. CASE SnapLoad(r)
  BY <1>1, <1>3, <1>4, <1>5, Zenon DEF SnapLoad, Idle, TakenBy
<1>6. CASE SnapRegister(r)
  BY <1>1, <1>3, <1>4, <1>6, ZenonT(30) DEF SnapRegister, TakenBy, RdState
<1>7. CASE SnapConfirm(r)
  <2>1. CASE rd[r].ver = committed
    <3> DEFINE to == [rd[r] EXCEPT !.pc = "open"]
    <3>1. /\ rd' = [rd EXCEPT ![r] = to] /\ ~TakenBy(r)
          /\ to.pc = "open" /\ to.how = rd[r].how
          /\ to.ver = Len(hist) /\ to.got = 0
      BY <1>1, <1>7, <2>1 DEF SnapConfirm, TakenBy, RdState, committed, GotInv
    <3> HIDE DEF to
    <3>2. SnapOf[r] = 0 /\ GotOf[r] = 0
      BY <3>1 DEF SnapOf, GotOf
    <3>3. CASE to.how = "taken"
      <4>0. Open(to)
        BY <3>1, <3>3
      <4>1. /\ SnapOf' = [SnapOf EXCEPT ![r] = Len(History)]
            /\ GotOf' = [GotOf EXCEPT ![r] = GotOf[r]]
        <5> HIDE DEF Open
        <5> QED BY <1>2, <1>3, <3>1, <3>2, <4>0, Zenon
      <4>2. GotOf' = GotOf
        BY <4>1, Zenon DEF GotOf
      <4>3. QED
        BY <1>2, <4>1, <4>2, PromisedActions, Zenon
    <3>4. CASE to.how # "taken"
      BY <1>3, <1>4, <3>1, <3>4, Zenon
    <3>5. QED
      BY <3>3, <3>4
  <2>2. CASE rd[r].ver # committed
    <3> DEFINE to == [rd[r] EXCEPT !.pc = "loaded", !.ver = committed]
    <3>1. rd' = [rd EXCEPT ![r] = to] /\ to.pc = "loaded" /\ ~TakenBy(r)
      BY <1>1, <1>7, <2>2 DEF SnapConfirm, TakenBy, RdState
    <3> HIDE DEF to
    <3> QED BY <1>4, <3>1, Zenon
  <2>3. QED
    BY <2>1, <2>2
<1>8. CASE SnapClone(r)
  BY <1>1, <1>3, <1>4, <1>8, ZenonT(30) DEF SnapClone, Idle, TakenBy
<1>9. CASE Lookup(r)
  <2>1. PICK id \in Ids : rd' = [rd EXCEPT ![r] =
          [rd[r] EXCEPT !.pc = "reading", !.entry = Newest(id, rd[r].ver)]]
    BY <1>9, ZenonT(30) DEF Lookup
  <2> DEFINE to == [rd[r] EXCEPT !.pc = "reading", !.entry = Newest(id, rd[r].ver)]
  <2>2. /\ to.pc = "reading" /\ to.how = rd[r].how /\ to.ver = rd[r].ver
        /\ to.got = rd[r].got /\ rd[r].pc = "open"
    BY <1>1, <1>9, ZenonT(30) DEF Lookup, RdState
  <2> HIDE DEF to
  <2>3. Open(to) <=> TakenBy(r)
    BY <2>2 DEF TakenBy
  <2>4. rd' = [rd EXCEPT ![r] = to]
    BY <2>1 DEF to
  <2>5. QED
    BY <1>4, <2>2, <2>3, <2>4, ZenonT(30)
<1>10. CASE Decode(r)
  <2> DEFINE e == rd[r].entry
             value == IF e.blob # 0 /\ e.blob \notin blobFiles THEN -1 ELSE Payload(e)
             to == [rd[r] EXCEPT !.pc = "open", !.got = value, !.entry = Absent]
  <2>1. /\ rd' = [rd EXCEPT ![r] = to] /\ rd[r].pc = "reading"
        /\ to.pc = "open" /\ to.how = rd[r].how /\ to.ver = rd[r].ver
        /\ to.got = value
    BY <1>1, <1>10 DEF Decode, RdState
  <2>2. CASE TakenBy(r)
    <3>1. Pending(r) /\ rd[r].ver \in 1..Len(hist)
      BY <1>1, <2>1, <2>2, Zenon DEF ReaderInv
    <3>2. PICK id \in Ids : Payload(e) = Truth(id, rd[r].ver)
      BY <3>1, ZenonT(30) DEF Pending
    <3>3. value = Truth(id, rd[r].ver)
      BY <3>1, <3>2, ZenonT(30) DEF Pending, IInv, BlobInv
    <3> HIDE DEF value, to
    <3>a. SnapOf[r] = rd[r].ver
      BY <2>2 DEF SnapOf
    <3>c. rd[r].ver # 0
      BY <3>1
    <3>b. History[rd[r].ver][id] = Truth(id, rd[r].ver)
      BY <3>1, Zenon DEF History, committed
    <3>4. /\ SnapOf[r] = rd[r].ver /\ SnapOf[r] # 0
          /\ History[SnapOf[r]][id] = value
      BY <3>3, <3>a, <3>b, <3>c, Zenon
    <3>open. Open(to)
      BY <2>1, <2>2 DEF TakenBy
    <3>5. /\ SnapOf' = [SnapOf EXCEPT ![r] = SnapOf[r]]
          /\ GotOf' = [GotOf EXCEPT ![r] = value]
      <4> HIDE DEF Open
      <4>1. rd' = [rd EXCEPT ![r] = to] /\ to.ver = SnapOf[r] /\ to.got = value
        BY <2>1, <3>4
      <4>2. Open(to) => /\ SnapOf' = [SnapOf EXCEPT ![r] = to.ver]
                        /\ GotOf' = [GotOf EXCEPT ![r] = to.got]
        BY <1>3, <4>1, Zenon
      <4>3. QED
        BY <4>1, <4>2, <3>open, Zenon
    <3>6. SnapOf' = SnapOf
      BY <3>5, Zenon DEF SnapOf
    <3>7. QED
      BY <1>2, <3>4, <3>5, <3>6, PromisedActions, ZenonT(30)
  <2>3. CASE ~TakenBy(r)
    <3> HIDE DEF to
    <3> QED BY <1>3, <1>4, <2>1, <2>3, Zenon DEF TakenBy
  <2>4. QED
    BY <2>2, <2>3
<1>11. CASE Release(r)
  <2>1. rd' = [rd EXCEPT ![r] = Idle] /\ Idle.how = "none"
    BY <1>11 DEF Release, Idle
  <2>2. /\ SnapOf' = [SnapOf EXCEPT ![r] = 0]
        /\ GotOf' = [GotOf EXCEPT ![r] = 0]
    BY <1>3, <2>1, Zenon
  <2>3. QED
    BY <1>2, <2>2, PromisedActions, Zenon
<1>12. QED
  BY <1>5, <1>6, <1>7, <1>8, <1>9, <1>10, <1>11

\* Every read at a snapshot returns the row of the commit the snapshot was
\* taken at: the store with its overlays, runs, blob files, registry shards and
\* rewrites implements the abstract history of SnapshotStore.
THEOREM StoreImplementsSnapshots == vsSpec => ImplementsSnapshots
<1>1. vsInit => Promise!Init
  BY DEF vsInit, Promise!Init, committed, TakenBy, Idle
<1>2. ASSUME IInv, GotInv, [vsNext]_vsVars
      PROVE  [Promise!Next]_<<History, SnapOf, GotOf>>
  <2>1. ASSUME NEW id \in Ids, NEW b \in Nat, Applied(id, b), UNCHANGED rd
        PROVE  Promise!Next
    <3>1. UNCHANGED <<SnapOf, GotOf>>
      BY <2>1, Zenon DEF SnapOf, GotOf, TakenBy
    <3>2. Promise!Commit
      BY <1>2, <2>1, <3>1, CommitRefines, PromisedActions DEF IInv
    <3>3. QED
      BY <3>2 DEF Promise!Next
  <2>2. ASSUME NEW w \in Writers, CommitPut(w) PROVE Promise!Next
    <3>1. tx[w] \in Nat
      BY <1>2 DEF IInv, BlobInv
    <3>2. QED
      BY <2>1, <2>2, <3>1 DEF CommitPut
  <2>3. CASE CommitDelete
    BY <2>1, <2>3 DEF CommitDelete
  <2>4. ASSUME NEW r \in Readers,
               \/ SnapLoad(r) \/ SnapRegister(r) \/ SnapConfirm(r) \/ SnapClone(r)
               \/ Lookup(r) \/ Decode(r) \/ Release(r)
        PROVE  Promise!Next \/ Stutters
    <3>1. UNCHANGED hist
      BY <2>4, ZenonT(30) DEF SnapLoad, SnapRegister, SnapConfirm, SnapClone, Lookup, Decode,
                  Release, store
    <3>2. QED
      BY <1>2, <2>4, <3>1, ReaderRefines, Zenon DEF Promise!Next
  <2>5. CASE UNCHANGED <<hist, rd>>
    BY <2>5 DEF Stutters, History, SnapOf, GotOf, committed, Truth, TakenBy
  <2>6. QED
    BY <1>2, <2>2, <2>3, <2>4, <2>5
    DEF vsNext, vsVars, store, StageBlob, CommitFails, Freeze, AdoptFrozen, Thaw,
        RewriteBegin, RewriteScanShard, RewriteBuild, RewriteAdopt, RewriteGc,
        RewriteFails, Stutters
<1>3. vsInit => GotInv
  BY DEF vsInit, GotInv, Idle
<1>4. IInv /\ GotInv /\ [vsNext]_vsVars => GotInv'
  BY GotStep DEF IInv, SnapshotInv
<1>5. vsSpec => []IInv
  BY Inductive
<1>6. QED
  BY <1>1, <1>2, <1>3, <1>4, <1>5, PTL
  DEF vsSpec, ImplementsSnapshots, Promise!Spec, History, SnapOf, GotOf
====
