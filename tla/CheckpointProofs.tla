-------------------------- MODULE CheckpointProofs --------------------------
(***************************************************************************)
(* Proofs about Checkpoint for every number of commits, files and faults,  *)
(* in every durability mode: a killed process loses nothing, a power loss  *)
(* loses no commit a barrier covered unless a record was exposed, and      *)
(* commits stay within the recorded extent.                                *)
(*                                                                         *)
(* All three rest on the invariant of CheckpointFacts: every manifest that *)
(* may survive anchors a chain that replays to the published commits. Here *)
(* are the checkpoint under the mutex, the crashes, close and open, and    *)
(* what a crash at any moment leaves to recover.                           *)
(***************************************************************************)
EXTENDS CheckpointFacts

-----------------------------------------------------------------------------
(* The checkpoint under the commit mutex.                                  *)

(* checkpoint under the commit lock: the segments hold everything and the  *)
(* anchor is a new empty file.                                             *)
LEMMA CheckpointLockedStep == ASSUME Inv, CheckpointLocked PROVE Inv'
<1> DEFINE n == cur + 1
           m == [seg |-> hist, wal |-> n, req |-> n]
           w == Put(wal, n, Empty)
<1>1. /\ up = "up" /\ up' = up /\ ~grp /\ grp' = grp /\ job = NoJob /\ job' = job /\ n \in Id
      /\ hist' = hist /\ made' = made /\ assured' = assured
  BY Zenon DEF CheckpointLocked, commits
<1>2. \/ /\ man' = m /\ disk' = {m} /\ wal' = Drop(w, 1..cur) /\ cur' = n /\ unsynced' = FALSE
      \/ /\ man' = man /\ disk' = disk /\ fenced' = fenced /\ wal' = w
         /\ cur' = cur /\ unsynced' = unsynced
      \/ /\ man' = m /\ (disk' = {m} \/ disk' = disk \cup {m}) /\ fenced' = TRUE /\ wal' = w
         /\ cur' = n /\ unsynced' = FALSE
  BY Zenon DEF CheckpointLocked, Published, PublishFailed, PublishSyncFailed
<1>3. /\ FileMap(wal) /\ hist \in Seq(Nat) /\ cur \in Nat /\ cur \in DOMAIN wal
      /\ Files(wal, cur) /\ Covered(wal, assured) /\ assured \in Nat /\ Types /\ Chain
      /\ man \in disk
  BY <1>1, UpFacts, Zenon
<1>4. HasNew(wal, n, w)
  BY <1>1, <1>3, PutFacts, Zenon
<1>5. m = [seg |-> hist, wal |-> n, req |-> n] /\ m.req = n
  BY Zenon
<1>6. /\ n > cur /\ n # cur /\ cur <= n /\ n \in Nat /\ n \in Nat \ {0} /\ n <= n /\ n \notin 1..cur
      /\ \A id \in cur..n : id = cur \/ id = n
      /\ \A id \in (cur + 1)..n : id = n
      /\ \A id \in Id : /\ (id \notin 1..cur => id > cur)
                        /\ (id > n => id > cur) /\ (id <= n => id <= cur \/ id = n)
                        /\ (id \notin 1..cur /\ id <= n => id = n)
  BY <1>3 DEF Id
<1> HIDE DEF n, m, w
<1>7. /\ FileMap(w) /\ DOMAIN w = DOMAIN wal \cup {n} /\ w[n] = Empty
      /\ \A id \in DOMAIN wal : id # n => w[id] = wal[id]
  BY <1>4, Zenon DEF HasNew
<1>8. job' \in JobType /\ JobOK'
  BY <1>1, NoJobOK, Zenon
<1>9. ASSUME man' = m, disk' = {m}, wal' = Drop(w, 1..cur), cur' = n, unsynced' = FALSE
      PROVE  Inv'
  <2>1. Lacks(w, 1..cur, wal')
    BY <1>7, <1>9, DropFacts, Zenon
  <2>2. /\ FileMap(wal') /\ DOMAIN wal' = DOMAIN w \ 1..cur /\ \A i \in DOMAIN wal' : wal'[i] = w[i]
    BY <2>1, Zenon DEF Lacks
  <2>3. n \in DOMAIN wal' /\ wal'[n] = Empty /\ wal'[n].recs = <<>>
    BY <1>6, <1>7, <2>2, EmptyFacts, Zenon
  <2>4. m \in ManType /\ Anchors(wal', m, n, hist)
    BY <1>3, <1>5, <1>6, <2>2, <2>3, AnchorsNew
  <2>5. Chain'
    BY <1>1, <1>5, <1>6, <1>9, <2>4, Zenon DEF Chain
  <2>6. ASSUME NEW id \in DOMAIN wal'
        PROVE  /\ wal'[id].recs = <<>> /\ Scans(wal'[id]) /\ (id <= n => ~wal'[id].torn)
    <3>1. id \in Id
      BY <2>2, Zenon DEF FileMap
    <3>2. CASE id = n
      BY <2>3, <3>2, EmptyFacts, Zenon
    <3>3. CASE id # n
      <4>1. id \in DOMAIN wal /\ wal'[id] = wal[id] /\ id \notin 1..cur
        BY <1>7, <2>2, <3>3, Zenon
      <4>2. id > cur /\ ~(id <= n)
        BY <1>6, <3>1, <3>3, <4>1, Zenon
      <4>3. QED
        BY <1>3, <4>1, <4>2, Zenon DEF Files
    <3>4. QED
      BY <3>2, <3>3, Zenon
  <2>7. Files(wal', cur')
    BY <1>9, <2>6, Zenon DEF Files
  <2>8. Covered(wal', assured')
    <3>1. Len(<<>>) = 0 /\ \A i \in 1..0 : FALSE
      OBVIOUS
    <3>2. QED
      BY <2>6, <3>1, Zenon DEF Covered
  <2>9. Types'
    <3>1. disk' \subseteq ManType /\ man' \in disk' /\ cur' \in Nat /\ unsynced' \in BOOLEAN
      BY <1>6, <1>9, <2>4, Zenon
    <3>2. QED
      BY <1>1, <1>3, <1>8, <2>2, <3>1, Zenon DEF Types
  <2>10. QED
    BY <1>1, <1>8, <1>9, <2>5, <2>7, <2>8, <2>9, InvIntro, Zenon
<1>10. ASSUME man' = man, disk' = disk, fenced' = fenced, wal' = w, cur' = cur, unsynced' = unsynced
       PROVE  Inv'
  <2>1. Stays
    BY <1>1, <1>3, <1>8, <1>10, Zenon DEF Stays, Types
  <2>2. QED
    BY <1>1, <1>6, <1>8, <1>10, <2>1, CreateStep, Zenon DEF w
<1>11. ASSUME man' = m, disk' = {m} \/ disk' = disk \cup {m}, fenced' = TRUE, wal' = w,
              cur' = n, unsynced' = FALSE
       PROVE  Inv'
  <2>1. w[n].recs = <<>> /\ n \in DOMAIN w
    BY <1>7, EmptyFacts, Zenon
  <2>2. m \in ManType /\ Anchors(w, m, n, hist)
    BY <1>3, <1>5, <1>6, <1>7, <2>1, AnchorsNew, SMTT(20)
  <2>3. ASSUME NEW d \in disk PROVE Anchors(w, d, n, hist)
    <3>1. /\ d \in ManType /\ Anchors(wal, d, cur, hist) /\ d.wal..cur \subseteq DOMAIN wal
          /\ cur..(d.req) \subseteq DOMAIN wal
      BY <1>1, UpFacts, Zenon
    <3>2. d.wal \in Int /\ d.req \in Int
      BY <3>1, ManFields, Zenon
    <3>3. n \notin d.wal..cur
      BY <1>3, <1>6, <3>2
    <3>4. n..(d.req) \subseteq cur..(d.req)
      BY <1>3, <1>6, <3>2
    <3>5. /\ d.wal..cur \subseteq DOMAIN w /\ cur..(d.req) \subseteq DOMAIN w
          /\ \A id \in d.wal..cur : w[id].recs = wal[id].recs
      BY <1>7, <3>1, <3>3, Zenon
    <3>6. Anchors(w, d, cur, hist)
      BY <1>3, <1>7, <3>1, <3>5, AnchorsKeep
    <3>7. cur..n \subseteq DOMAIN w /\ n..(d.req) \subseteq DOMAIN w
      BY <1>3, <1>6, <1>7, <3>4, <3>5, Zenon
    <3>8. \A id \in (cur + 1)..n : w[id].recs = <<>>
      BY <1>6, <2>1, Zenon
    <3>9. QED
      BY <1>3, <1>6, <1>7, <3>1, <3>6, <3>7, <3>8, AnchorsMove, Zenon
  <2>4. Chain'
    BY <1>1, <1>11, <2>2, <2>3, Zenon DEF Chain
  <2>5. Files(wal', cur')
    <3>1. ASSUME NEW id \in DOMAIN w
          PROVE  /\ Scans(w[id]) /\ (id > n => w[id].recs = <<>>) /\ (id <= n => ~w[id].torn)
      <4>1. id \in Id
        BY <1>7, Zenon DEF FileMap
      <4>2. CASE id = n
        BY <1>7, <2>1, <4>2, EmptyFacts, Zenon
      <4>3. CASE id # n
        BY <1>3, <1>6, <1>7, <4>1, <4>3, Zenon DEF Files
      <4>4. QED
        BY <4>2, <4>3, Zenon
    <3>2. QED
      BY <1>11, <3>1, Zenon DEF Files
  <2>6. Covered(w, assured)
    <3>1. ASSUME NEW id \in DOMAIN w
          PROVE  \/ w[id].synced >= Len(w[id].recs)
                 \/ /\ id \in DOMAIN wal /\ w[id].recs = wal[id].recs
                    /\ w[id].synced >= wal[id].synced
                    /\ \A later \in DOMAIN wal : id < later /\ wal[later].recs # <<>> =>
                          later \in DOMAIN w /\ w[later].recs # <<>>
      <4>1. CASE id = n
        BY <1>7, <4>1, EmptyFacts
      <4>2. CASE id # n
        <5>1. id \in DOMAIN wal /\ w[id] = wal[id]
          BY <1>7, <4>2, Zenon
        <5>2. wal[id].synced >= wal[id].synced
          BY <1>3, <5>1 DEF FileMap, FileType
        <5>3. ASSUME NEW later \in DOMAIN wal, wal[later].recs # <<>>
              PROVE  later \in DOMAIN w /\ w[later].recs # <<>>
          BY <1>3, <1>6, <1>7, <5>3, Zenon DEF Files
        <5>4. QED
          BY <5>1, <5>2, <5>3, Zenon
      <4>3. QED
        BY <4>1, <4>2, Zenon
    <3>2. assured <= assured
      BY <1>3
    <3>3. QED
      BY <1>3, <1>7, <3>1, <3>2, CoveredKeep
  <2>7. Types'
    <3>1. disk' \subseteq ManType /\ man' \in disk' /\ cur' \in Nat /\ unsynced' \in BOOLEAN
      BY <1>3, <1>6, <1>11, <2>2, Zenon DEF Types
    <3>2. QED
      BY <1>1, <1>3, <1>7, <1>8, <1>11, <3>1, Zenon DEF Types
  <2>8. QED
    BY <1>1, <1>8, <1>11, <2>4, <2>5, <2>6, <2>7, InvIntro, Zenon
<1>12. QED
  BY <1>2, <1>9, <1>10, <1>11, Zenon

-----------------------------------------------------------------------------
(* Crashes, close and open.                                                *)

(* A database just created. *)
LEMMA InitStep == ASSUME Init PROVE Inv
<1>1. /\ hist = <<>> /\ made = 0 /\ assured = 0 /\ wal = [id \in {1} |-> Empty]
      /\ man = [seg |-> <<>>, wal |-> 1, req |-> 1] /\ disk = {man}
      /\ up = "up" /\ cur = 1 /\ unsynced = FALSE /\ grp = FALSE /\ job = NoJob
  BY Zenon DEF Init
<1>2. DOMAIN wal = {1} /\ wal[1] = Empty
  BY <1>1, Zenon
<1>3. 1 \in Id /\ 0 <= 0 /\ 0 \in 0..Len(<<>>) /\ <<>> \in Seq(Nat) /\ 1 \in Nat \ {0} /\ 1 \in Nat
      /\ 1 <= 1 /\ ~(1 > 1) /\ Len(<<>>) = 0 /\ (\A i \in 1..0 : FALSE) /\ 0 \in Nat
  BY CheckpointAssumption DEF Id
<1>4. FileMap(wal)
  BY <1>2, <1>3, EmptyFacts, Zenon DEF FileMap
<1>5. /\ man \in ManType /\ Anchors(wal, man, 1, <<>>) /\ man.req = 1
  <2>1. man = [seg |-> <<>>, wal |-> 1, req |-> 1] /\ 1 \in DOMAIN wal /\ wal[1].recs = <<>>
    BY <1>1, <1>2, EmptyFacts, Zenon
  <2>2. man \in ManType /\ Anchors(wal, man, 1, <<>>)
    BY <1>3, <1>4, <2>1, AnchorsNew, Zenon
  <2>3. QED
    BY <2>1, <2>2, Zenon
<1>6. job \in JobType /\ JobOK
  <2>1. job \in JobType /\ job.pc = "none"
    BY <1>1, NoJobFacts, Zenon
  <2>2. QED
    BY <1>1, <2>1 DEF JobOK
<1>7. Types
  <2>1. /\ hist \in Seq(Nat) /\ made \in Nat /\ assured \in 0..Len(hist) /\ man \in disk
        /\ disk \subseteq ManType /\ cur \in Nat /\ unsynced \in BOOLEAN /\ grp \in BOOLEAN
    <3>1. hist \in Seq(Nat) /\ made \in Nat /\ assured \in 0..Len(hist) /\ cur \in Nat
      BY <1>1, <1>3
    <3>2. man \in disk /\ disk \subseteq ManType
      BY <1>1, <1>5, Zenon
    <3>3. unsynced \in BOOLEAN /\ grp \in BOOLEAN
      BY <1>1, Zenon
    <3>4. QED
      BY <3>1, <3>2, <3>3, Zenon
  <2>2. QED
    BY <1>4, <1>6, <2>1, Zenon DEF Types
<1>8. Covered(wal, assured)
  BY <1>2, <1>3, EmptyFacts, Zenon DEF Covered
<1>9. Opened
  <2>1. Chain
    BY <1>1, <1>3, <1>5, Zenon DEF Chain
  <2>2. Files(wal, cur)
    BY <1>1, <1>2, <1>3, EmptyFacts, Zenon DEF Files
  <2>3. QED
    BY <1>1, <1>6, <2>1, <2>2, Zenon DEF Opened
<1>10. QED
  BY <1>1, <1>7, <1>8, <1>9, Zenon DEF Inv

(* A handle that goes down. *)
LEMMA DownStep ==
    ASSUME Inv, up' = "down", job' = NoJob, unsynced' = FALSE, grp' = FALSE,
           hist' = hist, made' = made, assured' = assured, cur' = cur,
           man' \in disk', disk' \subseteq disk, FileMap(wal'), Covered(wal', assured)
    PROVE  Inv'
<1>1. job' \in JobType
  BY NoJobFacts, Zenon
<1>2. Types
  BY Zenon DEF Inv
<1>3. Types'
  BY <1>1, <1>2, Zenon DEF Types
<1>4. up' # "up"
  OBVIOUS
<1>5. QED
  BY <1>3, <1>4, Zenon DEF Inv

(* w2 has the records of w, and as many of them synced. *)
AsMuch(w, w2) ==
    /\ FileMap(w2) /\ DOMAIN w2 = DOMAIN w
    /\ \A id \in DOMAIN w : w2[id].recs = w[id].recs /\ w2[id].synced >= w[id].synced

(* The files of a killed process. *)
LEMMA TornFacts ==
    ASSUME NEW w, FileMap(w), NEW c \in DOMAIN w, NEW t \in BOOLEAN
    PROVE  AsMuch(w, [w EXCEPT ![c].torn = t])
<1>0. PICK w2 : w2 = [w EXCEPT ![c].torn = t]
  BY Zenon
<1>1. /\ DOMAIN w2 = DOMAIN w /\ \A id \in DOMAIN w : id # c => w2[id] = w[id]
      /\ w2[c] = [w[c] EXCEPT !.torn = t]
  BY <1>0, Zenon
<1>2. w[c] \in FileType /\ w[c].synced <= Len(w[c].recs)
  BY Zenon DEF FileMap
<1>3. w2[c] \in FileType /\ w2[c].recs = w[c].recs /\ w2[c].synced = w[c].synced
  <2>1. PICK f, g : f = w[c] /\ g = w2[c]
    BY Zenon
  <2>2. g = [f EXCEPT !.torn = t] /\ f \in FileType
    BY <1>1, <1>2, <2>1, Zenon
  <2>3. f.recs \in Seq(RecType) /\ f.synced \in Nat
    BY <2>2, FileFields, Zenon
  <2>4. g = [recs |-> f.recs, synced |-> f.synced, torn |-> t]
    BY <2>2, Zenon DEF FileType
  <2>5. g \in FileType /\ g.recs = f.recs /\ g.synced = f.synced
    BY <2>3, <2>4 DEF FileType
  <2>6. QED
    BY <2>1, <2>5, Zenon
<1>4. \A id \in DOMAIN w : w[id].synced >= w[id].synced
  BY DEF FileMap, FileType
<1>5. AsMuch(w, w2)
  BY <1>1, <1>2, <1>3, <1>4, Zenon DEF FileMap, AsMuch
<1>6. QED
  BY <1>0, <1>5, Zenon

(* What the barriers cover stays covered when no record of theirs goes. *)
LEMMA CoveredSame ==
    ASSUME Inv, AsMuch(wal, wal')
    PROVE  Covered(wal', assured)
<1>1. FileMap(wal) /\ Covered(wal, assured) /\ hist \in Seq(Nat) /\ assured \in 0..Len(hist)
  BY Zenon DEF Inv, Types
<1>2. assured \in Nat /\ assured <= assured
  BY <1>1
<1>3. /\ FileMap(wal') /\ DOMAIN wal' = DOMAIN wal
      /\ \A id \in DOMAIN wal : wal'[id].recs = wal[id].recs /\ wal'[id].synced >= wal[id].synced
  BY Zenon DEF AsMuch
<1>4. QED
  BY <1>1, <1>2, <1>3, CoveredKeep

(* The end of the process: its files stay, but for a torn tail. *)
LEMMA KillStep == ASSUME Inv, Kill PROVE Inv'
<1>1. PICK t \in BOOLEAN : wal' = [wal EXCEPT ![cur].torn = t]
  BY Zenon DEF Kill, Down
<1>2. /\ up = "up" /\ up' = "down" /\ job' = NoJob /\ unsynced' = FALSE /\ grp' = FALSE
      /\ hist' = hist /\ made' = made /\ assured' = assured /\ cur' = cur
      /\ man' = man /\ disk' = disk
  BY Zenon DEF Kill, Down, commits
<1>3. FileMap(wal) /\ cur \in DOMAIN wal /\ man \in disk
  BY <1>2, UpFacts, Zenon
<1>4. AsMuch(wal, [wal EXCEPT ![cur].torn = t])
  BY <1>3, TornFacts, Zenon
<1>5. AsMuch(wal, wal')
  BY <1>1, <1>4, Zenon
<1>6. Covered(wal', assured) /\ FileMap(wal')
  BY <1>5, CoveredSame, Zenon DEF AsMuch
<1>7. QED
  BY <1>2, <1>3, <1>6, DownStep, Zenon

(* close: the last barrier. *)
LEMMA CloseStep == ASSUME Inv, Close PROVE Inv'
<1>1. /\ up = "up" /\ up' = "down" /\ job' = NoJob /\ unsynced' = FALSE /\ grp' = FALSE
      /\ hist' = hist /\ made' = made /\ assured' = assured /\ cur' = cur
      /\ man' = man /\ disk' = disk
      /\ wal' = IF unsynced THEN [wal EXCEPT ![cur] = Synced(@)] ELSE wal
  BY Zenon DEF Close, Down, commits
<1>2. FileMap(wal) /\ cur \in DOMAIN wal /\ man \in disk
  BY <1>1, UpFacts, Zenon
<1>3. FileMap(wal') /\ SyncedFurther(wal, wal')
  <2>1. CASE unsynced
    BY <1>1, <1>2, <2>1, SyncFacts, Zenon
  <2>2. CASE ~unsynced
    <3>1. wal' = wal
      BY <1>1, <2>2, Zenon
    <3>2. \A id \in DOMAIN wal : wal[id].synced >= wal[id].synced
      BY <1>2 DEF FileMap, FileType
    <3>3. QED
      BY <1>2, <3>1, <3>2, Zenon DEF SyncedFurther
  <2>3. QED
    BY <2>1, <2>2, Zenon
<1>4. Covered(wal', assured)
  BY <1>3, CoveredSame, Zenon DEF SyncedFurther, AsMuch
<1>5. QED
  BY <1>1, <1>2, <1>3, <1>4, DownStep, Zenon

(* What a power loss leaves of the file f at id: its first n records. *)
Remains(f, g, id, n) ==
    /\ n \in f.synced..Len(f.recs)
    /\ g.recs = SubSeq(f.recs, 1, n) /\ g.synced = n /\ g.torn \in BOOLEAN
    /\ n = Len(f.recs) /\ g.torn => f.torn \/ id = cur

(* What a power loss may leave of a file, and of the directory. *)
LEMMA LeftFacts ==
    ASSUME FileMap(wal), NEW id \in DOMAIN wal
    PROVE  /\ Left(id) # {}
           /\ \A g \in Left(id) : /\ g \in FileType /\ g.synced <= Len(g.recs)
                                  /\ \E n : Remains(wal[id], g, id, n)
<1> DEFINE f == wal[id]
           l == Len(f.recs)
           Lost == {[recs |-> f.recs, synced |-> l, torn |-> t] :
                       t \in IF f.torn \/ id = cur THEN {} ELSE {TRUE}}
           Cut(n, t) == [recs |-> SubSeq(f.recs, 1, n), synced |-> n, torn |-> t]
           Cuts == {Cut(n, t) : n \in f.synced..l, t \in BOOLEAN}
<1>1. Left(id) = Cuts \ Lost
  BY DEF Left
<1>2. /\ f.recs \in Seq(RecType) /\ f.synced \in Nat /\ l \in Nat /\ f.synced <= l
  BY FileFields, Zenon DEF FileMap
<1> HIDE DEF f, l
<1>3. l \in f.synced..l /\ SubSeq(f.recs, 1, l) = f.recs
  BY <1>2 DEF l
<1> HIDE DEF Cut
<1>4. Cut(l, FALSE) \in Cuts
  <2>1. ASSUME NEW n \in f.synced..l, NEW t \in BOOLEAN PROVE Cut(n, t) \in Cuts
    OBVIOUS
  <2> HIDE DEF Cuts
  <2>2. QED
    BY <1>3, <2>1, Zenon
<1>5. ASSUME NEW g \in Cuts
      PROVE  \E n \in f.synced..l, t \in BOOLEAN : g = Cut(n, t)
  OBVIOUS
<1>6. ASSUME NEW g \in Lost PROVE g = [recs |-> f.recs, synced |-> l, torn |-> TRUE]
  BY Zenon
<1>7. ASSUME ~(f.torn \/ id = cur) PROVE [recs |-> f.recs, synced |-> l, torn |-> TRUE] \in Lost
  <2>1. TRUE \in IF f.torn \/ id = cur THEN {} ELSE {TRUE}
    BY <1>7, Zenon
  <2>2. QED
    BY <2>1, Zenon
<1> HIDE DEF Cuts, Lost
<1>8. Left(id) # {}
  <2> DEFINE e == [recs |-> f.recs, synced |-> l, torn |-> FALSE]
  <2>0. e = Cut(l, FALSE)
    BY <1>3, Zenon DEF Cut
  <2>1. e \notin Lost
    <3>1. SUFFICES ASSUME e \in Lost PROVE FALSE
      BY Zenon
    <3>2. e = [recs |-> f.recs, synced |-> l, torn |-> TRUE]
      BY <1>6, <3>1, Zenon
    <3>3. e.torn = TRUE /\ e.torn = FALSE
      BY <3>2, Zenon
    <3>4. QED
      BY <3>3, Zenon
  <2>2. QED
    BY <1>1, <1>4, <2>0, <2>1, Zenon
<1>9. ASSUME NEW g \in Left(id)
      PROVE  g \in FileType /\ g.synced <= Len(g.recs) /\ \E n : Remains(f, g, id, n)
  <2>1. PICK n \in f.synced..l, t \in BOOLEAN :
           g = [recs |-> SubSeq(f.recs, 1, n), synced |-> n, torn |-> t]
    BY <1>1, <1>5, Zenon DEF Cut
  <2>2. g.recs = SubSeq(f.recs, 1, n) /\ g.synced = n /\ g.torn = t
    BY <2>1, Zenon
  <2>3. ASSUME n = l, t = TRUE, ~(f.torn \/ id = cur) PROVE FALSE
    <3>1. g = [recs |-> f.recs, synced |-> l, torn |-> TRUE]
      BY <1>3, <2>1, <2>3, Zenon
    <3>2. g \in Lost
      BY <1>7, <2>3, <3>1, Zenon
    <3>3. QED
      BY <1>1, <3>2, Zenon
  <2>4. n \in Nat /\ SubSeq(f.recs, 1, n) \in Seq(RecType) /\ n <= Len(SubSeq(f.recs, 1, n))
    BY <1>2 DEF l
  <2>5. g \in FileType
    BY <2>1, <2>4 DEF FileType
  <2>6. QED
    BY <2>2, <2>3, <2>4, <2>5, Zenon DEF Remains, l
<1>10. QED
  BY <1>8, <1>9, Zenon DEF f

(* A crash leaves of every file a prefix that holds what was synced. *)
LEMMA LeftoverFacts ==
    ASSUME FileMap(wal), NEW w \in Leftovers
    PROVE  /\ DOMAIN w = DOMAIN wal /\ FileMap(w)
           /\ \A id \in DOMAIN wal : \E n : Remains(wal[id], w[id], id, n)
<1> DEFINE open == {id \in DOMAIN wal : Cardinality(Left(id)) > 1}
           sure == [id \in DOMAIN wal \ open |-> CHOOSE f \in Left(id) : TRUE]
           pick == {g \in [open -> UNION {Left(id) : id \in open}] :
                      \A id \in open : g[id] \in Left(id)}
<1>1. PICK g \in pick : w = [id \in DOMAIN wal |-> IF id \in open THEN g[id] ELSE sure[id]]
  BY Zenon DEF Leftovers
<1>2. DOMAIN w = DOMAIN wal
  BY <1>1, Zenon
<1>3. ASSUME NEW id \in DOMAIN wal PROVE w[id] \in Left(id)
  <2>1. CASE id \in open
    BY <1>1, <2>1, Zenon
  <2>2. CASE id \notin open
    <3>1. w[id] = CHOOSE f \in Left(id) : TRUE
      BY <1>1, <2>2, Zenon
    <3>2. Left(id) # {}
      BY LeftFacts, Zenon
    <3>3. QED
      BY <3>1, <3>2, Zenon
  <2>3. QED
    BY <2>1, <2>2, Zenon
<1>4. \A id \in DOMAIN wal : \E n : Remains(wal[id], w[id], id, n)
  BY <1>3, LeftFacts, Zenon
<1>5. FileMap(w)
  <2>1. ASSUME NEW id \in DOMAIN wal PROVE w[id] \in FileType /\ w[id].synced <= Len(w[id].recs)
    BY <1>3, LeftFacts, Zenon
  <2>2. QED
    BY <1>2, <2>1, Zenon DEF FileMap
<1>6. QED
  BY <1>2, <1>4, <1>5, Zenon

(* A power loss: any of those directories, any manifest still possible. *)
LEMMA PowerLossStep == ASSUME Inv, PowerLoss PROVE Inv'
<1>1. wal' \in Leftovers
  BY Zenon DEF PowerLoss, Down
<1>2. /\ up' = "down" /\ job' = NoJob /\ unsynced' = FALSE /\ grp' = FALSE
      /\ hist' = hist /\ made' = made /\ assured' = assured /\ cur' = cur
      /\ man' \in disk' /\ disk' \subseteq disk
  BY Zenon DEF PowerLoss, Down, commits
<1>3. FileMap(wal)
  BY Zenon DEF Inv, Types
<1>4. /\ DOMAIN wal' = DOMAIN wal /\ FileMap(wal')
      /\ \A id \in DOMAIN wal : \E n : Remains(wal[id], wal'[id], id, n)
  BY <1>1, <1>3, LeftoverFacts
<1>5. Covered(wal', assured)
  <2> SUFFICES ASSUME NEW id \in DOMAIN wal', NEW i \in 1..Len(wal'[id].recs),
                      i > wal'[id].synced
               PROVE  FALSE
    BY Zenon DEF Covered
  <2>1. PICK n : Remains(wal[id], wal'[id], id, n)
    BY <1>4, Zenon
  <2>2. /\ n \in wal[id].synced..Len(wal[id].recs) /\ wal'[id].synced = n
        /\ wal'[id].recs = SubSeq(wal[id].recs, 1, n)
    BY <2>1, Zenon DEF Remains
  <2>3. wal[id].recs \in Seq(RecType) /\ wal[id].synced \in Nat
    BY <1>3, <1>4, FileFields, Zenon DEF FileMap
  <2>4. Len(SubSeq(wal[id].recs, 1, n)) = n /\ n \in Nat
    BY <2>2, <2>3
  <2>5. i \in 1..n /\ i > n
    BY <2>2, <2>4, Zenon
  <2>6. QED
    BY <2>4, <2>5
<1>6. QED
  BY <1>2, <1>4, <1>5, DownStep, Zenon

(* Where a chain ends and where replay stops. *)
Ends(w, a, last) ==
    /\ last \in DOMAIN w /\ last \in Nat /\ a <= last
    /\ \A id \in DOMAIN w : id >= a => id <= last
Stops(w, a, last, act) ==
    /\ act \in DOMAIN w /\ act \in Nat /\ a <= act /\ act <= last
    /\ w[act].torn \/ act = last
    /\ \A id \in DOMAIN w : id >= a /\ id < act => ~w[id].torn

(* Where the chain ends, and at which of its files open continues. *)
LEMMA EndFacts ==
    ASSUME NEW w, FileMap(w), NEW a \in Nat, a \in DOMAIN w
    PROVE  /\ Ends(w, a, Max(Ids(w, a)))
           /\ Stops(w, a, Max(Ids(w, a)), ActiveWal(w, a))
<1> DEFINE I == Ids(w, a)
           last == Max(I)
           T == {id \in I : w[id].torn}
<1>1. /\ \A id \in DOMAIN w : id \in Nat /\ id \in 0..MaxWal
      /\ MaxWal \in Nat
  BY CheckpointAssumption DEF FileMap, Id
<1>2. \A id : id \in I <=> id \in DOMAIN w /\ id >= a
  BY Zenon DEF Ids
<1>3. a \in I
  BY <1>2
<1>4. I \in SUBSET (0..MaxWal) /\ I # {} /\ I \subseteq Nat
  BY <1>1, <1>2, <1>3, Zenon
<1>5. T \in SUBSET Nat /\ \A id : id \in T <=> id \in I /\ w[id].torn
  BY <1>4, Zenon
<1>6. ActiveWal(w, a) = IF T = {} THEN last ELSE Min(T)
  BY Zenon DEF ActiveWal
<1> HIDE DEF I, T
<1>7. last \in I /\ \A y \in I : last >= y
  BY <1>1, <1>4, MaxFacts, Zenon
<1>8. \A id \in I : id <= last
  BY <1>4, <1>7
<1> HIDE DEF last
<1>9. last \in DOMAIN w /\ last \in Nat /\ a <= last
  BY <1>1, <1>2, <1>3, <1>7, <1>8, Zenon
<1>10. Ends(w, a, last)
  BY <1>2, <1>8, <1>9, Zenon DEF Ends
<1>11. Stops(w, a, last, ActiveWal(w, a))
  <2>1. CASE T = {}
    <3>1. last <= last
      BY <1>9
    <3>2. QED
      BY <1>2, <1>5, <1>6, <1>9, <2>1, <3>1, Zenon DEF Stops
  <2>2. CASE T # {}
    <3>1. \E m \in T : \A k \in T : m <= k
      BY <1>5, <2>2, LeastNatural, Zenon
    <3> DEFINE act == Min(T)
    <3>2. act \in T /\ \A k \in T : act <= k
      BY <3>1, Zenon DEF Min
    <3>3. ActiveWal(w, a) = act
      BY <1>6, <2>2, Zenon
    <3> HIDE DEF act
    <3>4. act \in I /\ w[act].torn /\ act \in DOMAIN w /\ act \in Nat /\ act <= last /\ act >= a
      BY <1>1, <1>2, <1>5, <1>8, <3>2, Zenon
    <3>5. a <= act /\ \A id \in Nat : ~(act <= id /\ id < act)
      BY <3>4
    <3>6. Stops(w, a, last, act)
      BY <1>1, <1>2, <1>5, <3>2, <3>4, <3>5, Zenon DEF Stops
    <3>7. QED
      BY <3>3, <3>6, Zenon
  <2>3. QED
    BY <2>1, <2>2, Zenon
<1>12. QED
  BY <1>10, <1>11, Zenon DEF last, I

(* The file in which the writer resumes after an incomplete tail. *)
LEMMA TruncatedFacts ==
    ASSUME NEW f \in FileType, f.synced <= Len(f.recs),
           NEW g, g = Synced([f EXCEPT !.torn = FALSE])
    PROVE  /\ g \in FileType /\ g.recs = f.recs /\ g.synced = Len(g.recs)
           /\ g.torn = FALSE /\ g.synced >= f.synced
<1>1. PICK e : e = [f EXCEPT !.torn = FALSE]
  BY Zenon
<1>2. e = [recs |-> f.recs, synced |-> f.synced, torn |-> FALSE]
  BY <1>1, Zenon DEF FileType
<1>3. f.recs \in Seq(RecType) /\ f.synced \in Nat /\ Len(f.recs) \in Nat
  BY FileFields, Zenon
<1>4. e \in FileType /\ e.recs = f.recs /\ e.torn = FALSE
  BY <1>2, <1>3 DEF FileType
<1>5. g = Synced(e)
  BY <1>1, Zenon
<1>6. g \in FileType /\ g.recs = e.recs /\ g.torn = e.torn /\ g.synced = Len(e.recs)
  BY <1>4, <1>5, SyncedFacts, Zenon
<1>7. Len(f.recs) >= f.synced
  BY <1>3
<1>8. QED
  BY <1>4, <1>6, <1>7, Zenon

(* w2 is w from the anchor a on, without the incomplete tail of act. *)
Resumes(w, w2, a, act) ==
    /\ FileMap(w2) /\ \A id : id \in DOMAIN w2 <=> id \in DOMAIN w /\ id >= a
    /\ \A id \in DOMAIN w2 : /\ w2[id].recs = w[id].recs /\ w2[id].synced >= w[id].synced
                             /\ id # act => w2[id].torn = w[id].torn
    /\ ~w2[act].torn

(* What open leaves: its active file cut to its records. *)
LEMMA ResumeFacts ==
    ASSUME NEW w, FileMap(w), NEW a \in Nat \ {0}, NEW act \in DOMAIN w, act >= a, NEW w2,
           w2 = LET kept == Drop(w, 1..(a - 1))
                IN  IF kept[act].torn
                    THEN [kept EXCEPT ![act] = Synced([@ EXCEPT !.torn = FALSE])]
                    ELSE kept
    PROVE  Resumes(w, w2, a, act)
<1>1. PICK k : k = Drop(w, 1..(a - 1))
  BY Zenon
<1>2. Lacks(w, 1..(a - 1), k)
  BY <1>1, DropFacts, Zenon
<1>3. FileMap(k) /\ DOMAIN k = DOMAIN w \ 1..(a - 1) /\ \A i \in DOMAIN k : k[i] = w[i]
  BY <1>2, Zenon DEF Lacks
<1>4. \A id \in DOMAIN w : id \notin 1..(a - 1) <=> id >= a
  BY DEF FileMap, Id
<1>5. \A id : id \in DOMAIN k <=> id \in DOMAIN w /\ id >= a
  BY <1>3, <1>4, Zenon
<1>6. \A id \in DOMAIN k : k[id] \in FileType /\ k[id].synced <= Len(k[id].recs)
  BY <1>3, Zenon DEF FileMap
<1>7. \A id \in DOMAIN k : k[id].synced >= k[id].synced
  BY <1>6 DEF FileType
<1>8. CASE ~k[act].torn
  <2>1. w2 = k
    BY <1>1, <1>8, Zenon
  <2>2. QED
    BY <1>3, <1>5, <1>7, <1>8, <2>1, Zenon DEF Resumes
<1>9. CASE k[act].torn
  <2>1. w2 = [k EXCEPT ![act] = Synced([k[act] EXCEPT !.torn = FALSE])]
    BY <1>1, <1>9, Zenon
  <2>2. act \in DOMAIN k
    BY <1>5, Zenon
  <2>3. /\ DOMAIN w2 = DOMAIN k /\ w2[act] = Synced([k[act] EXCEPT !.torn = FALSE])
        /\ \A id \in DOMAIN k : id # act => w2[id] = k[id]
    BY <2>1, <2>2, Zenon
  <2>4. /\ w2[act] \in FileType /\ w2[act].recs = k[act].recs /\ w2[act].synced = Len(w2[act].recs)
        /\ w2[act].torn = FALSE /\ w2[act].synced >= k[act].synced
    <3>1. k[act] \in FileType /\ k[act].synced <= Len(k[act].recs)
      BY <1>6, <2>2, Zenon
    <3>2. PICK f \in FileType : f = k[act]
      BY <3>1, Zenon
    <3>3. f.synced <= Len(f.recs) /\ w2[act] = Synced([f EXCEPT !.torn = FALSE])
      BY <2>3, <3>1, <3>2, Zenon
    <3>4. PICK g : g = w2[act]
      BY Zenon
    <3>5. g = Synced([f EXCEPT !.torn = FALSE])
      BY <3>3, <3>4, Zenon
    <3>6. /\ g \in FileType /\ g.recs = f.recs /\ g.synced = Len(g.recs)
          /\ g.torn = FALSE /\ g.synced >= f.synced
      BY <3>3, <3>5, TruncatedFacts, Zenon
    <3>7. QED
      BY <3>2, <3>4, <3>6, Zenon
  <2>5. w2[act].synced <= Len(w2[act].recs)
    BY <2>4 DEF FileType
  <2>6. FileMap(w2)
    BY <1>3, <1>6, <2>3, <2>4, <2>5, Zenon DEF FileMap
  <2>7. QED
    BY <1>3, <1>5, <1>7, <2>3, <2>4, <2>6, Zenon DEF Resumes
<1>10. QED
  BY <1>8, <1>9, Zenon

(* open: the chain it accepts is the history it serves, and the files it   *)
(* drops or truncates hold nothing that history needs.                     *)
LEMMA OpenStep == ASSUME Inv, Open PROVE Inv'
<1> DEFINE a == man.wal
           last == Max(Ids(wal, a))
           act == ActiveWal(wal, a)
           h == ReplayTo(wal, man.seg, a, act)
           ext == IF act > man.req THEN [man EXCEPT !.req = act] ELSE man
<1>1. /\ up = "down" /\ made' = made /\ unsynced' = unsynced /\ grp' = grp /\ job' = job
  BY Zenon DEF Open
<1>2. up # "up"
  BY <1>1
<1>3. /\ Types /\ FileMap(wal) /\ Covered(wal, assured) /\ job = NoJob /\ ~grp /\ ~unsynced
      /\ assured \in 0..Len(hist) /\ man \in ManType /\ hist \in Seq(Nat)
  BY <1>2, Zenon DEF Inv, Types
<1>4. CASE ~ValidChain(wal, man.seg, man.wal, man.req)
  <2>1. /\ up' = "refused" /\ cur' = cur /\ hist' = hist /\ assured' = assured
        /\ wal' = wal /\ man' = man /\ disk' = disk
    BY <1>4, Zenon DEF Open, files
  <2>2. up' # "up"
    BY <2>1
  <2>3. QED
    BY <1>1, <1>3, <2>1, <2>2, Zenon DEF Inv, Types
<1>5. CASE ValidChain(wal, man.seg, man.wal, man.req)
  <2>1. /\ up' = "up" /\ cur' = act /\ hist' = h
        /\ assured' = IF assured < Len(hist') THEN assured ELSE Len(hist')
        /\ wal' = LET kept == Drop(wal, 1..(a - 1))
                  IN  IF kept[act].torn
                      THEN [kept EXCEPT ![act] = Synced([@ EXCEPT !.torn = FALSE])]
                      ELSE kept
        /\ man' = ext /\ disk' = {ext}
    BY <1>5, Zenon DEF Open, Recovered
  <2>2. /\ a \in DOMAIN wal /\ last >= man.req /\ a..last \subseteq DOMAIN wal
        /\ \A id \in DOMAIN wal : id >= a => Scans(wal[id])
        /\ \A id \in DOMAIN wal : id >= a /\ wal[id].torn =>
              \A later \in DOMAIN wal : later >= a /\ later > id => wal[later].recs = <<>>
        /\ ReplayTo(wal, man.seg, a, last) # None
    BY <1>5, Zenon DEF ValidChain, ChainComplete, TornTailIsLast, Ids
  <2>3. /\ man.seg \in Seq(Nat) /\ man.seg \in Replayed /\ a \in Nat /\ a \in Int /\ a # 0
        /\ man.req \in Nat /\ a \in Nat \ {0}
    BY <1>3, ManFields
  <2>4. Ends(wal, a, last) /\ Stops(wal, a, last, act)
    BY <1>3, <2>2, <2>3, EndFacts, Zenon
  <2> HIDE DEF a, last, act
  <2>5. /\ act \in DOMAIN wal /\ act \in Nat /\ a <= act /\ act <= last /\ last \in Nat
        /\ wal[act].torn \/ act = last
        /\ \A id \in DOMAIN wal : id >= a /\ id < act => ~wal[id].torn
        /\ \A id \in DOMAIN wal : id >= a => id <= last
    BY <2>4, Zenon DEF Ends, Stops
  <2>6. /\ act >= a /\ act \in Nat \ {0}
        /\ \A id \in a..act : id \in a..last /\ id >= a
        /\ a - 1 <= act /\ a - 1 <= last /\ act \in Int /\ last \in Int
        /\ \A id \in Id : /\ id \in Nat /\ (id > act => id # last \/ act # last)
                          /\ (id > act /\ id <= last => act # last)
                          /\ (id <= act => id < act \/ id = act)
    BY <2>3, <2>5 DEF Id
  <2>7. Resumes(wal, wal', a, act)
    BY <1>3, <2>1, <2>3, <2>5, <2>6, ResumeFacts, Zenon
  <2>8. /\ FileMap(wal') /\ \A id : id \in DOMAIN wal' <=> id \in DOMAIN wal /\ id >= a
        /\ \A id \in DOMAIN wal' : /\ wal'[id].recs = wal[id].recs /\ wal'[id].synced >= wal[id].synced
                                   /\ id # act => wal'[id].torn = wal[id].torn
        /\ ~wal'[act].torn
    BY <2>7, Zenon DEF Resumes
  <2>9. h \in Seq(Nat)
    <3>1. Logs(wal, a, last)
      BY <1>3, <2>2, <2>3, <2>6, FileMapLogs, Zenon
    <3>2. QED
      BY <2>2, <2>3, <2>5, <2>6, <3>1, ChainGrows, ZenonT(30)
  <2>10. ext \in ManType /\ ext.seg = man.seg /\ ext.wal = a /\ act <= ext.req /\ ext.req <= last
    <3>1. CASE act > man.req
      <4>1. ext = [man EXCEPT !.req = act] /\ act <= act
        BY <2>5, <3>1
      <4>2. ext \in ManType /\ ext.seg = man.seg /\ ext.wal = man.wal /\ ext.req = act
        <5>1. ext = [man EXCEPT !.req = act] /\ man \in ManType /\ act \in Nat \ {0}
          BY <1>3, <2>6, <4>1, Zenon
        <5> HIDE DEF ext
        <5>2. QED
          BY <5>1, ManMove
      <4>3. QED
        BY <2>5, <4>1, <4>2, Zenon DEF a
    <3>2. CASE ~(act > man.req)
      <4>1. ext = man /\ act <= man.req /\ man.req <= last
        BY <2>2, <2>3, <2>5, <3>2
      <4>2. QED
        BY <1>3, <4>1, Zenon DEF a
    <3>3. QED
      BY <3>1, <3>2, Zenon
  <2> HIDE DEF h, ext
  <2>11. /\ a..act \subseteq DOMAIN wal' /\ a..act \subseteq DOMAIN wal
         /\ act..(ext.req) \subseteq DOMAIN wal'
    <3>1. a..act \subseteq DOMAIN wal' /\ a..act \subseteq DOMAIN wal
      BY <2>2, <2>6, <2>8, Zenon
    <3>2. ext.req \in Int
      BY <2>10, ManFields, Zenon
    <3>3. \A id \in act..(ext.req) : id \in a..last /\ id >= a
      BY <2>3, <2>5, <2>10, <3>2
    <3>4. QED
      BY <2>2, <2>8, <3>1, <3>3, Zenon
  <2>12. Chain'
    <3>1. ReplayTo(wal', man.seg, a, act) = ReplayTo(wal, man.seg, a, act)
      <4>1. \A id \in a..act : wal'[id].recs = wal[id].recs
        BY <2>8, <2>11, Zenon
      <4>2. QED
        BY <1>3, <2>5, <2>8, <2>11, <4>1, ReplayKeep, ZenonT(30) DEF a
    <3>2. Anchors(wal', ext, act, h)
      BY <2>5, <2>10, <2>11, <3>1, Zenon DEF Anchors, h
    <3>3. QED
      BY <2>1, <2>10, <3>2, Zenon DEF Chain
  <2>13. Files(wal', cur')
    <3>1. ASSUME NEW id \in DOMAIN wal'
          PROVE  /\ Scans(wal'[id]) /\ (id > act => wal'[id].recs = <<>>)
                 /\ (id <= act => ~wal'[id].torn)
      <4>1. id \in DOMAIN wal /\ id >= a /\ id \in Id /\ id \in Nat
        BY <2>6, <2>8, Zenon DEF FileMap
      <4>2. Scans(wal'[id])
        BY <2>2, <2>8, <4>1, Zenon DEF Scans
      <4>3. ASSUME id > act PROVE wal'[id].recs = <<>>
        <5>1. wal[act].torn
          BY <2>5, <2>6, <4>1, <4>3, Zenon
        <5>2. QED
          BY <2>2, <2>5, <2>6, <2>8, <4>1, <4>3, <5>1, ZenonT(30)
      <4>4. ASSUME id <= act PROVE ~wal'[id].torn
        BY <2>5, <2>6, <2>8, <4>1, <4>4, Zenon
      <4>5. QED
        BY <4>2, <4>3, <4>4, Zenon
    <3>2. QED
      BY <2>1, <3>1, Zenon DEF Files
  <2>14. assured' \in 0..Len(hist') /\ assured' \in Nat /\ assured' <= assured /\ assured \in Nat
    BY <1>3, <2>1, <2>9
  <2>15. Types'
    <3>1. cur' \in Nat /\ disk' \subseteq ManType /\ man' \in disk' /\ hist' \in Seq(Nat)
      BY <2>1, <2>5, <2>9, <2>10, Zenon
    <3>2. QED
      BY <1>1, <1>3, <2>8, <2>14, <3>1, Zenon DEF Types
  <2>16. Covered(wal', assured')
    <3>1. \A x, y, z \in Nat : x >= y /\ x < z => z >= y
      OBVIOUS
    <3>2. \A id \in DOMAIN wal : id \in Nat
      BY <1>3 DEF FileMap, Id
    <3>3. ASSUME NEW id \in DOMAIN wal'
          PROVE  /\ id \in DOMAIN wal /\ wal'[id].recs = wal[id].recs
                 /\ wal'[id].synced >= wal[id].synced
                 /\ \A later \in DOMAIN wal : id < later /\ wal[later].recs # <<>> =>
                       later \in DOMAIN wal' /\ wal'[later].recs # <<>>
      BY <2>3, <2>8, <3>1, <3>2, Zenon
    <3>4. QED
      BY <1>3, <2>8, <2>14, <3>3, CoveredKeep, SMTT(20), ZenonT(30)
  <2>17. JobOK' /\ ~grp' /\ ~unsynced'
    BY <1>1, <1>3, NoJobOK, Zenon
  <2>18. QED
    BY <2>1, <2>12, <2>13, <2>15, <2>16, <2>17, InvIntro, Zenon
<1>6. QED
  BY <1>4, <1>5, Zenon

-----------------------------------------------------------------------------
(* Every reachable state.                                                  *)

(* The invariant holds in every reachable state, through every             *)
(* interleaving of commits, barriers, the background checkpoint, crashes   *)
(* and recoveries.                                                         *)
THEOREM Invariance == Spec => []Inv
<1>1. Init => Inv
  BY InitStep, Zenon
<1>2. Inv /\ [Next]_vars => Inv'
  <2> SUFFICES ASSUME Inv, [Next]_vars PROVE Inv'
    BY Zenon
  <2>1. CASE Next
    BY <2>1, CommitStep, GroupSyncStep, TimerSyncStep, FreezeStep, ReserveBridgeStep,
       ReserveActiveStep, SwapStep, SyncOldStep, CopyTailStep, PublishFinalStep, CleanupStep,
       CheckpointLockedStep, KillStep, CloseStep, PowerLossStep, OpenStep, ZenonT(30) DEF Next
  <2>2. CASE UNCHANGED vars
    BY <2>2, Zenon DEF vars, commits, files, handle, Inv, Types, Covered, Opened, Chain, Anchors,
       FileMap, Files, JobOK, Frozen, Reserved, Swapped, TailOf, Reach
  <2>3. QED
    BY <2>1, <2>2, Zenon
<1>3. QED
  BY <1>1, <1>2, PTL DEF Spec

-----------------------------------------------------------------------------
(* What a crash now would recover.                                         *)

(* Without a hole, the files from a manifest's anchor on are consecutive,  *)
(* reach the required extent and replay to the published commits.          *)
Unbroken(d, last) ==
    /\ last \in Nat /\ d.wal <= last /\ cur <= last /\ d.req <= last
    /\ d.wal..last \subseteq DOMAIN wal
    /\ ReplayTo(wal, d.seg, d.wal, last) = hist

(* Without a hole the chain goes on to the last file there is. *)
LEMMA NoHoleFacts ==
    ASSUME Inv, up = "up", ~Hole, NEW d \in disk, NEW last, Ends(wal, d.wal, last)
    PROVE  Unbroken(d, last)
<1> DEFINE a == d.wal
<1>1. /\ last \in DOMAIN wal /\ last \in Nat /\ a <= last
      /\ \A id \in DOMAIN wal : id >= a => id <= last
  BY Zenon DEF Ends
<1>2. /\ FileMap(wal) /\ hist \in Seq(Nat) /\ cur \in Nat /\ cur \in DOMAIN wal /\ Files(wal, cur)
      /\ d \in ManType /\ Anchors(wal, d, cur, hist)
      /\ a <= cur /\ a..cur \subseteq DOMAIN wal /\ cur..(d.req) \subseteq DOMAIN wal
  BY UpFacts, Zenon
<1>3. \A id \in DOMAIN wal : id \in Nat /\ (id > cur => id - 1 \in DOMAIN wal)
  <2>1. \A id \in DOMAIN wal : id \in Nat
    BY <1>2 DEF FileMap, Id
  <2>2. QED
    BY <2>1, Zenon DEF Hole
<1>4. d.seg \in Replayed /\ a \in Nat /\ a \in Int /\ d.req \in Nat
  BY <1>2, ManFields
<1> HIDE DEF a
<1>5. cur <= last
  <2>1. cur >= a
    BY <1>2, <1>4
  <2>2. QED
    BY <1>1, <1>2, <2>1, Zenon
<1>6. d.req <= last
  <2>1. CASE d.req < cur
    <3>1. d.req \in Nat /\ cur \in Nat /\ last \in Nat
      BY <1>1, <1>2, <1>4, Zenon
    <3>2. QED
      BY <1>5, <2>1, <3>1
  <2>2. CASE ~(d.req < cur)
    <3>1. d.req \in cur..(d.req) /\ d.req >= a
      BY <1>2, <1>4, <2>2
    <3>2. QED
      BY <1>1, <1>2, <3>1, Zenon
  <2>3. QED
    BY <2>1, <2>2, Zenon
<1>7. cur..last \subseteq DOMAIN wal
  <2> DEFINE S == {i \in 0..(last - cur) : last - i \in DOMAIN wal}
             m == last - cur
  <2>1. 0 \in Int /\ m \in Int /\ 0 \in 0..m /\ last - 0 = last
    BY <1>1, <1>2, <1>5
  <2>2. 0 \in S
    BY <1>1, <2>1, Zenon
  <2>3. ASSUME NEW i \in 0..m, i # 0, i - 1 \in S PROVE i \in S
    <3>1. last - (i - 1) \in DOMAIN wal
      BY <2>3, Zenon
    <3>2. last - (i - 1) > cur /\ (last - (i - 1)) - 1 = last - i
      BY <1>1, <1>2, <2>3
    <3>3. last - i \in DOMAIN wal
      BY <1>3, <3>1, <3>2, Zenon
    <3>4. QED
      BY <3>3, Zenon
  <2>4. \A i \in S : last - i \in DOMAIN wal
    BY Zenon
  <2> HIDE DEF S
  <2>5. 0..m \subseteq S
    BY <2>1, <2>2, <2>3, IntervalInduction, Zenon
  <2>6. ASSUME NEW id \in cur..last PROVE id \in DOMAIN wal
    <3>1. last - id \in 0..m /\ last - (last - id) = id
      BY <1>1, <1>2
    <3>2. QED
      BY <2>4, <2>5, <3>1, Zenon
  <2>7. QED
    BY <2>6, Zenon
<1>8. a..last \subseteq DOMAIN wal
  <2>1. \A id \in a..last : id \in a..cur \/ id \in cur..last
    BY <1>1, <1>2, <1>4
  <2>2. QED
    BY <1>2, <1>7, <2>1, Zenon
<1>9. ReplayTo(wal, d.seg, a, last) = hist
  <2>1. Anchors(wal, d, last, hist)
    <3>1. \A id \in (cur + 1)..last : id \in cur..last /\ id > cur
      BY <1>1, <1>2
    <3>2. \A id \in (cur + 1)..last : wal[id].recs = <<>>
      BY <1>2, <1>7, <3>1, Zenon DEF Files
    <3>3. \A id \in last..(d.req) : id \in cur..(d.req)
      BY <1>1, <1>2, <1>4, <1>5
    <3>4. last..(d.req) \subseteq DOMAIN wal
      BY <1>2, <3>3, Zenon
    <3>5. QED
      BY <1>1, <1>2, <1>5, <1>7, <3>2, <3>4, AnchorsMove, ZenonT(30)
  <2>2. QED
    BY <2>1, Zenon DEF Anchors, a
<1>10. QED
  BY <1>1, <1>5, <1>6, <1>8, <1>9, Zenon DEF Unbroken, a

(* A directory a crash leaves: every file has lost some unsynced records   *)
(* or none, and a file that has lost some or ends in an incomplete record  *)
(* is followed by empty ones.                                              *)
Leaves(w) ==
    /\ DOMAIN w = DOMAIN wal /\ FileMap(w)
    /\ \A id \in DOMAIN wal : \E n \in wal[id].synced..Len(wal[id].recs) :
          w[id].recs = SubSeq(wal[id].recs, 1, n)
    /\ \A id \in DOMAIN wal : w[id].recs # wal[id].recs \/ w[id].torn =>
          \A later \in DOMAIN wal : later > id => wal[later].recs = <<>>

(* Where such a directory differs. *)
LEMMA LeavesFacts ==
    ASSUME Inv, up = "up", NEW w, Leaves(w), NEW a \in Nat, NEW last \in Nat, a <= last,
           a..last \subseteq DOMAIN wal
    PROVE  /\ \A id \in DOMAIN wal : wal[id].recs = <<>> => w[id].recs = <<>>
           /\ \E u \in a..last :
                 /\ SameLogs(w, wal, a, u - 1)
                 /\ IdleLogs(wal, u + 1, last) /\ IdleLogs(w, u + 1, last)
<1>1. /\ DOMAIN w = DOMAIN wal /\ FileMap(w)
      /\ \A id \in DOMAIN wal : \E n \in wal[id].synced..Len(wal[id].recs) :
            w[id].recs = SubSeq(wal[id].recs, 1, n)
      /\ \A id \in DOMAIN wal : w[id].recs # wal[id].recs \/ w[id].torn =>
            \A later \in DOMAIN wal : later > id => wal[later].recs = <<>>
  BY Zenon DEF Leaves
<1>2. FileMap(wal)
  BY UpFacts, Zenon
<1>3. ASSUME NEW id \in DOMAIN wal, wal[id].recs = <<>> PROVE w[id].recs = <<>>
  <2>1. PICK n \in wal[id].synced..Len(wal[id].recs) : w[id].recs = SubSeq(wal[id].recs, 1, n)
    BY <1>1, Zenon
  <2>2. wal[id].synced \in Nat
    BY <1>2, FileFields, Zenon DEF FileMap
  <2>3. n = 0
    BY <1>3, <2>1, <2>2
  <2>4. SubSeq(<<>>, 1, 0) = <<>>
    OBVIOUS
  <2>5. QED
    BY <1>3, <2>1, <2>3, <2>4, Zenon
<1>4. CASE \E u \in a..last : w[u].recs # wal[u].recs
  <2>1. PICK u \in a..last : w[u].recs # wal[u].recs
    BY <1>4, Zenon
  <2>2. /\ \A id \in a..(u - 1) : id \in a..last /\ u > id
        /\ \A id \in (u + 1)..last : id \in a..last /\ id > u
    OBVIOUS
  <2>3. SameLogs(w, wal, a, u - 1)
    BY <1>1, <1>3, <2>1, <2>2, Zenon DEF SameLogs
  <2>4. IdleLogs(wal, u + 1, last) /\ IdleLogs(w, u + 1, last)
    BY <1>1, <1>3, <2>1, <2>2, Zenon DEF IdleLogs
  <2>5. QED
    BY <1>3, <2>3, <2>4, Zenon
<1>5. CASE \A u \in a..last : w[u].recs = wal[u].recs
  <2>1. /\ last \in a..last /\ \A id \in a..(last - 1) : id \in a..last
        /\ \A id \in (last + 1)..last : FALSE
    OBVIOUS
  <2>2. SameLogs(w, wal, a, last - 1) /\ IdleLogs(wal, last + 1, last) /\ IdleLogs(w, last + 1, last)
    BY <1>5, <2>1, Zenon DEF SameLogs, IdleLogs
  <2>3. QED
    BY <1>3, <2>1, <2>2, Zenon
<1>6. QED
  BY <1>4, <1>5, Zenon

(* What replay makes of such a directory: a prefix of the published        *)
(* commits that no barrier's commit is missing from.                       *)
Replays(w, d, last, p) ==
    /\ p \in Seq(Nat) /\ Prefix(p, hist) /\ assured <= Len(p)
    /\ ReplayTo(w, d.seg, d.wal, last) = p
    /\ (\A id \in DOMAIN wal : w[id].recs = wal[id].recs) => p = hist

(* The replay of such a directory: the chain agrees up to one file, which  *)
(* is cut at n, and goes on with empty files. A record past n that a       *)
(* barrier covers would have a later record after it.                      *)
LEMMA LeavesReplay ==
    ASSUME Inv, up = "up", NEW d \in disk, NEW last, Unbroken(d, last), NEW w, Leaves(w)
    PROVE  \E p : Replays(w, d, last, p)
<1> DEFINE a == d.wal
           s == d.seg
<1>1. /\ FileMap(wal) /\ hist \in Seq(Nat) /\ d \in ManType /\ Covered(wal, assured)
      /\ assured \in Nat /\ assured <= Len(hist)
  BY UpFacts, Zenon
<1>2. /\ s \in Replayed /\ a \in Nat /\ a \in Int
  BY <1>1, ManFields, Zenon
<1>3. /\ last \in Nat /\ a <= last /\ a..last \subseteq DOMAIN wal /\ ReplayTo(wal, s, a, last) = hist
  BY Zenon DEF Unbroken
<1>4. /\ DOMAIN w = DOMAIN wal /\ FileMap(w)
      /\ \A id \in DOMAIN wal : \E n \in wal[id].synced..Len(wal[id].recs) :
            w[id].recs = SubSeq(wal[id].recs, 1, n)
      /\ \A id \in DOMAIN wal : w[id].recs # wal[id].recs \/ w[id].torn =>
            \A later \in DOMAIN wal : later > id => wal[later].recs = <<>>
  BY Zenon DEF Leaves
<1> HIDE DEF a, s
<1>5. PICK u \in a..last :
         /\ SameLogs(w, wal, a, u - 1)
         /\ IdleLogs(wal, u + 1, last) /\ IdleLogs(w, u + 1, last)
  BY <1>2, <1>3, LeavesFacts, Zenon
<1>6. /\ u \in Int /\ a <= u /\ a - 1 <= u /\ u <= last /\ u - 1 \in Int /\ a - 1 <= u - 1
      /\ last \in Int /\ a - 1 <= last /\ u \in DOMAIN wal /\ u \in DOMAIN w
      /\ a..u \subseteq a..last /\ a..(u - 1) \subseteq a..last
  <2>1. /\ u \in Int /\ a <= u /\ a - 1 <= u /\ u <= last /\ u - 1 \in Int /\ a - 1 <= u - 1
        /\ last \in Int /\ a - 1 <= last /\ a..u \subseteq a..last /\ a..(u - 1) \subseteq a..last
    BY <1>2, <1>3
  <2>2. QED
    BY <1>3, <1>4, <2>1, Zenon
<1>7. /\ Logs(wal, a, last) /\ Logs(w, a, last) /\ Logs(wal, a, u) /\ Logs(w, a, u)
      /\ Logs(wal, a, u - 1) /\ Logs(w, a, u - 1)
  <2>1. Logs(wal, a, last) /\ Logs(wal, a, u) /\ Logs(wal, a, u - 1)
    BY <1>1, <1>2, <1>3, <1>6, FileMapLogs, Zenon
  <2>2. Logs(w, a, last) /\ Logs(w, a, u) /\ Logs(w, a, u - 1)
    BY <1>2, <1>3, <1>4, <1>6, FileMapLogs, Zenon
  <2>3. QED
    BY <2>1, <2>2, Zenon
<1> DEFINE x == ReplayTo(wal, s, a, u - 1)
           rs == wal[u].recs
           p == ReplayFile(x, w[u].recs)
<1>8. x \in Replayed /\ rs \in Seq(RecType) /\ ReplayTo(wal, s, a, u) = ReplayFile(x, rs)
  BY <1>2, <1>6, <1>7, ChainNext, Zenon
<1>9. ReplayTo(w, s, a, u) = p
  <2>1. ReplayTo(w, s, a, u - 1) = x
    BY <1>2, <1>5, <1>7, ChainSame
  <2>2. ReplayTo(w, s, a, u) = ReplayFile(ReplayTo(w, s, a, u - 1), w[u].recs)
    BY <1>2, <1>6, <1>7, ChainNext, Zenon
  <2>3. QED
    BY <2>1, <2>2, Zenon
<1>10. ReplayTo(wal, s, a, last) = ReplayTo(wal, s, a, u) /\ ReplayTo(w, s, a, last) = ReplayTo(w, s, a, u)
  <2>1. ReplayTo(wal, s, a, last) = ReplayTo(wal, s, a, u)
    BY <1>2, <1>5, <1>6, <1>7, ChainIdle
  <2>2. ReplayTo(w, s, a, last) = ReplayTo(w, s, a, u)
    BY <1>2, <1>5, <1>6, <1>7, ChainIdle
  <2>3. QED
    BY <2>1, <2>2, Zenon
<1>11. PICK n \in wal[u].synced..Len(rs) : w[u].recs = SubSeq(rs, 1, n)
  BY <1>4, <1>6, Zenon
<1>12. /\ ReplayFile(x, rs) = hist /\ ReplayTo(w, s, a, last) = p
       /\ p = ReplayFile(x, SubSeq(rs, 1, n))
  BY <1>3, <1>8, <1>9, <1>10, <1>11, Zenon
<1>13. wal[u].synced \in Nat
  BY <1>1, <1>6, FileFields, Zenon DEF FileMap
<1> HIDE DEF x, rs, p
<1>14. n \in 0..Len(rs) /\ hist # None /\ n \in Nat /\ Len(rs) \in Nat
  <2>1. Len(rs) \in Nat
    BY <1>8
  <2>2. n \in 0..Len(rs) /\ n \in Nat
    BY <1>11, <1>13, <2>1
  <2>3. hist # None
    BY <1>1, NoneAssumption
  <2>4. QED
    BY <2>1, <2>2, <2>3, Zenon
<1>15. /\ p \in Seq(Nat) /\ Prefix(p, hist)
       /\ n < Len(rs) => rs[n + 1].v <= Len(p) + 1
  BY <1>8, <1>12, <1>14, FileGrows, Zenon
<1>16. assured <= Len(p)
  <2>1. CASE n = Len(rs)
    <3>1. SubSeq(rs, 1, Len(rs)) = rs
      BY <1>8
    <3>2. QED
      BY <1>1, <1>12, <2>1, <3>1, Zenon
  <2>2. CASE n # Len(rs)
    <3>1. n < Len(rs) /\ n + 1 \in 1..Len(rs) /\ n + 1 > wal[u].synced
      BY <1>11, <1>13, <1>14, <2>2
    <3>2. w[u].recs # wal[u].recs
      <4>1. Len(SubSeq(rs, 1, n)) = n
        BY <1>8, <1>14
      <4>2. QED
        BY <1>11, <2>2, <4>1, Zenon DEF rs
    <3>3. ~(rs[n + 1].v <= assured)
      <4>1. \A later \in DOMAIN wal : later > u => wal[later].recs = <<>>
        BY <1>4, <1>6, <3>2, Zenon
      <4>2. \A later \in DOMAIN wal : u < later => later > u
        BY <1>1, <1>6 DEF FileMap, Id
      <4>3. QED
        BY <1>1, <1>6, <3>1, <4>1, <4>2, Zenon DEF Covered, rs
    <3>4. rs[n + 1].v \in Nat
      <4>1. wal[u] \in FileType
        BY <1>1, <1>6, Zenon DEF FileMap
      <4>2. QED
        BY <3>1, <4>1, FileFields, Zenon DEF rs
    <3>5. rs[n + 1].v <= Len(p) + 1 /\ Len(p) \in Nat
      BY <1>15, <3>1
    <3>6. assured \in Nat
      BY <1>1, Zenon
    <3>7. QED
      BY <3>3, <3>4, <3>5, <3>6
  <2>3. QED
    BY <2>1, <2>2, Zenon
<1>17. ASSUME \A id \in DOMAIN wal : w[id].recs = wal[id].recs PROVE p = hist
  BY <1>6, <1>12, <1>17, Zenon DEF p, rs
<1>18. QED
  BY <1>12, <1>15, <1>16, <1>17, Zenon DEF Replays, a, s

(* Such a directory is accepted, and what it recovers. *)
Accepts(w, d) ==
    /\ ValidChain(w, d.seg, d.wal, d.req)
    /\ Recovered(w, d.seg, d.wal) \in Seq(Nat) /\ Prefix(Recovered(w, d.seg, d.wal), hist)
    /\ assured <= Len(Recovered(w, d.seg, d.wal))
    /\ (\A id \in DOMAIN wal : w[id].recs = wal[id].recs) => Recovered(w, d.seg, d.wal) = hist

(* The beginning of a file still has increasing versions. *)
LEMMA CutScans ==
    ASSUME NEW f \in FileType, Scans(f), NEW g, NEW n \in 0..Len(f.recs),
           g.recs = SubSeq(f.recs, 1, n)
    PROVE  Scans(g)
<1> DEFINE rs == f.recs
<1>1. rs \in Seq(RecType) /\ Len(rs) \in Nat /\ \A i \in 2..Len(rs) : rs[i - 1].v < rs[i].v
  BY FileFields, Zenon DEF Scans
<1>2. g.recs = SubSeq(rs, 1, n) /\ n \in 0..Len(rs)
  BY Zenon
<1> HIDE DEF rs
<1>3. /\ Len(SubSeq(rs, 1, n)) = n /\ \A i \in 1..n : SubSeq(rs, 1, n)[i] = rs[i]
  BY <1>1, <1>2
<1>4. \A i \in 2..n : i \in 2..Len(rs) /\ i \in 1..n /\ i - 1 \in 1..n
  BY <1>1, <1>2
<1>5. QED
  BY <1>1, <1>2, <1>3, <1>4, Zenon DEF Scans

(* Without a hole such a directory is accepted, whichever manifest         *)
(* survives.                                                               *)
LEMMA Recovers ==
    ASSUME Inv, up = "up", ~Hole, NEW d \in disk, NEW w, Leaves(w)
    PROVE  Accepts(w, d)
<1> DEFINE a == d.wal
           s == d.seg
           last == Max(Ids(w, a))
           act == ActiveWal(w, a)
<1>1. /\ DOMAIN w = DOMAIN wal /\ FileMap(w)
      /\ \A id \in DOMAIN wal : \E n \in wal[id].synced..Len(wal[id].recs) :
            w[id].recs = SubSeq(wal[id].recs, 1, n)
      /\ \A id \in DOMAIN wal : w[id].recs # wal[id].recs \/ w[id].torn =>
            \A later \in DOMAIN wal : later > id => wal[later].recs = <<>>
  BY Zenon DEF Leaves
<1>2. /\ FileMap(wal) /\ hist \in Seq(Nat) /\ d \in ManType /\ Files(wal, cur)
      /\ Anchors(wal, d, cur, hist) /\ cur \in Nat
  BY UpFacts, Zenon
<1>3. s \in Replayed /\ a \in Nat /\ a \in Int /\ d.req \in Nat /\ a \in DOMAIN w
  BY <1>1, <1>2, ManFields, AnchorFacts, Zenon
<1>4. Ends(w, a, last) /\ Stops(w, a, last, act)
  BY <1>1, <1>3, EndFacts, Zenon
<1> HIDE DEF last, act
<1>5. Unbroken(d, last)
  <2>1. Ends(wal, d.wal, last)
    BY <1>1, <1>4, Zenon DEF Ends
  <2>2. QED
    BY <2>1, NoHoleFacts, Zenon
<1>6. /\ last \in Nat /\ a <= last /\ d.req <= last /\ a..last \subseteq DOMAIN w
  BY <1>1, <1>5, Zenon DEF Unbroken
<1>7. PICK p : Replays(w, d, last, p)
  BY <1>5, LeavesReplay, Zenon
<1>8. /\ p \in Seq(Nat) /\ Prefix(p, hist) /\ assured <= Len(p)
      /\ ReplayTo(w, s, a, last) = p
      /\ (\A id \in DOMAIN wal : w[id].recs = wal[id].recs) => p = hist
  BY <1>7, Zenon DEF Replays
<1>9. /\ act \in DOMAIN w /\ act \in Nat /\ a <= act /\ act <= last
      /\ w[act].torn \/ act = last
  BY <1>4, Zenon DEF Stops
<1> HIDE DEF a, s
<1>10. ASSUME NEW id \in DOMAIN w, w[id].torn, NEW later \in DOMAIN w, later > id
       PROVE  w[later].recs = <<>>
  <2>1. wal[later].recs = <<>>
    BY <1>1, <1>10, Zenon
  <2>2. \A i \in DOMAIN wal : wal[i].recs = <<>> => w[i].recs = <<>>
    BY <1>1, <1>3, <1>6, LeavesFacts, Zenon
  <2>3. QED
    BY <1>1, <2>1, <2>2, Zenon
<1>11. ReplayTo(w, s, a, act) = p
  <2>1. CASE act = last
    BY <1>8, <2>1, Zenon
  <2>2. CASE w[act].torn
    <3>1. /\ act \in Int /\ a - 1 <= act /\ last \in Int /\ a - 1 <= last
          /\ \A id \in (act + 1)..last : id \in a..last /\ id > act
      BY <1>3, <1>6, <1>9
    <3>2. IdleLogs(w, act + 1, last)
      BY <1>6, <1>9, <1>10, <2>2, <3>1, Zenon DEF IdleLogs
    <3>3. Logs(w, a, last)
      BY <1>1, <1>3, <1>6, <3>1, FileMapLogs, Zenon
    <3>4. ReplayTo(w, s, a, last) = ReplayTo(w, s, a, act)
      BY <1>3, <1>9, <3>1, <3>2, <3>3, ChainIdle, ZenonT(30)
    <3>5. QED
      BY <1>8, <3>4, Zenon
  <2>3. QED
    BY <1>9, <2>1, <2>2, Zenon
<1>12. ASSUME NEW id \in DOMAIN w PROVE Scans(w[id])
  <2>1. PICK n \in wal[id].synced..Len(wal[id].recs) : w[id].recs = SubSeq(wal[id].recs, 1, n)
    BY <1>1, Zenon
  <2>2. wal[id] \in FileType /\ Scans(wal[id])
    BY <1>1, <1>2, Zenon DEF Files, FileMap
  <2>3. wal[id].synced \in Nat /\ Len(wal[id].recs) \in Nat
    BY <2>2, FileFields, Zenon
  <2>4. n \in 0..Len(wal[id].recs)
    BY <2>1, <2>3
  <2>5. QED
    BY <2>1, <2>2, <2>4, CutScans, Zenon
<1>13. ValidChain(w, s, a, d.req)
  <2>1. p # None /\ last >= d.req
    BY <1>3, <1>6, <1>8, NoneAssumption, SMTT(20), ZenonT(30)
  <2>2. ChainComplete(w, a, d.req)
    BY <1>3, <1>6, <2>1, Zenon DEF ChainComplete, last
  <2>3. TornTailIsLast(w, a)
    BY <1>10, Zenon DEF TornTailIsLast, Ids
  <2>4. QED
    BY <1>8, <1>12, <2>1, <2>2, <2>3, Zenon DEF ValidChain, Ids, last
<1>14. Recovered(w, s, a) = p
  BY <1>11, Zenon DEF Recovered, act
<1>15. QED
  BY <1>8, <1>13, <1>14, Zenon DEF Accepts, a, s

(* The directory of a killed process, and the ones a power loss may leave, *)
(* are such directories.                                                   *)
LEMMA KillLeaves ==
    ASSUME Inv, up = "up"
    PROVE  Leaves(wal)
<1>1. FileMap(wal) /\ Files(wal, cur) /\ cur \in Nat
  BY UpFacts, Zenon
<1>2. ASSUME NEW id \in DOMAIN wal
      PROVE  \E n \in wal[id].synced..Len(wal[id].recs) : wal[id].recs = SubSeq(wal[id].recs, 1, n)
  <2>1. wal[id] \in FileType /\ wal[id].synced <= Len(wal[id].recs)
    BY <1>1, Zenon DEF FileMap
  <2>2. wal[id].recs \in Seq(RecType) /\ wal[id].synced \in Nat
    BY <2>1, FileFields, Zenon
  <2>3. Len(wal[id].recs) \in wal[id].synced..Len(wal[id].recs)
    BY <2>1, <2>2
  <2>4. wal[id].recs = SubSeq(wal[id].recs, 1, Len(wal[id].recs))
    BY <2>2
  <2>5. QED
    BY <2>3, <2>4, Zenon
<1>3. ASSUME NEW id \in DOMAIN wal, wal[id].torn, NEW later \in DOMAIN wal, later > id
      PROVE  wal[later].recs = <<>>
  <2>1. ~(id <= cur)
    BY <1>1, <1>3, Zenon DEF Files
  <2>2. later > cur
    BY <1>1, <1>3, <2>1 DEF FileMap, Id
  <2>3. QED
    BY <1>1, <2>2, Zenon DEF Files
<1>4. QED
  BY <1>1, <1>2, <1>3, Zenon DEF Leaves

(* A power loss of a directory without an exposed record leaves one. *)
LEMMA LeftoverLeaves ==
    ASSUME Inv, up = "up", ~Exposed, NEW w \in Leftovers
    PROVE  Leaves(w)
<1>1. FileMap(wal) /\ Files(wal, cur) /\ cur \in Nat
  BY UpFacts, Zenon
<1>2. DOMAIN w = DOMAIN wal /\ FileMap(w)
  BY <1>1, LeftoverFacts, Zenon
<1>3. ASSUME NEW id \in DOMAIN wal
      PROVE  /\ \E n \in wal[id].synced..Len(wal[id].recs) : w[id].recs = SubSeq(wal[id].recs, 1, n)
             /\ w[id].recs # wal[id].recs \/ w[id].torn =>
                   \A later \in DOMAIN wal : later > id => wal[later].recs = <<>>
  <2>1. PICK n : Remains(wal[id], w[id], id, n)
    BY <1>1, LeftoverFacts, Zenon
  <2>2. /\ n \in wal[id].synced..Len(wal[id].recs) /\ w[id].recs = SubSeq(wal[id].recs, 1, n)
        /\ n = Len(wal[id].recs) /\ w[id].torn => wal[id].torn \/ id = cur
    BY <2>1, Zenon DEF Remains
  <2>3. wal[id].recs \in Seq(RecType) /\ wal[id].synced \in Nat /\ Len(wal[id].recs) \in Nat
    BY <1>1, FileFields, Zenon DEF FileMap
  <2>4. ASSUME w[id].recs # wal[id].recs \/ w[id].torn, NEW later \in DOMAIN wal, later > id
        PROVE  wal[later].recs = <<>>
    <3>1. id \in Nat /\ later \in Nat /\ id < later
      BY <1>1, <2>4 DEF FileMap, Id
    <3>2. CASE n # Len(wal[id].recs)
      <4>1. wal[id].synced < Len(wal[id].recs)
        BY <2>2, <2>3, <3>2
      <4>2. QED
        BY <3>1, <4>1, Zenon DEF Exposed
    <3>3. CASE n = Len(wal[id].recs)
      <4>1. SubSeq(wal[id].recs, 1, Len(wal[id].recs)) = wal[id].recs
        BY <2>3
      <4>2. w[id].torn
        BY <2>2, <2>4, <3>3, <4>1, Zenon
      <4>3. ~(id <= cur) \/ id = cur
        BY <1>1, <2>2, <3>3, <4>2, Zenon DEF Files
      <4>4. later > cur
        BY <1>1, <3>1, <4>3
      <4>5. QED
        BY <1>1, <4>4, Zenon DEF Files
    <3>4. QED
      BY <3>2, <3>3, Zenon
  <2>5. QED
    BY <2>2, <2>4, Zenon
<1>4. QED
  BY <1>2, <1>3, Zenon DEF Leaves

(* KillRecoversAll: at every moment of a rotation, a checkpoint or one of  *)
(* their failure paths, a killed process is recovered to exactly the       *)
(* commits it had published, a hole left by a failed reservation excepted. *)
THEOREM RecoversKills == Spec => []KillRecoversAll
<1>1. Inv => KillRecoversAll
  <2> SUFFICES ASSUME Inv, up = "up", ~Hole PROVE KillRecovers
    BY Zenon DEF KillRecoversAll
  <2>1. man \in disk /\ Leaves(wal)
    BY UpFacts, KillLeaves, Zenon
  <2>2. Accepts(wal, man)
    BY <2>1, Recovers, Zenon
  <2>3. QED
    BY <2>2, Zenon DEF Accepts, KillRecovers
<1>2. QED
  BY <1>1, Invariance, PTL

(* RecoversUnlessExposed: when no record sits after one that no barrier    *)
(* has covered, whatever a power loss leaves of the files and whichever    *)
(* manifest survives, open accepts the chain and replays a prefix of the   *)
(* published commits with every commit that a successful barrier has       *)
(* covered.                                                                *)
THEOREM RecoversPowerLoss == Spec => []RecoversUnlessExposed
<1>1. Inv => RecoversUnlessExposed
  <2> SUFFICES ASSUME Inv, up = "up", ~Hole, ~Exposed, NEW d \in disk, NEW w \in Leftovers,
                      NEW r, r = Recovered(w, d.seg, d.wal)
               PROVE  /\ ValidChain(w, d.seg, d.wal, d.req)
                      /\ Len(r) >= assured /\ r = SubSeq(hist, 1, Len(r))
    BY Zenon DEF RecoversUnlessExposed, PowerLossRecovers
  <2>1. Accepts(w, d)
    BY LeftoverLeaves, Recovers, Zenon
  <2>2. /\ ValidChain(w, d.seg, d.wal, d.req)
        /\ r \in Seq(Nat) /\ Prefix(r, hist) /\ assured <= Len(r)
    BY <2>1, Zenon DEF Accepts
  <2>3. assured \in Nat /\ hist \in Seq(Nat)
    BY UpFacts, Zenon
  <2>4. r = SubSeq(hist, 1, Len(r))
    BY <2>2, <2>3 DEF Prefix
  <2>5. Len(r) >= assured
    BY <2>2, <2>3, SMTT(20)
  <2>6. QED
    BY <2>2, <2>4, <2>5, Zenon
<1>2. QED
  BY <1>1, Invariance, PTL

(* ExtentRecorded: without a fence, every manifest that may survive        *)
(* records the extent up to the file commits go to.                        *)
THEOREM RecordsExtent == Spec => []ExtentRecorded
<1>1. Inv => ExtentRecorded
  BY UpFacts, Zenon DEF ExtentRecorded, Chain
<1>2. QED
  BY <1>1, Invariance, PTL
=============================================================================
