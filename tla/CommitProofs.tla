---------------------------- MODULE CommitProofs ----------------------------
(***************************************************************************)
(* What the callers of the commit path may rely on, for every number of    *)
(* callers, rows and faults: no update is lost, an acknowledged Safe       *)
(* commit survives, and the whole path implements the history of           *)
(* CommitLog.                                                              *)
(*                                                                         *)
(* First how a transaction gets into the WAL, and who is told: before its  *)
(* request is taken up it is not in the file; it enters it once; and a     *)
(* caller is told that a commit is published only when the log shows it.   *)
(***************************************************************************)
EXTENDS CommitFacts

(* The file: the published records and those behind a poisoned writer. *)
Full == log \o stray
Written(m) == \E i \in 1..Len(Full) : Full[i].txn = m

(* A request nobody has taken up yet. *)
Untried(m) ==
    \/ In(queue, m) \/ pc[m] \in Fresh
    \/ \E t \in Txn : In(todo[t], m) /\ (pc[t] \in Syncing => m # Head(todo[t]))

(* A transaction is in the file at most once, and not before its request   *)
(* is taken up; what lies behind a poisoned writer was never published.    *)
OnceInv ==
    /\ \A i, j \in 1..Len(Full) : Full[i].txn = Full[j].txn => i = j
    /\ \A m \in Txn : Untried(m) => ~Written(m)
    /\ \A i \in 1..Len(stray) : result[stray[i].txn] \in {None, "Io"}

(* Whoever is about to be told that a commit is published is in the log;   *)
(* so is the request that names a sync group.                              *)
LoggedInv ==
    /\ \A t \in Txn : pc[t] \in Syncing => {Head(todo[t]), via[t]} \subseteq Committed
    /\ grp # None => grp \in Committed
    /\ \A m \in Txn : gres[m] # None => m \in Committed
    /\ \A t \in Txn : \A i \in 1..Len(held[t]) :
           held[t][i].told # "Io" => held[t][i].txn \in Committed

-----------------------------------------------------------------------------
(* A request is taken up once.                                             *)

LEMMA UntriedStep ==
    ASSUME [Next]_vars, CoordInv, NEW m \in Txn, Untried(m)'
    PROVE  Untried(m)
<1>0. /\ pc \in [Txn -> Phase] /\ queue \in Seq(Txn) /\ todo \in [Txn -> Seq(Txn)]
      /\ WalType /\ ThreadType /\ QueueInv /\ BatonInv /\ PlaceInv /\ GroupInv /\ SnapInv
  BY Zenon DEF CoordInv, ThreadType
<1>a. /\ In(queue, m) => Untried(m)
      /\ pc[m] \in Fresh => Untried(m)
      /\ \A t \in Txn : In(todo[t], m) /\ (pc[t] \in Syncing => m # Head(todo[t]))
             => Untried(m)
  BY Zenon DEF Untried
<1>b. \/ In(queue', m) \/ pc'[m] \in Fresh
      \/ \E t \in Txn : In(todo'[t], m) /\ (pc'[t] \in Syncing => m # Head(todo'[t]))
  BY Zenon DEF Untried
(* The other threads stay, and the thread that moves is covered. *)
<1>c. ASSUME NEW t \in Txn, \A u \in Txn : u # t => pc'[u] = pc[u] /\ todo'[u] = todo[u],
             In(queue', m) => Untried(m),
             m = t /\ pc'[t] \in Fresh => Untried(m),
             In(todo'[t], m) /\ (pc'[t] \in Syncing => m # Head(todo'[t])) => Untried(m)
      PROVE  Untried(m)
  BY <1>a, <1>b, <1>c, Zenon
<1>1. ASSUME NEW t \in Txn, Begin(t) \/ CommitStaged(t) PROVE Untried(m)
  <2>1. /\ pc[t] \in Fresh /\ UNCHANGED <<queue, todo>>
        /\ \A u \in Txn : u # t => pc'[u] = pc[u]
    BY <1>0, <1>1, Zenon DEF Begin, CommitStaged, Goto, coord, Fresh
  <2>2. pc[t] \notin Syncing
    BY <2>1, Zenon DEF Fresh, Syncing
  <2>3. QED
    BY <1>a, <1>c, <2>1, <2>2, Zenon
<1>2. ASSUME NEW t \in Txn, Direct(t) PROVE Untried(m)
  <2>1. /\ pc[t] \in Fresh /\ UNCHANGED queue /\ todo'[t] = <<t>>
        /\ \A u \in Txn : u # t => pc'[u] = pc[u] /\ todo'[u] = todo[u]
    BY <1>0, <1>2, Zenon DEF Direct, Goto, coord, Fresh
  <2>2. In(<<t>>, m) => m = t
    BY DEF In
  <2>3. QED
    BY <1>a, <1>c, <2>1, <2>2, Zenon
<1>3. ASSUME NEW t \in Txn, Enqueue(t) PROVE Untried(m)
  <2>1. /\ pc[t] \in Fresh /\ queue' = Append(queue, t) /\ UNCHANGED todo
        /\ \A u \in Txn : u # t => pc'[u] = pc[u]
    BY <1>0, <1>3, Zenon DEF Enqueue, Goto, Fresh
  <2>2. pc[t] \notin Syncing
    BY <2>1, Zenon DEF Fresh, Syncing
  <2>3. In(queue', m) => In(queue, m) \/ m = t
    BY <1>0, <2>1, AppendFacts, Zenon
  <2>4. QED
    BY <1>a, <1>c, <2>1, <2>2, <2>3, Zenon
<1>4. ASSUME NEW t \in Txn, TakeBatch(t) PROVE Untried(m)
  <2>1. /\ pc'[t] = "batch" /\ \A u \in Txn : u # t => pc'[u] = pc[u]
    BY <1>0, <1>4, Zenon DEF TakeBatch, Goto
  <2>2. /\ \A u \in Txn : u # t => todo'[u] = todo[u]
        /\ In(queue', m) \/ In(todo'[t], m) => In(queue, m)
    BY <1>0, <1>4, TakeFacts, Zenon
  <2>3. "batch" \notin Fresh
    BY Zenon DEF Fresh
  <2>4. QED
    BY <1>a, <1>c, <2>1, <2>2, <2>3, Zenon
<1>5. ASSUME NEW t \in Txn,
             Handoff(t) \/ Wake(t) \/ BatchRefused(t) \/ BatchPost(t) \/ Move(t)
      PROVE Untried(m)
  <2>1. /\ pc[t] \in Syncing => pc'[t] \in Syncing
        /\ pc'[t] \notin Fresh
        /\ UNCHANGED <<queue, todo>> /\ \A u \in Txn : u # t => pc'[u] = pc[u]
    BY <1>0, <1>5, Zenon
       DEF Handoff, Wake, BatchRefused, BatchPost, Move, Goto, coord, Syncing, Fresh
  <2>2. QED
    BY <1>a, <1>c, <2>1, Zenon
<1>6. ASSUME NEW t \in Txn, Batch(t) PROVE Untried(m)
  <2>1. /\ pc[t] = "batch" /\ pc'[t] = "post" /\ UNCHANGED queue
        /\ \A u \in Txn : u # t => pc'[u] = pc[u]
    <3>1. pc' = [pc EXCEPT ![t] = "post"] /\ pc[t] = "batch" /\ UNCHANGED queue
      BY <1>6, Zenon DEF Batch, Goto, coord
    <3>2. QED
      BY <1>0, <3>1, Zenon
  <2>2. PICK r \in Replayable :
          /\ BatchOf(t, Members(t, r), Aside(t, r), Records(Members(t, r)))
          /\ todo' = [todo EXCEPT ![t] = Aside(t, r)]
    BY <1>0, <1>6, BatchCases, Zenon
  <2>3. /\ \A u \in Txn : u # t => todo'[u] = todo[u]
        /\ In(todo'[t], m) => In(todo[t], m)
    BY <1>0, <2>2, Zenon DEF BatchOf
  <2>4. "post" \notin Fresh /\ "batch" \notin Syncing
    BY Zenon DEF Fresh, Syncing
  <2>5. QED
    BY <1>a, <1>c, <2>1, <2>3, <2>4, Zenon
<1>7. ASSUME NEW t \in Txn, Answer(t) PROVE Untried(m)
  <2>1. PICK q \in {"single", "handoff", "done"} :
              /\ ~In(Tail(todo[t]), Head(todo[t]))
              /\ \A x : In(Tail(todo[t]), x) => In(todo[t], x)
              /\ todo' = [todo EXCEPT ![t] = Tail(todo[t])]
              /\ pc' = [pc EXCEPT ![t] = q]
    BY <1>0, <1>7, AnswerFacts, Zenon
  <2>2. /\ pc'[t] = q /\ q \notin Fresh /\ UNCHANGED queue
        /\ In(todo'[t], m) => In(todo[t], m) /\ m # Head(todo[t])
        /\ \A u \in Txn : u # t => todo'[u] = todo[u] /\ pc'[u] = pc[u]
    BY <1>0, <1>7, <2>1, Zenon DEF Answer, coord, Fresh
  <2>3. QED
    BY <1>a, <1>c, <2>2, Zenon
<1>8. CASE NoMove
  BY <1>8, Zenon DEF NoMove, coord, Untried
<1>9. CASE Restart
  <2>1. pc'[m] \in Fresh => pc[m] \in Fresh
    BY <1>9, Zenon DEF Restart, Fresh
  <2>2. ~In(queue', m) /\ \A t \in Txn : ~In(todo'[t], m)
    BY <1>9 DEF Restart, In
  <2>3. QED
    BY <1>a, <1>b, <2>1, <2>2, Zenon
<1>10. QED
  BY <1>0, <1>1, <1>2, <1>3, <1>4, <1>5, <1>6, <1>7, <1>8, <1>9, StepClasses, Zenon

(* The requests one step takes up, with what makes their records right. *)
Commits(t, ms) ==
    /\ pc[t] \in {"single", "batch"}
    /\ ms \in Seq(Txn) /\ Distinct(ms)
    /\ \A m \in Txn : In(ms, m) => In(todo[t], m) /\ ~Untried(m)'
    /\ \A i \in 1..Len(ms) :
          /\ ms[i] \in Txn /\ In(ms, ms[i]) /\ tx[ms[i]].snap <= Len(log)
          /\ Stale(ms[i]) => tx[ms[i]].delta
    /\ \A i, j \in 1..Len(ms) : i # j => tx[ms[i]].keys \cap tx[ms[j]].keys = {}

LEMMA SingleCommits ==
    ASSUME CoordInv, NEW t \in Txn, Single(t) \/ SingleFails(t)
    PROVE  Commits(t, <<Head(todo[t])>>) /\ In(todo[t], Head(todo[t]))
<1> DEFINE ms == <<Head(todo[t])>>
<1>0. /\ pc \in [Txn -> Phase] /\ todo \in [Txn -> Seq(Txn)]
      /\ WalType /\ ThreadType /\ QueueInv /\ BatonInv /\ PlaceInv /\ GroupInv /\ SnapInv
  BY Zenon DEF CoordInv, ThreadType
<1>1. pc[t] = "single" /\ queue' = queue
  BY Zenon DEF Single, SingleFails, coord
<1>2. todo[t] \in Seq(Txn) /\ todo[t] # <<>> /\ Distinct(todo[t])
  BY <1>0, <1>1, Zenon DEF PlaceInv, Working
<1>3. PICK h \in Txn : h = Head(todo[t]) /\ In(todo[t], h) /\ ~In(Tail(todo[t]), h)
  BY <1>2, TailFacts, Zenon
<1>s. Stale(h) => tx[h].delta
  BY <1>3, Zenon DEF Single, SingleFails
<1>4. /\ ~In(queue, h) /\ (h # t => pc[h] = "wait")
      /\ \A u \in Txn : u # t => ~In(todo[u], h)
  BY <1>0, <1>3, Owner, Zenon DEF PlaceInv
<1>5. tx[h].snap <= Len(log)
  BY <1>0, <1>1, <1>3, <1>4, Zenon DEF SnapInv
<1>6. /\ \A u \in Txn : u # t => pc'[u] = pc[u] /\ todo'[u] = todo[u]
      /\ pc'[t] \notin Fresh
      /\ ~In(todo'[t], h) \/ (pc'[t] \in Syncing /\ todo'[t] = todo[t])
  <2>1. CASE SingleFails(t) \/ mode # "Safe"
    <3>1. \E r \in Told : Finish(t, r)
      BY <2>1, Zenon DEF Single, SingleFails, Told
    <3>2. PICK r \in Told : Finish(t, r)
      BY <3>1, Zenon
    <3>3. todo' = [todo EXCEPT ![t] = Tail(todo[t])]
      BY <3>2, Zenon DEF Finish
    <3>4. PICK q \in {"single", "handoff", "done"} : pc' = [pc EXCEPT ![t] = q]
      BY <3>2, Zenon DEF Finish, Goto
    <3>5. QED
      BY <1>0, <1>3, <3>3, <3>4, Zenon DEF Fresh
  <2>2. CASE Single(t) /\ mode = "Safe"
    <3>1. todo' = todo /\ \E q \in {"sync", "groupWait"} : pc' = [pc EXCEPT ![t] = q]
      BY <2>2, Zenon DEF Single, Goto
    <3>2. QED
      BY <1>0, <3>1, Zenon DEF Fresh, Syncing
  <2>3. QED
    BY <2>1, <2>2, Zenon
<1>7. ~Untried(h)'
  <2>1. pc'[h] \notin Fresh
    BY <1>3, <1>4, <1>6, Zenon DEF Fresh
  <2>2. \A u \in Txn : ~(In(todo'[u], h) /\ (pc'[u] \in Syncing => h # Head(todo'[u])))
    BY <1>3, <1>4, <1>6, Zenon
  <2>3. QED
    BY <1>1, <1>4, <2>1, <2>2, Zenon DEF Untried
<1>8. /\ ms \in Seq(Txn) /\ Len(ms) = 1 /\ ms[1] = h
      /\ Distinct(ms) /\ \A m : In(ms, m) <=> m = h
  BY <1>3 DEF Distinct, In
<1> HIDE DEF ms
<1>9. \A i \in 1..Len(ms) : ms[i] = h /\ In(ms, ms[i])
  BY <1>8
<1>10. \A i, j \in 1..Len(ms) : i = j
  BY <1>8
<1>11. Commits(t, ms)
  BY <1>1, <1>3, <1>5, <1>7, <1>8, <1>9, <1>10, <1>s, Zenon DEF Commits
<1>12. QED
  BY <1>3, <1>11, Zenon DEF ms

LEMMA BatchCommits ==
    ASSUME CoordInv, NEW t \in Txn, Batch(t)
    PROVE  \E ms \in Seq(Txn), told \in {"Ok", "Unknown", "Io"} :
              /\ Commits(t, ms) /\ ms # <<>>
              /\ Records(ms) \in Seq(RecordType) /\ Len(Records(ms)) = Len(ms)
              /\ held' = [held EXCEPT ![t] = HeldFor(ms, told)]
              /\ BatchOutcome(Records(ms), told)
<1>0. /\ pc \in [Txn -> Phase] /\ todo \in [Txn -> Seq(Txn)]
      /\ WalType /\ ThreadType /\ QueueInv /\ BatonInv /\ PlaceInv /\ GroupInv /\ SnapInv
  BY Zenon DEF CoordInv, ThreadType
<1>1. PICK r \in Replayable, told \in {"Ok", "Unknown", "Io"} :
          /\ Members(t, r) # <<>>
          /\ BatchOf(t, Members(t, r), Aside(t, r), Records(Members(t, r)))
          /\ todo' = [todo EXCEPT ![t] = Aside(t, r)]
          /\ held' = [held EXCEPT ![t] = HeldFor(Members(t, r), told)]
          /\ BatchOutcome(Records(Members(t, r)), told)
  BY <1>0, BatchCases, Zenon
<1> DEFINE ms == Members(t, r)
<1>2. /\ ms \in Seq(Txn) /\ Distinct(ms) /\ Records(ms) \in Seq(RecordType)
      /\ Len(Records(ms)) = Len(ms) /\ Len(ms) \in Nat
      /\ \A m : In(ms, m) => In(todo[t], m) /\ ~In(Aside(t, r), m)
  BY <1>1 DEF BatchOf
<1>3. pc[t] = "batch" /\ pc' = [pc EXCEPT ![t] = "post"] /\ queue' = queue
  BY Zenon DEF Batch, Goto, coord
<1>4. /\ pc'[t] = "post" /\ todo'[t] = Aside(t, r)
      /\ \A u \in Txn : u # t => pc'[u] = pc[u] /\ todo'[u] = todo[u]
  BY <1>0, <1>1, <1>3, Zenon
<1>5. todo[t] \in Seq(Txn) /\ Distinct(todo[t])
  BY <1>0, Zenon DEF PlaceInv
<1>6. \A m : In(ms, m) => m \in Taken(todo[t], r)
  BY <1>5, KeepFacts, Zenon DEF Members
<1>7. /\ \A m \in Taken(todo[t], r) : ~Stale(m) \/ m \in r
      /\ \A m, n \in Taken(todo[t], r) : m # n => tx[m].keys \cap tx[n].keys = {}
  BY <1>5, TakenFacts, Zenon
<1> HIDE DEF ms
<1>8. \A i \in 1..Len(ms) : ms[i] \in Txn /\ In(ms, ms[i])
  BY <1>2 DEF In
<1>9. ASSUME NEW m \in Txn, In(ms, m)
      PROVE  ~Untried(m)' /\ tx[m].snap <= Len(log) /\ (Stale(m) => tx[m].delta)
  <2>1. /\ ~In(queue, m) /\ (m # t => pc[m] = "wait")
        /\ \A u \in Txn : u # t => ~In(todo[u], m)
    BY <1>0, <1>2, <1>9, Owner, Zenon DEF PlaceInv
  <2>2. pc'[m] \notin Fresh
    BY <1>4, <2>1, Zenon DEF Fresh
  <2>3. \A u \in Txn : ~In(todo'[u], m)
    BY <1>2, <1>4, <1>9, <2>1, Zenon
  <2>4. ~Untried(m)'
    BY <1>3, <2>1, <2>2, <2>3, Zenon DEF Untried
  <2>5. tx[m].snap <= Len(log)
    BY <1>0, <1>3, <2>1, Zenon DEF SnapInv
  <2>6. Stale(m) => tx[m].delta
    BY <1>6, <1>7, <1>9, Zenon DEF Replayable
  <2>7. QED
    BY <2>4, <2>5, <2>6, Zenon
<1>10. \A i, j \in 1..Len(ms) : i # j => ms[i] # ms[j]
  BY <1>2, Zenon DEF Distinct
<1>11. \A i, j \in 1..Len(ms) : i # j => tx[ms[i]].keys \cap tx[ms[j]].keys = {}
  BY <1>6, <1>7, <1>8, <1>10, Zenon
<1>12. Commits(t, ms)
  BY <1>2, <1>3, <1>8, <1>9, <1>11, Zenon DEF Commits
<1>13. QED
  BY <1>1, <1>2, <1>12, Zenon DEF ms

-----------------------------------------------------------------------------
(* The steps as the file sees them.                                        *)

(* Records of requests that this step takes up. *)
Adds(ns) ==
    /\ ns \in Seq(RecordType)
    /\ \E t \in Txn : \E ms \in Seq(Txn) :
          /\ Commits(t, ms) /\ Len(ns) <= Len(ms)
          /\ \A i \in 1..Len(ns) : ns[i] = Record(ms[i])

LEMMA AddsPrefix ==
    ASSUME NEW t \in Txn, NEW ms \in Seq(Txn), Commits(t, ms),
           Records(ms) \in Seq(RecordType), NEW n \in 0..Len(ms)
    PROVE  /\ Adds(SubSeq(Records(ms), 1, n)) /\ Adds(Records(ms))
           /\ Len(SubSeq(Records(ms), 1, n)) = n
<1> DEFINE rs == Records(ms)
           ns == SubSeq(rs, 1, n)
<1>1. Len(ms) \in Nat /\ Len(rs) = Len(ms) /\ \A i \in 1..Len(ms) : rs[i] = Record(ms[i])
  BY DEF Records
<1>2. rs \in Seq(RecordType)
  BY Zenon
<1> HIDE DEF rs
<1>3. ns \in Seq(RecordType) /\ Len(ns) = n /\ \A i \in 1..n : ns[i] = rs[i]
  BY <1>1, <1>2
<1> HIDE DEF ns
<1>4. n <= Len(ms) /\ \A i \in 1..n : ns[i] = Record(ms[i])
  BY <1>1, <1>3
<1>5. Adds(ns)
  BY <1>3, <1>4, Zenon DEF Adds
<1>6. Adds(rs)
  BY <1>1, <1>2 DEF Adds
<1>7. QED
  BY <1>3, <1>5, <1>6, Zenon DEF ns, rs

(* The log and what lies behind it after a step. *)
LEMMA FileCases ==
    ASSUME [Next]_vars, CoordInv
    PROVE  \/ UNCHANGED <<log, stray>>
           \/ /\ stray = <<>> /\ stray' = <<>>
              /\ \E ns : Adds(ns) /\ ns # <<>> /\ log' = log \o ns
           \/ /\ stray = <<>> /\ log' = log
              /\ \E ns : Adds(ns) /\ stray' = ns
           \/ /\ Restart /\ stray' = <<>> /\ log' = log \o stray
           \/ /\ Restart /\ stray' = <<>>
              /\ \E n \in 0..Len(log) : log' = SubSeq(log, 1, n)
<1>0. /\ WalType /\ ThreadType /\ PlaceInv /\ SnapInv /\ WriterInv
      /\ log \in Seq(RecordType) /\ Len(log) \in Nat
  BY DEF CoordInv, WalType
<1>1. ASSUME NEW rs, AppendFailed(rs), NEW t \in Txn, NEW ms \in Seq(Txn), Commits(t, ms),
             rs = Records(ms), rs \in Seq(RecordType), Len(rs) = Len(ms)
      PROVE  \/ UNCHANGED <<log, stray>>
             \/ /\ stray = <<>> /\ log' = log
                /\ \E ns : Adds(ns) /\ stray' = ns
  <2>1. log' = log /\ (poisoned \/ stray = <<>>)
    BY <1>0, <1>1, Zenon DEF AppendFailed, WriterInv
  <2>2. ASSUME ~poisoned, NEW n \in 0..(Len(rs) - 1), stray' = SubSeq(rs, 1, n)
        PROVE  \E ns : Adds(ns) /\ stray' = ns
    <3>1. n \in 0..Len(ms)
      BY <1>1, <2>2
    <3>2. Adds(SubSeq(Records(ms), 1, n))
      BY <1>1, <3>1, AddsPrefix, Zenon
    <3>3. QED
      BY <1>1, <2>2, <3>2, Zenon
  <2>3. QED
    BY <1>1, <2>1, <2>2, Zenon DEF AppendFailed
<1>2. ASSUME NEW rs, Appended(rs), NEW t \in Txn, NEW ms \in Seq(Txn), Commits(t, ms),
             rs = Records(ms), rs \in Seq(RecordType), rs # <<>>
      PROVE  /\ stray = <<>> /\ stray' = <<>>
             /\ \E ns : Adds(ns) /\ ns # <<>> /\ log' = log \o ns
  <2>1. stray = <<>> /\ stray' = <<>> /\ log' = log \o rs
    BY <1>0, <1>2, Zenon DEF Appended, WriterInv
  <2>2. 0 \in 0..Len(ms)
    BY <1>2
  <2>3. Adds(rs)
    BY <1>2, <2>2, AddsPrefix, Zenon
  <2>4. QED
    BY <1>2, <2>1, <2>3, Zenon
<1>3. ASSUME NEW t \in Txn, Single(t) \/ SingleFails(t)
      PROVE  LET ms == <<Head(todo[t])>> IN
             /\ ms \in Seq(Txn) /\ Commits(t, ms) /\ Records(ms) = <<Record(Head(todo[t]))>>
             /\ Records(ms) \in Seq(RecordType) /\ Records(ms) # <<>>
             /\ Len(Records(ms)) = Len(ms)
  <2>1. Commits(t, <<Head(todo[t])>>)
    BY <1>3, SingleCommits, Zenon
  <2>2. Records(<<Head(todo[t])>>) = <<Record(Head(todo[t]))>>
    BY DEF Records
  <2>3. PICK h \in Txn : h = Head(todo[t]) /\ tx[h].snap <= Len(log)
    BY <2>1 DEF Commits
  <2>4. Record(h) \in RecordType
    BY <1>0, <2>3, RecordFacts, Zenon
  <2>5. <<Record(h)>> \in Seq(RecordType) /\ <<Record(h)>> # <<>> /\ Len(<<Record(h)>>) = 1
        /\ <<h>> \in Seq(Txn) /\ Len(<<h>>) = 1
    BY <2>4
  <2>6. QED
    BY <2>1, <2>2, <2>3, <2>5, Zenon
<1>4. ASSUME NEW t \in Txn, Single(t)
      PROVE  /\ stray = <<>> /\ stray' = <<>>
             /\ \E ns : Adds(ns) /\ ns # <<>> /\ log' = log \o ns
  <2>1. Appended(<<Record(Head(todo[t]))>>)
    BY <1>4, Zenon DEF Single
  <2>2. QED
    BY <1>2, <1>3, <1>4, <2>1, Zenon
<1>5. ASSUME NEW t \in Txn, SingleFails(t)
      PROVE  \/ UNCHANGED <<log, stray>>
             \/ /\ stray = <<>> /\ log' = log
                /\ \E ns : Adds(ns) /\ stray' = ns
  <2>1. AppendFailed(<<Record(Head(todo[t]))>>)
    BY <1>5, Zenon DEF SingleFails
  <2>2. QED
    BY <1>1, <1>3, <1>5, <2>1, Zenon
<1>6. ASSUME NEW t \in Txn, Batch(t)
      PROVE  \/ UNCHANGED <<log, stray>>
             \/ /\ stray = <<>> /\ stray' = <<>>
                /\ \E ns : Adds(ns) /\ ns # <<>> /\ log' = log \o ns
             \/ /\ stray = <<>> /\ log' = log
                /\ \E ns : Adds(ns) /\ stray' = ns
  <2>1. PICK ms \in Seq(Txn), told \in {"Ok", "Unknown", "Io"} :
              /\ Commits(t, ms) /\ ms # <<>>
              /\ Records(ms) \in Seq(RecordType) /\ Len(Records(ms)) = Len(ms)
              /\ BatchOutcome(Records(ms), told)
    BY <1>6, BatchCommits
  <2>2. Appended(Records(ms)) \/ AppendFailed(Records(ms))
    BY <2>1, Zenon DEF BatchOutcome
  <2>3. Records(ms) # <<>>
    BY <2>1
  <2>4. QED
    BY <1>1, <1>2, <2>1, <2>2, <2>3, Zenon
<1>7. ASSUME NEW t \in Txn, \/ Begin(t) \/ CommitStaged(t) \/ Direct(t) \/ Enqueue(t)
                            \/ TakeBatch(t) \/ Handoff(t) \/ Wake(t)
                            \/ BatchRefused(t) \/ BatchPost(t) \/ Conflict(t)
                            \/ Refuse(t) \/ GroupSync(t) \/ GroupComplete(t) \/ GroupWait(t)
      PROVE  UNCHANGED <<log, stray>>
  BY <1>7, Zenon DEF Begin, CommitStaged, Direct, Enqueue, TakeBatch, Handoff, Wake,
              BatchRefused, BatchPost, Conflict, Refuse, GroupSync, GroupComplete,
              GroupWait, wal
<1>8. ASSUME TimerBegin \/ TimerSync \/ Finished \/ UNCHANGED vars
      PROVE  UNCHANGED <<log, stray>>
  BY <1>8, Zenon DEF TimerBegin, TimerSync, Finished, vars, wal
<1>9. ASSUME Kill \/ Close PROVE Restart /\ stray' = <<>> /\ log' = log \o stray
  BY <1>9, Zenon DEF Kill, Close, Reopen, Restart
<1>10. ASSUME PowerLoss
       PROVE  /\ Restart /\ stray' = <<>>
              /\ \E n \in 0..Len(log) : log' = SubSeq(log, 1, n)
  <2>1. PICK n \in durable..Len(log) \cup {i - 1 : i \in doubt} : Reopen(SubSeq(log, 1, n))
    BY <1>10, Zenon DEF PowerLoss
  <2>2. n \in 0..Len(log)
    BY <1>0 DEF WalType
  <2>3. QED
    BY <2>1, <2>2, Zenon DEF Reopen, Restart
<1>11. QED
  BY <1>4, <1>5, <1>6, <1>7, <1>8, <1>9, <1>10, Zenon DEF Next, Step

LEMMA FullCases ==
    ASSUME [Next]_vars, CoordInv
    PROVE  /\ Full \in Seq(RecordType) /\ Full' \in Seq(RecordType)
           /\ \/ Full' = Full
              \/ Full = log /\ \E ns : Adds(ns) /\ Full' = log \o ns
              \/ Restart /\ \E n \in 0..Len(log) : Full' = SubSeq(log, 1, n)
<1>0. /\ log \in Seq(RecordType) /\ stray \in Seq(RecordType)
      /\ log' \in Seq(RecordType) /\ stray' \in Seq(RecordType)
  BY CoordStep, Zenon DEF CoordInv, WalType
<1>1. Full \in Seq(RecordType) /\ Full' \in Seq(RecordType)
  BY <1>0, ConcatFacts, Zenon DEF Full
<1>2. (stray = <<>> => Full = log) /\ (stray' = <<>> => Full' = log')
  BY <1>0, ConcatFacts, Zenon DEF Full
<1>3. Full = log \o stray /\ Full' = log' \o stray'
  BY Zenon DEF Full
<1>4. QED
  BY <1>1, <1>2, <1>3, FileCases, Zenon

(* Why a caller is told something, and by whom. *)
Tells(t, m) ==
    \/ /\ pc[t] = "open" /\ t = m
       /\ result'[m] \in {"Fenced", "Refused"} /\ UNCHANGED wal
    \/ /\ \E i \in 1..Len(held[t]) : held[t][i].txn = m /\ result'[m] = held[t][i].told
       /\ UNCHANGED wal
    \/ /\ pc[t] = "single" /\ m = Head(todo[t])
       /\ \/ result'[m] \in {"Conflict", "Refused"} /\ UNCHANGED wal
          \/ result'[m] = "Io" /\ SingleFails(t)
          \/ result'[m] = "Ok" /\ Single(t) /\ mode # "Safe"
    \/ /\ pc[t] = "synced" /\ m = Head(todo[t]) /\ result'[m] = "Ok" /\ UNCHANGED wal
    \/ /\ pc[t] = "syncFailed" /\ m = Head(todo[t])
       /\ result'[m] = "Unknown" /\ UNCHANGED wal
    \/ /\ pc[t] = "groupWait" /\ m = Head(todo[t]) /\ UNCHANGED wal
       /\ result'[m] = gres[via[t]] /\ gres[via[t]] \in {"Ok", "Unknown"}

LEMMA ToldCases ==
    ASSUME [Next]_vars, CoordInv, NEW m \in Txn, result'[m] # result[m]
    PROVE  result[m] = None /\ \E t \in Txn : Tells(t, m)
<1>0. /\ pc \in [Txn -> Phase] /\ todo \in [Txn -> Seq(Txn)]
      /\ held \in [Txn -> Seq(HeldType)] /\ result \in [Txn -> Told \cup {None}]
      /\ gres \in [Txn -> {"Ok", "Unknown", None}] /\ via \in [Txn -> Txn \cup {None}]
      /\ WalType /\ ThreadType /\ QueueInv /\ BatonInv /\ PlaceInv /\ GroupInv /\ SnapInv
  BY Zenon DEF CoordInv, ThreadType
(* An answer goes to the request at hand. *)
<1>a. ASSUME NEW t \in Txn, pc[t] \in {"single", "synced", "syncFailed", "groupWait"},
             NEW r, Finish(t, r)
      PROVE  m = Head(todo[t]) /\ result'[m] = r /\ result[m] = None
  <2>1. todo[t] \in Seq(Txn) /\ todo[t] # <<>> /\ Distinct(todo[t])
    BY <1>0, <1>a, Zenon DEF PlaceInv, Working
  <2>2. Head(todo[t]) \in Txn /\ In(todo[t], Head(todo[t]))
    BY <2>1, TailFacts, Zenon
  <2>3. result' = [result EXCEPT ![Head(todo[t])] = r]
    BY <1>a, Zenon DEF Finish
  <2>4. m = Head(todo[t]) /\ result'[m] = r
    BY <1>0, <2>2, <2>3, Zenon
  <2>5. QED
    BY <1>0, <2>2, <2>4, Zenon DEF PlaceInv
<1>1. ASSUME NEW t \in Txn, CommitStaged(t) PROVE result[m] = None /\ Tells(t, m)
  <2>1. m = t /\ result'[m] \in {"Fenced", "Refused"} /\ pc[t] = "open" /\ UNCHANGED wal
    BY <1>0, <1>1, Zenon DEF CommitStaged
  <2>2. QED
    BY <1>0, <2>1, Zenon DEF Tells, PlaceInv, Fresh
<1>2. ASSUME NEW t \in Txn, BatchPost(t) PROVE result[m] = None /\ Tells(t, m)
  <2> DEFINE S == {i \in 1..Len(held[t]) : held[t][i].txn = m}
  <2>1. /\ result'[m] = IF S = {} THEN result[m] ELSE held[t][CHOOSE i \in S : TRUE].told
        /\ UNCHANGED wal
    BY <1>2, Zenon DEF BatchPost
  <2>2. S # {}
    BY <2>1, Zenon
  <2>3. PICK i \in S : result'[m] = held[t][i].told
    <3>1. (CHOOSE i \in S : TRUE) \in S
      BY <2>2, Zenon
    <3> HIDE DEF S
    <3>2. QED
      BY <2>1, <2>2, <3>1, Zenon
  <2>4. Holds(t, m)
    BY <2>3, Zenon DEF Holds
  <2>5. Tells(t, m)
    BY <2>1, <2>3, Zenon DEF Tells
  <2>6. QED
    BY <1>0, <2>4, <2>5, Zenon DEF PlaceInv
<1>3. ASSUME NEW t \in Txn, Conflict(t) \/ Refuse(t) PROVE result[m] = None /\ Tells(t, m)
  <2>1. PICK r \in {"Conflict", "Refused"} : Finish(t, r) /\ pc[t] = "single" /\ UNCHANGED wal
    BY <1>3, Zenon DEF Conflict, Refuse
  <2>2. QED
    BY <1>a, <2>1, Zenon DEF Tells
<1>4. ASSUME NEW t \in Txn, SingleFails(t) PROVE result[m] = None /\ Tells(t, m)
  <2>1. Finish(t, "Io") /\ pc[t] = "single"
    BY <1>4, Zenon DEF SingleFails
  <2>2. QED
    BY <1>a, <1>4, <2>1, Zenon DEF Tells
<1>5. ASSUME NEW t \in Txn, Single(t) PROVE result[m] = None /\ Tells(t, m)
  <2>1. mode # "Safe"
    BY <1>5, Zenon DEF Single
  <2>2. Finish(t, "Ok") /\ pc[t] = "single"
    BY <1>5, <2>1, Zenon DEF Single
  <2>3. QED
    BY <1>a, <1>5, <2>1, <2>2, Zenon DEF Tells
<1>6. ASSUME NEW t \in Txn, GroupComplete(t) PROVE result[m] = None /\ Tells(t, m)
  <2>1. via[t] \in Txn /\ pc[t] \in {"synced", "syncFailed"} /\ UNCHANGED wal
    BY <1>0, <1>6, Zenon DEF GroupComplete, GroupInv, Syncing
  <2>2. gres'[via[t]] = IF pc[t] = "synced" THEN "Ok" ELSE "Unknown"
    BY <1>0, <1>6, <2>1, Zenon DEF GroupComplete
  <2>3. Finish(t, gres'[via[t]])
    BY <1>6, Zenon DEF GroupComplete
  <2>4. m = Head(todo[t]) /\ result'[m] = gres'[via[t]] /\ result[m] = None
    BY <1>a, <2>1, <2>3, Zenon
  <2>5. QED
    BY <2>1, <2>2, <2>4, Zenon DEF Tells
<1>7. ASSUME NEW t \in Txn, GroupWait(t) PROVE result[m] = None /\ Tells(t, m)
  <2>1. gres[via[t]] \in {"Ok", "Unknown"} /\ pc[t] = "groupWait" /\ UNCHANGED wal
    BY <1>0, <1>7, Zenon DEF GroupWait, GroupInv, Syncing
  <2>2. Finish(t, gres[via[t]])
    BY <1>7, Zenon DEF GroupWait
  <2>3. QED
    BY <1>a, <2>1, <2>2, Zenon DEF Tells
<1>8. ASSUME NEW t \in Txn, \/ Begin(t) \/ Direct(t) \/ Enqueue(t) \/ TakeBatch(t)
                            \/ Handoff(t) \/ Wake(t) \/ BatchRefused(t) \/ GroupSync(t)
      PROVE  FALSE
  BY <1>8, Zenon
     DEF Begin, Direct, Enqueue, TakeBatch, Handoff, Wake, BatchRefused, GroupSync
<1>9. ASSUME NEW t \in Txn, Batch(t) PROVE FALSE
  <2>1. UNCHANGED result
    BY <1>9, Zenon DEF Batch
  <2>2. QED
    BY <2>1, Zenon
<1>10. ASSUME \/ TimerBegin \/ TimerSync \/ Finished \/ UNCHANGED vars
              \/ Kill \/ PowerLoss \/ Close
       PROVE  FALSE
  BY <1>10, Zenon
     DEF TimerBegin, TimerSync, Finished, vars, Kill, PowerLoss, Close, Reopen
<1>11. QED
  BY <1>1, <1>2, <1>3, <1>4, <1>5, <1>6, <1>7, <1>8, <1>9, <1>10, ZenonT(30) DEF Next, Step

-----------------------------------------------------------------------------
(* Each transaction enters the file once.                                  *)

(* What is published stays published until the handle ends. *)
LEMMA LogKeeps ==
    ASSUME [Next]_vars, CoordInv
    PROVE  Restart \/ /\ Len(log') >= Len(log)
                      /\ \A i \in 1..Len(log) : log'[i] = log[i]
                      /\ Committed \subseteq Committed'
<1>0. log \in Seq(RecordType) /\ log' \in Seq(RecordType)
  BY CoordStep, Zenon DEF CoordInv, WalType
<1>1. Restart \/ UNCHANGED log \/ \E ns : ns \in Seq(RecordType) /\ log' = log \o ns
  BY FileCases, Zenon DEF Adds
<1>2. Restart \/ /\ Len(log') >= Len(log) /\ Len(log) \in Nat /\ Len(log') \in Nat
                 /\ \A i \in 1..Len(log) : log'[i] = log[i]
  BY <1>0, <1>1, ConcatFacts
<1>3. QED
  BY <1>2 DEF Committed

LEMMA OnceStep ==
    ASSUME [Next]_vars, CoordInv, OnceInv, LoggedInv
    PROVE  OnceInv'
<1>0. /\ log \in Seq(RecordType) /\ stray \in Seq(RecordType) /\ Len(log) \in Nat
      /\ log' \in Seq(RecordType) /\ stray' \in Seq(RecordType)
  BY CoordStep DEF CoordInv, WalType
<1>a. /\ \A i, j \in 1..Len(Full) : Full[i].txn = Full[j].txn => i = j
      /\ \A m \in Txn : Untried(m) => ~Written(m)
      /\ \A i \in 1..Len(stray) : result[stray[i].txn] \in {None, "Io"}
  BY Zenon DEF OnceInv
<1>f. /\ Len(Full) = Len(log) + Len(stray) /\ Len(stray) \in Nat
      /\ \A i \in 1..Len(log) : Full[i] = log[i]
      /\ \A i \in 1..Len(stray) : Full[Len(log) + i] = stray[i]
  BY <1>0, ConcatFacts DEF Full
(* A request that is logged is not behind the log. *)
<1>g. \A m \in Committed : \A i \in 1..Len(stray) : stray[i].txn # m
  <2> SUFFICES ASSUME NEW m, NEW j \in 1..Len(log), log[j].txn = m,
                      NEW i \in 1..Len(stray), stray[i].txn = m
               PROVE  FALSE
    BY Zenon DEF Committed
  <2>1. j \in 1..Len(Full) /\ Len(log) + i \in 1..Len(Full) /\ j # Len(log) + i
    BY <1>0, <1>f
  <2>2. Full[j].txn = m /\ Full[Len(log) + i].txn = m
    BY <1>f, Zenon
  <2>3. QED
    BY <1>a, <2>1, <2>2, Zenon
<1>h. \A i \in 1..Len(stray) : Written(stray[i].txn) /\ stray[i].txn \in Txn
  <2> TAKE i \in 1..Len(stray)
  <2>1. Len(log) + i \in 1..Len(Full) /\ Full[Len(log) + i] = stray[i]
    BY <1>0, <1>f
  <2>2. stray[i] \in RecordType
    BY <1>0
  <2>3. QED
    BY <2>1, <2>2, Zenon DEF Written, RecordType
<1>1. /\ \A i, j \in 1..Len(Full') : Full'[i].txn = Full'[j].txn => i = j
      /\ \A m \in Txn : Untried(m)' => ~Written(m)'
  <2>1. CASE Full' = Full
    <3>1. \A m \in Txn : Written(m)' => Written(m)
      BY <2>1, Zenon DEF Written
    <3>2. \A m \in Txn : Untried(m)' => Untried(m)
      BY UntriedStep, Zenon
    <3>3. QED
      BY <1>a, <2>1, <3>1, <3>2, Zenon
  <2>2. ASSUME Full = log, NEW ns, Adds(ns), Full' = log \o ns
        PROVE  /\ \A i, j \in 1..Len(Full') : Full'[i].txn = Full'[j].txn => i = j
               /\ \A m \in Txn : Untried(m)' => ~Written(m)'
    <3>1. PICK t \in Txn, ms \in Seq(Txn) :
              /\ Commits(t, ms) /\ Len(ns) <= Len(ms)
              /\ \A i \in 1..Len(ns) : ns[i] = Record(ms[i])
      BY <2>2, Zenon DEF Adds
    <3>2. /\ ns \in Seq(RecordType) /\ Len(Full') = Len(log) + Len(ns) /\ Len(ns) \in Nat
          /\ \A i \in 1..Len(log) : Full'[i] = Full[i]
          /\ \A i \in 1..Len(ns) : Full'[Len(log) + i] = ns[i]
      BY <1>0, <2>2, ConcatFacts DEF Adds
    <3>3. \A i \in 1..Len(ns) : /\ ms[i] \in Txn /\ ns[i].txn = ms[i] /\ In(ms, ms[i])
                                /\ In(todo[t], ms[i]) /\ ~Untried(ms[i])'
      <4>1. \A i \in 1..Len(ns) : i \in 1..Len(ms)
        BY <3>1, <3>2
      <4>2. \A m : Record(m).txn = m
        BY Zenon DEF Record
      <4>3. \A i \in 1..Len(ns) : ms[i] \in Txn /\ In(ms, ms[i])
        BY <3>1, <4>1, Zenon DEF Commits
      <4>4. \A m \in Txn : In(ms, m) => In(todo[t], m) /\ ~Untried(m)'
        BY <3>1, Zenon DEF Commits
      <4>5. QED
        BY <3>1, <4>2, <4>3, <4>4, Zenon
    <3>4. \A i \in 1..Len(ns) : ~Written(ms[i])
      <4>1. pc[t] \notin Syncing
        BY <3>1, Zenon DEF Commits, Syncing
      <4>2. QED
        BY <1>a, <3>3, <4>1, Zenon DEF Untried
    <3>5. \A i, j \in 1..Len(ns) : ms[i] = ms[j] => i = j
      <4>1. Distinct(ms) /\ Len(ms) \in Nat
        BY <3>1 DEF Commits
      <4>2. \A i \in 1..Len(ns) : i \in 1..Len(ms)
        BY <3>1, <3>2
      <4>3. QED
        BY <4>1, <4>2, Zenon DEF Distinct
    <3>6. \A p \in 1..Len(Full') : \/ p \in 1..Len(log) /\ Full'[p] = Full[p]
                                   \/ \E i \in 1..Len(ns) : p = Len(log) + i /\ Full'[p] = ns[i]
      <4> TAKE p \in 1..Len(Full')
      <4>1. CASE p <= Len(log)
        BY <1>0, <3>2, <4>1
      <4>2. CASE p > Len(log)
        <5>1. p - Len(log) \in 1..Len(ns) /\ p = Len(log) + (p - Len(log))
          BY <1>0, <3>2, <4>2
        <5>2. QED
          BY <3>2, <5>1, Zenon
      <4>3. QED
        BY <1>0, <3>2, <4>1, <4>2
    <3>7. \A p \in 1..Len(log), i \in 1..Len(ns) : Full[p].txn # ns[i].txn
      BY <2>2, <3>3, <3>4, Zenon DEF Written
    <3>8. \A p, q \in 1..Len(Full') : Full'[p].txn = Full'[q].txn => p = q
      <4> SUFFICES ASSUME NEW p \in 1..Len(Full'), NEW q \in 1..Len(Full'),
                          Full'[p].txn = Full'[q].txn
                   PROVE  p = q
        BY Zenon
      <4>1. CASE p \in 1..Len(log) /\ q \in 1..Len(log)
        BY <1>a, <2>2, <3>2, <4>1, Zenon
      <4>2. CASE p \in 1..Len(log) /\ q \notin 1..Len(log)
        <5>1. PICK j \in 1..Len(ns) : Full'[q] = ns[j]
          BY <3>6, <4>2, Zenon
        <5>2. QED
          BY <3>2, <3>7, <4>2, <5>1, Zenon
      <4>3. CASE p \notin 1..Len(log) /\ q \in 1..Len(log)
        <5>1. PICK j \in 1..Len(ns) : Full'[p] = ns[j]
          BY <3>6, <4>3, Zenon
        <5>2. Full'[q] = Full[q] /\ Full[q].txn # ns[j].txn
          BY <3>2, <3>7, <4>3, <5>1, Zenon
        <5>3. QED
          BY <5>1, <5>2, Zenon
      <4>4. CASE p \notin 1..Len(log) /\ q \notin 1..Len(log)
        <5>1. PICK i \in 1..Len(ns) : p = Len(log) + i /\ Full'[p] = ns[i]
          BY <3>6, <4>4, Zenon
        <5>2. PICK j \in 1..Len(ns) : q = Len(log) + j /\ Full'[q] = ns[j]
          BY <3>6, <4>4, Zenon
        <5>3. i = j
          BY <3>3, <3>5, <5>1, <5>2
        <5>4. QED
          BY <5>1, <5>2, <5>3, Zenon
      <4>5. QED
        BY <4>1, <4>2, <4>3, <4>4, Zenon
    <3>9. \A m \in Txn : Untried(m)' => ~Written(m)'
      <4> SUFFICES ASSUME NEW m \in Txn, Untried(m)', NEW p \in 1..Len(Full'), Full'[p].txn = m
                   PROVE  FALSE
        BY Zenon DEF Written
      <4>1. ~Written(m)
        BY <1>a, UntriedStep, Zenon
      <4>2. p \notin 1..Len(log)
        BY <2>2, <3>2, <4>1, Zenon DEF Written
      <4>3. PICK i \in 1..Len(ns) : Full'[p] = ns[i]
        BY <3>6, <4>2, Zenon
      <4>4. m = ms[i]
        BY <3>3, <4>3, Zenon
      <4>5. QED
        BY <3>3, <4>4, Zenon
    <3>10. QED
      BY <3>8, <3>9, Zenon
  <2>3. ASSUME NEW n \in 0..Len(log), Full' = SubSeq(log, 1, n)
        PROVE  /\ \A i, j \in 1..Len(Full') : Full'[i].txn = Full'[j].txn => i = j
               /\ \A m \in Txn : Untried(m)' => ~Written(m)'
    <3>1. Len(Full') = n /\ \A i \in 1..n : Full'[i] = log[i] /\ i \in 1..Len(log)
      BY <1>0, <2>3
    <3>2. \A i \in 1..n : Full'[i] = Full[i] /\ i \in 1..Len(Full)
      BY <1>0, <1>f, <3>1
    <3>3. \A m \in Txn : Written(m)' => Written(m)
      BY <3>1, <3>2, Zenon DEF Written
    <3>4. QED
      BY <1>a, <3>1, <3>2, <3>3, UntriedStep, Zenon
  <2>4. QED
    BY <2>1, <2>2, <2>3, FullCases, Zenon
<1>2. \A i \in 1..Len(stray') : result'[stray'[i].txn] \in {None, "Io"}
  <2>1. CASE stray' = <<>>
    BY <2>1
  <2>2. CASE UNCHANGED <<log, stray>>
    <3> SUFFICES ASSUME NEW i \in 1..Len(stray), NEW m \in Txn, m = stray[i].txn,
                        result'[m] # result[m]
                 PROVE  result'[m] = "Io"
      BY <1>a, <1>h, <2>2, Zenon
    <3>1. PICK t \in Txn : Tells(t, m)
      BY ToldCases, Zenon
    <3>2. Written(m) /\ m \notin Committed
      BY <1>g, <1>h, Zenon
    <3>3. ~Untried(m)
      BY <1>a, <3>2, Zenon
    <3>4. pc[m] # "open"
      BY <3>3, Zenon DEF Untried, Fresh
    <3>5. \A j \in 1..Len(held[t]) : held[t][j].txn = m => held[t][j].told = "Io"
      BY <3>2, Zenon DEF LoggedInv
    <3>6. pc[t] = "single" => m # Head(todo[t])
      <4> SUFFICES ASSUME pc[t] = "single", m = Head(todo[t]) PROVE FALSE
        BY Zenon
      <4>1. todo[t] \in Seq(Txn) /\ todo[t] # <<>> /\ Distinct(todo[t])
        BY Zenon DEF CoordInv, ThreadType, PlaceInv, Working
      <4>2. In(todo[t], m)
        BY <4>1, TailFacts, Zenon
      <4>3. QED
        BY <3>3, <4>2, Zenon DEF Untried, Syncing
    <3>7. pc[t] \in Syncing => m # Head(todo[t])
      BY <3>2, Zenon DEF LoggedInv
    <3>8. QED
      BY <3>1, <3>4, <3>5, <3>6, <3>7, Zenon DEF Tells, Syncing
  <2>3. ASSUME stray = <<>>, log' = log, NEW ns, Adds(ns), stray' = ns, stray' # stray
        PROVE  \A i \in 1..Len(stray') : result'[stray'[i].txn] \in {None, "Io"}
    <3>1. PICK t \in Txn, ms \in Seq(Txn) :
              /\ Commits(t, ms) /\ Len(ns) <= Len(ms)
              /\ \A i \in 1..Len(ns) : ns[i] = Record(ms[i])
      BY <2>3, Zenon DEF Adds
    <3>2. ns \in Seq(RecordType) /\ Len(ns) \in Nat
      BY <2>3 DEF Adds
    <3>3. \A i \in 1..Len(ns) : /\ ms[i] \in Txn /\ ns[i].txn = ms[i]
                                /\ In(todo[t], ms[i])
      <4>1. \A i \in 1..Len(ns) : i \in 1..Len(ms)
        BY <3>1, <3>2
      <4>2. \A m : Record(m).txn = m
        BY Zenon DEF Record
      <4>3. \A i \in 1..Len(ns) : ms[i] \in Txn /\ In(ms, ms[i])
        BY <3>1, <4>1, Zenon DEF Commits
      <4>4. \A m \in Txn : In(ms, m) => In(todo[t], m)
        BY <3>1, Zenon DEF Commits
      <4>5. QED
        BY <3>1, <4>2, <4>3, <4>4, Zenon
    <3>4. \A i \in 1..Len(ns) : result[ms[i]] = None
      BY <3>3, Zenon DEF CoordInv, PlaceInv
    <3> SUFFICES ASSUME NEW i \in 1..Len(ns), NEW m \in Txn, m = ns[i].txn,
                        result'[m] # None
                 PROVE  result'[m] = "Io"
      BY <2>3, <3>3, Zenon
    <3>5. PICK u \in Txn : Tells(u, m)
      BY <3>3, <3>4, ToldCases, Zenon
    <3>6. ~UNCHANGED wal /\ ~Appended(<<Record(Head(todo[u]))>>)
      <4>1. ~UNCHANGED wal
        BY <2>3, Zenon DEF wal
      <4>2. ~Appended(<<Record(Head(todo[u]))>>)
        BY <2>3, Zenon DEF Appended
      <4>3. QED
        BY <4>1, <4>2, Zenon
    <3>7. QED
      BY <3>5, <3>6, Zenon DEF Tells, Single
  <2>4. QED
    BY <2>1, <2>2, <2>3, FileCases, Zenon
<1>3. QED
  BY <1>1, <1>2, Zenon DEF OnceInv

-----------------------------------------------------------------------------
(* Whoever is told that a commit is published is in the log, and in Safe   *)
(* mode whoever is told Ok is on the medium.                               *)

(* The steps as the sync groups see them. *)
Quiet(t) ==
    /\ pc'[t] \notin Syncing /\ UNCHANGED <<grp, gres, via>>
    /\ \A u \in Txn : u # t => pc'[u] = pc[u] /\ todo'[u] = todo[u]

LEMMA GroupClasses ==
    ASSUME [Next]_vars, CoordInv
    PROVE  \/ Restart \/ UNCHANGED <<pc, todo, grp, gres, via>>
           \/ \E t \in Txn : \/ Quiet(t) \/ GroupSync(t) \/ GroupComplete(t)
                             \/ Single(t) /\ mode = "Safe"
<1>0. /\ pc \in [Txn -> Phase] /\ todo \in [Txn -> Seq(Txn)]
      /\ WalType /\ ThreadType /\ QueueInv /\ BatonInv /\ PlaceInv /\ GroupInv /\ SnapInv
  BY Zenon DEF CoordInv, ThreadType
<1>a. ASSUME NEW t \in Txn, NEW r, Finish(t, r), UNCHANGED <<grp, gres, via>>
      PROVE  Quiet(t)
  BY <1>0, <1>a, Zenon DEF Finish, Goto, Quiet, Syncing
<1>1. ASSUME NEW t \in Txn, \/ Begin(t) \/ CommitStaged(t) \/ Direct(t) \/ Enqueue(t)
                            \/ Handoff(t) \/ Wake(t) \/ BatchRefused(t) \/ BatchPost(t)
      PROVE  Quiet(t)
  BY <1>0, <1>1, Zenon
     DEF Begin, CommitStaged, Direct, Enqueue, Handoff, Wake, BatchRefused,
                    BatchPost, Goto, sync, Quiet, Syncing
<1>2. ASSUME NEW t \in Txn, TakeBatch(t) PROVE Quiet(t)
  <2>1. pc' = [pc EXCEPT ![t] = "batch"] /\ UNCHANGED <<grp, gres, via>>
    BY <1>2, Zenon DEF TakeBatch, Goto, sync
  <2>2. \A u \in Txn : u # t => todo'[u] = todo[u]
    BY <1>0, <1>2, Zenon DEF TakeBatch
  <2>3. QED
    BY <1>0, <2>1, <2>2, Zenon DEF Quiet, Syncing
<1>3. ASSUME NEW t \in Txn, Batch(t) PROVE Quiet(t)
  <2>1. pc' = [pc EXCEPT ![t] = "post"] /\ UNCHANGED <<grp, gres, via>>
    BY <1>3, Zenon DEF Batch, Goto, sync
  <2>2. PICK r \in Replayable : todo' = [todo EXCEPT ![t] = Aside(t, r)]
    BY <1>0, <1>3, BatchCases, Zenon
  <2>3. QED
    BY <1>0, <2>1, <2>2, Zenon DEF Quiet, Syncing
<1>4. ASSUME NEW t \in Txn, Conflict(t) \/ Refuse(t) \/ SingleFails(t) \/ GroupWait(t)
      PROVE  Quiet(t)
  BY <1>4, <1>a, Zenon DEF Conflict, Refuse, SingleFails, GroupWait, sync
<1>5. ASSUME NEW t \in Txn, Single(t), mode # "Safe" PROVE Quiet(t)
  BY <1>5, <1>a, Zenon DEF Single
<1>6. ASSUME TimerBegin \/ TimerSync \/ Finished \/ UNCHANGED vars
      PROVE  UNCHANGED <<pc, todo, grp, gres, via>>
  BY <1>6, Zenon DEF TimerBegin, TimerSync, Finished, vars, thread, sync
<1>7. ASSUME Kill \/ PowerLoss \/ Close PROVE Restart
  BY <1>7, Zenon DEF Kill, PowerLoss, Close, Reopen, Restart
<1>8. QED
  BY <1>1, <1>2, <1>3, <1>4, <1>5, <1>6, <1>7, Zenon DEF Next, Step

(* Undelivered results appear with a batch. *)
LEMMA HeldCases ==
    ASSUME [Next]_vars, CoordInv
    PROVE  \/ \A u \in Txn : held'[u] \in {held[u], <<>>}
           \/ \E t \in Txn : Batch(t)
<1>0. /\ held \in [Txn -> Seq(HeldType)] /\ ThreadType /\ GroupInv
  BY Zenon DEF CoordInv, ThreadType
<1>1. ASSUME NEW t \in Txn, \/ Begin(t) \/ CommitStaged(t) \/ Direct(t) \/ Enqueue(t)
                            \/ TakeBatch(t) \/ Handoff(t) \/ Wake(t) \/ BatchRefused(t)
                            \/ Answer(t) \/ Move(t)
      PROVE  held' = held
  BY <1>1, Zenon
     DEF Begin, CommitStaged, Direct, Enqueue, TakeBatch, Handoff, Wake, BatchRefused,
              Answer, Move
<1>2. ASSUME NEW t \in Txn, BatchPost(t) PROVE \A u \in Txn : held'[u] \in {held[u], <<>>}
  BY <1>0, <1>2, Zenon DEF BatchPost
<1>3. CASE NoMove
  BY <1>3, Zenon DEF NoMove
<1>4. CASE Restart
  BY <1>4, Zenon DEF Restart
<1>5. QED
  BY <1>0, <1>1, <1>2, <1>3, <1>4, StepClasses, Zenon

LEMMA AppendLogs ==
    ASSUME log \in Seq(RecordType), NEW rs \in Seq(RecordType), Appended(rs)
    PROVE  \A i \in 1..Len(rs) : rs[i].txn \in {log'[j].txn : j \in 1..Len(log')}
<1>1. /\ Len(log') = Len(log) + Len(rs) /\ Len(log) \in Nat /\ Len(rs) \in Nat
      /\ \A i \in 1..Len(rs) : log'[Len(log) + i] = rs[i]
  BY ConcatFacts DEF Appended
<1>2. \A i \in 1..Len(rs) : Len(log) + i \in 1..Len(log')
  BY <1>1
<1>3. QED
  BY <1>1, <1>2, Zenon

LEMMA BatchLogs ==
    ASSUME CoordInv, NEW t \in Txn, Batch(t)
    PROVE  \E told \in {"Ok", "Unknown", "Io"} :
              /\ \A i \in 1..Len(held'[t]) :
                    /\ held'[t][i].told = told
                    /\ told # "Io" => held'[t][i].txn \in Committed'
              /\ told = "Ok" /\ mode = "Safe" => durable' = Len(log')
              /\ \A u \in Txn : u # t => held'[u] = held[u]
<1>0. log \in Seq(RecordType) /\ held \in [Txn -> Seq(HeldType)]
  BY Zenon DEF CoordInv, WalType, ThreadType
<1>1. PICK ms \in Seq(Txn), told \in {"Ok", "Unknown", "Io"} :
              /\ Commits(t, ms)
              /\ Records(ms) \in Seq(RecordType) /\ Len(Records(ms)) = Len(ms)
              /\ held' = [held EXCEPT ![t] = HeldFor(ms, told)]
              /\ BatchOutcome(Records(ms), told)
  BY BatchCommits
<1>2. /\ held'[t] = HeldFor(ms, told) /\ \A u \in Txn : u # t => held'[u] = held[u]
  BY <1>0, <1>1, Zenon
<1>3. /\ Len(HeldFor(ms, told)) = Len(ms)
      /\ \A i \in 1..Len(ms) : /\ HeldFor(ms, told)[i].txn = ms[i]
                                /\ HeldFor(ms, told)[i].told = told
  BY DEF HeldFor
<1>4. \A i \in 1..Len(ms) : Records(ms)[i].txn = ms[i]
  BY Zenon DEF Records, Record
<1>5. told # "Io" => Appended(Records(ms))
  BY <1>1, Zenon DEF BatchOutcome
<1>6. told # "Io" => \A i \in 1..Len(ms) : ms[i] \in Committed'
  <2>1. told # "Io" => \A i \in 1..Len(ms) :
            Records(ms)[i].txn \in {log'[j].txn : j \in 1..Len(log')}
    BY <1>0, <1>1, <1>5, AppendLogs, Zenon
  <2>2. QED
    BY <1>4, <2>1, Zenon DEF Committed
<1>7. told = "Ok" /\ mode = "Safe" => durable' = Len(log')
  <2> SUFFICES ASSUME told = "Ok", mode = "Safe" PROVE durable' = Len(log')
    BY Zenon
  <2>1. SyncOk(Len(log) + Len(Records(ms)), FALSE) /\ Appended(Records(ms))
    BY <1>1, Zenon DEF BatchOutcome
  <2>2. Len(log') = Len(log) + Len(Records(ms))
    <3>1. log' = log \o Records(ms)
      BY <2>1, Zenon DEF Appended
    <3>2. Records(ms) \in Seq(RecordType)
      BY <1>1, Zenon
    <3>3. QED
      BY <1>0, <3>1, <3>2, ConcatFacts, Zenon
  <2>3. QED
    BY <2>1, <2>2, Zenon DEF SyncOk
<1>8. \A i \in 1..Len(held'[t]) :
         /\ held'[t][i].told = told
         /\ told # "Io" => held'[t][i].txn \in Committed'
  <2>1. \A i \in 1..Len(held'[t]) : /\ i \in 1..Len(ms)
                                    /\ held'[t][i].told = told /\ held'[t][i].txn = ms[i]
    BY <1>2, <1>3, Zenon
  <2>2. QED
    BY <1>6, <2>1, Zenon
<1>9. QED
  BY <1>2, <1>7, <1>8, Zenon

LEMMA SingleLogs ==
    ASSUME CoordInv, NEW t \in Txn, Single(t), mode = "Safe"
    PROVE  \E h \in Txn :
              /\ h = Head(todo[t]) /\ In(todo[t], h) /\ h \in Committed'
              /\ grp' = IF grp = None THEN h ELSE grp
              /\ pc[t] = "single" /\ pc'[t] = IF grp = None THEN "sync" ELSE "groupWait"
              /\ via'[t] = grp' /\ UNCHANGED <<gres, todo, held, result>>
              /\ \A u \in Txn : u # t => pc'[u] = pc[u] /\ via'[u] = via[u]
<1>0. /\ log \in Seq(RecordType) /\ pc \in [Txn -> Phase] /\ via \in [Txn -> Txn \cup {None}]
      /\ WalType /\ ThreadType
  BY Zenon DEF CoordInv, WalType, ThreadType
<1>1. Commits(t, <<Head(todo[t])>>) /\ In(todo[t], Head(todo[t]))
  BY SingleCommits, Zenon
<1>2. PICK h \in Txn : h = Head(todo[t]) /\ tx[h].snap <= Len(log)
  BY <1>1 DEF Commits
<1>3. Record(h) \in RecordType /\ Record(h).txn = h
  BY <1>0, <1>2, RecordFacts, Zenon
<1>4. /\ <<Record(h)>> \in Seq(RecordType) /\ Len(<<Record(h)>>) = 1
      /\ <<Record(h)>>[1] = Record(h) /\ 1 \in 1..1
  BY <1>3
<1>5. Appended(<<Record(h)>>)
  BY <1>2, Zenon DEF Single
<1>6. h \in Committed'
  BY <1>0, <1>3, <1>4, <1>5, AppendLogs, ZenonT(30) DEF Committed
<1>7. /\ grp' = IF grp = None THEN h ELSE grp
      /\ pc[t] = "single" /\ pc' = [pc EXCEPT ![t] = IF grp = None THEN "sync" ELSE "groupWait"]
      /\ via' = [via EXCEPT ![t] = grp'] /\ UNCHANGED <<gres, todo, held, result>>
  BY <1>2, Zenon DEF Single, Goto
<1>8. QED
  BY <1>0, <1>1, <1>2, <1>6, <1>7, Zenon

LEMMA LoggedStep ==
    ASSUME [Next]_vars, CoordInv, LoggedInv
    PROVE  LoggedInv'
<1>0. /\ pc \in [Txn -> Phase] /\ grp \in Txn \cup {None}
      /\ gres \in [Txn -> {"Ok", "Unknown", None}] /\ via \in [Txn -> Txn \cup {None}]
  BY Zenon DEF CoordInv, ThreadType
<1>a. /\ \A t \in Txn : pc[t] \in Syncing => {Head(todo[t]), via[t]} \subseteq Committed
      /\ grp # None => grp \in Committed
      /\ \A m \in Txn : gres[m] # None => m \in Committed
      /\ \A t \in Txn : \A i \in 1..Len(held[t]) :
           held[t][i].told # "Io" => held[t][i].txn \in Committed
  BY Zenon DEF LoggedInv
<1>1. CASE Restart
  <2>1. /\ grp' = None /\ \A m \in Txn : gres'[m] = None /\ held'[m] = <<>>
        /\ \A t \in Txn : pc'[t] \notin Syncing
    BY <1>1, Zenon DEF Restart, Syncing
  <2>2. QED
    BY <2>1 DEF LoggedInv
<1>2. ASSUME Committed \subseteq Committed' PROVE LoggedInv'
  <2>1. \A t \in Txn : \A i \in 1..Len(held'[t]) :
           held'[t][i].told # "Io" => held'[t][i].txn \in Committed'
    <3>1. CASE \A u \in Txn : held'[u] \in {held[u], <<>>}
      BY <1>a, <1>2, <3>1
    <3>2. ASSUME NEW t \in Txn, Batch(t)
          PROVE  \A u \in Txn : \A i \in 1..Len(held'[u]) :
                    held'[u][i].told # "Io" => held'[u][i].txn \in Committed'
      BY <1>a, <1>2, <3>2, BatchLogs
    <3>3. QED
      BY <3>1, <3>2, HeldCases, Zenon
  <2>2. /\ \A t \in Txn : pc'[t] \in Syncing => {Head(todo'[t]), via'[t]} \subseteq Committed'
        /\ grp' # None => grp' \in Committed'
        /\ \A m \in Txn : gres'[m] # None => m \in Committed'
    <3>1. CASE UNCHANGED <<pc, todo, grp, gres, via>>
      BY <1>a, <1>2, <3>1, Zenon
    <3>2. ASSUME NEW t \in Txn, Quiet(t)
          PROVE  /\ \A u \in Txn : pc'[u] \in Syncing
                       => {Head(todo'[u]), via'[u]} \subseteq Committed'
                 /\ grp' # None => grp' \in Committed'
                 /\ \A m \in Txn : gres'[m] # None => m \in Committed'
      BY <1>a, <1>2, <3>2, Zenon DEF Quiet
    <3>3. ASSUME NEW t \in Txn, GroupSync(t)
          PROVE  /\ \A u \in Txn : pc'[u] \in Syncing
                       => {Head(todo'[u]), via'[u]} \subseteq Committed'
                 /\ grp' # None => grp' \in Committed'
                 /\ \A m \in Txn : gres'[m] # None => m \in Committed'
      <4>1. /\ grp' = None /\ UNCHANGED <<gres, todo, via>> /\ pc[t] \in Syncing
            /\ \A u \in Txn : u # t => pc'[u] = pc[u]
        BY <1>0, <3>3, Zenon DEF GroupSync, Goto, Syncing
      <4>2. QED
        BY <1>a, <1>2, <4>1, Zenon
    <3>4. ASSUME NEW t \in Txn, GroupComplete(t)
          PROVE  /\ \A u \in Txn : pc'[u] \in Syncing
                       => {Head(todo'[u]), via'[u]} \subseteq Committed'
                 /\ grp' # None => grp' \in Committed'
                 /\ \A m \in Txn : gres'[m] # None => m \in Committed'
      <4>1. /\ pc[t] \in Syncing /\ UNCHANGED <<grp, via>>
            /\ \A g \in Txn : g # via[t] => gres'[g] = gres[g]
        BY <1>0, <3>4, Zenon DEF GroupComplete, Syncing
      <4>2. /\ pc'[t] \notin Syncing
            /\ \A u \in Txn : u # t => pc'[u] = pc[u] /\ todo'[u] = todo[u]
        BY <1>0, <3>4, Zenon
           DEF GroupComplete, Finish, Goto, Syncing, CoordInv, ThreadType
      <4>3. QED
        BY <1>a, <1>2, <4>1, <4>2, Zenon
    <3>5. ASSUME NEW t \in Txn, Single(t), mode = "Safe"
          PROVE  /\ \A u \in Txn : pc'[u] \in Syncing
                       => {Head(todo'[u]), via'[u]} \subseteq Committed'
                 /\ grp' # None => grp' \in Committed'
                 /\ \A m \in Txn : gres'[m] # None => m \in Committed'
      BY <1>a, <1>2, <3>5, SingleLogs
    <3>6. CASE Restart
      <4>1. /\ grp' = None /\ \A m \in Txn : gres'[m] = None
            /\ \A t \in Txn : pc'[t] \notin Syncing
        BY <3>6, Zenon DEF Restart, Syncing
      <4>2. QED
        BY <4>1, Zenon
    <3>7. QED
      BY <3>1, <3>2, <3>3, <3>4, <3>5, <3>6, GroupClasses, Zenon
  <2>3. QED
    BY <2>1, <2>2, Zenon DEF LoggedInv
<1>3. QED
  BY <1>1, <1>2, LogKeeps, Zenon

-----------------------------------------------------------------------------
(* What a caller may rely on.                                              *)

(* The transactions known to be on the medium. *)
Synced == {log[i].txn : i \in 1..durable}

(* In Safe mode whoever is told Ok, or is about to be, is behind a         *)
(* successful barrier.                                                     *)
SafeInv ==
    mode = "Safe" =>
      /\ \A m \in Txn : result[m] = "Ok" => m \in Synced
      /\ \A t \in Txn : \A i \in 1..Len(held[t]) :
             held[t][i].told = "Ok" => held[t][i].txn \in Synced
      /\ \A t \in Txn : pc[t] = "synced" => Head(todo[t]) \in Synced
      /\ \A t \in Txn : pc[t] = "groupWait" /\ gres[via[t]] = "Ok"
             => Head(todo[t]) \in Synced
      /\ \A t, u \in Txn : pc[t] = "groupWait" /\ pc[u] = "synced" /\ via[u] = via[t]
             => Head(todo[t]) \in Synced
      /\ grp # None => /\ gres[grp] = None
                       /\ \A u \in Txn : pc[u] \in {"synced", "syncFailed"}
                              => via[u] # grp

(* Every version of a row holds the effects of all who wrote it up to it. *)
Exact(l) == \A i \in 1..Len(l) : \A k \in DOMAIN l[i].rows :
    l[i].rows[k] = {l[j].txn : j \in {h \in 1..i : k \in DOMAIN l[h].rows}}

-----------------------------------------------------------------------------
(* In Safe mode whoever is told Ok is on the medium.                       *)

(* Without dropped pages no crash takes back what a barrier covered. *)
LEMMA SyncedKeeps ==
    ASSUME [Next]_vars, CoordInv, mode = "Safe", ~Discards
    PROVE  mode' = mode /\ Synced \subseteq Synced'
<1>0. /\ WalType /\ ThreadType /\ PlaceInv /\ SnapInv /\ WriterInv
      /\ log \in Seq(RecordType) /\ stray \in Seq(RecordType) /\ Len(log) \in Nat
      /\ durable \in 0..Len(log) /\ doubt = {} /\ timer = None
  BY DEF CoordInv, WalType, WriterInv
<1>a. ASSUME durable' >= durable, durable' \in Nat, \A i \in 1..durable : log'[i] = log[i]
      PROVE  Synced \subseteq Synced'
  BY <1>0, <1>a DEF Synced
<1>b. ASSUME NEW rs \in Seq(RecordType), log' = log \o rs, durable' \in Nat, durable' >= durable
      PROVE  Synced \subseteq Synced'
  <2>1. \A i \in 1..Len(log) : log'[i] = log[i]
    BY <1>0, <1>b, ConcatFacts, Zenon
  <2>2. \A i \in 1..durable : log'[i] = log[i]
    BY <1>0, <2>1
  <2>3. QED
    BY <1>a, <1>b, <2>2, Zenon
<1>1. CASE UNCHANGED wal
  BY <1>1, Zenon DEF wal, Synced
<1>2. ASSUME NEW rs, WalAppend(rs) PROVE mode' = mode /\ Synced \subseteq Synced'
  <2>1. rs \in Seq(RecordType) /\ log' = log \o rs /\ mode' = mode /\ Len(rs) \in Nat
    BY <1>2 DEF WalAppend, Appended
  <2>2. durable' \in {durable, Len(log) + Len(rs)}
    BY <1>2, Zenon DEF WalAppend, SyncOk, SyncFailed, NoSync
  <2>3. durable' \in Nat /\ durable' >= durable
    BY <1>0, <2>1, <2>2
  <2>4. QED
    BY <1>b, <2>1, <2>3, Zenon
<1>3. ASSUME NEW rs, WalFail(rs) PROVE mode' = mode /\ Synced \subseteq Synced'
  BY <1>3, Zenon DEF WalFail, AppendFailed, Synced
<1>4. ASSUME NEW t \in Txn, GroupSync(t) PROVE mode' = mode /\ Synced \subseteq Synced'
  <2>1. mode' = mode /\ log' = log /\ durable' \in {durable, Len(log)}
    BY <1>4, Zenon DEF GroupSync, SyncOk, SyncFailed
  <2>2. durable' \in Nat /\ durable' >= durable
    BY <1>0, <2>1
  <2>3. QED
    BY <1>a, <2>1, <2>2, Zenon
<1>5. CASE TimerBegin \/ TimerSync
  BY <1>0, <1>5, Zenon DEF TimerBegin, TimerSync
<1>6. CASE Kill \/ Close
  <2>1. mode' = mode /\ log' = log \o stray /\ durable' \in {durable, Len(log)}
    BY <1>6, Zenon DEF Kill, Close, Reopen
  <2>2. durable' \in Nat /\ durable' >= durable
    BY <1>0, <2>1
  <2>3. QED
    BY <1>0, <1>b, <2>1, <2>2, Zenon
<1>7. CASE PowerLoss
  <2>1. PICK n \in durable..Len(log) : Reopen(SubSeq(log, 1, n)) /\ durable' = n
    BY <1>0, <1>7, Zenon DEF PowerLoss
  <2>2. mode' = mode /\ log' = SubSeq(log, 1, n) /\ n \in Nat /\ n >= durable /\ n <= Len(log)
    BY <1>0, <2>1 DEF Reopen
  <2>3. \A i \in 1..n : log'[i] = log[i]
    BY <1>0, <2>2
  <2>4. \A i \in 1..durable : log'[i] = log[i]
    BY <1>0, <2>2, <2>3
  <2>5. QED
    BY <1>a, <2>1, <2>2, <2>4, Zenon
<1>8. QED
  BY <1>0, <1>1, <1>2, <1>3, <1>4, <1>5, <1>6, <1>7, WalClasses, ZenonT(30)

LEMMA ModeKept ==
    ASSUME [Next]_vars, CoordInv
    PROVE  mode' = mode
<1>0. WalType /\ ThreadType /\ PlaceInv /\ SnapInv
  BY Zenon DEF CoordInv
<1>1. ASSUME NEW rs, WalAppend(rs) \/ WalFail(rs) PROVE mode' = mode
  BY <1>1, Zenon DEF WalAppend, WalFail, Appended, AppendFailed
<1>2. QED
  BY <1>0, <1>1, WalClasses, Zenon
     DEF wal, GroupSync, TimerBegin, TimerSync, Kill, PowerLoss, Close,
     Reopen

LEMMA SafeStep ==
    ASSUME [Next]_vars, CoordInv, OnceInv, LoggedInv, SafeInv, ~Discards
    PROVE  SafeInv'
<1> SUFFICES ASSUME mode = "Safe" PROVE SafeInv'
  BY ModeKept, Zenon DEF SafeInv
<1>0. /\ pc \in [Txn -> Phase] /\ grp \in Txn \cup {None} /\ todo \in [Txn -> Seq(Txn)]
      /\ gres \in [Txn -> {"Ok", "Unknown", None}] /\ via \in [Txn -> Txn \cup {None}]
  BY Zenon DEF CoordInv, ThreadType
<1>n. None \notin Txn /\ "Ok" # None
  BY CommitAssumption, Zenon DEF Told
<1>a. /\ \A m \in Txn : result[m] = "Ok" => m \in Synced
      /\ \A t \in Txn : \A i \in 1..Len(held[t]) :
             held[t][i].told = "Ok" => held[t][i].txn \in Synced
      /\ \A t \in Txn : pc[t] = "synced" => Head(todo[t]) \in Synced
      /\ \A t \in Txn : pc[t] = "groupWait" /\ gres[via[t]] = "Ok"
             => Head(todo[t]) \in Synced
      /\ \A t, u \in Txn : pc[t] = "groupWait" /\ pc[u] = "synced" /\ via[u] = via[t]
             => Head(todo[t]) \in Synced
      /\ grp # None => /\ gres[grp] = None
                       /\ \A u \in Txn : pc[u] \in {"synced", "syncFailed"}
                              => via[u] # grp
  BY Zenon DEF SafeInv
<1>b. Synced \subseteq Synced'
  BY SyncedKeeps, Zenon
<1>c. ASSUME durable' = Len(log') PROVE Committed' = Synced'
  BY <1>c, Zenon DEF Committed, Synced
<1>s. Syncing = {"sync", "synced", "syncFailed", "groupWait"}
  BY Zenon DEF Syncing
<1>1. \A m \in Txn : result'[m] = "Ok" => m \in Synced'
  <2> SUFFICES ASSUME NEW m \in Txn, result'[m] = "Ok", result'[m] # result[m]
               PROVE  m \in Synced'
    BY <1>a, <1>b, Zenon
  <2>1. PICK t \in Txn : Tells(t, m)
    BY ToldCases, Zenon
  <2>2. m \in Synced
    BY <1>a, <2>1, Zenon DEF Tells
  <2>3. QED
    BY <1>b, <2>2, Zenon
<1>2. \A t \in Txn : \A i \in 1..Len(held'[t]) :
             held'[t][i].told = "Ok" => held'[t][i].txn \in Synced'
  <2>1. CASE \A u \in Txn : held'[u] \in {held[u], <<>>}
    BY <1>a, <1>b, <2>1
  <2>2. ASSUME NEW t \in Txn, Batch(t)
        PROVE  \A u \in Txn : \A i \in 1..Len(held'[u]) :
                  held'[u][i].told = "Ok" => held'[u][i].txn \in Synced'
    <3>1. PICK told \in {"Ok", "Unknown", "Io"} :
              /\ \A i \in 1..Len(held'[t]) :
                    /\ held'[t][i].told = told
                    /\ told # "Io" => held'[t][i].txn \in Committed'
              /\ told = "Ok" => durable' = Len(log')
              /\ \A u \in Txn : u # t => held'[u] = held[u]
      BY <2>2, BatchLogs, Zenon
    <3>2. QED
      BY <1>a, <1>b, <1>c, <3>1, Zenon
  <2>3. QED
    BY <2>1, <2>2, HeldCases, Zenon
(* What remains is about the groups. *)
<1> DEFINE Groups ==
      /\ \A t \in Txn : pc'[t] = "synced" => Head(todo'[t]) \in Synced'
      /\ \A t \in Txn : pc'[t] = "groupWait" /\ gres'[via'[t]] = "Ok"
             => Head(todo'[t]) \in Synced'
      /\ \A t, u \in Txn : pc'[t] = "groupWait" /\ pc'[u] = "synced" /\ via'[u] = via'[t]
             => Head(todo'[t]) \in Synced'
      /\ grp' # None => /\ gres'[grp'] = None
                        /\ \A u \in Txn : pc'[u] \in {"synced", "syncFailed"}
                              => via'[u] # grp'
<1>3. CASE Restart
  <2>1. grp' = None /\ \A t \in Txn : pc'[t] \notin Syncing
    BY <1>3, Zenon DEF Restart, Syncing
  <2>2. Groups
    BY <1>s, <2>1, Zenon
  <2>3. QED
    BY <1>1, <1>2, <2>2, Zenon DEF SafeInv
<1>4. CASE UNCHANGED <<pc, todo, grp, gres, via>>
  <2>1. Groups
    BY <1>a, <1>b, <1>4, Zenon
  <2>2. QED
    BY <1>1, <1>2, <2>1, Zenon DEF SafeInv
<1>5. ASSUME NEW t \in Txn, Quiet(t) PROVE SafeInv'
  <2>1. Groups
    BY <1>a, <1>b, <1>s, <1>5, Zenon DEF Quiet
  <2>2. QED
    BY <1>1, <1>2, <2>1, Zenon DEF SafeInv
<1>6. ASSUME NEW t \in Txn, GroupSync(t) PROVE SafeInv'
  <2>1. /\ grp' = None /\ UNCHANGED <<gres, todo, via, log>> /\ pc[t] = "sync"
        /\ \A u \in Txn : u # t => pc'[u] = pc[u]
    BY <1>0, <1>6, Zenon DEF GroupSync, Goto
  <2>2. \/ pc'[t] = "synced" /\ durable' = Len(log')
        \/ pc'[t] = "syncFailed"
    BY <1>0, <1>6, ZenonT(30) DEF GroupSync, Goto, SyncOk
  <2>3. CASE pc'[t] = "syncFailed"
    <3>1. Groups
      BY <1>a, <1>b, <2>1, <2>3, Zenon
    <3>2. QED
      BY <1>1, <1>2, <3>1, Zenon DEF SafeInv
  <2>4. CASE pc'[t] = "synced" /\ durable' = Len(log')
    <3>1. Synced' = Committed
      BY <1>c, <2>1, <2>4, Zenon DEF Committed
    <3>2. \A u \in Txn : pc[u] \in Syncing => Head(todo[u]) \in Synced'
      BY <3>1, Zenon DEF LoggedInv
    <3>3. \A u \in Txn : pc'[u] \in Syncing => pc[u] \in Syncing
      BY <1>s, <2>1, Zenon
    <3>4. Groups
      BY <1>s, <2>1, <3>2, <3>3, Zenon
    <3>5. QED
      BY <1>1, <1>2, <3>4, Zenon DEF SafeInv
  <2>5. QED
    BY <2>2, <2>3, <2>4, Zenon
<1>7. ASSUME NEW t \in Txn, GroupComplete(t) PROVE SafeInv'
  <2>1. /\ pc[t] \in {"synced", "syncFailed"} /\ UNCHANGED <<grp, via>>
        /\ gres' = [gres EXCEPT ![via[t]] = IF pc[t] = "synced" THEN "Ok" ELSE "Unknown"]
    BY <1>7, Zenon DEF GroupComplete
  <2>2. /\ pc'[t] \notin Syncing
        /\ \A u \in Txn : u # t => pc'[u] = pc[u] /\ todo'[u] = todo[u]
    BY <1>0, <1>7, Zenon DEF GroupComplete, Finish, Goto, Syncing
  <2>3. /\ gres'[via[t]] = "Ok" => pc[t] = "synced"
        /\ \A g \in Txn : g # via[t] => gres'[g] = gres[g]
    BY <1>0, <1>s, <2>1, Zenon DEF CoordInv, GroupInv
  <2>4. \A u \in Txn : pc[u] = "groupWait" => via[u] \in Txn
    BY <1>0, <1>s, Zenon DEF CoordInv, GroupInv
  <2>5. ASSUME NEW u \in Txn, pc'[u] = "groupWait", gres'[via[u]] = "Ok"
        PROVE  Head(todo'[u]) \in Synced'
    <3>1. u # t /\ pc[u] = "groupWait" /\ todo'[u] = todo[u]
      BY <1>s, <2>2, <2>5, Zenon
    <3>2. CASE via[u] = via[t]
      BY <1>a, <1>b, <2>3, <2>5, <3>1, <3>2, Zenon
    <3>3. CASE via[u] # via[t]
      BY <1>a, <1>b, <2>3, <2>4, <2>5, <3>1, <3>3, Zenon
    <3>4. QED
      BY <3>2, <3>3, Zenon
  <2>6. grp # None => gres'[grp] = None
    BY <1>0, <1>a, <2>1, <2>3, Zenon
  <2>7. Groups
    BY <1>a, <1>b, <1>s, <2>1, <2>2, <2>5, <2>6, ZenonT(30)
  <2>8. QED
    BY <1>1, <1>2, <2>7, Zenon DEF SafeInv
<1>8. ASSUME NEW t \in Txn, Single(t) PROVE SafeInv'
  <2>1. PICK h \in Txn :
              /\ h = Head(todo[t]) /\ In(todo[t], h)
              /\ grp' = IF grp = None THEN h ELSE grp
              /\ pc[t] = "single" /\ pc'[t] = IF grp = None THEN "sync" ELSE "groupWait"
              /\ via'[t] = grp' /\ UNCHANGED <<gres, todo>>
              /\ \A u \in Txn : u # t => pc'[u] = pc[u] /\ via'[u] = via[u]
    BY <1>8, SingleLogs, Zenon
  <2>2. h \notin Committed
    <3>1. ~Written(h)
      BY <1>s, <2>1, Zenon DEF OnceInv, Untried
    <3>2. /\ \A i \in 1..Len(log) : Full[i] = log[i] /\ i \in 1..Len(Full)
      BY ConcatFacts DEF CoordInv, WalType, Full
    <3>3. QED
      BY <3>1, <3>2, Zenon DEF Written, Committed
  <2>3. gres[h] = None /\ \A u \in Txn : pc[u] \in Syncing => via[u] # h
    BY <2>2, Zenon DEF LoggedInv
  <2>4. CASE grp = None
    <3>1. Groups
      BY <1>a, <1>b, <1>s, <2>1, <2>3, <2>4, ZenonT(30)
    <3>2. QED
      BY <1>1, <1>2, <3>1, Zenon DEF SafeInv
  <2>5. CASE grp # None
    <3>1. pc'[t] = "groupWait" /\ via'[t] = grp /\ grp' = grp /\ gres[grp] = None
          /\ \A u \in Txn : pc[u] \in {"synced", "syncFailed"} => via[u] # grp
      BY <1>a, <2>1, <2>5, Zenon
    <3>2. \A u \in Txn : pc'[u] \in {"synced", "syncFailed"} =>
               u # t /\ pc[u] = pc'[u] /\ via'[u] = via[u]
      BY <2>1, <3>1, Zenon
    <3>3. \A u \in Txn : pc'[u] = "synced" => Head(todo'[u]) \in Synced'
      BY <1>a, <1>b, <2>1, <3>2, Zenon
    <3>4. \A u \in Txn : pc'[u] = "groupWait" /\ gres'[via'[u]] = "Ok"
             => Head(todo'[u]) \in Synced'
      BY <1>a, <1>b, <1>n, <2>1, <3>1, Zenon
    <3>5. \A u, v \in Txn : pc'[u] = "groupWait" /\ pc'[v] = "synced" /\ via'[v] = via'[u]
             => Head(todo'[u]) \in Synced'
      <4>1. ASSUME NEW u \in Txn, NEW v \in Txn,
                   pc'[u] = "groupWait", pc'[v] = "synced", via'[v] = via'[u]
            PROVE  Head(todo'[u]) \in Synced'
        <5>1. pc[v] = "synced" /\ via'[v] = via[v] /\ via[v] # grp
          BY <3>1, <3>2, <4>1, Zenon
        <5>2. u # t
          BY <3>1, <4>1, <5>1, Zenon
        <5>3. pc[u] = "groupWait" /\ via[v] = via[u] /\ todo' = todo
          BY <2>1, <4>1, <5>1, <5>2, Zenon
        <5>4. QED
          BY <1>a, <1>b, <5>1, <5>3, Zenon
      <4>2. QED
        BY <4>1, Zenon
    <3>6. Groups
      BY <2>1, <3>1, <3>2, <3>3, <3>4, <3>5, Zenon
    <3>7. QED
      BY <1>1, <1>2, <3>6, Zenon DEF SafeInv
  <2>6. QED
    BY <2>4, <2>5, Zenon
<1>9. QED
  BY <1>3, <1>4, <1>5, <1>6, <1>7, <1>8, GroupClasses, Zenon

-----------------------------------------------------------------------------
(* No version of a row loses an effect.                                    *)

LEMMA RowExact ==
    ASSUME log \in Seq(RecordType), Exact(log), NEW k, NEW n \in 0..Len(log)
    PROVE  Row(k, n) = {log[j].txn : j \in Writers(k, n)}
<1> DEFINE L == Latest(k, n)
<1>0. /\ L \in 0..n /\ n \in Nat /\ Len(log) \in Nat /\ n <= Len(log)
      /\ \A i \in 1..n : k \in DOMAIN log[i].rows => i <= L
      /\ L # 0 => k \in DOMAIN log[L].rows
  BY LatestFacts
<1>1. Row(k, n) = IF L = 0 THEN {} ELSE log[L].rows[k]
  BY Zenon DEF Row
<1> HIDE DEF L
<1>2. CASE L = 0
  <2>1. Writers(k, n) = {}
    BY <1>0, <1>2 DEF Writers
  <2>2. QED
    BY <1>1, <1>2, <2>1, Zenon
<1>3. CASE L # 0
  <2>1. L \in 1..Len(log) /\ k \in DOMAIN log[L].rows
    BY <1>0, <1>3
  <2>2. log[L].rows[k] = {log[j].txn : j \in {h \in 1..L : k \in DOMAIN log[h].rows}}
    BY <2>1, Zenon DEF Exact
  <2>3. {h \in 1..L : k \in DOMAIN log[h].rows} = Writers(k, n)
    <3>1. \A h : h \in 1..L /\ k \in DOMAIN log[h].rows
                 <=> h \in 1..n /\ k \in DOMAIN log[h].rows
      BY <1>0, <2>1
    <3>2. QED
      BY <3>1, Zenon DEF Writers
  <2>4. QED
    BY <1>1, <1>3, <2>2, <2>3, Zenon
<1>4. QED
  BY <1>2, <1>3, Zenon

LEMMA ExactPrefix ==
    ASSUME NEW l \in Seq(RecordType), NEW p \in Seq(RecordType), Len(p) <= Len(l),
           \A i \in 1..Len(p) : p[i] = l[i], Exact(l)
    PROVE  Exact(p)
<1> SUFFICES ASSUME NEW i \in 1..Len(p), NEW k \in DOMAIN p[i].rows
             PROVE  p[i].rows[k] = {p[j].txn : j \in {h \in 1..i : k \in DOMAIN p[h].rows}}
  BY Zenon DEF Exact
<1>1. i \in 1..Len(l) /\ p[i] = l[i] /\ \A h \in 1..i : p[h] = l[h]
  OBVIOUS
<1>2. p[i].rows[k] = {l[j].txn : j \in {h \in 1..i : k \in DOMAIN l[h].rows}}
  BY <1>1, Zenon DEF Exact
<1>3. {h \in 1..i : k \in DOMAIN l[h].rows} = {h \in 1..i : k \in DOMAIN p[h].rows}
  BY <1>1, Zenon
<1>4. QED
  BY <1>1, <1>2, <1>3, Zenon

LEMMA ExactAdds ==
    ASSUME CoordInv, Exact(log), NEW ns, Adds(ns)
    PROVE  Exact(log \o ns)
<1> DEFINE f == log \o ns
<1>0. /\ log \in Seq(RecordType) /\ ns \in Seq(RecordType) /\ WalType /\ ThreadType
      /\ Len(log) \in Nat /\ Len(ns) \in Nat
  BY DEF CoordInv, WalType, Adds
<1>1. /\ f \in Seq(RecordType) /\ Len(f) = Len(log) + Len(ns)
      /\ \A i \in 1..Len(log) : f[i] = log[i]
      /\ \A i \in 1..Len(ns) : f[Len(log) + i] = ns[i]
  BY <1>0, ConcatFacts
<1>2. PICK t \in Txn, ms \in Seq(Txn) :
          /\ Commits(t, ms) /\ Len(ns) <= Len(ms)
          /\ \A i \in 1..Len(ns) : ns[i] = Record(ms[i])
  BY Zenon DEF Adds
<1> HIDE DEF f
<1> SUFFICES ASSUME NEW i \in 1..Len(f), NEW k \in DOMAIN f[i].rows
             PROVE  f[i].rows[k] = {f[j].txn : j \in {h \in 1..i : k \in DOMAIN f[h].rows}}
  BY Zenon DEF Exact, f
<1>3. CASE i <= Len(log)
  <2>1. i \in 1..Len(log) /\ f[i] = log[i] /\ \A h \in 1..i : f[h] = log[h]
    BY <1>0, <1>1, <1>3
  <2>2. f[i].rows[k] = {log[j].txn : j \in {h \in 1..i : k \in DOMAIN log[h].rows}}
    BY <2>1, Zenon DEF Exact
  <2>3. {h \in 1..i : k \in DOMAIN log[h].rows} = {h \in 1..i : k \in DOMAIN f[h].rows}
    BY <2>1, Zenon
  <2>4. QED
    BY <2>1, <2>2, <2>3, Zenon
<1>4. CASE i > Len(log)
  <2>1. PICK a \in 1..Len(ns) : i = Len(log) + a
    <3>1. i - Len(log) \in 1..Len(ns) /\ i = Len(log) + (i - Len(log))
      BY <1>0, <1>1, <1>4
    <3>2. QED
      BY <3>1, Zenon
  <2>2. a \in 1..Len(ms)
    BY <1>0, <1>2
  <2>3. PICK m \in Txn : m = ms[a] /\ tx[m].snap <= Len(log) /\ (Stale(m) => tx[m].delta)
    BY <1>2, <2>2, Zenon DEF Commits
  <2>4. f[i] = Record(m)
    BY <1>1, <1>2, <2>1, <2>3, Zenon
  <2>5. Record(m).txn = m /\ DOMAIN Record(m).rows = tx[m].keys
    BY <1>0, <2>3, RecordFacts, Zenon
  <2>6. k \in tx[m].keys
    BY <2>4, <2>5, Zenon
  <2> DEFINE n == IF tx[m].delta THEN Len(log) ELSE tx[m].snap
  <2>7. f[i].rows[k] = {m} \cup Row(k, n)
    BY <2>4, <2>6 DEF Record
  <2>8. n \in 0..Len(log)
    BY <1>0, <2>3 DEF ThreadType, StagedType
  <2>9. Writers(k, n) = Writers(k, Len(log))
    <3>1. CASE tx[m].delta
      BY <3>1, Zenon
    <3>2. CASE ~tx[m].delta
      <4>1. n = tx[m].snap /\ ~Stale(m)
        BY <2>3, <3>2, Zenon
      <4>2. ~(Latest(k, Len(log)) > n)
        BY <2>6, <4>1, Zenon DEF Stale
      <4> HIDE DEF n
      <4>3. /\ Latest(k, Len(log)) \in 0..Len(log)
            /\ \A h \in 1..Len(log) : k \in DOMAIN log[h].rows => h <= Latest(k, Len(log))
        <5>1. Len(log) \in 0..Len(log)
          BY <1>0
        <5>2. QED
          BY <1>0, <5>1, LatestFacts, Zenon
      <4>4. \A h : h \in 1..n /\ k \in DOMAIN log[h].rows
                   <=> h \in 1..Len(log) /\ k \in DOMAIN log[h].rows
        BY <1>0, <2>8, <4>2, <4>3
      <4>5. QED
        BY <4>4, Zenon DEF Writers
    <3>3. QED
      BY <3>1, <3>2, Zenon
  <2> HIDE DEF n
  <2>10. Row(k, n) = {log[j].txn : j \in Writers(k, Len(log))}
    BY <1>0, <2>8, <2>9, RowExact, Zenon
  <2>11. \A b \in 1..Len(ns) : b # a => k \notin DOMAIN f[Len(log) + b].rows
    <3> SUFFICES ASSUME NEW b \in 1..Len(ns), b # a
                 PROVE  k \notin DOMAIN f[Len(log) + b].rows
      BY Zenon
    <3>1. b \in 1..Len(ms)
      BY <1>0, <1>2
    <3>2. PICK o \in Txn : /\ o = ms[b] /\ tx[o].snap <= Len(log)
                           /\ tx[o].keys \cap tx[m].keys = {}
      BY <1>2, <2>2, <2>3, <3>1, Zenon DEF Commits
    <3>3. f[Len(log) + b] = Record(o)
      BY <1>1, <1>2, <3>2, Zenon
    <3>4. DOMAIN Record(o).rows = tx[o].keys
      BY <1>0, <3>2, RecordFacts, Zenon
    <3>5. QED
      BY <2>6, <3>2, <3>3, <3>4, Zenon
  <2>12. \A h : h \in 1..i /\ k \in DOMAIN f[h].rows <=> h = i \/ h \in Writers(k, Len(log))
    <3>1. ASSUME NEW h \in 1..i, k \in DOMAIN f[h].rows, h # i
          PROVE  h \in 1..Len(log)
      <4>1. h > Len(log) => h - Len(log) \in 1..Len(ns) /\ h - Len(log) # a
                            /\ h = Len(log) + (h - Len(log))
        BY <1>0, <2>1, <3>1
      <4>2. ~(h > Len(log))
        BY <2>11, <3>1, <4>1, Zenon
      <4>3. QED
        <5>1. Len(log) \in Nat
          BY <1>0, Zenon
        <5>2. QED
          BY <4>2, <5>1
    <3>2. \A h \in 1..Len(log) : h \in 1..i /\ f[h] = log[h]
      BY <1>0, <1>1, <1>4
    <3>3. i \in 1..i
      BY <1>1
    <3>4. QED
      BY <3>1, <3>2, <3>3, Zenon DEF Writers
  <2>13. {h \in 1..i : k \in DOMAIN f[h].rows} = {i} \cup Writers(k, Len(log))
    BY <2>12, Zenon
  <2>14. {f[j].txn : j \in {i} \cup Writers(k, Len(log))}
             = {m} \cup {log[j].txn : j \in Writers(k, Len(log))}
    <3>1. f[i].txn = m
      BY <2>4, <2>5, Zenon
    <3>2. \A j \in Writers(k, Len(log)) : f[j] = log[j]
      BY <1>1, Zenon DEF Writers
    <3>3. QED
      BY <3>1, <3>2, Zenon
  <2>15. QED
    BY <2>7, <2>10, <2>13, <2>14, Zenon
<1>5. i <= Len(log) \/ i > Len(log)
  BY <1>0, <1>1
<1>6. QED
  BY <1>3, <1>4, <1>5, Zenon

LEMMA ExactStep ==
    ASSUME [Next]_vars, CoordInv, Exact(Full)
    PROVE  Exact(Full)'
<1>0. /\ log \in Seq(RecordType) /\ stray \in Seq(RecordType) /\ Len(log) \in Nat
      /\ Full \in Seq(RecordType) /\ Full' \in Seq(RecordType)
  BY FullCases DEF CoordInv, WalType
<1>1. Exact(Full)' <=> Exact(Full')
  BY Zenon DEF Exact
<1>2. Len(log) <= Len(Full) /\ \A i \in 1..Len(log) : log[i] = Full[i]
  BY <1>0, ConcatFacts DEF Full
<1>3. Exact(log)
  BY <1>0, <1>2, ExactPrefix, Zenon
<1>4. CASE Full' = Full
  BY <1>1, <1>4, Zenon
<1>5. ASSUME NEW ns, Adds(ns), Full' = log \o ns PROVE Exact(Full')
  BY <1>3, <1>5, ExactAdds, Zenon
<1>6. ASSUME NEW n \in 0..Len(log), Full' = SubSeq(log, 1, n) PROVE Exact(Full')
  <2>1. Len(Full') <= Len(log) /\ \A i \in 1..Len(Full') : Full'[i] = log[i]
    BY <1>0, <1>6
  <2>2. QED
    BY <1>0, <1>3, <2>1, ExactPrefix, Zenon
<1>7. QED
  BY <1>1, <1>4, <1>5, <1>6, FullCases, Zenon

-----------------------------------------------------------------------------
(* The invariant, and what follows from it.                                *)

CommitInv == CoordInv /\ OnceInv /\ LoggedInv /\ Exact(Full)

LEMMA CommitInit == Init => CommitInv /\ SafeInv
<1> SUFFICES ASSUME Init PROVE CommitInv /\ SafeInv
  BY Zenon
<1>1. /\ log = <<>> /\ stray = <<>> /\ durable = 0 /\ grp = None
      /\ gres = [t \in Txn |-> None] /\ pc = [t \in Txn |-> "idle"]
      /\ held = [t \in Txn |-> <<>>] /\ result = [t \in Txn |-> None]
  BY Zenon DEF Init
<1>2. Full = <<>>
  BY <1>1 DEF Full
<1>3. OnceInv /\ Exact(Full)
  BY <1>1, <1>2 DEF OnceInv, Exact, Written
<1>4. "idle" \notin Syncing /\ None # "Ok"
  BY CommitAssumption, Zenon DEF Syncing, Told
<1>5. LoggedInv
  BY <1>1, <1>4 DEF LoggedInv
<1>6. SafeInv
  BY <1>1, <1>4 DEF SafeInv
<1>7. QED
  BY <1>3, <1>5, <1>6, CoordInit, Zenon DEF CommitInv

LEMMA CommitStep == CommitInv /\ [Next]_vars => CommitInv'
<1> SUFFICES ASSUME CommitInv, [Next]_vars PROVE CommitInv'
  BY Zenon
<1>1. CoordInv /\ OnceInv /\ LoggedInv /\ Exact(Full)
  BY Zenon DEF CommitInv
<1>2. CoordInv' /\ OnceInv' /\ LoggedInv' /\ Exact(Full)'
  BY <1>1, CoordStep, OnceStep, LoggedStep, ExactStep, Zenon
<1>3. QED
  BY <1>2, Zenon DEF CommitInv

(* The log is the first part of the file. *)
LEMMA LogInFile ==
    ASSUME CoordInv
    PROVE  /\ log \in Seq(RecordType) /\ Len(log) \in Nat /\ Full \in Seq(RecordType)
           /\ Len(log) <= Len(Full) /\ \A i \in 1..Len(log) : Full[i] = log[i]
<1>1. log \in Seq(RecordType) /\ stray \in Seq(RecordType)
  BY Zenon DEF CoordInv, WalType
<1>2. QED
  BY <1>1, ConcatFacts DEF Full

(* First-committer-wins across the single path, the batch and the delta    *)
(* replay, for any number of rows and threads and through any crash: the   *)
(* latest version of a row holds the effect of every committed writer.     *)
THEOREM LosesNoUpdate == Spec => []NoLostUpdate
<1>1. CommitInv => NoLostUpdate
  <2> SUFFICES ASSUME CommitInv, NEW k \in Key PROVE Row(k, Len(log)) = WritersOf(k)
    BY Zenon DEF NoLostUpdate
  <2>1. CoordInv /\ Exact(Full)
    BY Zenon DEF CommitInv
  <2>2. Exact(log) /\ log \in Seq(RecordType) /\ Len(log) \in 0..Len(log)
    BY <2>1, LogInFile, ExactPrefix
  <2>3. QED
    BY <2>2, RowExact, Zenon DEF WritersOf
<1>2. QED
  BY <1>1, CommitInit, CommitStep, PTL DEF Spec

(* Durability::Safe, "survives OS crash": where a failed fsync keeps its   *)
(* dirty pages, a transaction answered Ok is in the history through every  *)
(* crash that follows.                                                     *)
THEOREM KeepsAcked ==
    ASSUME ~Discards
    PROVE  Spec => []AckedSurvives
<1>1. CommitInv /\ SafeInv /\ [Next]_vars => (CommitInv /\ SafeInv)'
  <2> SUFFICES ASSUME CommitInv, SafeInv, [Next]_vars PROVE CommitInv' /\ SafeInv'
    BY Zenon
  <2>1. CoordInv /\ OnceInv /\ LoggedInv
    BY Zenon DEF CommitInv
  <2>2. QED
    BY <2>1, CommitStep, SafeStep, Zenon
<1>2. CommitInv /\ SafeInv => AckedSurvives
  <2> SUFFICES ASSUME CommitInv, SafeInv, mode = "Safe", NEW t \in Txn, result[t] = "Ok"
               PROVE  t \in Committed
    BY Zenon DEF AckedSurvives
  <2>1. t \in Synced
    BY Zenon DEF SafeInv
  <2>2. durable \in 0..Len(log) /\ log \in Seq(RecordType)
    BY Zenon DEF CommitInv, CoordInv, WalType
  <2>3. QED
    BY <2>1, <2>2 DEF Synced, Committed
<1>3. QED
  BY <1>1, <1>2, CommitInit, PTL DEF Spec

-----------------------------------------------------------------------------
(* The commit path implements the history.                                 *)

HistOf(l) == [i \in 1..Len(l) |-> l[i].txn]
Hist == HistOf(log)

LEMMA HistFacts ==
    ASSUME NEW l \in Seq(RecordType)
    PROVE  /\ HistOf(l) \in Seq(Txn) /\ Len(HistOf(l)) = Len(l) /\ Len(l) \in Nat
           /\ \A i \in 1..Len(l) : HistOf(l)[i] = l[i].txn
<1>1. \A i \in 1..Len(l) : l[i] \in RecordType
  OBVIOUS
<1>2. \A i \in 1..Len(l) : l[i].txn \in Txn
  BY <1>1, Zenon DEF RecordType
<1>3. QED
  BY <1>2 DEF HistOf

(* What a caller is told agrees with the log. *)
LEMMA ToldTruly ==
    ASSUME [Next]_vars, CommitInv, mode = "Safe", NEW m \in Txn, result'[m] # result[m]
    PROVE  /\ result[m] = None
           /\ result'[m] \in {"Ok", "Unknown"} => m \in Committed'
           /\ result'[m] \in {"Conflict", "Refused", "Fenced"} => m \notin Committed'
<1>0. CoordInv /\ OnceInv /\ LoggedInv
  BY Zenon DEF CommitInv
<1>1. PICK t \in Txn : Tells(t, m)
  BY <1>0, ToldCases, Zenon
<1>2. result[m] = None
  BY <1>0, ToldCases, Zenon
<1>3. UNCHANGED wal => Committed' = Committed
  BY Zenon DEF wal, Committed
<1>4. ASSUME Untried(m) PROVE m \notin Committed
  <2>1. ~Written(m)
    BY <1>0, <1>4, Zenon DEF OnceInv
  <2>2. \A i \in 1..Len(log) : Full[i] = log[i] /\ i \in 1..Len(Full)
    BY <1>0, LogInFile
  <2>3. QED
    BY <2>1, <2>2, Zenon DEF Written, Committed
<1>5. CASE pc[t] = "open" /\ t = m /\ result'[m] \in {"Fenced", "Refused"} /\ UNCHANGED wal
  <2>1. Untried(m)
    BY <1>5, Zenon DEF Untried, Fresh
  <2>2. QED
    BY <1>2, <1>3, <1>4, <1>5, <2>1, Zenon
<1>6. ASSUME NEW i \in 1..Len(held[t]), held[t][i].txn = m, result'[m] = held[t][i].told,
             UNCHANGED wal
      PROVE  result'[m] \in {"Ok", "Unknown", "Io"} /\ (result'[m] # "Io" => m \in Committed')
  <2>1. held[t] \in Seq(HeldType)
    BY <1>0, Zenon DEF CoordInv, ThreadType
  <2>2. held[t][i] \in HeldType
    BY <2>1
  <2>3. QED
    BY <1>0, <1>3, <1>6, <2>2, ZenonT(30) DEF HeldType, LoggedInv
<1>7. ASSUME pc[t] = "single", m = Head(todo[t]), result'[m] \in {"Conflict", "Refused"},
             UNCHANGED wal
      PROVE  m \notin Committed'
  <2>1. todo[t] \in Seq(Txn) /\ todo[t] # <<>>
    BY <1>0, <1>7, Zenon DEF CoordInv, ThreadType, PlaceInv, Working
  <2>2. In(todo[t], m)
    <3>1. In(todo[t], Head(todo[t]))
      BY <2>1 DEF In
    <3>2. QED
      BY <1>7, <3>1, Zenon
  <2>3. Untried(m)
    BY <1>7, <2>2, Zenon DEF Untried, Syncing
  <2>4. QED
    BY <1>3, <1>4, <1>7, <2>3, Zenon
<1>8. ASSUME pc[t] \in Syncing, m = Head(todo[t]), UNCHANGED wal
      PROVE  m \in Committed'
  BY <1>0, <1>3, <1>8, Zenon DEF LoggedInv
<1>9. {"synced", "syncFailed", "groupWait"} \subseteq Syncing
  BY Zenon DEF Syncing
<1>10. QED
  BY <1>1, <1>2, <1>5, <1>6, <1>7, <1>8, <1>9, ZenonT(30) DEF Tells

(* The records of a step extend the history by requests without an answer. *)
LEMMA Extends ==
    ASSUME CommitInv, CommitInv', NEW ns \in Seq(RecordType), log' = log \o ns, ns # <<>>,
           \A i \in 1..Len(ns) : result[ns[i].txn] \in {None, "Io"}
    PROVE  History!Grow
<1>0. CoordInv /\ CoordInv' /\ OnceInv'
  BY Zenon DEF CommitInv
<1>1. /\ Hist \in Seq(Txn) /\ Len(Hist) = Len(log) /\ Len(log) \in Nat
      /\ \A i \in 1..Len(log) : Hist[i] = log[i].txn
      /\ Hist' \in Seq(Txn) /\ Len(Hist') = Len(log') /\ Len(log') \in Nat
      /\ \A i \in 1..Len(log') : Hist'[i] = log'[i].txn
  <2>1. log \in Seq(RecordType) /\ log' \in Seq(RecordType)
    BY <1>0, Zenon DEF CoordInv, WalType
  <2>2. Hist = HistOf(log) /\ Hist' = HistOf(log')
    BY Zenon DEF Hist, HistOf
  <2>3. QED
    BY <2>1, <2>2, HistFacts, Zenon
<1>2. /\ Len(log') = Len(log) + Len(ns) /\ Len(ns) \in Nat /\ Len(ns) > 0
      /\ \A i \in 1..Len(log) : log'[i] = log[i]
      /\ \A i \in 1..Len(ns) : log'[Len(log) + i] = ns[i]
  BY <1>0, LogInFile, ConcatFacts
<1>3. Len(Hist') > Len(Hist)
  BY <1>1, <1>2
<1>4. SubSeq(Hist', 1, Len(Hist)) = Hist
  <2>1. \A i \in 1..Len(Hist) : Hist'[i] = Hist[i]
    BY <1>1, <1>2
  <2>2. QED
    BY <1>1, <1>3, <2>1
<1>5. ASSUME NEW i \in Len(Hist) + 1 .. Len(Hist')
      PROVE  /\ result[Hist'[i]] \in {None, "Io"}
             /\ \A j \in 1..(i - 1) : Hist'[j] # Hist'[i]
  <2>1. i \in 1..Len(log') /\ i - Len(log) \in 1..Len(ns) /\ i = Len(log) + (i - Len(log))
    BY <1>1, <1>2
  <2>2. log'[i] = ns[i - Len(log)]
    BY <1>2, <2>1, Zenon
  <2>3. result[Hist'[i]] \in {None, "Io"}
    BY <1>1, <2>1, <2>2, Zenon
  <2>4. \A j \in 1..Len(log') : Full'[j] = log'[j] /\ j \in 1..Len(Full')
    <3>1. log' \in Seq(RecordType) /\ stray' \in Seq(RecordType)
      BY <1>0, Zenon DEF CoordInv, WalType
    <3>2. QED
      BY <3>1, ConcatFacts DEF Full
  <2>5. \A j, h \in 1..Len(Full') : Full'[j].txn = Full'[h].txn => j = h
    BY <1>0, Zenon DEF OnceInv
  <2>6. \A j \in 1..(i - 1) : j \in 1..Len(log') /\ j # i
    BY <1>1, <2>1
  <2>7. \A j \in 1..Len(log') : j # i => log'[j].txn # log'[i].txn
    BY <2>1, <2>4, <2>5, Zenon
  <2>8. QED
    BY <1>1, <2>1, <2>3, <2>6, <2>7, ZenonT(30)
<1>6. QED
  BY <1>3, <1>4, <1>5, Zenon DEF History!Grow, Hist, HistOf

(* A sequence that agrees with a longer one is its start. *)
LEMMA StartEqual ==
    ASSUME NEW S, NEW s \in Seq(S), NEW t \in Seq(S), Len(t) <= Len(s),
           \A i \in 1..Len(t) : t[i] = s[i]
    PROVE  t = SubSeq(s, 1, Len(t))
  OBVIOUS

LEMMA HistoryStep ==
    ASSUME [Next]_vars, CommitInv, CommitInv', SafeInv', mode = "Safe"
    PROVE  [History!Next]_(History!vars)
<1>0. /\ CoordInv /\ CoordInv' /\ OnceInv /\ PlaceInv /\ mode' = "Safe"
      /\ log \in Seq(RecordType) /\ stray \in Seq(RecordType) /\ Len(log) \in Nat
  BY ModeKept DEF CommitInv, CoordInv, WalType
<1>1. /\ Hist \in Seq(Txn) /\ Len(Hist) = Len(log)
      /\ \A i \in 1..Len(log) : Hist[i] = log[i].txn
  BY <1>0, HistFacts, Zenon DEF Hist
<1>2. /\ Hist' \in Seq(Txn) /\ Len(Hist') = Len(log') /\ Len(log') \in Nat
      /\ \A i \in 1..Len(log') : Hist'[i] = log'[i].txn
      /\ \A m : m \in Committed' <=> \E i \in 1..Len(Hist') : Hist'[i] = m
  <2>1. log' \in Seq(RecordType)
    BY <1>0, Zenon DEF CoordInv, WalType
  <2>2. Hist' = HistOf(log')
    BY Zenon DEF Hist, HistOf
  <2>3. /\ Hist' \in Seq(Txn) /\ Len(Hist') = Len(log') /\ Len(log') \in Nat
        /\ \A i \in 1..Len(log') : Hist'[i] = log'[i].txn
    BY <2>1, <2>2, HistFacts, Zenon
  <2>4. QED
    BY <2>3, Zenon DEF Committed
<1>3. History!Tell
  <2> SUFFICES ASSUME NEW m \in Txn, result'[m] # result[m]
               PROVE  /\ result[m] = None
                      /\ result'[m] \in {"Ok", "Unknown"} =>
                             \E i \in 1..Len(Hist') : Hist'[i] = m
                      /\ result'[m] \in {"Conflict", "Refused", "Fenced"} =>
                             \A i \in 1..Len(Hist') : Hist'[i] # m
    BY Zenon DEF History!Tell, History!Published, History!Refused, Hist, HistOf
  <2>1. QED
    BY <1>2, ToldTruly, Zenon
<1>4. UNCHANGED log => History!Next
  BY <1>3, Zenon DEF History!Next
<1>5. ASSUME NEW ns, Adds(ns), ns # <<>>, log' = log \o ns PROVE History!Next
  <2>1. PICK t \in Txn, ms \in Seq(Txn) :
          /\ Commits(t, ms) /\ Len(ns) <= Len(ms)
          /\ \A i \in 1..Len(ns) : ns[i] = Record(ms[i])
    BY <1>5, Zenon DEF Adds
  <2>2. ns \in Seq(RecordType)
    BY <1>5, Zenon DEF Adds
  <2>3. ASSUME NEW i \in 1..Len(ns) PROVE result[ns[i].txn] = None
    <3>1. i \in 1..Len(ms)
      BY <2>1, <2>2
    <3>2. ms[i] \in Txn /\ In(todo[t], ms[i])
      BY <2>1, <3>1, Zenon DEF Commits
    <3>3. ns[i].txn = ms[i]
      <4>1. Record(ms[i]).txn = ms[i]
        BY Zenon DEF Record
      <4>2. QED
        BY <2>1, <4>1, Zenon
    <3>4. QED
      BY <1>0, <3>2, <3>3, Zenon DEF PlaceInv
  <2>4. History!Grow
    BY <1>5, <2>2, <2>3, Extends, Zenon
  <2>5. QED
    BY <1>3, <2>4, Zenon DEF History!Next
<1>6. ASSUME log' = log \o stray PROVE History!Next
  <2>1. CASE stray = <<>>
    BY <1>0, <1>4, <1>6, <2>1, ConcatFacts, Zenon
  <2>2. CASE stray # <<>>
    <3>1. History!Grow
      BY <1>0, <1>6, <2>2, Extends, Zenon DEF OnceInv
    <3>2. QED
      BY <1>3, <3>1, Zenon DEF History!Next
  <2>3. QED
    BY <2>1, <2>2, Zenon
<1>7. ASSUME Restart, NEW n \in 0..Len(log), log' = SubSeq(log, 1, n) PROVE History!Next
  <2>1. /\ Len(log') = n /\ \A i \in 1..n : log'[i] = log[i]
        /\ result' = result
    BY <1>0, <1>7 DEF Restart
  <2>2. Len(Hist') <= Len(Hist) /\ Hist' = SubSeq(Hist, 1, Len(Hist'))
    <3>1. Len(log) \in Nat /\ n \in 0..Len(log) /\ Len(log') = n
      BY <1>0, <2>1, Zenon
    <3>2. n <= Len(log) /\ \A i \in 1..n : i \in 1..Len(log) /\ i \in 1..Len(log')
      BY <3>1
    <3>3. ASSUME NEW i \in 1..n PROVE Hist'[i] = Hist[i]
      <4>1. Hist'[i] = log'[i].txn
        BY <1>2, <3>2, Zenon
      <4>2. Hist[i] = log[i].txn
        BY <1>1, <3>2, Zenon
      <4>3. log'[i] = log[i]
        BY <2>1, Zenon
      <4>4. QED
        BY <4>1, <4>2, <4>3, Zenon
    <3>4. Hist \in Seq(Txn) /\ Hist' \in Seq(Txn) /\ Len(Hist') = n /\ Len(Hist') <= Len(Hist)
      BY <1>1, <1>2, <3>1, <3>2, Zenon
    <3>5. QED
      BY <3>3, <3>4, StartEqual, Zenon
  <2>3. ASSUME NEW i \in Len(Hist') + 1 .. Len(Hist), result[Hist[i]] = "Ok" PROVE FALSE
    <3>1. i \in 1..Len(log) /\ i > n /\ Hist[i] = log[i].txn /\ Hist[i] \in Txn
      BY <1>0, <1>1, <1>2, <2>1
    <3>2. Hist[i] \in Synced'
      BY <1>0, <2>1, <2>3, <3>1, Zenon DEF SafeInv
    <3>3. PICK j \in 1..durable' : log'[j].txn = log[i].txn
      BY <3>1, <3>2, Zenon DEF Synced
    <3>4. durable' \in 0..Len(log')
      BY <1>0, Zenon DEF CoordInv, WalType
    <3>5. j \in 1..n /\ j \in 1..Len(log) /\ log[j].txn = log[i].txn
      BY <1>0, <2>1, <3>3, <3>4, SMTT(20)
    <3>6. \A h \in 1..Len(log) : Full[h] = log[h] /\ h \in 1..Len(Full)
      BY <1>0, LogInFile
    <3>7. j = i
      BY <1>0, <3>1, <3>5, <3>6, Zenon DEF OnceInv
    <3>8. QED
      BY <3>1, <3>5, <3>7, SMTT(20)
  <2>4. History!Cut
    BY <2>1, <2>2, <2>3, Zenon DEF History!Cut, Hist, HistOf
  <2>5. QED
    BY <2>4, Zenon DEF History!Next
<1>8. QED
  BY <1>0, <1>4, <1>5, <1>6, <1>7, FileCases, ZenonT(30)

(* In Safe mode, and where a failed fsync keeps its dirty pages, the       *)
(* threads, queues, groups and files of the commit path implement the      *)
(* history its callers are promised: an answer is given once and agrees    *)
(* with the history, each transaction enters it once, and a crash drops    *)
(* nothing that was acknowledged.                                          *)
THEOREM Implements ==
    ASSUME ~Discards
    PROVE  Spec /\ mode = "Safe" => ImplementsHistory
<1> DEFINE Inv == CommitInv /\ SafeInv /\ mode = "Safe"
<1>1. Init /\ mode = "Safe" => Inv
  BY CommitInit, Zenon
<1>2. Inv /\ [Next]_vars => Inv'
  <2> SUFFICES ASSUME Inv, [Next]_vars PROVE Inv'
    BY Zenon
  <2>1. CoordInv /\ OnceInv /\ LoggedInv
    BY Zenon DEF CommitInv
  <2>2. CommitInv' /\ SafeInv' /\ mode' = mode
    BY <2>1, CommitStep, SafeStep, ModeKept, Zenon
  <2>3. QED
    BY <2>2, Zenon
<1>3. Init => History!Init
  BY DEF Init, History!Init
<1>4. Inv /\ Inv' /\ [Next]_vars => [History!Next]_(History!vars)
  BY HistoryStep, Zenon
<1> HIDE DEF Inv
<1>5. QED
  BY <1>1, <1>2, <1>3, <1>4, PTL DEF Spec, ImplementsHistory, History!Spec
=============================================================================
