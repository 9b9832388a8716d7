---------------------------- MODULE CommitFacts -----------------------------
(***************************************************************************)
(* How the threads of the commit path share its work, for every number of  *)
(* callers, rows and faults: one thread leads the coordinator, every sync  *)
(* group has a thread that will complete it, and the writer's unsynced     *)
(* flag is honest.                                                         *)
(*                                                                         *)
(* First the facts the proofs about the commit path share: the types,      *)
(* where a request may be, what the operators of CommitPath return, and    *)
(* the steps sorted by what they do to the threads and to the WAL writer.  *)
(* The invariant says where a request is: nowhere yet, in the queue, in    *)
(* the hands of one thread (todo, held), or answered; and in what state    *)
(* its thread is meanwhile. The rest follows from that.                    *)
(*                                                                         *)
(* CommitPath defines the members of a batch by recursion. The induction   *)
(* theorems of the library take the property as an operator, which the     *)
(* provers cannot instantiate; here a property is the SET of the numbers   *)
(* that have it, so every fact is first-order. The least-number principle  *)
(* comes from the well-foundedness of < on Nat.                            *)
(***************************************************************************)
EXTENDS CommitPath, WellFoundedInduction, TLAPS

-----------------------------------------------------------------------------
(* Induction over the naturals and over an interval.                       *)

(* A non-empty set of naturals has a least element. *)
LEMMA LeastNatural ==
    ASSUME NEW T \in SUBSET Nat, T # {}
    PROVE  \E m \in T : \A k \in T : m <= k
<1>1. PICK m \in T : \A k \in T : ~(<<k, m>> \in OpToRel(<, Nat))
  BY NatLessThanWellFounded, WFMin, Zenon
<1>2. \A k \in T : ~(k < m)
  BY <1>1, Zenon DEF OpToRel
<1>3. QED
  BY <1>2

(* Induction over an interval. *)
LEMMA IntervalInduction ==
    ASSUME NEW lo \in Int, NEW hi \in Int, NEW S,
           lo \in S,
           \A i \in lo..hi : i # lo /\ i - 1 \in S => i \in S
    PROVE  lo..hi \subseteq S
<1> DEFINE Out == {n \in Nat : lo + n \in lo..hi /\ lo + n \notin S}
<1>1. SUFFICES ASSUME Out # {} PROVE FALSE
  <2>1. ASSUME NEW i \in lo..hi, i \notin S PROVE i - lo \in Out
    <3>1. i - lo \in Nat /\ lo + (i - lo) = i
      OBVIOUS
    <3>2. QED
      BY <2>1, <3>1, Zenon
  <2>2. QED
    BY <2>1, Zenon
<1>2. PICK n \in Out : \A k \in Out : n <= k
  <2>1. Out \in SUBSET Nat
    BY Zenon
  <2> HIDE DEF Out
  <2>2. QED
    BY <1>1, <2>1, LeastNatural, Zenon
<1>3. n # 0
  BY <1>2
<1>4. /\ n - 1 \in Nat /\ n - 1 < n /\ lo + (n - 1) = (lo + n) - 1
      /\ lo + n \in lo..hi /\ lo + n # lo
  BY <1>2, <1>3
<1>5. n - 1 \notin Out
  BY <1>2, <1>4
<1>6. (lo + n) - 1 \in S
  BY <1>4, <1>5
<1>7. QED
  BY <1>2, <1>4, <1>6, Zenon

(* A non-empty set of naturals with a bound has a greatest element, which  *)
(* is what Max returns.                                                    *)
LEMMA MaxFacts ==
    ASSUME NEW n \in Nat, NEW S \in SUBSET (0..n), S # {}
    PROVE  Max(S) \in S /\ \A y \in S : Max(S) >= y
<1> DEFINE Gaps == {d \in Nat : \E x \in S : d = n - x}
<1>1. PICK x \in S : TRUE
  BY Zenon
<1>2. n - x \in Gaps
  BY <1>1
<1>3. PICK d \in Gaps : \A e \in Gaps : d <= e
  <2>1. Gaps \in SUBSET Nat /\ Gaps # {}
    BY <1>2, Zenon
  <2> HIDE DEF Gaps
  <2>2. QED
    BY <2>1, LeastNatural, Zenon
<1>4. PICK m \in S : d = n - m
  BY <1>3, Zenon
<1>5. ASSUME NEW y \in S PROVE m >= y
  <2>1. n - y \in Gaps
    OBVIOUS
  <2>2. n - m <= n - y
    BY <1>3, <1>4, <2>1, Zenon
  <2>3. QED
    BY <2>2
<1>6. QED
  BY <1>5, Zenon DEF Max

-----------------------------------------------------------------------------
(* Recursive functions over an interval: the value at i comes from the     *)
(* value at i - 1 by the function G[i], which stays in V.                  *)

Closed(G, V, lo, hi) ==
    \A i \in lo..hi, v \in V : i # lo => G[i][v] \in V

Recursive(f, c, G, lo, hi) ==
    f = [i \in lo..hi |-> IF i = lo THEN c ELSE G[i][f[i - 1]]]

(* Such a function exists. *)
LEMMA Recursion ==
    ASSUME NEW lo \in Int, NEW hi \in Int, lo <= hi, NEW V, NEW c \in V, NEW G,
           Closed(G, V, lo, hi)
    PROVE  \E f \in [lo..hi -> V] : Recursive(f, c, G, lo, hi)
<1> DEFINE Steps(f, n) == f[lo] = c /\ \A i \in lo..n : i # lo => f[i] = G[i][f[i - 1]]
           S == {n \in lo..hi : \E f \in [lo..n -> V] : Steps(f, n)}
<1>1. lo \in S
  <2> DEFINE f == [i \in lo..lo |-> c]
  <2>1. f \in [lo..lo -> V] /\ f[lo] = c
    OBVIOUS
  <2>2. \A i \in lo..lo : i = lo
    OBVIOUS
  <2> HIDE DEF f
  <2>3. Steps(f, lo)
    BY <2>1, <2>2, Zenon
  <2> HIDE DEF Steps
  <2>4. QED
    BY <2>1, <2>3
<1>2. ASSUME NEW n \in lo..hi, n # lo, n - 1 \in S PROVE n \in S
  <2>1. PICK f \in [lo..(n - 1) -> V] : Steps(f, n - 1)
    BY <1>2, Zenon
  <2> DEFINE g == [i \in lo..n |-> IF i = n THEN G[n][f[n - 1]] ELSE f[i]]
  <2>2. n - 1 \in lo..(n - 1)
    BY <1>2
  <2>3. G[n][f[n - 1]] \in V
    BY <1>2, <2>2, Zenon DEF Closed
  <2>4. g \in [lo..n -> V]
    BY <1>2, <2>3
  <2>5. g[lo] = c
    BY <1>2, <2>1
  <2>6. ASSUME NEW i \in lo..n, i # lo PROVE g[i] = G[i][g[i - 1]]
    <3>1. i - 1 \in lo..(n - 1) /\ g[i - 1] = f[i - 1]
      BY <1>2, <2>6
    <3>2. CASE i = n
      BY <3>1, <3>2, Zenon
    <3>3. CASE i # n
      BY <2>1, <2>6, <3>1, <3>3
    <3>4. QED
      BY <3>2, <3>3, Zenon
  <2> HIDE DEF g
  <2>7. Steps(g, n)
    BY <2>5, <2>6, Zenon
  <2> HIDE DEF Steps
  <2>8. QED
    BY <2>4, <2>7, Zenon
<1> HIDE DEF S
<1>3. lo..hi \subseteq S
  BY <1>1, <1>2, IntervalInduction, Zenon
<1>4. PICK f \in [lo..hi -> V] : Steps(f, hi)
  BY <1>3 DEF S
<1>5. Recursive(f, c, G, lo, hi)
  BY <1>4, Zenon DEF Recursive
<1>6. QED
  BY <1>5, Zenon

-----------------------------------------------------------------------------
(* Sequences as lists of distinct members. *)

In(s, m) == \E i \in 1..Len(s) : s[i] = m
Distinct(s) == \A i, j \in 1..Len(s) : s[i] = s[j] => i = j

(* Appending a member. *)
LEMMA AppendFacts ==
    ASSUME NEW A, NEW s \in Seq(A), NEW x \in A
    PROVE  /\ Append(s, x) \in Seq(A) /\ Append(s, x) # <<>>
           /\ s # <<>> => Head(Append(s, x)) = Head(s)
           /\ s = <<>> => Head(Append(s, x)) = x
           /\ \A m : In(Append(s, x), m) <=> In(s, m) \/ m = x
           /\ Distinct(s) /\ ~In(s, x) => Distinct(Append(s, x))
<1> DEFINE a == Append(s, x)
<1>1. /\ a \in Seq(A) /\ Len(a) = Len(s) + 1 /\ a[Len(s) + 1] = x
      /\ \A i \in 1..Len(s) : a[i] = s[i]
  OBVIOUS
<1>2. a # <<>> /\ (s # <<>> => Head(a) = Head(s)) /\ (s = <<>> => Head(a) = x)
  OBVIOUS
<1> HIDE DEF a
<1>3. \A i \in 1..Len(a) : i \in 1..Len(s) \/ i = Len(s) + 1
  BY <1>1
<1>4. \A m : In(a, m) <=> In(s, m) \/ m = x
  <2>1. ASSUME NEW m, In(a, m) PROVE In(s, m) \/ m = x
    BY <1>1, <1>3, <2>1, Zenon DEF In
  <2>2. ASSUME NEW m, In(s, m) PROVE In(a, m)
    BY <1>1, <2>2 DEF In
  <2>3. In(a, x)
    BY <1>1 DEF In
  <2>4. QED
    BY <2>1, <2>2, <2>3, Zenon
<1>5. ASSUME Distinct(s), ~In(s, x) PROVE Distinct(a)
  BY <1>1, <1>3, <1>5, Zenon DEF In, Distinct
<1>6. QED
  BY <1>1, <1>2, <1>4, <1>5, Zenon DEF a

(* Removing the head. *)
LEMMA TailFacts ==
    ASSUME NEW A, NEW s \in Seq(A), s # <<>>, Distinct(s)
    PROVE  /\ Tail(s) \in Seq(A) /\ Distinct(Tail(s))
           /\ Head(s) \in A /\ In(s, Head(s)) /\ ~In(Tail(s), Head(s))
           /\ \A m : In(Tail(s), m) => In(s, m)
           /\ Len(s) > 1 <=> Tail(s) # <<>>
<1> DEFINE t == Tail(s)
<1>1. /\ t \in Seq(A) /\ Len(s) \in Nat \ {0} /\ Len(t) = Len(s) - 1
      /\ \A i \in 1..Len(t) : t[i] = s[i + 1]
  OBVIOUS
<1>2. Head(s) = s[1] /\ s[1] \in A
  OBVIOUS
<1> HIDE DEF t
<1>3. Len(t) > 0 <=> t # <<>>
  BY <1>1
<1>4. \A i \in 1..Len(t) : i + 1 \in 1..Len(s) /\ i + 1 # 1
  BY <1>1
<1>5. 1 \in 1..Len(s)
  BY <1>1
<1>6. Distinct(t)
  <2> SUFFICES ASSUME NEW i \in 1..Len(t), NEW j \in 1..Len(t), t[i] = t[j]
               PROVE  i = j
    BY Zenon DEF Distinct
  <2>1. i + 1 = j + 1
    BY <1>1, <1>4, Zenon DEF Distinct
  <2>2. QED
    BY <2>1
<1>7. In(s, Head(s)) /\ ~In(t, Head(s))
  BY <1>1, <1>2, <1>4, <1>5, Zenon DEF In, Distinct
<1>8. \A m : In(t, m) => In(s, m)
  BY <1>1, <1>4, Zenon DEF In
<1>9. Len(s) > 1 <=> t # <<>>
  BY <1>1, <1>3
<1>10. QED
  BY <1>1, <1>2, <1>6, <1>7, <1>8, <1>9, Zenon DEF t

(* Cutting a list in two. *)
LEMMA SplitFacts ==
    ASSUME NEW A, NEW s \in Seq(A), NEW n \in 0..Len(s), Distinct(s)
    PROVE  LET a == SubSeq(s, 1, n)
               b == SubSeq(s, n + 1, Len(s))
           IN  /\ a \in Seq(A) /\ b \in Seq(A) /\ Distinct(a) /\ Distinct(b)
               /\ \A m : In(s, m) <=> In(a, m) \/ In(b, m)
               /\ \A m : ~(In(a, m) /\ In(b, m))
               /\ n > 0 => a # <<>>
<1> DEFINE a == SubSeq(s, 1, n)
           b == SubSeq(s, n + 1, Len(s))
<1>1. /\ a \in Seq(A) /\ Len(a) = n /\ \A i \in 1..n : a[i] = s[i]
      /\ n > 0 => a # <<>>
  OBVIOUS
<1>2. /\ b \in Seq(A) /\ Len(b) = Len(s) - n
      /\ \A i \in 1..(Len(s) - n) : b[i] = s[n + i]
  OBVIOUS
<1>3. Len(s) \in Nat /\ n \in Nat /\ n <= Len(s)
  OBVIOUS
<1> HIDE DEF a, b
<1>4. \A i \in 1..Len(a) : i \in 1..Len(s) /\ a[i] = s[i] /\ i <= n
  BY <1>1, <1>3
<1>5. \A i \in 1..Len(b) : n + i \in 1..Len(s) /\ b[i] = s[n + i] /\ n + i > n
  BY <1>2, <1>3
<1>6. Distinct(a)
  BY <1>4, Zenon DEF Distinct
<1>7. Distinct(b)
  <2> SUFFICES ASSUME NEW i \in 1..Len(b), NEW j \in 1..Len(b), b[i] = b[j]
               PROVE  i = j
    BY Zenon DEF Distinct
  <2>1. n + i = n + j
    BY <1>5, Zenon DEF Distinct
  <2>2. QED
    BY <1>3, <2>1
<1>8. \A m : In(a, m) \/ In(b, m) => In(s, m)
  BY <1>4, <1>5, Zenon DEF In
<1>9. ASSUME NEW m, In(s, m) PROVE In(a, m) \/ In(b, m)
  <2>1. PICK i \in 1..Len(s) : s[i] = m
    BY <1>9, Zenon DEF In
  <2>2. CASE i <= n
    <3>1. i \in 1..Len(a) /\ a[i] = m
      BY <1>1, <1>3, <2>1, <2>2
    <3>2. QED
      BY <3>1, Zenon DEF In
  <2>3. CASE i > n
    <3>1. i - n \in 1..Len(b) /\ n + (i - n) = i
      BY <1>2, <1>3, <2>1, <2>3
    <3>2. b[i - n] = m
      BY <1>5, <2>1, <3>1, Zenon
    <3>3. QED
      BY <3>1, <3>2, Zenon DEF In
  <2>4. QED
    BY <1>3, <2>2, <2>3
<1>10. ASSUME NEW m, In(a, m), In(b, m) PROVE FALSE
  <2>1. PICK i \in 1..Len(a) : a[i] = m
    BY <1>10, Zenon DEF In
  <2>2. PICK j \in 1..Len(b) : b[j] = m
    BY <1>10, Zenon DEF In
  <2>3. i = n + j
    BY <1>4, <1>5, <2>1, <2>2 DEF Distinct
  <2>4. QED
    BY <1>3, <1>4, <1>5, <2>1, <2>2, <2>3
<1>11. QED
  BY <1>1, <1>2, <1>6, <1>7, <1>8, <1>9, <1>10, Zenon DEF a, b

-----------------------------------------------------------------------------
(* The state of the commit path.                                           *)

Rows == UNION {[K -> SUBSET Txn] : K \in SUBSET Key}
RecordType == [txn : Txn, rows : Rows]
StagedType == [snap : Nat, keys : SUBSET Key, delta : BOOLEAN, batch : BOOLEAN]
HeldType == [txn : Txn, told : {"Ok", "Unknown", "Io"}]

WalType ==
    /\ mode \in Durability
    /\ log \in Seq(RecordType) /\ stray \in Seq(RecordType)
    /\ durable \in 0..Len(log) /\ doubt \subseteq 1..Len(log)
    /\ poisoned \in BOOLEAN /\ unsynced \in BOOLEAN
    /\ base \in 0..Len(log) /\ timer \in 0..Len(log) \cup {None}

ThreadType ==
    /\ grp \in Txn \cup {None} /\ gres \in [Txn -> {"Ok", "Unknown", None}]
    /\ fenced \in BOOLEAN /\ active \in BOOLEAN
    /\ queue \in Seq(Txn) /\ lead \in [Txn -> BOOLEAN]
    /\ pc \in [Txn -> Phase] /\ tx \in [Txn -> StagedType]
    /\ todo \in [Txn -> Seq(Txn)] /\ held \in [Txn -> Seq(HeldType)]
    /\ via \in [Txn -> Txn \cup {None}]
    /\ result \in [Txn -> Told \cup {None}]

Fresh == {"idle", "open", "ready"}
Syncing == {"sync", "synced", "syncFailed", "groupWait"}
Working == {"batch", "post", "single", "sync", "synced", "syncFailed", "groupWait"}
Leading(t) ==
    \/ lead[t]
    \/ tx[t].batch /\ pc[t] \in {"lead", "batch", "post", "single", "sync",
                                 "synced", "syncFailed", "groupWait", "handoff"}
Holds(t, m) == \E i \in 1..Len(held[t]) : held[t][i].txn = m

(* A queued request is unanswered and its thread waits, or leads and is at *)
(* the front; the baton lies with the front of the queue.                  *)
QueueInv ==
    /\ Distinct(queue)
    /\ \A m \in Txn : In(queue, m) =>
           result[m] = None /\ tx[m].batch /\ pc[m] \in {"wait", "lead"}
    /\ \A t \in Txn : lead[t] => pc[t] = "wait" /\ queue # <<>> /\ Head(queue) = t
    /\ \A t \in Txn : pc[t] = "lead" => queue # <<>> /\ Head(queue) = t
    /\ \A t \in Txn : pc[t] \in {"lead", "batch", "post", "handoff", "wait"}
           => tx[t].batch

(* At most one thread leads, and one does while the coordinator is active. *)
BatonInv ==
    /\ ~active => queue = <<>> /\ \A t \in Txn : ~Leading(t)
    /\ active => \E t \in Txn : Leading(t)
    /\ \A t, u \in Txn : Leading(t) /\ Leading(u) => t = u

(* A request in the hands of a thread is unanswered, is nowhere else, and  *)
(* its own thread waits.                                                   *)
PlaceInv ==
    /\ \A t \in Txn : Distinct(todo[t])
    /\ \A t, m \in Txn : In(todo[t], m) =>
           /\ result[m] = None /\ ~In(queue, m) /\ pc[t] \in Working
           /\ m # t => pc[m] = "wait" /\ tx[m].batch /\ tx[t].batch
    /\ \A t \in Txn : pc[t] \in Working \ {"post"} => todo[t] # <<>>
    /\ \A t, m \in Txn : Holds(t, m) =>
           /\ result[m] = None /\ ~In(queue, m) /\ pc[t] = "post" /\ ~In(todo[t], m)
           /\ m # t => pc[m] = "wait"
    /\ \A t \in Txn : pc[t] \in Fresh => result[t] = None

(* The open sync group has the one thread that will run its barrier. *)
GroupInv ==
    /\ \A t \in Txn : pc[t] \in Syncing => via[t] # None
    /\ \A t \in Txn : pc[t] = "sync" => grp = via[t]
    /\ \A t, u \in Txn : pc[t] = "sync" /\ pc[u] = "sync" => t = u
    /\ grp # None => \E t \in Txn : pc[t] = "sync"

(* Side conditions of the WAL writer. *)
WriterInv ==
    /\ timer # None => mode = "Balanced"
    /\ ~poisoned => stray = <<>>
    /\ ~Discards => doubt = {}

(* A snapshot lies in the log while its transaction is under way. *)
SnapInv == \A m \in Txn :
    pc[m] \notin {"idle", "done", "dead"} => tx[m].snap <= Len(log)

(* Keep returns the members of s that are in S, without repeating one. *)
LEMMA KeepFacts ==
    ASSUME NEW A, NEW s \in Seq(A), NEW S
    PROVE  /\ Keep(s, S) \in Seq(A)
           /\ \A m : In(Keep(s, S), m) <=> In(s, m) /\ m \in S
           /\ Distinct(s) => Distinct(Keep(s, S))
<1> DEFINE Dom == 0..Len(s)
           G == [i \in Dom |-> [v \in Seq(A) |->
                     IF s[i] \in S THEN Append(v, s[i]) ELSE v]]
           Body(f) == [i \in 0..Len(s) |->
               IF i = 0 THEN <<>>
               ELSE IF s[i] \in S THEN Append(f[i - 1], s[i]) ELSE f[i - 1]]
           F == CHOOSE f : f = Body(f)
<1>0. /\ \A i \in Dom : i # 0 => s[i] \in A /\ i - 1 \in Dom
      /\ Len(s) \in Dom /\ 0 \in Dom
      /\ <<>> \in Seq(A) /\ Len(s) \in Int /\ 0 <= Len(s) /\ 0 \in Int
  OBVIOUS
<1> HIDE DEF F, G, Dom
<1>1. \A i \in Dom, v \in Seq(A) : i # 0 =>
        G[i][v] = IF s[i] \in S THEN Append(v, s[i]) ELSE v
  BY Zenon DEF G
<1>2. Closed(G, Seq(A), 0, Len(s))
  <2> SUFFICES ASSUME NEW i \in Dom, NEW v \in Seq(A), i # 0
               PROVE  G[i][v] \in Seq(A)
    BY Zenon DEF Closed, Dom
  <2>1. Append(v, s[i]) \in Seq(A)
    BY <1>0
  <2>2. QED
    BY <1>1, <2>1, Zenon
<1>3. PICK f \in [Dom -> Seq(A)] : Recursive(f, <<>>, G, 0, Len(s))
  BY <1>0, <1>2, Recursion, Zenon DEF Dom
<1>4. f = Body(f)
  <2>1. \A i \in Dom : i # 0 => f[i - 1] \in Seq(A)
    BY <1>0, Zenon
  <2>2. \A i \in Dom : f[i] = IF i = 0 THEN <<>> ELSE G[i][f[i - 1]]
    BY <1>3, Zenon DEF Recursive, Dom
  <2>3. \A i \in Dom : f[i] = Body(f)[i]
    BY <1>1, <2>1, <2>2, Zenon DEF Dom
  <2>4. QED
    BY <2>3, Zenon DEF Dom
<1>5. F = Body(F)
  BY <1>4, Zenon DEF F
<1>6. Keep(s, S) = F[Len(s)]
  BY Zenon DEF Keep, F
<1>7. F[0] = <<>> /\ \A i \in Dom : i # 0 =>
          F[i] = IF s[i] \in S THEN Append(F[i - 1], s[i]) ELSE F[i - 1]
  BY <1>0, <1>5, Zenon DEF Dom
<1> DEFINE Upto(i, m) == \E j \in 1..i : s[j] = m
           P(i) == /\ F[i] \in Seq(A)
                   /\ \A m : In(F[i], m) <=> Upto(i, m) /\ m \in S
                   /\ Distinct(s) => Distinct(F[i])
           T == {i \in Dom : P(i)}
<1>8. 0 \in T
  <2>1. \A m : ~In(F[0], m) /\ ~Upto(0, m)
    BY <1>7 DEF In
  <2>2. Distinct(F[0]) /\ F[0] \in Seq(A)
    BY <1>7 DEF Distinct
  <2>3. QED
    BY <1>0, <2>1, <2>2, Zenon
<1>9. ASSUME NEW i \in Dom, i # 0, i - 1 \in T PROVE i \in T
  <2>0. /\ P(i - 1) /\ s[i] \in A
        /\ F[i] = IF s[i] \in S THEN Append(F[i - 1], s[i]) ELSE F[i - 1]
    BY <1>0, <1>7, <1>9, Zenon
  <2>1. \A m : Upto(i, m) <=> Upto(i - 1, m) \/ m = s[i]
    <3>1. i \in Int /\ i >= 1
      BY <1>9 DEF Dom
    <3>2. QED
      BY <3>1
  <2> HIDE DEF Upto
  <2>2. CASE s[i] \notin S
    BY <2>0, <2>1, <2>2, Zenon
  <2>3. CASE s[i] \in S
    <3>1. F[i] = Append(F[i - 1], s[i])
      BY <2>0, <2>3, Zenon
    <3>2. /\ F[i] \in Seq(A)
          /\ \A m : In(F[i], m) <=> In(F[i - 1], m) \/ m = s[i]
      BY <2>0, <3>1, AppendFacts
    <3>3. ASSUME Distinct(s) PROVE Distinct(F[i])
      <4>1. ~Upto(i - 1, s[i])
        BY <1>9, <3>3 DEF Upto, Distinct, Dom
      <4>2. ~In(F[i - 1], s[i])
        BY <2>0, <4>1, Zenon
      <4>3. QED
        BY <2>0, <3>1, <3>3, <4>2, AppendFacts
    <3>4. \A m : In(F[i], m) <=> Upto(i, m) /\ m \in S
      BY <2>0, <2>1, <2>3, <3>2, Zenon
    <3>5. QED
      BY <3>2, <3>3, <3>4, Zenon
  <2>4. QED
    BY <2>2, <2>3, Zenon
<1>10. P(Len(s))
  <2>1. Dom \subseteq T
    <3> HIDE DEF T
    <3>1. QED
      BY <1>0, <1>8, <1>9, IntervalInduction, Zenon DEF Dom
  <2>2. QED
    BY <1>0, <2>1, Zenon
<1>11. QED
  BY <1>6, <1>10, Zenon DEF In

(* The members a batch takes are members, write disjoint rows, and are     *)
(* stale only where a delta update is replayed.                            *)
LEMMA TakenFacts ==
    ASSUME NEW s \in Seq(Txn), NEW replayed
    PROVE  LET T == Taken(s, replayed) IN
           /\ T \subseteq Txn
           /\ \A m \in T : In(s, m) /\ (~Stale(m) \/ m \in replayed)
           /\ \A m, n \in T : m # n => tx[m].keys \cap tx[n].keys = {}
<1> DEFINE Dom == 0..Len(s)
           Of(S) == UNION {tx[m].keys : m \in S}
           Fits(S, m) == tx[m].keys \cap Of(S) = {} /\ (~Stale(m) \/ m \in replayed)
           G == [i \in Dom |-> [v \in SUBSET Txn |->
                     IF Fits(v, s[i]) THEN v \cup {s[i]} ELSE v]]
           Body(f) == [i \in 0..Len(s) |->
               IF i = 0 THEN {}
               ELSE IF /\ tx[s[i]].keys \cap UNION {tx[m].keys : m \in f[i - 1]} = {}
                       /\ ~Stale(s[i]) \/ s[i] \in replayed
                    THEN f[i - 1] \cup {s[i]} ELSE f[i - 1]]
           F == CHOOSE f : f = Body(f)
<1>0. /\ \A i \in Dom : i # 0 => s[i] \in Txn /\ i - 1 \in Dom
      /\ Len(s) \in Dom /\ 0 \in Dom
      /\ {} \in SUBSET Txn /\ Len(s) \in Int /\ 0 <= Len(s) /\ 0 \in Int
  OBVIOUS
<1> HIDE DEF F, G, Dom
<1>1. \A i \in Dom, v \in SUBSET Txn : i # 0 =>
        G[i][v] = IF Fits(v, s[i]) THEN v \cup {s[i]} ELSE v
  BY Zenon DEF G
<1>2. Closed(G, SUBSET Txn, 0, Len(s))
  <2> SUFFICES ASSUME NEW i \in Dom, NEW v \in SUBSET Txn, i # 0
               PROVE  G[i][v] \in SUBSET Txn
    BY Zenon DEF Closed, Dom
  <2>1. G[i][v] = v \/ G[i][v] = v \cup {s[i]}
    BY <1>1, Zenon
  <2>2. v \cup {s[i]} \in SUBSET Txn
    BY <1>0, Zenon
  <2>3. QED
    BY <2>1, <2>2, Zenon
<1>3. PICK f \in [Dom -> SUBSET Txn] : Recursive(f, {}, G, 0, Len(s))
  BY <1>0, <1>2, Recursion, Zenon DEF Dom
<1>4. f = Body(f)
  <2>1. \A i \in Dom : i # 0 => f[i - 1] \in SUBSET Txn
    BY <1>0, Zenon
  <2>2. \A i \in Dom : f[i] = IF i = 0 THEN {} ELSE G[i][f[i - 1]]
    BY <1>3, Zenon DEF Recursive, Dom
  <2>3. \A i \in Dom : f[i] = Body(f)[i]
    BY <1>1, <2>1, <2>2, Zenon DEF Dom
  <2>4. QED
    BY <2>3, Zenon DEF Dom
<1>5. F = Body(F)
  BY <1>4, Zenon DEF F
<1>6. Taken(s, replayed) = F[Len(s)]
  BY Zenon DEF Taken, F
<1>7. F[0] = {} /\ \A i \in Dom : i # 0 =>
          F[i] = IF Fits(F[i - 1], s[i]) THEN F[i - 1] \cup {s[i]} ELSE F[i - 1]
  BY <1>0, <1>5, Zenon DEF Dom
<1> DEFINE P(i) ==
        /\ F[i] \subseteq Txn
        /\ \A m \in F[i] : In(s, m) /\ (~Stale(m) \/ m \in replayed)
        /\ \A m, n \in F[i] : m # n => tx[m].keys \cap tx[n].keys = {}
           T == {i \in Dom : P(i)}
<1>8. 0 \in T
  BY <1>0, <1>7, Zenon
<1>9. ASSUME NEW i \in Dom, i # 0, i - 1 \in T PROVE i \in T
  <2>0. /\ P(i - 1) /\ s[i] \in Txn
        /\ F[i] = IF Fits(F[i - 1], s[i]) THEN F[i - 1] \cup {s[i]} ELSE F[i - 1]
    BY <1>0, <1>7, <1>9, Zenon
  <2>1. In(s, s[i])
    BY <1>9 DEF In, Dom
  <2>2. CASE ~Fits(F[i - 1], s[i])
    <3> HIDE DEF Fits
    <3>1. QED
      BY <2>0, <2>2, Zenon
  <2>3. CASE Fits(F[i - 1], s[i])
    <3>1. F[i] = F[i - 1] \cup {s[i]}
      <4> HIDE DEF Fits
      <4>1. QED
        BY <2>0, <2>3, Zenon
    <3>2. \A m \in F[i - 1] : tx[s[i]].keys \cap tx[m].keys = {}
      BY <2>3, Zenon
    <3>3. ~Stale(s[i]) \/ s[i] \in replayed
      BY <2>3, Zenon
    <3> HIDE DEF Fits
    <3>4. P(i)
      BY <2>0, <2>1, <3>1, <3>2, <3>3, Zenon
    <3>5. QED
      BY <3>4, Zenon
  <2>4. QED
    BY <2>2, <2>3, Zenon
<1>10. P(Len(s))
  <2>1. Dom \subseteq T
    <3> HIDE DEF T
    <3>1. QED
      BY <1>0, <1>8, <1>9, IntervalInduction, Zenon DEF Dom
  <2>2. QED
    BY <1>0, <2>1, Zenon
<1>11. QED
  BY <1>6, <1>10, Zenon

(* The latest version of a row among the first n, and what it holds. *)
LEMMA LatestFacts ==
    ASSUME log \in Seq(RecordType), NEW k, NEW n \in 0..Len(log)
    PROVE  /\ Latest(k, n) \in 0..n
           /\ \A i \in 1..n : k \in DOMAIN log[i].rows => i <= Latest(k, n)
           /\ Latest(k, n) # 0 => k \in DOMAIN log[Latest(k, n)].rows
           /\ Row(k, n) \in SUBSET Txn
<1> DEFINE S == {0} \cup Writers(k, n)
<1>0. n \in Nat /\ S \in SUBSET (0..n) /\ 0 \in S
  BY DEF Writers
<1>1. Latest(k, n) \in S /\ \A y \in S : Latest(k, n) >= y
  <2>1. Latest(k, n) = Max(S)
    BY Zenon DEF Latest
  <2> HIDE DEF S
  <2>2. QED
    BY <1>0, <2>1, MaxFacts, Zenon
<1>2. Latest(k, n) \in 0..n
  BY <1>0, <1>1, Zenon
<1>3. \A i \in 1..n : k \in DOMAIN log[i].rows => i <= Latest(k, n)
  BY <1>0, <1>1, <1>2, Zenon DEF Writers
<1>4. Latest(k, n) # 0 => k \in DOMAIN log[Latest(k, n)].rows
  BY <1>1, Zenon DEF Writers
<1>5. Row(k, n) \in SUBSET Txn
  <2>1. CASE Latest(k, n) = 0
    BY <2>1, Zenon DEF Row
  <2>2. CASE Latest(k, n) # 0
    <3>1. Latest(k, n) \in 1..Len(log)
      BY <1>2, <2>2
    <3>2. log[Latest(k, n)] \in RecordType
      BY <3>1
    <3>3. log[Latest(k, n)].rows \in Rows
      BY <3>2, Zenon DEF RecordType
    <3>4. log[Latest(k, n)].rows[k] \in SUBSET Txn
      BY <1>4, <2>2, <3>3 DEF Rows
    <3>5. QED
      BY <2>2, <3>4, Zenon DEF Row
  <2>3. QED
    BY <2>1, <2>2, Zenon
<1>6. QED
  BY <1>2, <1>3, <1>4, <1>5, Zenon

(* A record is well formed when its snapshot is in the log. *)
LEMMA RecordFacts ==
    ASSUME WalType, ThreadType, NEW m \in Txn, tx[m].snap <= Len(log)
    PROVE  /\ Record(m) \in RecordType /\ Record(m).txn = m
           /\ DOMAIN Record(m).rows = tx[m].keys
<1> DEFINE n == IF tx[m].delta THEN Len(log) ELSE tx[m].snap
           rows == [k \in tx[m].keys |-> {m} \cup Row(k, n)]
<1>1. tx[m].keys \in SUBSET Key /\ tx[m].snap \in Nat
  BY Zenon DEF ThreadType, StagedType
<1>2. log \in Seq(RecordType) /\ n \in 0..Len(log)
  BY <1>1 DEF WalType
<1>3. Record(m) = [txn |-> m, rows |-> rows]
  BY Zenon DEF Record
<1> HIDE DEF n
<1>4. \A k \in tx[m].keys : Row(k, n) \in SUBSET Txn
  BY <1>2, LatestFacts, Zenon
<1>5. rows \in [tx[m].keys -> SUBSET Txn]
  BY <1>4, Zenon
<1> HIDE DEF rows
<1>6. rows \in Rows /\ DOMAIN rows = tx[m].keys
  BY <1>1, <1>5, Zenon DEF Rows
<1>7. QED
  BY <1>3, <1>6 DEF RecordType

-----------------------------------------------------------------------------
(* The steps as the coordinator sees them.                                 *)

(* A request is answered by the thread that holds it ... *)
Answer(t) ==
    /\ pc[t] \in {"single", "synced", "syncFailed", "groupWait"}
    /\ \E r \in Told : Finish(t, r)
    /\ UNCHANGED <<coord, tx, held>>

(* ... or stays with it while a sync group forms and runs. *)
Move(t) ==
    /\ pc[t] \in {"single", "sync"}
    /\ \E q \in Syncing : Goto(t, q)
    /\ UNCHANGED <<coord, tx, todo, held, result>>

(* A handle ends, and with it every caller that was under way. *)
Restart ==
    /\ queue' = <<>> /\ active' = FALSE /\ lead' = [t \in Txn |-> FALSE]
    /\ pc' = [t \in Txn |-> IF pc[t] \in {"idle", "done"} THEN pc[t] ELSE "dead"]
    /\ todo' = [t \in Txn |-> <<>>] /\ held' = [t \in Txn |-> <<>>]
    /\ via' = [t \in Txn |-> None] /\ grp' = None /\ gres' = [t \in Txn |-> None]
    /\ fenced' = FALSE
    /\ UNCHANGED <<tx, result>>

NoMove == UNCHANGED <<coord, pc, tx, todo, held, result>>

(* Every step is one of these. *)
LEMMA StepClasses ==
    ASSUME [Next]_vars, ThreadType, GroupInv
    PROVE  \/ Restart \/ NoMove
           \/ \E t \in Txn : \/ Begin(t) \/ CommitStaged(t) \/ Direct(t) \/ Enqueue(t)
                             \/ TakeBatch(t) \/ Handoff(t) \/ Wake(t)
                             \/ BatchRefused(t) \/ Batch(t) \/ BatchPost(t)
                             \/ Answer(t) \/ Move(t)
<1>1. ASSUME NEW t \in Txn, Conflict(t) PROVE Answer(t)
  BY <1>1, Zenon DEF Conflict, Answer, Told
<1>2. ASSUME NEW t \in Txn, Refuse(t) PROVE Answer(t)
  BY <1>2, Zenon DEF Refuse, Answer, Told
<1>3. ASSUME NEW t \in Txn, Single(t) PROVE Answer(t) \/ Move(t)
  <2>1. CASE mode = "Safe"
    BY <1>3, <2>1, Zenon DEF Single, Move, Syncing
  <2>2. CASE mode # "Safe"
    BY <1>3, <2>2, Zenon DEF Single, Answer, Told
  <2>3. QED
    BY <2>1, <2>2, Zenon
<1>4. ASSUME NEW t \in Txn, SingleFails(t) PROVE Answer(t)
  BY <1>4, Zenon DEF SingleFails, Answer, Told
<1>5. ASSUME NEW t \in Txn, GroupSync(t) PROVE Move(t)
  BY <1>5, Zenon DEF GroupSync, Move, Syncing
<1>6. ASSUME NEW t \in Txn, GroupComplete(t) PROVE Answer(t)
  <2>1. gres'[via[t]] \in Told
    BY <1>6, Zenon DEF GroupComplete, ThreadType, GroupInv, Syncing, Told
  <2>2. QED
    BY <1>6, <2>1, Zenon DEF GroupComplete, Answer
<1>7. ASSUME NEW t \in Txn, GroupWait(t) PROVE Answer(t)
  <2>1. gres[via[t]] \in Told
    BY <1>7, Zenon DEF GroupWait, ThreadType, GroupInv, Syncing, Told
  <2>2. QED
    BY <1>7, <2>1, Zenon DEF GroupWait, Answer
<1>8. ASSUME TimerBegin \/ TimerSync \/ Finished \/ UNCHANGED vars PROVE NoMove
  BY <1>8, Zenon DEF TimerBegin, TimerSync, Finished, vars, thread, NoMove
<1>9. ASSUME Kill \/ PowerLoss \/ Close PROVE Restart
  BY <1>9, Zenon DEF Kill, PowerLoss, Close, Reopen, Restart
<1>10. QED
  BY <1>1, <1>2, <1>3, <1>4, <1>5, <1>6, <1>7, <1>8, <1>9, Zenon DEF Next, Step

(* What answering a request does to the lists of its thread. *)
LEMMA FinishFacts ==
    ASSUME ThreadType, PlaceInv, NEW t \in Txn, pc[t] \in Working \ {"post"},
           NEW r, Finish(t, r)
    PROVE  LET m == Head(todo[t])
               rest == Tail(todo[t])
           IN  /\ m \in Txn /\ In(todo[t], m) /\ rest \in Seq(Txn)
               /\ Distinct(rest) /\ ~In(rest, m)
               /\ \A x : In(rest, x) => In(todo[t], x)
               /\ result' = [result EXCEPT ![m] = r]
               /\ todo' = [todo EXCEPT ![t] = rest]
               /\ \E q \in Phase :
                     /\ pc' = [pc EXCEPT ![t] = q]
                     /\ \/ q = "single" /\ rest # <<>>
                        \/ q = "handoff" /\ tx[t].batch /\ rest = <<>>
                        \/ q = "done" /\ ~tx[t].batch /\ rest = <<>>
<1>1. todo[t] \in Seq(Txn) /\ todo[t] # <<>> /\ Distinct(todo[t])
  BY Zenon DEF ThreadType, PlaceInv
<1>2. /\ Tail(todo[t]) \in Seq(Txn) /\ Distinct(Tail(todo[t]))
      /\ Head(todo[t]) \in Txn /\ In(todo[t], Head(todo[t]))
      /\ ~In(Tail(todo[t]), Head(todo[t]))
      /\ \A x : In(Tail(todo[t]), x) => In(todo[t], x)
      /\ Len(todo[t]) > 1 <=> Tail(todo[t]) # <<>>
  BY <1>1, TailFacts, Zenon
<1> DEFINE q == IF Len(todo[t]) > 1 THEN "single"
                ELSE IF tx[t].batch THEN "handoff" ELSE "done"
<1>3. pc' = [pc EXCEPT ![t] = q] /\ q \in Phase
  BY Zenon DEF Finish, Goto, Phase
<1>4. \/ q = "single" /\ Tail(todo[t]) # <<>>
      \/ q = "handoff" /\ tx[t].batch /\ Tail(todo[t]) = <<>>
      \/ q = "done" /\ ~tx[t].batch /\ Tail(todo[t]) = <<>>
  <2>1. tx[t].batch \in BOOLEAN
    BY Zenon DEF ThreadType, StagedType
  <2>2. QED
    BY <1>2, <2>1, Zenon
<1> HIDE DEF q
<1>5. QED
  BY <1>2, <1>3, <1>4, Zenon DEF Finish

(* What a batch commits: the members taken and those set aside, with the   *)
(* records of the former.                                                  *)
Members(t, r) == Keep(todo[t], Taken(todo[t], r))
Aside(t, r) == Keep(todo[t], Txn \ Taken(todo[t], r))
Records(ms) == [i \in 1..Len(ms) |-> Record(ms[i])]

BatchOf(t, ms, as, rs) ==
    /\ ms \in Seq(Txn) /\ as \in Seq(Txn) /\ rs \in Seq(RecordType)
    /\ Distinct(ms) /\ Distinct(as)
    /\ \A m : In(ms, m) => In(todo[t], m) /\ ~In(as, m)
    /\ \A m : In(as, m) => In(todo[t], m)
    /\ Len(rs) = Len(ms)
    /\ \A i \in 1..Len(ms) : /\ ms[i] \in Txn /\ rs[i] = Record(ms[i])
                             /\ rs[i].txn = ms[i]
                             /\ DOMAIN rs[i].rows = tx[ms[i]].keys

LEMMA BatchFacts ==
    ASSUME WalType, ThreadType, PlaceInv, SnapInv, NEW t \in Txn, pc[t] = "batch",
           NEW r
    PROVE  BatchOf(t, Members(t, r), Aside(t, r), Records(Members(t, r)))
<1> DEFINE T == Taken(todo[t], r)
           ms == Members(t, r)
           as == Aside(t, r)
<1>1. todo[t] \in Seq(Txn) /\ Distinct(todo[t])
  BY Zenon DEF ThreadType, PlaceInv
<1>2. /\ ms \in Seq(Txn) /\ Distinct(ms)
      /\ \A m : In(ms, m) <=> In(todo[t], m) /\ m \in T
  <2> HIDE DEF T
  <2>1. QED
    BY <1>1, KeepFacts, Zenon DEF Members, T
<1>3. /\ as \in Seq(Txn) /\ Distinct(as)
      /\ \A m : In(as, m) <=> In(todo[t], m) /\ m \in Txn \ T
  <2> HIDE DEF T
  <2>1. QED
    BY <1>1, KeepFacts DEF Aside, T
<1> HIDE DEF ms, as, T
<1>4. \A m : In(ms, m) => In(todo[t], m) /\ ~In(as, m)
  BY <1>2, <1>3, Zenon
<1>5. \A i \in 1..Len(ms) : ms[i] \in Txn /\ In(todo[t], ms[i])
  <2>1. \A i \in 1..Len(ms) : ms[i] \in Txn /\ In(ms, ms[i])
    BY <1>2 DEF In
  <2>2. QED
    BY <1>4, <2>1, Zenon
<1>6. \A i \in 1..Len(ms) : tx[ms[i]].snap <= Len(log)
  <2>1. \A m \in Txn : In(todo[t], m) => pc[m] \notin {"idle", "done", "dead"}
    BY Zenon DEF PlaceInv, Working
  <2>2. QED
    BY <1>5, <2>1, Zenon DEF SnapInv
<1>7. \A i \in 1..Len(ms) : /\ Record(ms[i]) \in RecordType
                            /\ Record(ms[i]).txn = ms[i]
                            /\ DOMAIN Record(ms[i]).rows = tx[ms[i]].keys
  BY <1>5, <1>6, RecordFacts, Zenon
<1>8. /\ Records(ms) \in Seq(RecordType) /\ Len(Records(ms)) = Len(ms)
      /\ \A i \in 1..Len(ms) : Records(ms)[i] = Record(ms[i])
  <2>1. Len(ms) \in Nat
    BY <1>2
  <2>2. QED
    BY <1>7, <2>1 DEF Records
<1>9. QED
  BY <1>2, <1>3, <1>4, <1>5, <1>7, <1>8, Zenon DEF BatchOf, ms, as

HeldFor(ms, r) == [i \in 1..Len(ms) |-> [txn |-> ms[i], told |-> r]]

(* The outcomes of a batch commit: appended and synced, appended and the   *)
(* barrier failed, appended without a barrier, or not appended.            *)
BatchOutcome(rs, r) ==
    \/ /\ Appended(rs) /\ r = "Ok" /\ mode = "Safe"
       /\ SyncOk(Len(log) + Len(rs), FALSE)
    \/ /\ Appended(rs) /\ r = "Unknown" /\ mode = "Safe"
       /\ SyncFailed(Len(log) + Len(rs))
    \/ /\ Appended(rs) /\ r = "Ok" /\ mode # "Safe" /\ NoSync
    \/ AppendFailed(rs) /\ r = "Io"

(* The sets of delta updates a batch may replay. *)
Replayable == SUBSET {m \in Txn : tx[m].delta /\ Stale(m)}

LEMMA BatchCases ==
    ASSUME WalType, ThreadType, PlaceInv, SnapInv, NEW t \in Txn, Batch(t)
    PROVE  \E r \in Replayable, told \in {"Ok", "Unknown", "Io"} :
              LET ms == Members(t, r)
              IN  /\ ms # <<>>
                  /\ BatchOf(t, ms, Aside(t, r), Records(ms))
                  /\ todo' = [todo EXCEPT ![t] = Aside(t, r)]
                  /\ held' = [held EXCEPT ![t] = HeldFor(ms, told)]
                  /\ BatchOutcome(Records(ms), told)
<1>1. PICK r \in Replayable :
        LET members == Members(t, r)
            records == Records(members)
            end     == Len(log) + Len(records)
            deliver(x) == held' = [held EXCEPT ![t] = HeldFor(members, x)]
        IN  /\ members # <<>>
            /\ todo' = [todo EXCEPT ![t] = Aside(t, r)]
            /\ \/ /\ Appended(records)
                  /\ IF mode = "Safe"
                     THEN \/ SyncOk(end, FALSE) /\ deliver("Ok")
                          \/ SyncFailed(end) /\ deliver("Unknown")
                     ELSE NoSync /\ deliver("Ok")
               \/ AppendFailed(records) /\ deliver("Io")
  BY Zenon DEF Batch, Replayable, Members, Aside, Records, HeldFor
<1>2. BatchOf(t, Members(t, r), Aside(t, r), Records(Members(t, r)))
  BY BatchFacts, Zenon DEF Batch
<1>3. PICK told \in {"Ok", "Unknown", "Io"} :
        /\ held' = [held EXCEPT ![t] = HeldFor(Members(t, r), told)]
        /\ BatchOutcome(Records(Members(t, r)), told)
  BY <1>1, Zenon DEF BatchOutcome
<1>4. QED
  BY <1>1, <1>2, <1>3, Zenon

-----------------------------------------------------------------------------
(* The steps as the WAL writer sees them.                                  *)

(* Records are appended, with a barrier or without. *)
WalAppend(rs) ==
    /\ rs \in Seq(RecordType)
    /\ Appended(rs)
    /\ \/ mode = "Safe" /\ SyncOk(Len(log) + Len(rs), FALSE)
       \/ SyncFailed(Len(log) + Len(rs))
       \/ NoSync

(* They are not. *)
WalFail(rs) ==
    /\ rs \in Seq(RecordType)
    /\ AppendFailed(rs)

LEMMA WalClasses ==
    ASSUME [Next]_vars, WalType, ThreadType, PlaceInv, SnapInv
    PROVE  \/ UNCHANGED wal
           \/ \E rs : WalAppend(rs) \/ WalFail(rs)
           \/ \E t \in Txn : GroupSync(t)
           \/ TimerBegin \/ TimerSync \/ Kill \/ PowerLoss \/ Close
<1>1. ASSUME NEW t \in Txn, Batch(t) PROVE \E rs : WalAppend(rs) \/ WalFail(rs)
  <2>1. PICK r, told : /\ BatchOf(t, Members(t, r), Aside(t, r), Records(Members(t, r)))
                       /\ BatchOutcome(Records(Members(t, r)), told)
    BY <1>1, BatchCases, Zenon
  <2> DEFINE rs == Records(Members(t, r))
  <2>2. rs \in Seq(RecordType)
    BY <2>1, Zenon DEF BatchOf
  <2>3. BatchOutcome(rs, told)
    BY <2>1, Zenon
  <2> HIDE DEF rs
  <2>4. WalAppend(rs) \/ WalFail(rs)
    BY <2>2, <2>3, Zenon DEF BatchOutcome, WalAppend, WalFail
  <2>5. QED
    BY <2>4, Zenon
<1>2. ASSUME NEW t \in Txn, pc[t] = "single"
      PROVE  <<Record(Head(todo[t]))>> \in Seq(RecordType)
  <2>1. todo[t] \in Seq(Txn) /\ todo[t] # <<>> /\ Distinct(todo[t])
    BY <1>2, Zenon DEF ThreadType, PlaceInv, Working
  <2>2. Head(todo[t]) \in Txn /\ In(todo[t], Head(todo[t]))
    BY <2>1, TailFacts, Zenon
  <2>3. tx[Head(todo[t])].snap <= Len(log)
    BY <1>2, <2>2, Zenon DEF PlaceInv, SnapInv
  <2>4. Record(Head(todo[t])) \in RecordType
    BY <2>2, <2>3, RecordFacts, Zenon
  <2>5. QED
    BY <2>4
<1>3. ASSUME NEW t \in Txn, Single(t) PROVE \E rs : WalAppend(rs)
  <2>1. WalAppend(<<Record(Head(todo[t]))>>)
    BY <1>2, <1>3, Zenon DEF Single, WalAppend
  <2>2. QED
    BY <2>1, Zenon
<1>4. ASSUME NEW t \in Txn, SingleFails(t) PROVE \E rs : WalFail(rs)
  <2>1. WalFail(<<Record(Head(todo[t]))>>)
    BY <1>2, <1>4, Zenon DEF SingleFails, WalFail
  <2>2. QED
    BY <2>1, Zenon
<1>5. ASSUME NEW t \in Txn, \/ Begin(t) \/ CommitStaged(t) \/ Direct(t) \/ Enqueue(t)
                            \/ TakeBatch(t) \/ Handoff(t) \/ Wake(t)
                            \/ BatchRefused(t) \/ BatchPost(t) \/ Conflict(t)
                            \/ Refuse(t) \/ GroupComplete(t) \/ GroupWait(t)
      PROVE  UNCHANGED wal
  BY <1>5, Zenon DEF Begin, CommitStaged, Direct, Enqueue, TakeBatch, Handoff, Wake,
              BatchRefused, BatchPost, Conflict, Refuse, GroupComplete, GroupWait
<1>6. ASSUME Finished \/ UNCHANGED vars PROVE UNCHANGED wal
  BY <1>6, Zenon DEF Finished, vars
<1>7. QED
  BY <1>1, <1>3, <1>4, <1>5, <1>6, Zenon DEF Next, Step

(* The writer's state after a step. *)
LEMMA ConcatFacts ==
    ASSUME NEW A, NEW s \in Seq(A), NEW u \in Seq(A)
    PROVE  /\ s \o u \in Seq(A) /\ Len(s \o u) = Len(s) + Len(u)
           /\ Len(s) \in Nat /\ Len(u) \in Nat
           /\ \A i \in 1..Len(s) : (s \o u)[i] = s[i]
           /\ \A i \in 1..Len(u) : (s \o u)[Len(s) + i] = u[i]
           /\ u = <<>> => s \o u = s
  OBVIOUS

LEMMA Widen ==
    ASSUME NEW a \in Nat, NEW b \in Nat, a <= b
    PROVE  /\ \A i \in 0..a : i \in 0..b
           /\ \A S : S \subseteq 1..a => S \subseteq 1..b
  OBVIOUS

LEMMA WalStep ==
    ASSUME [Next]_vars, WalType, ThreadType, PlaceInv, SnapInv, WriterInv,
           UnsyncedFlagHonest
    PROVE  /\ WalType' /\ WriterInv' /\ UnsyncedFlagHonest'
           /\ Restart \/ Len(log') >= Len(log)
<1>0. /\ mode \in Durability /\ log \in Seq(RecordType) /\ stray \in Seq(RecordType)
      /\ durable \in 0..Len(log) /\ doubt \subseteq 1..Len(log)
      /\ poisoned \in BOOLEAN /\ unsynced \in BOOLEAN
      /\ base \in 0..Len(log) /\ timer \in 0..Len(log) \cup {None}
      /\ Len(log) \in Nat
  BY DEF WalType
<1>00. ASSUME NEW n \in 0..Len(log)
       PROVE  SyncFailed(n) => /\ doubt' \subseteq 1..Len(log)
                               /\ ~Discards => doubt' = {}
                               /\ unsynced' = TRUE /\ durable' = durable
  <2>1. durable + 1 .. n \subseteq 1..Len(log)
    BY <1>0
  <2>2. QED
    BY <1>0, <2>1, Zenon DEF SyncFailed, WriterInv
<1>1. CASE UNCHANGED wal
  BY <1>0, <1>1 DEF wal, WalType, WriterInv, UnsyncedFlagHonest
<1>2. ASSUME NEW rs, WalAppend(rs) PROVE /\ WalType' /\ WriterInv' /\ UnsyncedFlagHonest'
                                         /\ Len(log') >= Len(log)
  <2>1. /\ log' \in Seq(RecordType) /\ Len(log') = Len(log) + Len(rs) /\ Len(rs) \in Nat
        /\ UNCHANGED <<mode, stray, poisoned, base, clean, timer>>
    BY <1>0, <1>2, ConcatFacts, Zenon DEF WalAppend, Appended
  <2>a. /\ \A i \in 0..Len(log) : i \in 0..Len(log')
        /\ \A S : S \subseteq 1..Len(log) => S \subseteq 1..Len(log')
        /\ Len(log') \in 0..Len(log') /\ Len(log') \in Nat /\ Len(log') >= Len(log)
    BY <1>0, <2>1, Widen
  <2>b. /\ mode' \in Durability /\ log' \in Seq(RecordType) /\ stray' \in Seq(RecordType)
        /\ poisoned' \in BOOLEAN /\ base' \in 0..Len(log')
        /\ timer' \in 0..Len(log') \cup {None}
        /\ timer' # None => mode' = "Balanced"
        /\ ~poisoned' => stray' = <<>>
    BY <1>0, <2>1, <2>a, Zenon DEF WriterInv
  <2>2. CASE SyncOk(Len(log) + Len(rs), FALSE)
    <3>1. durable' = Len(log') /\ unsynced' = FALSE /\ doubt' = doubt
      BY <2>1, <2>2, Zenon DEF SyncOk
    <3>2. WalType'
      BY <1>0, <2>a, <2>b, <3>1, Zenon DEF WalType
    <3>3. QED
      BY <2>a, <2>b, <3>1, <3>2, Zenon DEF WriterInv, UnsyncedFlagHonest
  <2>3. CASE SyncFailed(Len(log) + Len(rs))
    <3>1. /\ doubt' \subseteq 1..Len(log') /\ (~Discards => doubt' = {})
          /\ unsynced' = TRUE /\ durable' = durable
      <4>1. durable + 1 .. Len(log') \subseteq 1..Len(log')
        BY <1>0, <2>a
      <4>2. doubt' = IF Discards THEN doubt \cup (durable + 1 .. Len(log')) ELSE doubt
        BY <2>1, <2>3, Zenon DEF SyncFailed
      <4>3. doubt \subseteq 1..Len(log')
        BY <1>0, <2>a, Zenon
      <4>4. QED
        BY <2>3, <4>1, <4>2, <4>3, Zenon DEF SyncFailed, WriterInv
    <3>2. WalType'
      BY <1>0, <2>a, <2>b, <3>1, Zenon DEF WalType
    <3>3. QED
      BY <2>a, <2>b, <3>1, <3>2, Zenon DEF WriterInv, UnsyncedFlagHonest
  <2>4. CASE NoSync
    <3>1. durable' = durable /\ unsynced' = TRUE /\ doubt' = doubt
      BY <2>4, Zenon DEF NoSync
    <3>2. WalType'
      BY <1>0, <2>a, <2>b, <3>1, Zenon DEF WalType
    <3>3. QED
      BY <2>a, <2>b, <3>1, <3>2, Zenon DEF WriterInv, UnsyncedFlagHonest
  <2>5. QED
    BY <1>2, <2>2, <2>3, <2>4, Zenon DEF WalAppend
<1>3. ASSUME NEW rs, WalFail(rs) PROVE /\ WalType' /\ WriterInv' /\ UnsyncedFlagHonest'
                                       /\ Len(log') >= Len(log)
  <2>1. UNCHANGED <<mode, log, durable, doubt, unsynced, base, clean, timer>>
    BY <1>3, Zenon DEF WalFail, AppendFailed
  <2>2. CASE UNCHANGED <<stray, poisoned>>
    BY <1>0, <2>1, <2>2 DEF WalType, WriterInv, UnsyncedFlagHonest
  <2>3. CASE poisoned' = TRUE /\ \E n \in 0..(Len(rs) - 1) : stray' = SubSeq(rs, 1, n)
    <3>1. stray' \in Seq(RecordType)
      BY <1>3, <2>3 DEF WalFail
    <3>2. QED
      BY <1>0, <2>1, <2>3, <3>1 DEF WalType, WriterInv, UnsyncedFlagHonest
  <2>4. QED
    BY <1>3, <2>2, <2>3, Zenon DEF WalFail, AppendFailed
<1>4. ASSUME NEW t \in Txn, GroupSync(t)
      PROVE  /\ WalType' /\ WriterInv' /\ UnsyncedFlagHonest' /\ Len(log') >= Len(log)
  <2>1. UNCHANGED <<mode, log, stray, poisoned, base, timer>> /\ Len(log) \in 0..Len(log)
    BY <1>0, <1>4 DEF GroupSync
  <2>2. CASE SyncOk(Len(log), FALSE)
    <3>1. durable' = Len(log) /\ unsynced' = FALSE /\ doubt' = doubt
      BY <2>2, Zenon DEF SyncOk
    <3>2. WalType'
      BY <1>0, <2>1, <3>1, Zenon DEF WalType
    <3>3. QED
      BY <1>0, <2>1, <3>1, <3>2 DEF WriterInv, UnsyncedFlagHonest
  <2>3. CASE SyncFailed(Len(log))
    <3>1. /\ doubt' \subseteq 1..Len(log) /\ (~Discards => doubt' = {})
          /\ unsynced' = TRUE /\ durable' = durable
      BY <1>00, <2>1, <2>3, Zenon
    <3>2. WalType'
      BY <1>0, <2>1, <3>1, Zenon DEF WalType
    <3>3. QED
      BY <1>0, <2>1, <3>1, <3>2 DEF WriterInv, UnsyncedFlagHonest
  <2>4. QED
    BY <1>4, <2>2, <2>3, Zenon DEF GroupSync
<1>5. CASE TimerBegin
  BY <1>0, <1>5 DEF TimerBegin, WalType, WriterInv, UnsyncedFlagHonest
<1>6. CASE TimerSync
  <2>1. /\ UNCHANGED <<mode, log, stray, poisoned, base>> /\ timer' = None
        /\ timer \in 0..Len(log)
    BY <1>0, <1>6, Zenon DEF TimerSync
  <2>2. CASE SyncOk(timer, Len(log) # timer)
    <3>1. durable' = timer /\ unsynced' = (Len(log) # timer) /\ doubt' = doubt
      BY <2>2, Zenon DEF SyncOk
    <3>2. unsynced' \in BOOLEAN /\ (~unsynced' => durable' = Len(log))
      BY <3>1, Zenon
    <3>3. QED
      BY <1>0, <2>1, <3>1, <3>2 DEF WalType, WriterInv, UnsyncedFlagHonest
  <2>3. CASE SyncFailed(timer)
    <3>1. /\ doubt' \subseteq 1..Len(log) /\ (~Discards => doubt' = {})
          /\ unsynced' = TRUE /\ durable' = durable
      BY <1>00, <2>1, <2>3, Zenon
    <3>2. WalType'
      BY <1>0, <2>1, <3>1, Zenon DEF WalType
    <3>3. QED
      BY <1>0, <2>1, <3>1, <3>2 DEF WriterInv, UnsyncedFlagHonest
  <2>4. QED
    BY <1>6, <1>0, <2>1, <2>2, <2>3, Zenon DEF TimerSync
<1>7. ASSUME NEW l, Reopen(l), l \in Seq(RecordType), durable' \in 0..Len(l),
             doubt' \subseteq 1..Len(l), ~Discards => doubt' = {}
      PROVE  /\ WalType' /\ WriterInv' /\ UnsyncedFlagHonest' /\ Restart
  <2>1. /\ log' = l /\ base' = Len(l) /\ stray' = <<>> /\ poisoned' = FALSE
        /\ unsynced' = FALSE /\ timer' = None /\ mode' = mode
    BY <1>7, Zenon DEF Reopen
  <2>2. Restart
    BY <1>7, Zenon DEF Reopen, Restart
  <2>3. Len(l) \in Nat /\ Len(l) \in 0..Len(l) /\ stray' \in Seq(RecordType)
    BY <1>7, <2>1
  <2>4. WalType'
    BY <1>0, <1>7, <2>1, <2>3, Zenon DEF WalType
  <2>5. QED
    BY <1>7, <2>1, <2>2, <2>3, <2>4 DEF WriterInv, UnsyncedFlagHonest
<1>8. /\ log \o stray \in Seq(RecordType) /\ Len(log \o stray) \in Nat
      /\ Len(log \o stray) >= Len(log)
  BY <1>0, ConcatFacts
<1>9. CASE Kill
  <2>1. UNCHANGED <<durable, doubt>> /\ Reopen(log \o stray)
    BY <1>9, Zenon DEF Kill
  <2>2. durable' \in 0..Len(log \o stray) /\ doubt' \subseteq 1..Len(log \o stray)
    BY <1>0, <1>8, <2>1
  <2>3. QED
    BY <1>7, <1>8, <2>1, <2>2, Zenon DEF WriterInv
<1>10. CASE Close
  <2>1. UNCHANGED doubt /\ Reopen(log \o stray) /\ durable' \in {durable, Len(log)}
    BY <1>10, Zenon DEF Close
  <2>2. durable' \in 0..Len(log \o stray) /\ doubt' \subseteq 1..Len(log \o stray)
    BY <1>0, <1>8, <2>1
  <2>3. QED
    BY <1>7, <1>8, <2>1, <2>2, Zenon DEF WriterInv
<1>11. CASE PowerLoss
  <2>1. PICK n \in durable..Len(log) \cup {i - 1 : i \in doubt} :
            Reopen(SubSeq(log, 1, n)) /\ durable' = n
    BY <1>11, Zenon DEF PowerLoss
  <2>2. n \in 0..Len(log) /\ doubt' = {}
    BY <1>0, <1>11 DEF PowerLoss
  <2>3. SubSeq(log, 1, n) \in Seq(RecordType) /\ Len(SubSeq(log, 1, n)) = n
    BY <1>0, <2>2
  <2>4. QED
    <3>1. durable' \in 0..Len(SubSeq(log, 1, n)) /\ doubt' \subseteq 1..Len(SubSeq(log, 1, n))
      BY <2>1, <2>2, <2>3
    <3>2. QED
      BY <1>7, <2>1, <2>2, <2>3, <3>1, Zenon
<1>12. QED
  BY <1>1, <1>2, <1>3, <1>4, <1>5, <1>6, <1>9, <1>10, <1>11, WalClasses, Zenon
     DEF wal, TimerBegin, TimerSync

-----------------------------------------------------------------------------
(* The coordinator: where each request is.                                 *)

(* Reading off the pieces of the state that an answer changes. *)
LEMMA AnswerFacts ==
    ASSUME ThreadType, PlaceInv, NEW t \in Txn, Answer(t)
    PROVE  \E r \in Told, q \in {"single", "handoff", "done"} :
              /\ Head(todo[t]) \in Txn /\ In(todo[t], Head(todo[t]))
              /\ Tail(todo[t]) \in Seq(Txn)
              /\ Distinct(Tail(todo[t])) /\ ~In(Tail(todo[t]), Head(todo[t]))
              /\ \A x : In(Tail(todo[t]), x) => In(todo[t], x)
              /\ result' = [result EXCEPT ![Head(todo[t])] = r]
              /\ todo' = [todo EXCEPT ![t] = Tail(todo[t])]
              /\ pc' = [pc EXCEPT ![t] = q]
              /\ q = "single" <=> Tail(todo[t]) # <<>>
              /\ q = "handoff" => tx[t].batch
              /\ q = "done" => ~tx[t].batch
<1>1. PICK r \in Told : Finish(t, r)
  BY Zenon DEF Answer
<1>2. pc[t] \in Working \ {"post"}
  BY Zenon DEF Answer, Working
<1>3. QED
  BY <1>1, <1>2, FinishFacts, Zenon

LEMMA ThreadStep ==
    ASSUME [Next]_vars, WalType, ThreadType, QueueInv, PlaceInv, GroupInv, SnapInv
    PROVE  ThreadType'
<1>0. /\ grp \in Txn \cup {None} /\ gres \in [Txn -> {"Ok", "Unknown", None}]
      /\ fenced \in BOOLEAN /\ active \in BOOLEAN
      /\ queue \in Seq(Txn) /\ lead \in [Txn -> BOOLEAN]
      /\ pc \in [Txn -> Phase] /\ tx \in [Txn -> StagedType]
      /\ todo \in [Txn -> Seq(Txn)] /\ held \in [Txn -> Seq(HeldType)]
      /\ via \in [Txn -> Txn \cup {None}]
      /\ result \in [Txn -> Told \cup {None}]
  BY Zenon DEF ThreadType
<1>1. ASSUME NEW t \in Txn, Begin(t) PROVE ThreadType'
  <2>1. PICK s \in Shape :
          tx' = [tx EXCEPT ![t] = [snap |-> Len(log), keys |-> s.keys,
                                   delta |-> s.delta, batch |-> s.batch]]
    BY <1>1, Zenon DEF Begin
  <2>2. s.keys \in SUBSET Key /\ s.delta \in BOOLEAN /\ s.batch \in BOOLEAN
    BY CommitAssumption, Zenon
  <2>3. Len(log) \in Nat
    BY DEF WalType
  <2>4. tx' \in [Txn -> StagedType]
    BY <1>0, <2>1, <2>2, <2>3, Zenon DEF StagedType
  <2>5. QED
    BY <1>0, <1>1, <2>4, Zenon DEF Begin, Goto, Phase, ThreadType, sync, coord
<1>2. ASSUME NEW t \in Txn, CommitStaged(t) PROVE ThreadType'
  BY <1>0, <1>2, Zenon DEF CommitStaged, Goto, Phase, Told, ThreadType, sync, coord
<1>3. ASSUME NEW t \in Txn, Direct(t) PROVE ThreadType'
  BY <1>0, <1>3 DEF Direct, Goto, Phase, ThreadType, sync, coord
<1>4. ASSUME NEW t \in Txn, Enqueue(t) PROVE ThreadType'
  BY <1>0, <1>4 DEF Enqueue, Goto, Phase, ThreadType, sync
<1>5. ASSUME NEW t \in Txn, TakeBatch(t) PROVE ThreadType'
  <2> DEFINE take == IF Len(queue) < MaxBatch THEN Len(queue) ELSE MaxBatch
  <2>1. take \in 0..Len(queue)
    BY <1>0, CommitAssumption
  <2>2. SubSeq(queue, 1, take) \in Seq(Txn) /\ SubSeq(queue, take + 1, Len(queue)) \in Seq(Txn)
    BY <1>0, <2>1, SplitFacts, Zenon DEF QueueInv
  <2>3. /\ todo' = [todo EXCEPT ![t] = SubSeq(queue, 1, take)]
        /\ queue' = SubSeq(queue, take + 1, Len(queue))
        /\ pc' = [pc EXCEPT ![t] = "batch"]
        /\ UNCHANGED <<sync, fenced, active, lead, tx, held, via, result>>
    BY <1>5, Zenon DEF TakeBatch, Goto
  <2> HIDE DEF take
  <2>4. QED
    BY <1>0, <2>2, <2>3, Zenon DEF Phase, ThreadType, sync
<1>6. ASSUME NEW t \in Txn, Handoff(t) PROVE ThreadType'
  BY <1>0, <1>6, Zenon DEF Handoff, Goto, Phase, ThreadType, sync
<1>7. ASSUME NEW t \in Txn, Wake(t) PROVE ThreadType'
  BY <1>0, <1>7, Zenon DEF Wake, Goto, Phase, ThreadType, sync
<1>8. ASSUME NEW t \in Txn, BatchRefused(t) PROVE ThreadType'
  BY <1>0, <1>8, Zenon DEF BatchRefused, Goto, Phase, ThreadType, sync, coord
<1>9. ASSUME NEW t \in Txn, Batch(t) PROVE ThreadType'
  <2>1. PICK r \in Replayable, told \in {"Ok", "Unknown", "Io"} :
          /\ BatchOf(t, Members(t, r), Aside(t, r), Records(Members(t, r)))
          /\ todo' = [todo EXCEPT ![t] = Aside(t, r)]
          /\ held' = [held EXCEPT ![t] = HeldFor(Members(t, r), told)]
    BY <1>9, BatchCases, Zenon
  <2>2. Members(t, r) \in Seq(Txn) /\ Aside(t, r) \in Seq(Txn)
    BY <2>1, Zenon DEF BatchOf
  <2>3. HeldFor(Members(t, r), told) \in Seq(HeldType)
    BY <2>2 DEF HeldFor, HeldType
  <2>4. todo' \in [Txn -> Seq(Txn)] /\ held' \in [Txn -> Seq(HeldType)]
    BY <1>0, <2>1, <2>2, <2>3, Zenon
  <2>5. pc' = [pc EXCEPT ![t] = "post"] /\ UNCHANGED <<sync, fenced, coord, tx, via, result>>
    BY <1>9, Zenon DEF Batch, Goto
  <2>6. QED
    BY <1>0, <2>4, <2>5, Zenon DEF Phase, ThreadType, sync, coord
<1>10. ASSUME NEW t \in Txn, BatchPost(t) PROVE ThreadType'
  <2> DEFINE told(m) == {i \in 1..Len(held[t]) : held[t][i].txn = m}
  <2>1. result' \in [Txn -> Told \cup {None}]
    <3>1. result' = [m \in Txn |-> IF told(m) = {} THEN result[m]
                                  ELSE held[t][CHOOSE i \in told(m) : TRUE].told]
      BY <1>10, Zenon DEF BatchPost
    <3>2. ASSUME NEW m \in Txn, told(m) # {}
          PROVE  held[t][CHOOSE i \in told(m) : TRUE].told \in Told
      <4>1. (CHOOSE i \in told(m) : TRUE) \in 1..Len(held[t])
        BY <3>2, Zenon
      <4>2. \A i \in 1..Len(held[t]) : held[t][i].told \in Told
        <5>1. held[t] \in Seq(HeldType)
          BY <1>0, Zenon
        <5>2. \A i \in 1..Len(held[t]) : held[t][i] \in HeldType
          BY <5>1
        <5>3. QED
          BY <5>2, Zenon DEF HeldType, Told
      <4>3. QED
        BY <4>1, <4>2, Zenon
    <3> HIDE DEF told
    <3>3. QED
      BY <1>0, <3>1, <3>2, Zenon
  <2>2. /\ fenced' \in BOOLEAN /\ held' \in [Txn -> Seq(HeldType)]
    BY <1>0, <1>10 DEF BatchPost
  <2>3. pc' \in [Txn -> Phase] /\ UNCHANGED <<sync, coord, tx, todo, via>>
    BY <1>0, <1>10, Zenon DEF BatchPost, Goto, Phase
  <2>4. QED
    BY <1>0, <2>1, <2>2, <2>3, Zenon DEF ThreadType, sync, coord
<1>11. ASSUME NEW t \in Txn, Answer(t), UNCHANGED <<sync, via>>, fenced' \in BOOLEAN
       PROVE  ThreadType'
  <2>1. PICK r \in Told, q \in {"single", "handoff", "done"} :
              /\ Tail(todo[t]) \in Seq(Txn)
              /\ result' = [result EXCEPT ![Head(todo[t])] = r]
              /\ todo' = [todo EXCEPT ![t] = Tail(todo[t])]
              /\ pc' = [pc EXCEPT ![t] = q]
    BY <1>11, AnswerFacts, Zenon
  <2>2. UNCHANGED <<coord, tx, held>>
    BY <1>11, Zenon DEF Answer
  <2>3. QED
    BY <1>0, <1>11, <2>1, <2>2, Zenon DEF Phase, ThreadType, sync, coord
<1>12. ASSUME NEW t \in Txn, Single(t), ~Answer(t) PROVE ThreadType'
  <2>1. CASE mode # "Safe"
    <3>1. Answer(t)
      BY <1>12, <2>1, Zenon DEF Single, Answer, Told
    <3>2. QED
      BY <1>12, <3>1, Zenon
  <2>2. CASE mode = "Safe"
    <3>1. todo[t] \in Seq(Txn) /\ todo[t] # <<>> /\ Distinct(todo[t])
      BY <1>12, <1>0, Zenon DEF Single, PlaceInv, Working
    <3>2. Head(todo[t]) \in Txn
      BY <3>1, TailFacts, Zenon
    <3>3. grp' \in Txn /\ via' = [via EXCEPT ![t] = grp']
      BY <1>0, <1>12, <2>2, <3>2, Zenon DEF Single
    <3>4. pc' \in [Txn -> Phase]
      <4>1. pc' = [pc EXCEPT ![t] = IF grp = None THEN "sync" ELSE "groupWait"]
        BY <1>12, <2>2, Zenon DEF Single, Goto
      <4>2. (IF grp = None THEN "sync" ELSE "groupWait") \in Phase
        BY Zenon DEF Phase
      <4>3. QED
        BY <1>0, <4>1, <4>2, Zenon
    <3>5. UNCHANGED <<gres, fenced, coord, tx, held, result, todo>>
      BY <1>12, <2>2, Zenon DEF Single
    <3>6. QED
      BY <1>0, <3>3, <3>4, <3>5, Zenon DEF ThreadType, coord
  <2>3. QED
    BY <2>1, <2>2, Zenon
<1>13. ASSUME NEW t \in Txn, GroupSync(t) PROVE ThreadType'
  BY <1>0, <1>13, Zenon DEF GroupSync, Goto, Phase, ThreadType, coord
<1>14. ASSUME NEW t \in Txn, GroupComplete(t) PROVE ThreadType'
  <2>1. via[t] \in Txn
    BY <1>0, <1>14, Zenon DEF GroupComplete, GroupInv, Syncing
  <2>2. /\ gres' \in [Txn -> {"Ok", "Unknown", None}] /\ fenced' \in BOOLEAN
        /\ UNCHANGED <<grp, via>> /\ gres'[via[t]] \in Told
    BY <1>0, <1>14, <2>1, Zenon DEF GroupComplete, Told
  <2>3. Answer(t)
    BY <1>14, <2>2, Zenon DEF GroupComplete, Answer
  <2>4. PICK r \in Told, q \in {"single", "handoff", "done"} :
              /\ Tail(todo[t]) \in Seq(Txn)
              /\ result' = [result EXCEPT ![Head(todo[t])] = r]
              /\ todo' = [todo EXCEPT ![t] = Tail(todo[t])]
              /\ pc' = [pc EXCEPT ![t] = q]
    BY <2>3, AnswerFacts, Zenon
  <2>5. UNCHANGED <<coord, tx, held>>
    BY <1>14, Zenon DEF GroupComplete
  <2>6. QED
    BY <1>0, <2>2, <2>4, <2>5, Zenon DEF Phase, ThreadType, coord
<1>15. ASSUME NEW t \in Txn, Conflict(t) \/ Refuse(t) \/ SingleFails(t)
       PROVE  ThreadType'
  <2>1. Answer(t) /\ UNCHANGED <<sync, via, fenced>>
    BY <1>15, Zenon DEF Conflict, Refuse, SingleFails, Answer, Told
  <2>2. QED
    BY <1>0, <1>11, <2>1, Zenon
<1>16. ASSUME NEW t \in Txn, GroupWait(t) PROVE ThreadType'
  <2>1. gres[via[t]] \in Told
    BY <1>0, <1>16, Zenon DEF GroupWait, GroupInv, Syncing, Told
  <2>2. Answer(t) /\ UNCHANGED <<sync, via, fenced>>
    BY <1>16, <2>1, Zenon DEF GroupWait, Answer
  <2>3. QED
    BY <1>0, <1>11, <2>2, Zenon
<1>17. ASSUME NEW t \in Txn, Single(t), Answer(t) PROVE ThreadType'
  <2>1. mode # "Safe"
    <3>1. PICK q \in {"single", "handoff", "done"} : pc' = [pc EXCEPT ![t] = q]
      BY <1>17, AnswerFacts, Zenon
    <3>2. CASE mode = "Safe"
      <4>1. pc'[t] \in Syncing
        BY <1>0, <1>17, <3>2, Zenon DEF Single, Goto, Syncing
      <4>2. pc'[t] = q
        BY <1>0, <3>1, Zenon
      <4>3. QED
        BY <4>1, <4>2, Zenon DEF Syncing
    <3>3. QED
      BY <3>2, Zenon
  <2>2. UNCHANGED <<sync, via, fenced>>
    BY <1>17, <2>1, Zenon DEF Single, sync
  <2>3. QED
    BY <1>0, <1>11, <1>17, <2>2, Zenon
<1>18. CASE Restart
  <2>1. /\ queue' \in Seq(Txn) /\ lead' \in [Txn -> BOOLEAN]
        /\ todo' \in [Txn -> Seq(Txn)] /\ held' \in [Txn -> Seq(HeldType)]
        /\ pc' \in [Txn -> Phase]
    BY <1>0, <1>18 DEF Restart, Phase
  <2>2. QED
    BY <1>0, <1>18, <2>1, Zenon DEF Restart, ThreadType
<1>19. CASE TimerBegin \/ TimerSync \/ Finished \/ UNCHANGED vars
  BY <1>0, <1>19, Zenon
     DEF TimerBegin, TimerSync, Finished, vars, thread, sync, coord, ThreadType
<1>20. CASE Kill \/ PowerLoss \/ Close
  <2>1. Restart
    BY <1>20, Zenon DEF Kill, PowerLoss, Close, Reopen, Restart
  <2>2. QED
    BY <1>18, <2>1, Zenon
<1>21. QED
  BY <1>1, <1>2, <1>3, <1>4, <1>5, <1>6, <1>7, <1>8, <1>9, <1>10, <1>12, <1>13, <1>14,
     <1>15, <1>16, <1>17, <1>19, <1>20, ZenonT(30) DEF Next, Step

(* A request is in one place. *)
LEMMA Owner ==
    ASSUME ThreadType, QueueInv, BatonInv, PlaceInv, NEW t \in Txn, NEW u \in Txn,
           NEW m \in Txn
    PROVE  /\ In(todo[t], m) /\ In(todo[u], m) => t = u
           /\ Holds(t, m) => ~In(todo[u], m)
           /\ Holds(t, m) /\ Holds(u, m) => t = u
<1>1. ASSUME NEW v \in Txn, pc[v] \in Working, tx[v].batch PROVE Leading(v)
  BY <1>1, Zenon DEF Leading, Working
<1>2. ASSUME NEW v \in Txn, In(todo[v], m), v # m
      PROVE  pc[v] \in Working /\ Leading(v) /\ pc[m] = "wait"
  BY <1>1, <1>2, Zenon DEF PlaceInv
<1>3. ASSUME NEW v \in Txn, Holds(v, m)
      PROVE  pc[v] = "post" /\ Leading(v) /\ ~In(todo[v], m) /\ (v # m => pc[m] = "wait")
  BY <1>3, Zenon DEF PlaceInv, Leading, QueueInv
<1>4. In(todo[m], m) => pc[m] \in Working
  BY Zenon DEF PlaceInv
<1>5. "wait" \notin Working /\ "wait" # "post" /\ "post" \in Working
  BY Zenon DEF Working
<1>6. \A v, w \in Txn : Leading(v) /\ Leading(w) => v = w
  BY Zenon DEF BatonInv
<1>7. QED
  BY <1>2, <1>3, <1>4, <1>5, <1>6, Zenon

(* A thread that neither waits nor works has its request nowhere. *)
LEMMA Nowhere ==
    ASSUME ThreadType, QueueInv, PlaceInv, NEW m \in Txn
    PROVE  /\ pc[m] \notin Working \cup {"wait"}
                => \A t \in Txn : ~In(todo[t], m) /\ ~Holds(t, m)
           /\ result[m] # None \/ In(queue, m)
                => \A t \in Txn : ~In(todo[t], m) /\ ~Holds(t, m)
           /\ pc[m] \notin {"wait", "lead"} => ~In(queue, m)
           /\ pc[m] # "wait" => ~lead[m]
           /\ lead[m] \/ pc[m] = "lead" => In(queue, m)
<1>1. pc[m] \notin Working \cup {"wait"} => \A t \in Txn : ~In(todo[t], m) /\ ~Holds(t, m)
  BY Zenon DEF PlaceInv, Working
<1>2. result[m] # None \/ In(queue, m) => \A t \in Txn : ~In(todo[t], m) /\ ~Holds(t, m)
  BY Zenon DEF PlaceInv
<1>3. lead[m] \/ pc[m] = "lead" => In(queue, m)
  <2>1. lead[m] \/ pc[m] = "lead" => queue # <<>> /\ Head(queue) = m
    BY Zenon DEF QueueInv
  <2>2. queue \in Seq(Txn) /\ Distinct(queue)
    BY Zenon DEF ThreadType, QueueInv
  <2>3. QED
    BY <2>1, <2>2, TailFacts, Zenon
<1>4. QED
  BY <1>1, <1>2, <1>3, Zenon DEF QueueInv

(* What taking up requests does to the queue. *)
LEMMA TakeFacts ==
    ASSUME ThreadType, QueueInv, NEW t \in Txn, TakeBatch(t)
    PROVE  /\ todo'[t] \in Seq(Txn) /\ queue' \in Seq(Txn)
           /\ todo' = [todo EXCEPT ![t] = todo'[t]]
           /\ Distinct(todo'[t]) /\ Distinct(queue') /\ todo'[t] # <<>>
           /\ \A m : In(queue, m) <=> In(todo'[t], m) \/ In(queue', m)
           /\ \A m : ~(In(todo'[t], m) /\ In(queue', m))
           /\ In(todo'[t], t)
<1> DEFINE take == IF Len(queue) < MaxBatch THEN Len(queue) ELSE MaxBatch
           a == SubSeq(queue, 1, take)
           b == SubSeq(queue, take + 1, Len(queue))
<1>1. queue \in Seq(Txn) /\ Distinct(queue) /\ queue # <<>> /\ Head(queue) = t
  BY Zenon DEF ThreadType, QueueInv, TakeBatch
<1>2. take \in 0..Len(queue) /\ take > 0
  BY <1>1, CommitAssumption
<1>3. todo' = [todo EXCEPT ![t] = a] /\ queue' = b
  BY Zenon DEF TakeBatch
<1>4. a[1] = queue[1] /\ Len(a) = take
  BY <1>1, <1>2
<1> HIDE DEF take
<1>5. /\ a \in Seq(Txn) /\ b \in Seq(Txn) /\ Distinct(a) /\ Distinct(b)
      /\ \A m : In(queue, m) <=> In(a, m) \/ In(b, m)
      /\ \A m : ~(In(a, m) /\ In(b, m))
      /\ a # <<>>
  BY <1>1, <1>2, SplitFacts, Zenon
<1>6. In(a, t)
  BY <1>1, <1>2, <1>4 DEF In
<1> HIDE DEF a, b
<1>7. todo'[t] = a
  BY <1>3, Zenon DEF ThreadType
<1>8. QED
  BY <1>3, <1>5, <1>6, <1>7, Zenon

LEMMA QueueStep ==
    ASSUME [Next]_vars, WalType, ThreadType, QueueInv, BatonInv, PlaceInv, GroupInv,
           SnapInv
    PROVE  QueueInv'
<1>0. /\ pc \in [Txn -> Phase] /\ queue \in Seq(Txn) /\ lead \in [Txn -> BOOLEAN]
      /\ tx \in [Txn -> StagedType] /\ result \in [Txn -> Told \cup {None}]
      /\ Distinct(queue)
  BY Zenon DEF ThreadType, QueueInv
<1>a. /\ \A m \in Txn : In(queue, m) =>
           result[m] = None /\ tx[m].batch /\ pc[m] \in {"wait", "lead"}
      /\ \A t \in Txn : lead[t] => pc[t] = "wait" /\ queue # <<>> /\ Head(queue) = t
      /\ \A t \in Txn : pc[t] = "lead" => queue # <<>> /\ Head(queue) = t
      /\ \A t \in Txn : pc[t] \in {"lead", "batch", "post", "handoff", "wait"}
           => tx[t].batch
  BY Zenon DEF QueueInv
(* A step of a thread that is not in the queue, which it leaves alone. *)
<1>b. ASSUME NEW t \in Txn, pc[t] \notin {"wait", "lead"}, UNCHANGED coord,
             NEW q \in Phase \ {"lead"}, pc' = [pc EXCEPT ![t] = q],
             \A u \in Txn : u # t => tx'[u] = tx[u],
             q \in {"batch", "post", "handoff", "wait"} => tx'[t].batch,
             \A m \in Txn : In(queue, m) => result'[m] = result[m]
      PROVE  QueueInv'
  <2>1. ~In(queue, t) /\ ~lead[t]
    BY <1>b, Nowhere, Zenon
  <2>2. pc'[t] = q /\ \A u \in Txn : u # t => pc'[u] = pc[u]
    BY <1>0, <1>b, Zenon
  <2>3. queue' = queue /\ lead' = lead
    BY <1>b, Zenon DEF coord
  <2>4. \A m \in Txn : In(queue, m) =>
           result'[m] = None /\ tx'[m].batch /\ pc'[m] \in {"wait", "lead"}
    BY <1>a, <1>b, <2>1, <2>2, Zenon
  <2>5. \A u \in Txn : lead[u] => pc'[u] = "wait" /\ queue # <<>> /\ Head(queue) = u
    BY <1>a, <2>1, <2>2, Zenon
  <2>6. \A u \in Txn : pc'[u] = "lead" => queue # <<>> /\ Head(queue) = u
    BY <1>a, <1>b, <2>2, Zenon
  <2>7. \A u \in Txn : pc'[u] \in {"lead", "batch", "post", "handoff", "wait"} => tx'[u].batch
    BY <1>a, <1>b, <2>2
  <2>8. QED
    BY <1>0, <2>3, <2>4, <2>5, <2>6, <2>7, Zenon DEF QueueInv
<1>1. ASSUME NEW t \in Txn, Begin(t) PROVE QueueInv'
  <2>1. \A u \in Txn : u # t => tx'[u] = tx[u]
    BY <1>0, <1>1, Zenon DEF Begin
  <2>2. pc[t] = "idle" /\ pc' = [pc EXCEPT ![t] = "open"] /\ UNCHANGED <<coord, result>>
    BY <1>1, Zenon DEF Begin, Goto
  <2>3. QED
    BY <1>b, <2>1, <2>2, Zenon DEF Phase
<1>2. ASSUME NEW t \in Txn, CommitStaged(t) PROVE QueueInv'
  <2>1. /\ pc[t] = "open" /\ UNCHANGED <<coord, tx>>
        /\ pc' = [pc EXCEPT ![t] = "done"] \/ pc' = [pc EXCEPT ![t] = "ready"]
    BY <1>2, Zenon DEF CommitStaged, Goto
  <2>2. \A u \in Txn : u # t => result'[u] = result[u]
    BY <1>0, <1>2, Zenon DEF CommitStaged
  <2>3. ~In(queue, t)
    BY <2>1, Nowhere, Zenon
  <2>4. \A m \in Txn : In(queue, m) => result'[m] = result[m]
    BY <2>2, <2>3, Zenon
  <2>5. QED
    BY <1>b, <2>1, <2>4, Zenon DEF Phase
<1>3. ASSUME NEW t \in Txn, Direct(t) PROVE QueueInv'
  <2>1. /\ pc[t] = "ready" /\ UNCHANGED <<coord, tx, result>>
        /\ pc' = [pc EXCEPT ![t] = "single"]
    BY <1>3, Zenon DEF Direct, Goto
  <2>2. QED
    BY <1>b, <2>1, Zenon DEF Phase
<1>4. ASSUME NEW t \in Txn, Enqueue(t) PROVE QueueInv'
  <2>1. /\ pc[t] = "ready" /\ tx[t].batch /\ queue' = Append(queue, t)
        /\ UNCHANGED <<lead, tx, result>>
    BY <1>4, Zenon DEF Enqueue
  <2>2. pc' = [pc EXCEPT ![t] = IF active THEN "wait" ELSE "lead"]
    BY <1>4, Zenon DEF Enqueue, Goto
  <2>3. result[t] = None /\ ~In(queue, t) /\ ~lead[t]
    BY <2>1, Nowhere, Zenon DEF PlaceInv, Fresh
  <2>4. /\ queue' # <<>> /\ Distinct(queue')
        /\ queue # <<>> => Head(queue') = Head(queue)
        /\ queue = <<>> => Head(queue') = t
        /\ \A m : In(queue', m) <=> In(queue, m) \/ m = t
    BY <1>0, <2>1, <2>3, AppendFacts
  <2>5. /\ pc'[t] = IF active THEN "wait" ELSE "lead"
        /\ \A u \in Txn : u # t => pc'[u] = pc[u]
    BY <1>0, <2>2, Zenon
  <2>6. ~active => queue = <<>>
    BY Zenon DEF BatonInv
  <2>7. \A m \in Txn : In(queue', m) =>
           result'[m] = None /\ tx'[m].batch /\ pc'[m] \in {"wait", "lead"}
    BY <1>a, <2>1, <2>3, <2>4, <2>5, Zenon
  <2>8. \A u \in Txn : lead'[u] => pc'[u] = "wait" /\ queue' # <<>> /\ Head(queue') = u
    BY <1>a, <2>1, <2>3, <2>4, <2>5, Zenon
  <2>9. \A u \in Txn : pc'[u] = "lead" => queue' # <<>> /\ Head(queue') = u
    BY <1>a, <2>1, <2>4, <2>5, <2>6, Zenon
  <2>10. \A u \in Txn : pc'[u] \in {"lead", "batch", "post", "handoff", "wait"} => tx'[u].batch
    BY <1>a, <2>1, <2>5, Zenon
  <2>11. QED
    BY <2>4, <2>7, <2>8, <2>9, <2>10, Zenon DEF QueueInv
<1>5. ASSUME NEW t \in Txn, TakeBatch(t) PROVE QueueInv'
  <2>1. /\ pc[t] = "lead" /\ pc' = [pc EXCEPT ![t] = "batch"] /\ UNCHANGED <<lead, tx, result>>
    BY <1>5, Zenon DEF TakeBatch, Goto
  <2>2. /\ Distinct(queue') /\ \A m : In(queue', m) => In(queue, m)
        /\ ~In(queue', t)
    BY <1>5, TakeFacts, Zenon
  <2>3. pc'[t] = "batch" /\ \A u \in Txn : u # t => pc'[u] = pc[u]
    BY <1>0, <2>1, Zenon
  <2>4. \A u \in Txn : ~lead[u] /\ (u # t => pc[u] # "lead")
    <3>1. Leading(t)
      BY <1>a, <2>1, Zenon DEF Leading
    <3>2. \A u \in Txn : lead[u] \/ pc[u] = "lead" => Leading(u)
      BY <1>a, Zenon DEF Leading
    <3>3. ~lead[t]
      BY <2>1, Nowhere, Zenon
    <3>4. QED
      BY <3>1, <3>2, <3>3, Zenon DEF BatonInv
  <2>5. \A m \in Txn : In(queue', m) =>
           result'[m] = None /\ tx'[m].batch /\ pc'[m] \in {"wait", "lead"}
    BY <1>a, <2>1, <2>2, <2>3, Zenon
  <2>6. \A u \in Txn : ~lead'[u] /\ pc'[u] # "lead"
    BY <2>1, <2>3, <2>4, Zenon
  <2>7. \A u \in Txn : pc'[u] \in {"lead", "batch", "post", "handoff", "wait"} => tx'[u].batch
    BY <1>a, <2>1, <2>3, Zenon
  <2>8. QED
    BY <2>2, <2>5, <2>6, <2>7, Zenon DEF QueueInv
<1>6. ASSUME NEW t \in Txn, Handoff(t) PROVE QueueInv'
  <2>1. pc[t] = "handoff" /\ pc' = [pc EXCEPT ![t] = "wait"] /\ UNCHANGED <<queue, tx, result>>
    BY <1>6, Zenon DEF Handoff, Goto
  <2>2. pc'[t] = "wait" /\ \A u \in Txn : u # t => pc'[u] = pc[u]
    BY <1>0, <2>1, Zenon
  <2>3. \A u \in Txn : ~lead[u] /\ pc[u] # "lead"
    <3>1. Leading(t)
      BY <1>a, <2>1, Zenon DEF Leading
    <3>2. \A u \in Txn : lead[u] \/ pc[u] = "lead" => Leading(u)
      BY <1>a, Zenon DEF Leading
    <3>3. ~lead[t] /\ pc[t] # "lead"
      BY <2>1, Nowhere, Zenon
    <3>4. QED
      BY <3>1, <3>2, <3>3, Zenon DEF BatonInv
  <2>4. \A u \in Txn : lead'[u] => queue # <<>> /\ Head(queue) = u
    BY <1>0, <1>6, <2>3, Zenon DEF Handoff
  <2>5. \A m \in Txn : In(queue, m) =>
           result'[m] = None /\ tx'[m].batch /\ pc'[m] = "wait"
    BY <1>a, <2>1, <2>2, <2>3, Zenon
  <2>6. \A u \in Txn : lead'[u] => pc'[u] = "wait"
    <3>1. queue # <<>> => In(queue, Head(queue))
      BY <1>0, TailFacts, Zenon
    <3>2. QED
      BY <2>4, <2>5, <3>1, Zenon
  <2>7. \A u \in Txn : pc'[u] # "lead"
    BY <2>2, <2>3, Zenon
  <2>8. \A u \in Txn : pc'[u] \in {"lead", "batch", "post", "handoff", "wait"} => tx'[u].batch
    BY <1>a, <2>1, <2>2, Zenon
  <2>9. QED
    BY <1>0, <2>1, <2>4, <2>5, <2>6, <2>7, <2>8, Zenon DEF QueueInv
<1>7. ASSUME NEW t \in Txn, Wake(t) PROVE QueueInv'
  <2>1. pc[t] = "wait" /\ UNCHANGED <<queue, tx, result>>
    BY <1>7, Zenon DEF Wake
  <2>2. CASE result[t] # None /\ pc' = [pc EXCEPT ![t] = "done"] /\ UNCHANGED lead
    <3>1. ~In(queue, t) /\ ~lead[t]
      BY <1>a, <2>2, Nowhere, Zenon
    <3>2. pc'[t] = "done" /\ \A u \in Txn : u # t => pc'[u] = pc[u]
      BY <1>0, <2>2, Zenon
    <3>3. \A m \in Txn : In(queue, m) =>
           result'[m] = None /\ tx'[m].batch /\ pc'[m] \in {"wait", "lead"}
      BY <1>a, <2>1, <3>1, <3>2, Zenon
    <3>4. \A u \in Txn : lead'[u] => pc'[u] = "wait" /\ queue # <<>> /\ Head(queue) = u
      BY <1>a, <2>2, <3>1, <3>2, Zenon
    <3>5. \A u \in Txn : pc'[u] = "lead" => queue # <<>> /\ Head(queue) = u
      BY <1>a, <3>2, Zenon
    <3>6. \A u \in Txn : pc'[u] \in {"lead", "batch", "post", "handoff", "wait"} => tx'[u].batch
      BY <1>a, <2>1, <3>2, Zenon
    <3>7. QED
      BY <1>0, <2>1, <3>3, <3>4, <3>5, <3>6, Zenon DEF QueueInv
  <2>3. CASE /\ lead[t] /\ lead' = [lead EXCEPT ![t] = FALSE]
             /\ pc' = [pc EXCEPT ![t] = "lead"]
    <3>1. queue # <<>> /\ Head(queue) = t
      BY <1>a, <2>3, Zenon
    <3>2. pc'[t] = "lead" /\ \A u \in Txn : u # t => pc'[u] = pc[u]
      BY <1>0, <2>3, Zenon
    <3>3. \A m \in Txn : In(queue, m) =>
           result'[m] = None /\ tx'[m].batch /\ pc'[m] \in {"wait", "lead"}
      BY <1>a, <2>1, <3>2, Zenon
    <3>4. \A u \in Txn : lead'[u] => pc'[u] = "wait" /\ queue # <<>> /\ Head(queue) = u
      BY <1>0, <1>a, <2>3, <3>2, Zenon
    <3>5. \A u \in Txn : pc'[u] = "lead" => queue # <<>> /\ Head(queue) = u
      BY <1>a, <3>1, <3>2, Zenon
    <3>6. \A u \in Txn : pc'[u] \in {"lead", "batch", "post", "handoff", "wait"} => tx'[u].batch
      BY <1>a, <2>1, <3>2, Zenon
    <3>7. QED
      BY <1>0, <2>1, <3>3, <3>4, <3>5, <3>6, Zenon DEF QueueInv
  <2>4. QED
    BY <1>7, <2>2, <2>3, Zenon DEF Wake, Goto
<1>8. ASSUME NEW t \in Txn, BatchRefused(t) PROVE QueueInv'
  <2>1. /\ pc[t] = "batch" /\ UNCHANGED <<coord, tx, result>>
        /\ pc' = [pc EXCEPT ![t] = "single"]
    BY <1>8, Zenon DEF BatchRefused, Goto
  <2>2. QED
    BY <1>b, <2>1, Zenon DEF Phase
<1>9. ASSUME NEW t \in Txn, Batch(t) PROVE QueueInv'
  <2>1. /\ pc[t] = "batch" /\ UNCHANGED <<coord, tx, result>>
        /\ pc' = [pc EXCEPT ![t] = "post"]
    BY <1>9, Zenon DEF Batch, Goto
  <2>2. QED
    BY <1>a, <1>b, <2>1, Zenon DEF Phase
<1>10. ASSUME NEW t \in Txn, BatchPost(t) PROVE QueueInv'
  <2>1. /\ pc[t] = "post" /\ UNCHANGED <<coord, tx>>
        /\ pc' = [pc EXCEPT ![t] = "handoff"] \/ pc' = [pc EXCEPT ![t] = "single"]
    BY <1>10, Zenon DEF BatchPost, Goto
  <2>2. \A m \in Txn : In(queue, m) => result'[m] = result[m]
    <3>1. \A m \in Txn : In(queue, m) => {i \in 1..Len(held[t]) : held[t][i].txn = m} = {}
      BY DEF PlaceInv, Holds
    <3>2. QED
      BY <1>10, <3>1, Zenon DEF BatchPost
  <2>3. QED
    BY <1>a, <1>b, <2>1, <2>2 DEF Phase
<1>11. ASSUME NEW t \in Txn, Answer(t) PROVE QueueInv'
  <2>1. /\ pc[t] \in Working /\ UNCHANGED <<coord, tx>>
    BY <1>11, Zenon DEF Answer, Working
  <2>2. PICK r \in Told, q \in {"single", "handoff", "done"} :
              /\ Head(todo[t]) \in Txn /\ In(todo[t], Head(todo[t]))
              /\ result' = [result EXCEPT ![Head(todo[t])] = r]
              /\ pc' = [pc EXCEPT ![t] = q]
              /\ q = "handoff" => tx[t].batch
    BY <1>11, AnswerFacts, Zenon
  <2>3. \A m \in Txn : In(queue, m) => result'[m] = result[m]
    BY <1>0, <2>2, Zenon DEF PlaceInv
  <2>4. QED
    BY <1>b, <2>1, <2>2, <2>3, Zenon DEF Phase, Working
<1>12. ASSUME NEW t \in Txn, Move(t) PROVE QueueInv'
  <2>1. PICK q \in Syncing : pc' = [pc EXCEPT ![t] = q]
    BY <1>12, Zenon DEF Move, Goto
  <2>2. pc[t] \in {"single", "sync"} /\ UNCHANGED <<coord, tx, result>>
    BY <1>12, Zenon DEF Move
  <2>3. QED
    BY <1>b, <2>1, <2>2, Zenon DEF Phase, Syncing
<1>13. CASE NoMove
  BY <1>13, Zenon DEF NoMove, coord, QueueInv
<1>14. CASE Restart
  <2>1. queue' = <<>> /\ \A t \in Txn : ~lead'[t] /\ pc'[t] \in {"idle", "done", "dead"}
    BY <1>14, Zenon DEF Restart
  <2>2. \A m : ~In(queue', m)
    BY <2>1 DEF In
  <2>3. Distinct(queue')
    BY <2>1 DEF Distinct
  <2>4. QED
    BY <2>1, <2>2, <2>3, Zenon DEF QueueInv
<1>15. QED
  BY <1>1, <1>2, <1>3, <1>4, <1>5, <1>6, <1>7, <1>8, <1>9, <1>10, <1>11, <1>12,
     <1>13, <1>14, StepClasses, Zenon

-----------------------------------------------------------------------------
(* One leader, led groups, an honest flag.                                 *)

LEMMA BatonStep ==
    ASSUME [Next]_vars, WalType, ThreadType, QueueInv, BatonInv, PlaceInv, GroupInv,
           SnapInv
    PROVE  BatonInv'
<1>0. /\ pc \in [Txn -> Phase] /\ lead \in [Txn -> BOOLEAN] /\ queue \in Seq(Txn)
      /\ tx \in [Txn -> StagedType] /\ active \in BOOLEAN
  BY Zenon DEF ThreadType
<1>a. /\ ~active => queue = <<>> /\ \A t \in Txn : ~Leading(t)
      /\ active => \E t \in Txn : Leading(t)
      /\ \A t, u \in Txn : Leading(t) /\ Leading(u) => t = u
  BY Zenon DEF BatonInv
<1> DEFINE Heads == {"lead", "batch", "post", "single", "sync", "synced", "syncFailed",
                     "groupWait", "handoff"}
(* The same threads lead, and nothing enters an inactive queue. *)
<1>b. ASSUME active' = active, ~active => queue' = queue,
             \A u \in Txn : Leading(u)' <=> Leading(u)
      PROVE  BatonInv'
  BY <1>a, <1>b, Zenon DEF BatonInv
(* A step of one thread that keeps its part. *)
<1>c. ASSUME NEW t \in Txn, UNCHANGED coord, NEW q, pc' = [pc EXCEPT ![t] = q],
             \A u \in Txn : u # t => tx'[u] = tx[u],
             tx'[t].batch /\ q \in Heads <=> tx[t].batch /\ pc[t] \in Heads
      PROVE  BatonInv'
  <2>1. pc'[t] = q /\ \A u \in Txn : u # t => pc'[u] = pc[u]
    BY <1>0, <1>c, Zenon
  <2>2. Leading(t)' <=> Leading(t)
    BY <1>c, <2>1, Zenon DEF Leading, coord
  <2>3. \A u \in Txn : u # t => (Leading(u)' <=> Leading(u))
    BY <1>c, <2>1, Zenon DEF Leading, coord
  <2>4. QED
    BY <1>b, <1>c, <2>2, <2>3, Zenon DEF coord
<1>1. ASSUME NEW t \in Txn, Begin(t) PROVE BatonInv'
  <2>1. \A u \in Txn : u # t => tx'[u] = tx[u]
    BY <1>0, <1>1, Zenon DEF Begin
  <2>2. pc[t] = "idle" /\ pc' = [pc EXCEPT ![t] = "open"] /\ UNCHANGED coord
    BY <1>1, Zenon DEF Begin, Goto
  <2>3. QED
    BY <1>c, <2>1, <2>2, Zenon
<1>2. ASSUME NEW t \in Txn, CommitStaged(t) PROVE BatonInv'
  <2>1. /\ pc[t] = "open" /\ UNCHANGED <<coord, tx>>
        /\ pc' = [pc EXCEPT ![t] = "done"] \/ pc' = [pc EXCEPT ![t] = "ready"]
    BY <1>2, Zenon DEF CommitStaged, Goto
  <2>2. QED
    BY <1>c, <2>1, Zenon
<1>3. ASSUME NEW t \in Txn, Direct(t) PROVE BatonInv'
  <2>1. /\ pc[t] = "ready" /\ ~tx[t].batch /\ UNCHANGED <<coord, tx>>
        /\ pc' = [pc EXCEPT ![t] = "single"]
    BY <1>3, Zenon DEF Direct, Goto
  <2>2. QED
    BY <1>c, <2>1, Zenon
<1>4. ASSUME NEW t \in Txn, Enqueue(t) PROVE BatonInv'
  <2>1. /\ pc[t] = "ready" /\ tx[t].batch /\ active' = TRUE /\ UNCHANGED <<lead, tx>>
    BY <1>4, Zenon DEF Enqueue
  <2>2. pc' = [pc EXCEPT ![t] = IF active THEN "wait" ELSE "lead"]
    BY <1>4, Zenon DEF Enqueue, Goto
  <2>3. /\ pc'[t] = IF active THEN "wait" ELSE "lead"
        /\ \A u \in Txn : u # t => pc'[u] = pc[u]
    BY <1>0, <2>2, Zenon
  <2>4. ~lead[t]
    BY <2>1, Nowhere, Zenon
  <2>5. \A u \in Txn : u # t => (Leading(u)' <=> Leading(u))
    BY <2>1, <2>3, Zenon DEF Leading
  <2>6. ~Leading(t) /\ (Leading(t)' <=> ~active)
    BY <2>1, <2>3, <2>4, Zenon DEF Leading
  <2>7. QED
    BY <1>a, <2>1, <2>5, <2>6, Zenon DEF BatonInv
<1>5. ASSUME NEW t \in Txn, TakeBatch(t) PROVE BatonInv'
  <2>1. /\ pc[t] = "lead" /\ pc' = [pc EXCEPT ![t] = "batch"] /\ UNCHANGED <<active, lead, tx>>
    BY <1>5, Zenon DEF TakeBatch, Goto
  <2>2. pc'[t] = "batch" /\ \A u \in Txn : u # t => pc'[u] = pc[u]
    BY <1>0, <2>1, Zenon
  <2>3. \A u \in Txn : Leading(u)' <=> Leading(u)
    BY <2>1, <2>2, Zenon DEF Leading
  <2>4. Leading(t)
    BY <2>1, Zenon DEF Leading, QueueInv
  <2>5. active
    BY <1>a, <2>4, Zenon
  <2>6. QED
    BY <1>b, <2>1, <2>3, <2>5, Zenon
<1>6. ASSUME NEW t \in Txn, Handoff(t) PROVE BatonInv'
  <2>1. pc[t] = "handoff" /\ pc' = [pc EXCEPT ![t] = "wait"] /\ UNCHANGED <<queue, tx>>
    BY <1>6, Zenon DEF Handoff, Goto
  <2>2. pc'[t] = "wait" /\ \A u \in Txn : u # t => pc'[u] = pc[u]
    BY <1>0, <2>1, Zenon
  <2>3. Leading(t) /\ ~lead[t]
    BY <2>1, Nowhere, Zenon DEF Leading, QueueInv
  <2>4. \A u \in Txn : u # t => ~Leading(u)
    BY <1>a, <2>3, Zenon
  <2>5. \A u \in Txn : Leading(u)' => lead'[u]
    BY <2>1, <2>2, <2>4, Zenon DEF Leading
  <2>6. \A u \in Txn : ~lead[u]
    BY <2>3, <2>4, Zenon DEF Leading
  <2>7. CASE queue # <<>>
    <3>1. lead' = [lead EXCEPT ![Head(queue)] = TRUE] /\ active' = active
      BY <1>6, <2>7, Zenon DEF Handoff
    <3>2. PICK h \in Txn : h = Head(queue)
      BY <1>0, <2>7
    <3>3. lead'[h] /\ \A u \in Txn : lead'[u] => u = h
      BY <1>0, <2>6, <3>1, <3>2, Zenon
    <3>4. Leading(h)'
      BY <3>3, Zenon DEF Leading
    <3>5. active'
      BY <1>a, <2>3, <3>1, Zenon
    <3>6. \A u, v \in Txn : Leading(u)' /\ Leading(v)' => u = v
      BY <2>5, <3>3, Zenon
    <3>7. \E u \in Txn : Leading(u)'
      BY <3>2, <3>4, Zenon
    <3>8. QED
      BY <3>5, <3>6, <3>7, Zenon DEF BatonInv
  <2>8. CASE queue = <<>>
    <3>1. active' = FALSE /\ lead' = lead
      BY <1>6, <2>8, Zenon DEF Handoff
    <3>2. \A u \in Txn : ~Leading(u)'
      BY <2>5, <2>6, <3>1, Zenon
    <3>3. QED
      BY <2>1, <2>8, <3>1, <3>2, Zenon DEF BatonInv
  <2>9. QED
    BY <2>7, <2>8, Zenon
<1>7. ASSUME NEW t \in Txn, Wake(t) PROVE BatonInv'
  <2>1. pc[t] = "wait" /\ UNCHANGED <<queue, active, tx>> /\ tx[t].batch
    BY <1>7, Zenon DEF Wake, QueueInv
  <2>2. CASE result[t] # None /\ pc' = [pc EXCEPT ![t] = "done"] /\ UNCHANGED lead
    <3>1. UNCHANGED coord
      BY <2>1, <2>2, Zenon DEF coord
    <3>2. QED
      BY <1>c, <2>1, <2>2, <3>1, Zenon
  <2>3. CASE /\ lead[t] /\ lead' = [lead EXCEPT ![t] = FALSE]
             /\ pc' = [pc EXCEPT ![t] = "lead"]
    <3>1. /\ pc'[t] = "lead" /\ ~lead'[t]
          /\ \A u \in Txn : u # t => pc'[u] = pc[u] /\ lead'[u] = lead[u]
      BY <1>0, <2>3, Zenon
    <3>2. Leading(t) /\ Leading(t)'
      BY <2>1, <2>3, <3>1, Zenon DEF Leading
    <3>3. \A u \in Txn : u # t => (Leading(u)' <=> Leading(u))
      BY <2>1, <3>1, Zenon DEF Leading
    <3>4. QED
      BY <1>b, <2>1, <3>2, <3>3, Zenon
  <2>4. QED
    BY <1>7, <2>2, <2>3, Zenon DEF Wake, Goto
<1>8. ASSUME NEW t \in Txn, BatchRefused(t) PROVE BatonInv'
  <2>1. /\ pc[t] = "batch" /\ UNCHANGED <<coord, tx>>
        /\ pc' = [pc EXCEPT ![t] = "single"]
    BY <1>8, Zenon DEF BatchRefused, Goto
  <2>2. QED
    BY <1>c, <2>1, Zenon
<1>9. ASSUME NEW t \in Txn, Batch(t) PROVE BatonInv'
  <2>1. /\ pc[t] = "batch" /\ UNCHANGED <<coord, tx>>
        /\ pc' = [pc EXCEPT ![t] = "post"]
    BY <1>9, Zenon DEF Batch, Goto
  <2>2. QED
    BY <1>c, <2>1, Zenon
<1>10. ASSUME NEW t \in Txn, BatchPost(t) PROVE BatonInv'
  <2>1. /\ pc[t] = "post" /\ UNCHANGED <<coord, tx>>
        /\ pc' = [pc EXCEPT ![t] = "handoff"] \/ pc' = [pc EXCEPT ![t] = "single"]
    BY <1>10, Zenon DEF BatchPost, Goto
  <2>2. QED
    BY <1>c, <2>1, Zenon
<1>11. ASSUME NEW t \in Txn, Answer(t) PROVE BatonInv'
  <2>1. /\ pc[t] \in {"single", "synced", "syncFailed", "groupWait"}
        /\ UNCHANGED <<coord, tx>>
    BY <1>11, Zenon DEF Answer
  <2>2. PICK q \in {"single", "handoff", "done"} :
              /\ pc' = [pc EXCEPT ![t] = q]
              /\ q = "handoff" => tx[t].batch
              /\ q = "done" => ~tx[t].batch
    BY <1>11, AnswerFacts, Zenon
  <2>3. QED
    BY <1>c, <2>1, <2>2, Zenon
<1>12. ASSUME NEW t \in Txn, Move(t) PROVE BatonInv'
  <2>1. PICK q \in Syncing : pc' = [pc EXCEPT ![t] = q]
    BY <1>12, Zenon DEF Move, Goto
  <2>2. pc[t] \in {"single", "sync"} /\ UNCHANGED <<coord, tx>>
    BY <1>12, Zenon DEF Move
  <2>3. QED
    BY <1>c, <2>1, <2>2, Zenon DEF Syncing
<1>13. CASE NoMove
  BY <1>13, <1>a, Zenon DEF NoMove, coord, BatonInv, Leading
<1>14. CASE Restart
  <2>1. /\ queue' = <<>> /\ active' = FALSE
        /\ \A t \in Txn : ~lead'[t] /\ pc'[t] \in {"idle", "done", "dead"}
    BY <1>14, Zenon DEF Restart
  <2>2. \A t \in Txn : ~Leading(t)'
    BY <2>1, Zenon DEF Leading
  <2>3. QED
    BY <2>1, <2>2, Zenon DEF BatonInv
<1>15. QED
  BY <1>1, <1>2, <1>3, <1>4, <1>5, <1>6, <1>7, <1>8, <1>9, <1>10, <1>11, <1>12,
     <1>13, <1>14, StepClasses, ZenonT(30)

LEMMA PlaceStep ==
    ASSUME [Next]_vars, WalType, ThreadType, QueueInv, BatonInv, PlaceInv, GroupInv,
           SnapInv
    PROVE  PlaceInv'
<1>0. /\ pc \in [Txn -> Phase] /\ queue \in Seq(Txn) /\ tx \in [Txn -> StagedType]
      /\ result \in [Txn -> Told \cup {None}]
      /\ todo \in [Txn -> Seq(Txn)] /\ held \in [Txn -> Seq(HeldType)]
  BY Zenon DEF ThreadType
<1>a1. \A t \in Txn : Distinct(todo[t])
  BY Zenon DEF PlaceInv
<1>a2. \A t, m \in Txn : In(todo[t], m) =>
           /\ result[m] = None /\ ~In(queue, m) /\ pc[t] \in Working
           /\ m # t => pc[m] = "wait" /\ tx[m].batch /\ tx[t].batch
  BY Zenon DEF PlaceInv
<1>a3. \A t \in Txn : pc[t] \in Working \ {"post"} => todo[t] # <<>>
  BY Zenon DEF PlaceInv
<1>a4. \A t, m \in Txn : Holds(t, m) =>
           /\ result[m] = None /\ ~In(queue, m) /\ pc[t] = "post" /\ ~In(todo[t], m)
           /\ m # t => pc[m] = "wait"
  BY Zenon DEF PlaceInv
<1>a5. \A t \in Txn : pc[t] \in Fresh => result[t] = None
  BY Zenon DEF PlaceInv
<1>w. "wait" \notin Working /\ "post" \in Working
      /\ \A q \in Fresh : q \notin Working /\ q # "wait"
  BY ZenonT(30) DEF Working, Fresh
(* A step of a thread without work whose request is in nobody's hands. *)
<1>b. ASSUME NEW t \in Txn, \A u \in Txn : ~In(todo[u], t) /\ ~Holds(u, t),
             pc[t] \notin Working, UNCHANGED <<todo, held>>,
             NEW q \in Phase \ Working, pc' = [pc EXCEPT ![t] = q],
             \A u \in Txn : u # t => tx'[u] = tx[u] /\ result'[u] = result[u],
             q \in Fresh => result'[t] = None,
             \A m \in Txn : m # t => (In(queue', m) => In(queue, m))
      PROVE  PlaceInv'
  <2>1. pc'[t] = q /\ \A u \in Txn : u # t => pc'[u] = pc[u]
    BY <1>0, <1>b, ZenonT(30)
  <2>2. \A u, m \in Txn : In(todo[u], m) \/ Holds(u, m) => u # t /\ m # t
    <3>1. \A u, m \in Txn : In(todo[u], m) \/ Holds(u, m) => pc[u] \in Working
      BY <1>a2, <1>a4, <1>w, Zenon
    <3>2. pc[t] \notin Working /\ \A u \in Txn : ~In(todo[u], t) /\ ~Holds(u, t)
      BY <1>b, Zenon
    <3>3. QED
      BY <3>1, <3>2, Zenon
  <2>3. \A u, m \in Txn : In(todo[u], m) =>
           /\ result'[m] = None /\ ~In(queue', m) /\ pc'[u] \in Working
           /\ m # u => pc'[m] = "wait" /\ tx'[m].batch /\ tx'[u].batch
    <3>1. ASSUME NEW u \in Txn, NEW m \in Txn, In(todo[u], m)
          PROVE  /\ result'[m] = None /\ ~In(queue', m) /\ pc'[u] \in Working
                 /\ m # u => pc'[m] = "wait" /\ tx'[m].batch /\ tx'[u].batch
      <4>1. u # t /\ m # t
        BY <2>2, <3>1, Zenon
      <4>2. /\ pc'[u] = pc[u] /\ pc'[m] = pc[m] /\ tx'[u] = tx[u] /\ tx'[m] = tx[m]
            /\ result'[m] = result[m] /\ (In(queue', m) => In(queue, m))
        BY <1>b, <2>1, <4>1, Zenon
      <4>3. QED
        BY <1>a2, <3>1, <4>2, Zenon
    <3>2. QED
      BY <3>1, Zenon
  <2>4. \A u \in Txn : pc'[u] \in Working \ {"post"} => todo[u] # <<>>
    BY <1>a3, <1>b, <2>1, SMTT(20), ZenonT(30)
  <2>5. \A u, m \in Txn : Holds(u, m) =>
           /\ result'[m] = None /\ ~In(queue', m) /\ pc'[u] = "post" /\ ~In(todo[u], m)
           /\ m # u => pc'[m] = "wait"
    BY <1>a4, <1>b, <2>1, <2>2, SMTT(20), ZenonT(30)
  <2>6. \A u \in Txn : pc'[u] \in Fresh => result'[u] = None
    BY <1>a5, <1>b, <2>1
  <2>7. \A u, m \in Txn : Holds(u, m)' <=> Holds(u, m)
    BY <1>b, Zenon DEF Holds
  <2>8. QED
    BY <1>a1, <1>b, <2>3, <2>4, <2>5, <2>6, <2>7, SMTT(20), ZenonT(30) DEF PlaceInv
<1>1. ASSUME NEW t \in Txn, Begin(t) PROVE PlaceInv'
  <2>1. \A u \in Txn : u # t => tx'[u] = tx[u]
    BY <1>0, <1>1, Zenon DEF Begin
  <2>2. /\ pc[t] = "idle" /\ pc' = [pc EXCEPT ![t] = "open"]
        /\ UNCHANGED <<queue, todo, held, result>>
    BY <1>1, Zenon DEF Begin, Goto, coord
  <2>3. result[t] = None /\ \A u \in Txn : ~In(todo[u], t) /\ ~Holds(u, t)
    BY <1>a5, <2>2, Nowhere, Zenon DEF Fresh, Working
  <2>4. "open" \in Phase \ Working /\ "idle" \notin Working
    BY Zenon DEF Phase, Working
  <2>5. QED
    BY <1>b, <2>1, <2>2, <2>3, <2>4, Zenon
<1>2. ASSUME NEW t \in Txn, CommitStaged(t) PROVE PlaceInv'
  <2>1. /\ pc[t] = "open" /\ UNCHANGED <<queue, tx, todo, held>>
    BY <1>2, Zenon DEF CommitStaged, coord
  <2>2. /\ \A u \in Txn : u # t => result'[u] = result[u]
        /\ \/ pc' = [pc EXCEPT ![t] = "done"]
           \/ pc' = [pc EXCEPT ![t] = "ready"] /\ result' = result
    BY <1>0, <1>2, Zenon DEF CommitStaged, Goto
  <2>3. result[t] = None /\ \A u \in Txn : ~In(todo[u], t) /\ ~Holds(u, t)
    BY <1>a5, <2>1, Nowhere, Zenon DEF Fresh, Working
  <2>4. "open" \notin Working /\ {"done", "ready"} \subseteq Phase \ Working /\ "done" \notin Fresh
    BY Zenon DEF Phase, Working, Fresh
  <2>5. CASE pc' = [pc EXCEPT ![t] = "done"]
    BY <1>b, <2>1, <2>2, <2>3, <2>4, <2>5, Zenon
  <2>6. CASE pc' = [pc EXCEPT ![t] = "ready"] /\ result' = result
    BY <1>b, <2>1, <2>2, <2>3, <2>4, <2>6, Zenon
  <2>7. QED
    BY <2>2, <2>5, <2>6, Zenon
<1>3. ASSUME NEW t \in Txn, Direct(t) PROVE PlaceInv'
  <2>1. /\ pc[t] = "ready" /\ UNCHANGED <<queue, tx, held, result>>
        /\ todo' = [todo EXCEPT ![t] = <<t>>] /\ pc' = [pc EXCEPT ![t] = "single"]
    BY <1>3, Zenon DEF Direct, Goto, coord
  <2>2. /\ pc'[t] = "single" /\ todo'[t] = <<t>>
        /\ \A u \in Txn : u # t => pc'[u] = pc[u] /\ todo'[u] = todo[u]
    BY <1>0, <2>1, Zenon
  <2>3. /\ result[t] = None /\ ~In(queue, t)
        /\ \A u \in Txn : ~In(todo[u], t) /\ ~Holds(u, t)
    BY <1>a5, <2>1, Nowhere, Zenon DEF Fresh, Working
  <2>4. Distinct(<<t>>) /\ \A m : In(<<t>>, m) <=> m = t
    BY DEF Distinct, In
  <2>5. "single" \in Working /\ "single" \notin Fresh /\ <<t>> # <<>> /\ "ready" # "post"
    BY Zenon DEF Working, Fresh
  <2>6. \A u, m \in Txn : Holds(u, m) => u # t /\ m # t
    BY <1>a4, <2>1, <2>3, <2>5, SMTT(20), ZenonT(30)
  <2>7. \A u \in Txn : Distinct(todo'[u])
    BY <1>a1, <2>2, <2>4, SMTT(20), ZenonT(30)
  <2>8. \A u, m \in Txn : In(todo'[u], m) =>
           /\ result'[m] = None /\ ~In(queue', m) /\ pc'[u] \in Working
           /\ m # u => pc'[m] = "wait" /\ tx'[m].batch /\ tx'[u].batch
    BY <1>a2, <2>1, <2>2, <2>3, <2>4, <2>5, SMTT(20)
  <2>9. \A u \in Txn : pc'[u] \in Working \ {"post"} => todo'[u] # <<>>
    BY <1>a3, <2>2, <2>5, SMTT(20), ZenonT(30)
  <2>10. \A u, m \in Txn : Holds(u, m) =>
           /\ result'[m] = None /\ ~In(queue', m) /\ pc'[u] = "post" /\ ~In(todo'[u], m)
           /\ m # u => pc'[m] = "wait"
    BY <1>a4, <2>1, <2>2, <2>6
  <2>11. \A u \in Txn : pc'[u] \in Fresh => result'[u] = None
    BY <1>a5, <2>1, <2>2, <2>5
  <2>12. \A u, m \in Txn : Holds(u, m)' <=> Holds(u, m)
    BY <2>1, Zenon DEF Holds
  <2>13. QED
    BY <2>7, <2>8, <2>9, <2>10, <2>11, <2>12 DEF PlaceInv
<1>4. ASSUME NEW t \in Txn, Enqueue(t) PROVE PlaceInv'
  <2>1. /\ pc[t] = "ready" /\ queue' = Append(queue, t) /\ UNCHANGED <<tx, todo, held, result>>
        /\ pc' = [pc EXCEPT ![t] = "wait"] \/ pc' = [pc EXCEPT ![t] = "lead"]
    BY <1>4, Zenon DEF Enqueue, Goto
  <2>2. result[t] = None /\ \A u \in Txn : ~In(todo[u], t) /\ ~Holds(u, t)
    BY <1>a5, <2>1, Nowhere, Zenon DEF Fresh, Working
  <2>3. \A m : In(queue', m) <=> In(queue, m) \/ m = t
    BY <1>0, <2>1, AppendFacts
  <2>4. {"wait", "lead"} \subseteq Phase \ Working /\ "ready" \notin Working
    BY Zenon DEF Phase, Working
  <2>5. QED
    BY <1>b, <2>1, <2>2, <2>3, <2>4, Zenon
<1>5. ASSUME NEW t \in Txn, TakeBatch(t) PROVE PlaceInv'
  <2>1. /\ pc[t] = "lead" /\ pc' = [pc EXCEPT ![t] = "batch"] /\ UNCHANGED <<tx, held, result>>
    BY <1>5, Zenon DEF TakeBatch, Goto
  <2>2. /\ Distinct(todo'[t]) /\ todo'[t] # <<>>
        /\ todo' = [todo EXCEPT ![t] = todo'[t]]
        /\ \A m : In(queue, m) <=> In(todo'[t], m) \/ In(queue', m)
        /\ \A m : ~(In(todo'[t], m) /\ In(queue', m))
    BY <1>5, TakeFacts, Zenon
  <2>3. /\ pc'[t] = "batch"
        /\ \A u \in Txn : u # t => pc'[u] = pc[u] /\ todo'[u] = todo[u]
    BY <1>0, <2>1, <2>2, Zenon
  <2>4. \A u \in Txn : u # t => pc[u] # "lead"
    <3>1. \A u \in Txn : pc[u] = "lead" => Leading(u)
      BY Zenon DEF Leading, QueueInv
    <3>2. QED
      BY <2>1, <3>1, Zenon DEF BatonInv
  <2>5. \A m \in Txn : In(todo'[t], m) =>
           /\ result[m] = None /\ ~In(queue', m)
           /\ m # t => pc[m] = "wait" /\ tx[m].batch /\ tx[t].batch
    <3>1. tx[t].batch
      BY <2>1, Zenon DEF QueueInv
    <3>2. QED
      BY <2>2, <2>4, <3>1, Zenon DEF QueueInv
  <2>6. "batch" \in Working /\ "batch" \notin Fresh /\ "batch" # "post"
        /\ "lead" \notin Working \cup {"wait"}
    BY Zenon DEF Working, Fresh
  <2>7. \A u, m \in Txn : In(todo[u], m) \/ Holds(u, m) => u # t /\ m # t
    BY <1>a2, <1>a4, <1>w, <2>1, <2>6
  <2>8. \A u \in Txn : Distinct(todo'[u])
    BY <1>a1, <2>2, <2>3, Zenon
  <2>9. \A u, m \in Txn : u # t /\ In(todo'[u], m) =>
           /\ result'[m] = None /\ ~In(queue', m) /\ pc'[u] \in Working
           /\ m # u => pc'[m] = "wait" /\ tx'[m].batch /\ tx'[u].batch
    BY <1>a2, <2>1, <2>2, <2>3, <2>7
  <2>10. \A m \in Txn : In(todo'[t], m) =>
           /\ result'[m] = None /\ ~In(queue', m) /\ pc'[t] \in Working
           /\ m # t => pc'[m] = "wait" /\ tx'[m].batch /\ tx'[t].batch
    BY <2>1, <2>3, <2>5, <2>6
  <2>11. \A u \in Txn : pc'[u] \in Working \ {"post"} => todo'[u] # <<>>
    BY <1>a3, <2>2, <2>3, ZenonT(30)
  <2>12. \A u, m \in Txn : Holds(u, m) =>
           /\ result'[m] = None /\ ~In(queue', m) /\ pc'[u] = "post" /\ ~In(todo'[u], m)
           /\ m # u => pc'[m] = "wait"
    BY <1>a4, <2>1, <2>2, <2>3, <2>7, SMTT(20), ZenonT(30)
  <2>13. \A u \in Txn : pc'[u] \in Fresh => result'[u] = None
    BY <1>a5, <2>1, <2>3, <2>6
  <2>14. \A u, m \in Txn : Holds(u, m)' <=> Holds(u, m)
    BY <2>1, Zenon DEF Holds
  <2>15. QED
    BY <2>8, <2>9, <2>10, <2>11, <2>12, <2>13, <2>14, SMTT(20) DEF PlaceInv
<1>6. ASSUME NEW t \in Txn, Handoff(t) PROVE PlaceInv'
  <2>1. /\ pc[t] = "handoff" /\ pc' = [pc EXCEPT ![t] = "wait"]
        /\ UNCHANGED <<queue, tx, todo, held, result>>
    BY <1>6, Zenon DEF Handoff, Goto
  <2>2. \A u \in Txn : ~In(todo[u], t) /\ ~Holds(u, t)
    BY <2>1, Nowhere, Zenon DEF Working
  <2>3. "wait" \in Phase \ Working /\ "wait" \notin Fresh /\ "handoff" \notin Working
    BY Zenon DEF Phase, Working, Fresh
  <2>4. QED
    BY <1>b, <2>1, <2>2, <2>3, Zenon
<1>7. ASSUME NEW t \in Txn, Wake(t) PROVE PlaceInv'
  <2>1. /\ pc[t] = "wait" /\ UNCHANGED <<queue, tx, todo, held, result>>
        /\ pc' = [pc EXCEPT ![t] = "done"] \/ pc' = [pc EXCEPT ![t] = "lead"]
        /\ result[t] # None \/ lead[t]
    BY <1>7, Zenon DEF Wake, Goto
  <2>2. \A u \in Txn : ~In(todo[u], t) /\ ~Holds(u, t)
    BY <2>1, Nowhere, Zenon
  <2>3. {"done", "lead"} \subseteq Phase \ Working /\ "done" \notin Fresh /\ "lead" \notin Fresh
    BY ZenonT(30) DEF Phase, Working, Fresh
  <2>4. QED
    BY <1>b, <1>w, <2>1, <2>2, <2>3, Zenon
<1>8. ASSUME NEW t \in Txn, BatchRefused(t) \/ Move(t) PROVE PlaceInv'
  <2>1. /\ pc[t] \in {"batch", "single", "sync"} /\ UNCHANGED <<queue, tx, todo, held, result>>
        /\ \E q \in Syncing \cup {"single"} : pc' = [pc EXCEPT ![t] = q]
    BY <1>8, Zenon DEF BatchRefused, Move, Goto, coord
  <2>2. {"batch", "single", "sync"} \subseteq Working \ {"post"}
        /\ Syncing \cup {"single"} \subseteq Working \ {"post"}
    BY Zenon DEF Working, Syncing
  <2>3. /\ pc[t] \in Working \ {"post"} /\ pc'[t] \in Working \ {"post"}
        /\ \A u \in Txn : u # t => pc'[u] = pc[u]
    BY <1>0, <2>1, <2>2, Zenon
  <2>4. \A u, m \in Txn : In(todo[u], m) =>
           /\ result[m] = None /\ ~In(queue, m) /\ pc'[u] \in Working
           /\ m # u => pc'[m] = "wait" /\ tx[m].batch /\ tx[u].batch
    BY <1>a2, <1>w, <2>3
  <2>5. \A u \in Txn : pc'[u] \in Working \ {"post"} => todo[u] # <<>>
    BY <1>a3, <2>3, Zenon
  <2>6. \A u, m \in Txn : Holds(u, m) =>
           /\ result[m] = None /\ ~In(queue, m) /\ pc'[u] = "post" /\ ~In(todo[u], m)
           /\ m # u => pc'[m] = "wait"
    BY <1>a4, <1>w, <2>3
  <2>7. \A u \in Txn : pc'[u] \in Fresh => result[u] = None
    BY <1>a5, <1>w, <2>3, Zenon
  <2>8. \A u, m \in Txn : Holds(u, m)' <=> Holds(u, m)
    BY <2>1, ZenonT(30) DEF Holds
  <2>9. QED
    BY <1>a1, <2>1, <2>4, <2>5, <2>6, <2>7, <2>8 DEF PlaceInv
<1>9. ASSUME NEW t \in Txn, Batch(t) PROVE PlaceInv'
  <2>1. PICK r \in Replayable, told \in {"Ok", "Unknown", "Io"} :
          /\ BatchOf(t, Members(t, r), Aside(t, r), Records(Members(t, r)))
          /\ todo' = [todo EXCEPT ![t] = Aside(t, r)]
          /\ held' = [held EXCEPT ![t] = HeldFor(Members(t, r), told)]
    BY <1>9, BatchCases, Zenon
  <2> DEFINE ms == Members(t, r)
             as == Aside(t, r)
  <2>2. /\ ms \in Seq(Txn) /\ Distinct(as)
        /\ \A m : In(ms, m) => In(todo[t], m) /\ ~In(as, m)
        /\ \A m : In(as, m) => In(todo[t], m)
    BY <2>1, Zenon DEF BatchOf
  <2>3. todo'[t] = as /\ \A u \in Txn : u # t => todo'[u] = todo[u]
    BY <1>0, <2>1, Zenon
  <2>4. held'[t] = HeldFor(ms, told) /\ \A u \in Txn : u # t => held'[u] = held[u]
    BY <1>0, <2>1, Zenon
  <2>5. pc[t] = "batch" /\ pc' = [pc EXCEPT ![t] = "post"] /\ UNCHANGED <<queue, tx, result>>
    BY <1>9, Zenon DEF Batch, Goto, coord
  <2>6. pc'[t] = "post" /\ \A u \in Txn : u # t => pc'[u] = pc[u]
    BY <1>0, <2>5, Zenon
  <2> HIDE DEF ms, as
  <2>7. \A m : Holds(t, m)' => In(ms, m)
    <3>1. Len(HeldFor(ms, told)) = Len(ms) /\ \A i \in 1..Len(ms) : HeldFor(ms, told)[i].txn = ms[i]
      BY <2>2 DEF HeldFor
    <3>2. QED
      BY <2>4, <3>1, Zenon DEF Holds, In
  <2>8. \A u, m \in Txn : u # t => (Holds(u, m)' <=> Holds(u, m))
    BY <2>4, Zenon DEF Holds
  <2>9. "batch" # "post" /\ "batch" \in Working /\ "batch" # "wait" /\ "post" \notin Fresh
    BY Zenon DEF Working, Fresh
  <2>10. \A u, m \in Txn : In(todo[u], m) => m # t \/ u = t
    BY <1>a2, <2>5, <2>9, Zenon
  <2>11. \A u \in Txn : Distinct(todo'[u])
    BY <1>a1, <2>2, <2>3, Zenon
  <2>12. \A u, m \in Txn : In(todo'[u], m) => In(todo[u], m)
    BY <2>2, <2>3, ZenonT(30)
  <2>13. \A u, m \in Txn : In(todo[u], m) =>
           /\ result'[m] = None /\ ~In(queue', m) /\ pc'[u] \in Working
           /\ m # u => pc'[m] = "wait" /\ tx'[m].batch /\ tx'[u].batch
    BY <1>a2, <1>w, <2>5, <2>6, <2>10
  <2>14. \A u \in Txn : pc'[u] \in Working \ {"post"} => todo'[u] # <<>>
    BY <1>a3, <2>3, <2>6, Zenon
  <2>15. \A m \in Txn : Holds(t, m)' =>
           /\ result'[m] = None /\ ~In(queue', m) /\ pc'[t] = "post" /\ ~In(todo'[t], m)
           /\ m # t => pc'[m] = "wait"
    <3>1. \A m \in Txn : Holds(t, m)' => In(todo[t], m) /\ ~In(todo'[t], m)
      BY <2>2, <2>3, <2>7, ZenonT(30)
    <3>2. QED
      BY <2>6, <2>13, <3>1, Zenon
  <2>16. \A u, m \in Txn : u # t /\ Holds(u, m) =>
           /\ result'[m] = None /\ ~In(queue', m) /\ pc'[u] = "post" /\ ~In(todo'[u], m)
           /\ m # u => pc'[m] = "wait"
    BY <1>a4, <2>3, <2>5, <2>6, <2>9, SMTT(20), ZenonT(30)
  <2>17. \A u \in Txn : pc'[u] \in Fresh => result'[u] = None
    BY <1>a5, <2>5, <2>6, <2>9, SMTT(20), ZenonT(30)
  <2>18. \A u, m \in Txn : Holds(u, m)' =>
           /\ result'[m] = None /\ ~In(queue', m) /\ pc'[u] = "post" /\ ~In(todo'[u], m)
           /\ m # u => pc'[m] = "wait"
    <3>1. ASSUME NEW u \in Txn, NEW m \in Txn, Holds(u, m)'
          PROVE  /\ result'[m] = None /\ ~In(queue', m) /\ pc'[u] = "post" /\ ~In(todo'[u], m)
                 /\ m # u => pc'[m] = "wait"
      <4>1. CASE u = t
        BY <2>15, <3>1, <4>1, Zenon
      <4>2. CASE u # t
        BY <2>8, <2>16, <3>1, <4>2, Zenon
      <4>3. QED
        BY <4>1, <4>2, Zenon
    <3>2. QED
      BY <3>1, Zenon
  <2>19. QED
    BY <2>11, <2>12, <2>13, <2>14, <2>17, <2>18, SMTT(20), ZenonT(30) DEF PlaceInv
<1>10. ASSUME NEW t \in Txn, BatchPost(t) PROVE PlaceInv'
  <2>1. /\ pc[t] = "post" /\ UNCHANGED <<queue, tx, todo>> /\ held' = [held EXCEPT ![t] = <<>>]
        /\ pc' = [pc EXCEPT ![t] = IF todo[t] = <<>> THEN "handoff" ELSE "single"]
    BY <1>10, Zenon DEF BatchPost, Goto, coord
  <2>2. \A m \in Txn : ~Holds(t, m) => result'[m] = result[m]
    <3>1. \A m \in Txn : ~Holds(t, m) => {i \in 1..Len(held[t]) : held[t][i].txn = m} = {}
      BY Zenon DEF Holds
    <3>2. QED
      BY <1>10, <3>1, Zenon DEF BatchPost
  <2>3. /\ pc'[t] = IF todo[t] = <<>> THEN "handoff" ELSE "single"
        /\ held'[t] = <<>>
        /\ \A u \in Txn : u # t => pc'[u] = pc[u] /\ held'[u] = held[u]
    BY <1>0, <2>1, ZenonT(30)
  <2>4. /\ \A m \in Txn : ~Holds(t, m)'
        /\ \A u, m \in Txn : u # t => (Holds(u, m)' <=> Holds(u, m))
    BY <2>3, SMTT(20) DEF Holds
  <2>5. \A u, m \in Txn : In(todo[u], m) => ~Holds(t, m)
    BY Owner, Zenon
  <2>6. \A u, m \in Txn : u # t /\ Holds(u, m) => ~Holds(t, m)
    BY Owner, Zenon
  <2>7. "single" \in Working /\ {"handoff", "single", "post", "wait"} \cap Fresh = {}
        /\ "handoff" \notin Working /\ "post" # "wait"
    BY Zenon DEF Working, Fresh
  <2>8. \A m : ~In(<<>>, m)
    BY DEF In
  <2>9. \A u, m \in Txn : In(todo[u], m) => (m # t \/ u = t) /\ pc'[u] \in Working
    <3>1. \A u, m \in Txn : In(todo[u], m) => m # t \/ u = t
      BY <1>a2, <2>1, <2>7, Zenon
    <3>2. \A m \in Txn : In(todo[t], m) => pc'[t] \in Working
      BY <2>3, <2>7, <2>8, Zenon
    <3>3. \A u, m \in Txn : u # t /\ In(todo[u], m) => pc'[u] \in Working
      BY <1>a2, <2>3, Zenon
    <3>4. QED
      BY <3>1, <3>2, <3>3, Zenon
  <2>10. \A u, m \in Txn : In(todo[u], m) =>
           /\ result'[m] = None /\ ~In(queue', m) /\ pc'[u] \in Working
           /\ m # u => pc'[m] = "wait" /\ tx'[m].batch /\ tx'[u].batch
    BY <1>a2, <1>w, <2>1, <2>2, <2>3, <2>5, <2>9, SMTT(20), ZenonT(30)
  <2>11. \A u \in Txn : pc'[u] \in Working \ {"post"} => todo[u] # <<>>
    <3>1. pc'[t] \in Working => todo[t] # <<>>
      BY <2>3, <2>7, Zenon
    <3>2. \A u \in Txn : u # t /\ pc'[u] \in Working \ {"post"} => todo[u] # <<>>
      BY <1>a3, <2>3, Zenon
    <3>3. QED
      BY <3>1, <3>2, Zenon
  <2>12. \A u, m \in Txn : u # t /\ Holds(u, m) =>
           /\ result'[m] = None /\ ~In(queue', m) /\ pc'[u] = "post" /\ ~In(todo[u], m)
           /\ m # u => pc'[m] = "wait"
    BY <1>a4, <1>w, <2>1, <2>2, <2>3, <2>6
  <2>13. \A u \in Txn : pc'[u] \in Fresh => result'[u] = None
    <3>1. \A u \in Txn : pc'[u] \in Fresh => u # t /\ pc[u] \in Fresh
      BY <2>3, <2>7, Zenon
    <3>2. \A u \in Txn : pc[u] \in Fresh /\ u # t => ~Holds(t, u)
      BY <1>a4, <1>w
    <3>3. QED
      BY <1>a5, <2>2, <3>1, <3>2, Zenon
  <2>14. QED
    BY <1>a1, <2>1, <2>4, <2>10, <2>11, <2>12, <2>13, SMTT(20) DEF PlaceInv
<1>11. ASSUME NEW t \in Txn, Answer(t) PROVE PlaceInv'
  <2>1. PICK r \in Told, q \in {"single", "handoff", "done"} :
              /\ Head(todo[t]) \in Txn /\ In(todo[t], Head(todo[t]))
              /\ Tail(todo[t]) \in Seq(Txn)
              /\ Distinct(Tail(todo[t])) /\ ~In(Tail(todo[t]), Head(todo[t]))
              /\ \A x : In(Tail(todo[t]), x) => In(todo[t], x)
              /\ result' = [result EXCEPT ![Head(todo[t])] = r]
              /\ todo' = [todo EXCEPT ![t] = Tail(todo[t])]
              /\ pc' = [pc EXCEPT ![t] = q]
              /\ q = "single" <=> Tail(todo[t]) # <<>>
    BY <1>11, AnswerFacts, Zenon
  <2>2. PICK h \in Txn : h = Head(todo[t])
    BY <2>1, Zenon
  <2>3. /\ pc[t] \in Working \ {"post"} /\ UNCHANGED <<queue, tx, held>>
    BY <1>11, Zenon DEF Answer, Working, coord
  <2>4. /\ pc'[t] = q /\ todo'[t] = Tail(todo[t])
        /\ \A u \in Txn : u # t => pc'[u] = pc[u] /\ todo'[u] = todo[u]
        /\ \A m \in Txn : m # h => result'[m] = result[m]
    BY <1>0, <2>1, <2>2, Zenon
  <2>5. "single" \in Working /\ {"single", "handoff", "done"} \cap Fresh = {}
        /\ "handoff" \notin Working /\ "done" \notin Working
    BY Zenon DEF Working, Fresh
  <2>6. \A m : ~In(<<>>, m)
    BY DEF In
  <2>7. /\ \A u \in Txn : In(todo[u], h) => u = t
        /\ \A u \in Txn : ~Holds(u, h)
    BY <2>1, <2>2, Owner, ZenonT(30)
  <2>8. \A u \in Txn : Distinct(todo'[u])
    BY <1>a1, <2>1, <2>4
  <2>9. \A u, m \in Txn : In(todo'[u], m) =>
           /\ In(todo[u], m) /\ m # h /\ pc'[u] \in Working /\ (m # u => m # t)
    <3>1. \A m \in Txn : In(todo'[t], m) =>
           In(todo[t], m) /\ m # h /\ pc'[t] \in Working
      <4>1. ASSUME NEW m \in Txn, In(todo'[t], m) PROVE In(todo[t], m) /\ m # h
        <5>1. ~In(Tail(todo[t]), h) /\ (In(Tail(todo[t]), m) => In(todo[t], m))
          BY <2>1, <2>2, Zenon
        <5>2. In(Tail(todo[t]), m)
          BY <2>4, <4>1, Zenon
        <5>3. QED
          BY <5>1, <5>2, Zenon
      <4>2. ASSUME NEW m \in Txn, In(todo'[t], m) PROVE pc'[t] \in Working
        <5>1. Tail(todo[t]) # <<>>
          BY <2>4, <2>6, <4>2, Zenon
        <5>2. q = "single"
          BY <2>1, <5>1, Zenon
        <5>3. QED
          BY <2>4, <2>5, <5>2, Zenon
      <4>3. QED
        BY <4>1, <4>2, Zenon
    <3>2. \A u, m \in Txn : u # t /\ In(todo[u], m) =>
           /\ m # h /\ pc[u] \in Working /\ (m # u => m # t)
      <4>1. \A u, m \in Txn : u # t /\ In(todo[u], m) => m # h
        BY <2>7, Zenon
      <4>2. \A u, m \in Txn : In(todo[u], m) => pc[u] \in Working /\ (m # u => m # t)
        BY <1>a2, <1>w, <2>3, Zenon
      <4>3. QED
        BY <4>1, <4>2, Zenon
    <3>3. QED
      BY <2>4, <3>1, <3>2, Zenon
  <2>10. \A u, m \in Txn : In(todo'[u], m) =>
           /\ result'[m] = None /\ ~In(queue', m) /\ pc'[u] \in Working
           /\ m # u => pc'[m] = "wait" /\ tx'[m].batch /\ tx'[u].batch
    <3>1. ASSUME NEW u \in Txn, NEW m \in Txn, In(todo'[u], m)
          PROVE  /\ result'[m] = None /\ ~In(queue', m) /\ pc'[u] \in Working
                 /\ m # u => pc'[m] = "wait" /\ tx'[m].batch /\ tx'[u].batch
      <4>1. In(todo[u], m) /\ m # h /\ pc'[u] \in Working /\ (m # u => m # t)
        BY <2>9, <3>1, Zenon
      <4>2. /\ result[m] = None /\ ~In(queue, m)
            /\ m # u => pc[m] = "wait" /\ tx[m].batch /\ tx[u].batch
        BY <1>a2, <4>1, Zenon
      <4>3. QED
        BY <2>3, <2>4, <4>1, <4>2, Zenon
    <3>2. QED
      BY <3>1, Zenon
  <2>11. \A u \in Txn : pc'[u] \in Working \ {"post"} => todo'[u] # <<>>
    BY <1>a3, <2>1, <2>4, <2>5, SMTT(20), ZenonT(30)
  <2>12. \A u, m \in Txn : Holds(u, m) =>
           /\ result'[m] = None /\ ~In(queue', m) /\ pc'[u] = "post" /\ ~In(todo'[u], m)
           /\ m # u => pc'[m] = "wait"
    <3>1. \A u, m \in Txn : Holds(u, m) => u # t /\ m # h /\ (m # u => m # t)
      BY <1>a4, <1>w, <2>3, <2>7
    <3>2. QED
      BY <1>a4, <2>3, <2>4, <3>1, SMTT(20), ZenonT(30)
  <2>13. \A u \in Txn : pc'[u] \in Fresh => result'[u] = None
    <3>1. \A u \in Txn : pc'[u] \in Fresh => u # t /\ pc[u] \in Fresh
      BY <2>4, <2>5, ZenonT(30)
    <3>2. \A u \in Txn : u # t /\ pc[u] \in Fresh => u # h
      BY <1>a2, <1>w, <2>1, <2>2, SMTT(20)
    <3>3. QED
      BY <1>a5, <2>4, <3>1, <3>2, Zenon
  <2>14. \A u, m \in Txn : Holds(u, m)' <=> Holds(u, m)
    BY <2>3, Zenon DEF Holds
  <2>15. QED
    BY <2>8, <2>10, <2>11, <2>12, <2>13, <2>14, Zenon DEF PlaceInv
<1>12. CASE NoMove
  <2>1. UNCHANGED <<queue, pc, tx, todo, held, result>>
    BY <1>12, Zenon DEF NoMove, coord
  <2>2. \A u, m \in Txn : Holds(u, m)' <=> Holds(u, m)
    BY <2>1, Zenon DEF Holds
  <2>3. QED
    BY <1>a1, <1>a2, <1>a3, <1>a4, <1>a5, <2>1, <2>2, ZenonT(30) DEF PlaceInv
<1>13. CASE Restart
  <2>1. \A t \in Txn : todo'[t] = <<>> /\ held'[t] = <<>>
    BY <1>13, Zenon DEF Restart
  <2>2. \A t \in Txn : pc'[t] \in {"idle", "done", "dead"} /\ (pc'[t] = "idle" => pc[t] = "idle")
    BY <1>13, Zenon DEF Restart
  <2>3. Distinct(<<>>) /\ \A m : ~In(<<>>, m)
    BY DEF Distinct, In
  <2>4. \A t, m \in Txn : ~Holds(t, m)'
    BY <2>1 DEF Holds
  <2>5. \A t \in Txn : pc'[t] \notin Working
    BY <2>2, Zenon DEF Working
  <2>6. \A t \in Txn : pc'[t] \in Fresh => result'[t] = None
    BY <1>13, <1>a5, <2>2, Zenon DEF Restart, Fresh
  <2>7. QED
    BY <2>1, <2>3, <2>4, <2>5, <2>6 DEF PlaceInv
<1>14. QED
  BY <1>1, <1>2, <1>3, <1>4, <1>5, <1>6, <1>7, <1>8, <1>9, <1>10, <1>11, <1>12,
     <1>13, StepClasses, ZenonT(30)

(* A snapshot lies in the log while its transaction is under way. *)
LEMMA SnapStep ==
    ASSUME [Next]_vars, WalType, ThreadType, QueueInv, BatonInv, PlaceInv, GroupInv,
           SnapInv, WriterInv, UnsyncedFlagHonest
    PROVE  SnapInv'
<1>0. /\ pc \in [Txn -> Phase] /\ tx \in [Txn -> StagedType] /\ Len(log) \in Nat
      /\ \A m \in Txn : tx[m].snap \in Nat
  BY DEF ThreadType, WalType, StagedType
<1>1. Restart \/ (Len(log') >= Len(log) /\ Len(log') \in Nat)
  BY WalStep DEF WalType
<1>2. CASE Restart
  <2>1. \A t \in Txn : pc'[t] \in {"idle", "done", "dead"}
    BY <1>2, Zenon DEF Restart
  <2>2. QED
    BY <2>1, Zenon DEF SnapInv
<1>3. ASSUME Len(log') >= Len(log), Len(log') \in Nat, NEW t \in Txn, Begin(t) PROVE SnapInv'
  <2>1. /\ tx'[t].snap = Len(log)
        /\ \A u \in Txn : u # t => tx'[u] = tx[u] /\ pc'[u] = pc[u]
    BY <1>0, <1>3 DEF Begin, Goto
  <2>2. QED
    BY <1>0, <1>3, <2>1 DEF SnapInv
<1>4. ASSUME Len(log') >= Len(log), Len(log') \in Nat, UNCHANGED tx,
             NEW t \in Txn, pc[t] \notin {"idle", "done", "dead"},
             \A u \in Txn : u # t => pc'[u] = pc[u]
      PROVE  SnapInv'
  BY <1>0, <1>4 DEF SnapInv
<1>5. ASSUME NEW t \in Txn, Answer(t)
      PROVE  /\ pc[t] \notin {"idle", "done", "dead"} /\ UNCHANGED tx
             /\ \A u \in Txn : u # t => pc'[u] = pc[u]
  BY <1>0, <1>5, Zenon DEF Answer, Finish, Goto
<1>6. ASSUME NEW t \in Txn,
             \/ CommitStaged(t) \/ Direct(t) \/ Enqueue(t) \/ TakeBatch(t) \/ Handoff(t)
             \/ Wake(t) \/ BatchRefused(t) \/ BatchPost(t) \/ Move(t)
      PROVE  /\ pc[t] \notin {"idle", "done", "dead"} /\ UNCHANGED tx
             /\ \A u \in Txn : u # t => pc'[u] = pc[u]
  BY <1>0, <1>6, Zenon
     DEF CommitStaged, Direct, Enqueue, TakeBatch, Handoff, Wake, BatchRefused,
                    BatchPost, Move, Goto
<1>7. ASSUME NEW t \in Txn, Batch(t)
      PROVE  /\ pc[t] \notin {"idle", "done", "dead"} /\ UNCHANGED tx
             /\ \A u \in Txn : u # t => pc'[u] = pc[u]
  <2>1. pc[t] = "batch" /\ pc' = [pc EXCEPT ![t] = "post"] /\ UNCHANGED tx
    BY <1>7, Zenon DEF Batch, Goto
  <2>2. QED
    BY <1>0, <2>1, Zenon
<1>8. ASSUME Len(log') >= Len(log), Len(log') \in Nat, NoMove PROVE SnapInv'
  BY <1>0, <1>8 DEF NoMove, SnapInv
<1>9. QED
  BY <1>1, <1>2, <1>3, <1>4, <1>5, <1>6, <1>7, <1>8, StepClasses, ZenonT(30)

-----------------------------------------------------------------------------
(* Sync groups.                                                            *)

LEMMA GroupStep ==
    ASSUME [Next]_vars, WalType, ThreadType, QueueInv, BatonInv, PlaceInv, GroupInv,
           SnapInv, GroupHasLeader
    PROVE  GroupInv' /\ GroupHasLeader'
<1>0. /\ pc \in [Txn -> Phase] /\ grp \in Txn \cup {None}
      /\ gres \in [Txn -> {"Ok", "Unknown", None}] /\ via \in [Txn -> Txn \cup {None}]
  BY Zenon DEF ThreadType
<1>n. None \notin Txn /\ "Ok" # None /\ "Unknown" # None
  BY CommitAssumption, Zenon DEF Told
<1>a. /\ \A t \in Txn : pc[t] \in Syncing => via[t] # None
      /\ \A t \in Txn : pc[t] = "sync" => grp = via[t]
      /\ \A t, u \in Txn : pc[t] = "sync" /\ pc[u] = "sync" => t = u
      /\ grp # None => \E t \in Txn : pc[t] = "sync"
  BY Zenon DEF GroupInv
<1>b. \A t \in Txn : pc[t] = "groupWait" =>
        \/ gres[via[t]] # None
        \/ \E u \in Txn : /\ pc[u] \in {"sync", "synced", "syncFailed"}
                         /\ via[u] = via[t]
  BY Zenon DEF GroupHasLeader
<1>s. Syncing = {"sync", "synced", "syncFailed", "groupWait"}
  BY Zenon DEF Syncing
(* A step of a thread that is in no group before or after. *)
<1>c. ASSUME NEW t \in Txn, pc[t] \notin Syncing, pc'[t] \notin Syncing,
             UNCHANGED <<grp, gres, via>>, \A u \in Txn : u # t => pc'[u] = pc[u]
      PROVE  GroupInv' /\ GroupHasLeader'
  <2>1. \A u \in Txn : pc'[u] \in Syncing \/ pc[u] \in Syncing => pc'[u] = pc[u]
    BY <1>c, Zenon
  <2>2. /\ \A u \in Txn : pc'[u] \in Syncing => via[u] # None
        /\ \A u \in Txn : pc'[u] = "sync" => grp = via[u]
        /\ \A u, v \in Txn : pc'[u] = "sync" /\ pc'[v] = "sync" => u = v
        /\ grp # None => \E u \in Txn : pc'[u] = "sync"
    BY <1>a, <1>s, <2>1, Zenon
  <2>3. \A w \in Txn : pc'[w] = "groupWait" =>
        \/ gres[via[w]] # None
        \/ \E u \in Txn : /\ pc'[u] \in {"sync", "synced", "syncFailed"}
                         /\ via[u] = via[w]
    BY <1>b, <1>s, <2>1, Zenon
  <2>4. QED
    BY <1>c, <2>2, <2>3 DEF GroupInv, GroupHasLeader
<1>1. ASSUME NEW t \in Txn,
             \/ Begin(t) \/ CommitStaged(t) \/ Direct(t) \/ Enqueue(t) \/ TakeBatch(t)
             \/ Handoff(t) \/ Wake(t) \/ BatchRefused(t) \/ BatchPost(t)
      PROVE  GroupInv' /\ GroupHasLeader'
  <2>1. /\ pc[t] \notin Syncing /\ pc'[t] \notin Syncing /\ UNCHANGED <<grp, gres, via>>
        /\ \A u \in Txn : u # t => pc'[u] = pc[u]
    BY <1>0, <1>1, <1>s, Zenon
       DEF Begin, CommitStaged, Direct, Enqueue, TakeBatch, Handoff, Wake,
                    BatchRefused, BatchPost, Goto, sync
  <2>2. QED
    BY <1>c, <2>1, Zenon
<1>2. ASSUME NEW t \in Txn, Batch(t) PROVE GroupInv' /\ GroupHasLeader'
  <2>1. /\ pc[t] = "batch" /\ pc' = [pc EXCEPT ![t] = "post"] /\ UNCHANGED <<grp, gres, via>>
    BY <1>2, Zenon DEF Batch, Goto, sync
  <2>2. QED
    BY <1>0, <1>c, <1>s, <2>1, Zenon
<1>3. ASSUME NEW t \in Txn, Answer(t)
      PROVE  pc'[t] \notin Syncing /\ \A u \in Txn : u # t => pc'[u] = pc[u]
  <2>1. PICK q \in {"single", "handoff", "done"} : pc' = [pc EXCEPT ![t] = q]
    BY <1>3, AnswerFacts, Zenon
  <2>2. QED
    BY <1>0, <1>s, <2>1, Zenon
<1>4. ASSUME NEW t \in Txn, Conflict(t) \/ Refuse(t) \/ SingleFails(t)
      PROVE  GroupInv' /\ GroupHasLeader'
  <2>1. Answer(t) /\ UNCHANGED <<grp, gres, via>> /\ pc[t] = "single"
    BY <1>4, Zenon DEF Conflict, Refuse, SingleFails, Answer, Told, sync
  <2>2. QED
    BY <1>3, <1>c, <1>s, <2>1, Zenon
<1>5. ASSUME NEW t \in Txn, Single(t) PROVE GroupInv' /\ GroupHasLeader'
  <2>1. CASE mode # "Safe"
    <3>1. Answer(t) /\ UNCHANGED <<grp, gres, via>> /\ pc[t] = "single"
      BY <1>5, <2>1, Zenon DEF Single, Answer, Told
    <3>2. QED
      BY <1>3, <1>c, <1>s, <3>1, Zenon
  <2>2. CASE mode = "Safe" /\ grp = None
    <3>1. PICK m \in Txn : m = Head(todo[t])
      <4>1. todo[t] \in Seq(Txn) /\ todo[t] # <<>> /\ Distinct(todo[t])
        BY <1>5, Zenon DEF Single, ThreadType, PlaceInv, Working
      <4>2. QED
        BY <4>1, TailFacts, Zenon
    <3>2. /\ pc[t] = "single" /\ grp' = m /\ via' = [via EXCEPT ![t] = grp']
          /\ pc' = [pc EXCEPT ![t] = "sync"] /\ UNCHANGED gres
      BY <1>5, <2>2, <3>1, Zenon DEF Single, Goto
    <3>3. /\ pc'[t] = "sync" /\ via'[t] = m
          /\ \A u \in Txn : u # t => pc'[u] = pc[u] /\ via'[u] = via[u]
      BY <1>0, <3>2, Zenon
    <3>4. \A u \in Txn : pc[u] # "sync"
      BY <1>a, <1>s, <2>2, Zenon
    <3>5. GroupInv'
      <4>1. \A u \in Txn : pc'[u] = "sync" => u = t
        BY <3>3, <3>4, Zenon
      <4>2. \A u \in Txn : pc'[u] \in Syncing => via'[u] # None
        BY <1>a, <1>n, <3>3, Zenon
      <4>3. grp' = via'[t]
        BY <3>2, <3>3, Zenon
      <4>4. QED
        BY <3>3, <4>1, <4>2, <4>3, Zenon DEF GroupInv
    <3>6. GroupHasLeader'
      BY <1>b, <3>2, <3>3 DEF GroupHasLeader
    <3>7. QED
      BY <3>5, <3>6, Zenon
  <2>3. CASE mode = "Safe" /\ grp # None
    <3>1. /\ pc[t] = "single" /\ grp' = grp /\ via' = [via EXCEPT ![t] = grp]
          /\ pc' = [pc EXCEPT ![t] = "groupWait"] /\ UNCHANGED gres
      BY <1>5, <2>3, Zenon DEF Single, Goto
    <3>2. /\ pc'[t] = "groupWait" /\ via'[t] = grp
          /\ \A u \in Txn : u # t => pc'[u] = pc[u] /\ via'[u] = via[u]
      BY <1>0, <3>1, Zenon
    <3>3. PICK l \in Txn : pc[l] = "sync" /\ via[l] = grp
      BY <1>a, <2>3, Zenon
    <3>4. GroupInv'
      BY <1>a, <2>3, <3>1, <3>2 DEF GroupInv
    <3>5. l # t
      BY <3>1, <3>3, Zenon
    <3>6. ASSUME NEW w \in Txn, w # t, pc'[w] = "groupWait"
          PROVE  \/ gres'[via'[w]] # None
                 \/ \E u \in Txn : /\ pc'[u] \in {"sync", "synced", "syncFailed"}
                                  /\ via'[u] = via'[w]
      BY <1>b, <3>1, <3>2, <3>6
    <3>7. /\ pc'[l] \in {"sync", "synced", "syncFailed"} /\ via'[l] = via'[t]
      BY <3>2, <3>3, <3>5, Zenon
    <3>8. QED
      BY <3>4, <3>6, <3>7, Zenon DEF GroupHasLeader
  <2>4. QED
    BY <2>1, <2>2, <2>3, Zenon
<1>6. ASSUME NEW t \in Txn, GroupSync(t) PROVE GroupInv' /\ GroupHasLeader'
  <2>1. /\ pc[t] = "sync" /\ grp' = None /\ UNCHANGED <<gres, via>>
        /\ pc' = [pc EXCEPT ![t] = "synced"] \/ pc' = [pc EXCEPT ![t] = "syncFailed"]
    BY <1>6, Zenon DEF GroupSync, Goto
  <2>2. pc'[t] \in {"synced", "syncFailed"} /\ \A u \in Txn : u # t => pc'[u] = pc[u]
    BY <1>0, <2>1, Zenon
  <2>3. \A u \in Txn : pc'[u] # "sync"
    BY <1>a, <2>1, <2>2, Zenon
  <2>4. GroupInv'
    BY <1>a, <1>s, <2>1, <2>2, <2>3, Zenon DEF GroupInv
  <2>5. GroupHasLeader'
    BY <1>b, <2>1, <2>2 DEF GroupHasLeader
  <2>6. QED
    BY <2>4, <2>5, Zenon
<1>7. ASSUME NEW t \in Txn, GroupComplete(t) PROVE GroupInv' /\ GroupHasLeader'
  <2>1. via[t] \in Txn /\ pc[t] \in {"synced", "syncFailed"}
    BY <1>0, <1>7, <1>a, <1>s, Zenon DEF GroupComplete
  <2>2. /\ UNCHANGED <<grp, via>> /\ gres'[via[t]] # None /\ gres'[via[t]] \in Told
        /\ \A g \in Txn : g # via[t] => gres'[g] = gres[g]
    BY <1>0, <1>7, <1>n, <2>1, Zenon DEF GroupComplete, Told
  <2>3. Answer(t)
    BY <1>7, <2>2, Zenon DEF GroupComplete, Answer
  <2>4. pc'[t] \notin Syncing /\ \A u \in Txn : u # t => pc'[u] = pc[u]
    BY <1>3, <2>3, Zenon
  <2>5. GroupInv'
    BY <1>a, <1>s, <2>1, <2>2, <2>4 DEF GroupInv
  <2>6. ASSUME NEW w \in Txn, pc'[w] = "groupWait"
        PROVE  \/ gres'[via[w]] # None
               \/ \E u \in Txn : /\ pc'[u] \in {"sync", "synced", "syncFailed"}
                                /\ via[u] = via[w]
    <3>1. pc[w] = "groupWait" /\ via[w] \in Txn
      BY <1>0, <1>a, <1>s, <2>4, <2>6, Zenon
    <3>2. CASE via[w] = via[t]
      BY <2>2, <3>2, ZenonT(30)
    <3>3. CASE via[w] # via[t]
      BY <1>b, <2>2, <2>4, <3>1, <3>3
    <3>4. QED
      BY <3>2, <3>3, Zenon
  <2>7. GroupHasLeader'
    BY <2>2, <2>6, Zenon DEF GroupHasLeader
  <2>8. QED
    BY <2>5, <2>7, Zenon
<1>8. ASSUME NEW t \in Txn, GroupWait(t) PROVE GroupInv' /\ GroupHasLeader'
  <2>1. gres[via[t]] \in Told
    BY <1>0, <1>8, <1>a, <1>s, Zenon DEF GroupWait, Told
  <2>2. Answer(t) /\ UNCHANGED <<grp, gres, via>> /\ pc[t] = "groupWait"
    BY <1>8, <2>1, Zenon DEF GroupWait, Answer, sync
  <2>3. pc'[t] \notin Syncing /\ \A u \in Txn : u # t => pc'[u] = pc[u]
    BY <1>3, <2>2, Zenon
  <2>4. GroupInv'
    BY <1>a, <1>s, <2>2, <2>3, ZenonT(30) DEF GroupInv
  <2>5. GroupHasLeader'
    BY <1>b, <1>s, <2>2, <2>3 DEF GroupHasLeader
  <2>6. QED
    BY <2>4, <2>5, Zenon
<1>9. CASE TimerBegin \/ TimerSync \/ Finished \/ UNCHANGED vars
  <2>1. UNCHANGED <<pc, via, grp, gres>>
    BY <1>9, Zenon DEF TimerBegin, TimerSync, Finished, vars, thread, sync
  <2>2. GroupInv'
    BY <1>a, <2>1, Zenon DEF GroupInv
  <2>3. QED
    BY <1>b, <2>1, <2>2, Zenon DEF GroupHasLeader
<1>10. CASE Kill \/ PowerLoss \/ Close
  <2>1. Restart
    BY <1>10, Zenon DEF Kill, PowerLoss, Close, Reopen, Restart
  <2>2. grp' = None /\ \A t \in Txn : pc'[t] \notin Syncing
    BY <1>s, <2>1, Zenon DEF Restart
  <2>3. QED
    BY <1>s, <2>2, Zenon DEF GroupInv, GroupHasLeader
<1>11. QED
  BY <1>1, <1>2, <1>4, <1>5, <1>6, <1>7, <1>8, <1>9, <1>10, ZenonT(30) DEF Next, Step

-----------------------------------------------------------------------------
(* The invariant of the coordinator, and what follows from it.             *)

CoordInv ==
    /\ WalType /\ ThreadType /\ QueueInv /\ BatonInv /\ PlaceInv /\ GroupInv
    /\ SnapInv /\ WriterInv /\ GroupHasLeader /\ UnsyncedFlagHonest

LEMMA CoordInit == Init => CoordInv
<1> SUFFICES ASSUME Init PROVE CoordInv
  BY Zenon
<1>1. /\ Distinct(<<>>) /\ \A m : ~In(<<>>, m)
  BY DEF Distinct, In
<1>2. /\ log = <<>> /\ stray = <<>> /\ Len(log) = 0 /\ durable = 0 /\ base = 0
      /\ doubt = {} /\ mode \in Durability /\ timer = None /\ grp = None
      /\ poisoned = FALSE /\ unsynced = FALSE /\ fenced = FALSE /\ active = FALSE
      /\ queue = <<>>
      /\ gres = [t \in Txn |-> None] /\ lead = [t \in Txn |-> FALSE]
      /\ pc = [t \in Txn |-> "idle"] /\ tx = [t \in Txn |-> NoTx]
      /\ todo = [t \in Txn |-> <<>>] /\ held = [t \in Txn |-> <<>>]
      /\ via = [t \in Txn |-> None] /\ result = [t \in Txn |-> None]
  BY Zenon DEF Init
<1>3. WalType
  <2>1. \A A : <<>> \in Seq(A)
    OBVIOUS
  <2>2. log \in Seq(RecordType) /\ stray \in Seq(RecordType)
    BY <1>2, <2>1, Zenon
  <2>3. durable \in 0..Len(log) /\ base \in 0..Len(log) /\ doubt \subseteq 1..Len(log)
    BY <1>2
  <2>4. QED
    BY <1>2, <2>2, <2>3, Zenon DEF WalType
<1>4. ThreadType
  <2>1. NoTx \in StagedType
    BY Zenon DEF NoTx, StagedType
  <2>2. \A A : <<>> \in Seq(A)
    OBVIOUS
  <2>3. /\ queue \in Seq(Txn) /\ todo \in [Txn -> Seq(Txn)]
        /\ held \in [Txn -> Seq(HeldType)] /\ tx \in [Txn -> StagedType]
    BY <1>2, <2>1, <2>2, Zenon
  <2>4. pc \in [Txn -> Phase] /\ lead \in [Txn -> BOOLEAN]
    BY <1>2, Zenon DEF Phase
  <2>5. QED
    BY <1>2, <2>3, <2>4, Zenon DEF ThreadType
<1>5. QueueInv /\ BatonInv
  BY <1>1, <1>2, Zenon DEF QueueInv, BatonInv, Leading
<1>6. PlaceInv
  <2>1. \A t, m \in Txn : ~Holds(t, m)
    BY <1>2 DEF Holds
  <2>2. QED
    BY <1>1, <1>2, <2>1, Zenon DEF PlaceInv, Working
<1>7. GroupInv /\ SnapInv /\ GroupHasLeader
  BY <1>2, Zenon DEF GroupInv, SnapInv, GroupHasLeader, Syncing
<1>8. WriterInv /\ UnsyncedFlagHonest
  BY <1>2, Zenon DEF WriterInv, UnsyncedFlagHonest
<1>9. QED
  BY <1>3, <1>4, <1>5, <1>6, <1>7, <1>8, Zenon DEF CoordInv

LEMMA CoordStep == CoordInv /\ [Next]_vars => CoordInv'
<1> SUFFICES ASSUME CoordInv, [Next]_vars PROVE CoordInv'
  BY Zenon
<1>1. /\ WalType /\ ThreadType /\ QueueInv /\ BatonInv /\ PlaceInv /\ GroupInv
      /\ SnapInv /\ WriterInv /\ GroupHasLeader /\ UnsyncedFlagHonest
  BY Zenon DEF CoordInv
<1>2. WalType' /\ WriterInv' /\ UnsyncedFlagHonest'
  BY <1>1, WalStep, Zenon
<1>3. ThreadType'
  BY <1>1, ThreadStep, Zenon
<1>4. QueueInv'
  BY <1>1, QueueStep, Zenon
<1>5. BatonInv'
  BY <1>1, BatonStep, Zenon
<1>6. PlaceInv'
  BY <1>1, PlaceStep, Zenon
<1>7. GroupInv' /\ GroupHasLeader'
  BY <1>1, GroupStep, Zenon
<1>8. SnapInv'
  BY <1>1, SnapStep, Zenon
<1>9. QED
  BY <1>2, <1>3, <1>4, <1>5, <1>6, <1>7, <1>8, Zenon DEF CoordInv

(* The threads, the queue, the baton, the sync groups and the writer's     *)
(* flags agree with one another after every step of the commit path.       *)
THEOREM CoordInvariant == Spec => []CoordInv
  BY CoordInit, CoordStep, PTL DEF Spec

(* The state of the commit path keeps its type: a length never passes the  *)
(* end of the log, and every outcome is one a caller can be told.          *)
THEOREM TypeCorrect == Spec => []TypeOK
<1>1. CoordInv => TypeOK
  <2> SUFFICES ASSUME CoordInv PROVE TypeOK
    BY Zenon
  <2>1. WalType /\ ThreadType
    BY Zenon DEF CoordInv
  <2>2. \A i \in 1..Len(log) : log[i].txn \in Txn
    <3>1. log \in Seq(RecordType)
      BY <2>1, Zenon DEF WalType
    <3>2. \A i \in 1..Len(log) : log[i] \in RecordType
      BY <3>1
    <3>3. QED
      BY <3>2, Zenon DEF RecordType
  <2>3. QED
    BY <2>1, <2>2, Zenon DEF TypeOK, WalType, ThreadType
<1>2. QED
  BY <1>1, CoordInvariant, PTL

(* coordinate_commit elects one leader: while the coordinator is active    *)
(* exactly one thread holds the baton or is about to, and when it is not   *)
(* nobody does and nothing is queued.                                      *)
THEOREM ElectsOneLeader == Spec => []OneLeader
<1>1. CoordInv => OneLeader
  <2> SUFFICES ASSUME CoordInv PROVE OneLeader
    BY Zenon
  <2>1. BatonInv
    BY Zenon DEF CoordInv
  <2>2. Leaders = {t \in Txn : Leading(t)}
    BY Zenon DEF Leaders, Leading
  <2>3. CASE active
    <3>1. PICK l \in Txn : Leading(l)
      BY <2>1, <2>3, Zenon DEF BatonInv
    <3>2. Leaders = {l}
      BY <2>1, <2>2, <3>1, Zenon DEF BatonInv
    <3>3. QED
      BY <2>3, <3>1, <3>2, Zenon DEF OneLeader
  <2>4. CASE ~active
    BY <2>1, <2>2, <2>4, Zenon DEF BatonInv, OneLeader
  <2>5. QED
    BY <2>3, <2>4, Zenon
<1>2. QED
  BY <1>1, CoordInvariant, PTL

(* Nobody waits for a barrier that no thread is going to run: the group of *)
(* every waiting commit is complete or has its leader at work.             *)
THEOREM GroupsAreLed == Spec => []GroupHasLeader
<1>1. CoordInv => GroupHasLeader
  BY Zenon DEF CoordInv
<1>2. QED
  BY <1>1, CoordInvariant, PTL

(* The writer's flag hides no append from the timer or from close.         *)
THEOREM FlagIsHonest == Spec => []UnsyncedFlagHonest
<1>1. CoordInv => UnsyncedFlagHonest
  BY Zenon DEF CoordInv
<1>2. QED
  BY <1>1, CoordInvariant, PTL
=============================================================================
