-------------------------- MODULE CheckpointFacts ---------------------------
(***************************************************************************)
(* What the proofs about Checkpoint rest on: what replay computes for      *)
(* every log (the fold of ReplayFile over the records of a file and of     *)
(* ReplayTo over the files of a chain), the inductive invariant, and that  *)
(* commits, barriers and the steps of the background checkpoint keep it.   *)
(*                                                                         *)
(* The induction theorems of the library take the property as an operator, *)
(* which the provers cannot instantiate; here a property is the SET of the *)
(* numbers that have it, so every fact is first-order.                     *)
(***************************************************************************)
EXTENDS Checkpoint, WellFoundedInduction, TLAPS

-----------------------------------------------------------------------------
(* Induction over the naturals and over an interval.                       *)

(* A non-empty set of naturals has a least element. *)
LEMMA LeastNatural ==
    ASSUME NEW T \in SUBSET Nat, T # {}
    PROVE  \E m \in T : \A k \in T : m <= k
<1>1. PICK m \in T : \A k \in T : ~(<<k, m>> \in OpToRel(<, Nat))
  BY NatLessThanWellFounded, WFMin, Zenon
<1>2. \A k \in T : ~(k < m)
  BY <1>1, Zenon DEF OpToRel
<1>3. QED
  BY <1>2

(* Induction over an interval. *)
LEMMA IntervalInduction ==
    ASSUME NEW lo \in Int, NEW hi \in Int, NEW S,
           lo \in S,
           \A i \in lo..hi : i # lo /\ i - 1 \in S => i \in S
    PROVE  lo..hi \subseteq S
<1> DEFINE Out == {n \in Nat : lo + n \in lo..hi /\ lo + n \notin S}
<1>1. SUFFICES ASSUME Out # {} PROVE FALSE
  <2>1. ASSUME NEW i \in lo..hi, i \notin S PROVE i - lo \in Out
    <3>1. i - lo \in Nat /\ lo + (i - lo) = i
      OBVIOUS
    <3>2. QED
      BY <2>1, <3>1, Zenon
  <2>2. QED
    BY <2>1, Zenon
<1>2. PICK n \in Out : \A k \in Out : n <= k
  <2>1. Out \in SUBSET Nat
    BY Zenon
  <2> HIDE DEF Out
  <2>2. QED
    BY <1>1, <2>1, LeastNatural, Zenon
<1>3. n # 0
  BY <1>2
<1>4. /\ n - 1 \in Nat /\ n - 1 < n /\ lo + (n - 1) = (lo + n) - 1
      /\ lo + n \in lo..hi /\ lo + n # lo
  BY <1>2, <1>3
<1>5. n - 1 \notin Out
  BY <1>2, <1>4
<1>6. (lo + n) - 1 \in S
  BY <1>4, <1>5
<1>7. QED
  BY <1>2, <1>4, <1>6, Zenon

(* A non-empty set of naturals with a bound has a greatest element, which  *)
(* is what Max returns.                                                    *)
LEMMA MaxFacts ==
    ASSUME NEW n \in Nat, NEW S \in SUBSET (0..n), S # {}
    PROVE  Max(S) \in S /\ \A y \in S : Max(S) >= y
<1> DEFINE Gaps == {d \in Nat : \E x \in S : d = n - x}
<1>1. PICK x \in S : TRUE
  BY Zenon
<1>2. n - x \in Gaps
  BY <1>1
<1>3. PICK d \in Gaps : \A e \in Gaps : d <= e
  <2>1. Gaps \in SUBSET Nat /\ Gaps # {}
    BY <1>2, Zenon
  <2> HIDE DEF Gaps
  <2>2. QED
    BY <2>1, LeastNatural, Zenon
<1>4. PICK m \in S : d = n - m
  BY <1>3, Zenon
<1>5. ASSUME NEW y \in S PROVE m >= y
  <2>1. n - y \in Gaps
    OBVIOUS
  <2>2. n - m <= n - y
    BY <1>3, <1>4, <2>1, Zenon
  <2>3. QED
    BY <2>2
<1>6. QED
  BY <1>5, Zenon DEF Max

-----------------------------------------------------------------------------
(* Recursive functions over an interval: the value at i comes from the     *)
(* value at i - 1 by the function G[i], which stays in V.                  *)

Closed(G, V, lo, hi) ==
    \A i \in lo..hi, v \in V : i # lo => G[i][v] \in V

Recursive(f, c, G, lo, hi) ==
    f = [i \in lo..hi |-> IF i = lo THEN c ELSE G[i][f[i - 1]]]

(* Such a function exists. *)
LEMMA Recursion ==
    ASSUME NEW lo \in Int, NEW hi \in Int, lo <= hi, NEW V, NEW c \in V, NEW G,
           Closed(G, V, lo, hi)
    PROVE  \E f \in [lo..hi -> V] : Recursive(f, c, G, lo, hi)
<1> DEFINE Steps(f, n) == f[lo] = c /\ \A i \in lo..n : i # lo => f[i] = G[i][f[i - 1]]
           S == {n \in lo..hi : \E f \in [lo..n -> V] : Steps(f, n)}
<1>1. lo \in S
  <2> DEFINE f == [i \in lo..lo |-> c]
  <2>1. f \in [lo..lo -> V] /\ f[lo] = c
    OBVIOUS
  <2>2. \A i \in lo..lo : i = lo
    OBVIOUS
  <2> HIDE DEF f
  <2>3. Steps(f, lo)
    BY <2>1, <2>2, Zenon
  <2> HIDE DEF Steps
  <2>4. QED
    BY <2>1, <2>3
<1>2. ASSUME NEW n \in lo..hi, n # lo, n - 1 \in S PROVE n \in S
  <2>1. PICK f \in [lo..(n - 1) -> V] : Steps(f, n - 1)
    BY <1>2, Zenon
  <2> DEFINE g == [i \in lo..n |-> IF i = n THEN G[n][f[n - 1]] ELSE f[i]]
  <2>2. n - 1 \in lo..(n - 1)
    BY <1>2
  <2>3. G[n][f[n - 1]] \in V
    BY <1>2, <2>2, Zenon DEF Closed
  <2>4. g \in [lo..n -> V]
    BY <1>2, <2>3
  <2>5. g[lo] = c
    BY <1>2, <2>1
  <2>6. ASSUME NEW i \in lo..n, i # lo PROVE g[i] = G[i][g[i - 1]]
    <3>1. i - 1 \in lo..(n - 1) /\ g[i - 1] = f[i - 1]
      BY <1>2, <2>6
    <3>2. CASE i = n
      BY <3>1, <3>2, Zenon
    <3>3. CASE i # n
      BY <2>1, <2>6, <3>1, <3>3
    <3>4. QED
      BY <3>2, <3>3, Zenon
  <2> HIDE DEF g
  <2>7. Steps(g, n)
    BY <2>5, <2>6, Zenon
  <2> HIDE DEF Steps
  <2>8. QED
    BY <2>4, <2>7, Zenon
<1> HIDE DEF S
<1>3. lo..hi \subseteq S
  BY <1>1, <1>2, IntervalInduction, Zenon
<1>4. PICK f \in [lo..hi -> V] : Steps(f, hi)
  BY <1>3 DEF S
<1>5. Recursive(f, c, G, lo, hi)
  BY <1>4, Zenon DEF Recursive
<1>6. QED
  BY <1>5, Zenon

-----------------------------------------------------------------------------
(* Replaying one file.                                                     *)

(* A record's version and commit; what a replay may give; when one history *)
(* is the beginning of another.                                            *)
RecType == [v : Nat, c : Nat]
Replayed == Seq(Nat) \cup {None}
Prefix(a, b) == Len(a) <= Len(b) /\ \A i \in 1..Len(a) : a[i] = b[i]

(* One record. *)
LEMMA ReplayOne ==
    ASSUME NEW s \in Replayed, NEW r \in RecType
    PROVE  /\ Replay1(s, r) \in Replayed
           /\ Replay1(s, r) # None => /\ s # None /\ Prefix(s, Replay1(s, r))
                                      /\ r.v <= Len(Replay1(s, r)) /\ r.v <= Len(s) + 1
           /\ s # None /\ r.v <= Len(s) => Replay1(s, r) = s
<1>1. CASE s = None
  BY <1>1, Zenon DEF Replay1, Replayed
<1>2. CASE s \in Seq(Nat)
  <2>1. s # None /\ r.v \in Nat /\ r.c \in Nat /\ Len(s) \in Nat
    BY <1>2, NoneAssumption DEF RecType
  <2>2. Prefix(s, s)
    BY <2>1 DEF Prefix
  <2>3. CASE r.v <= Len(s)
    BY <1>2, <2>1, <2>2, <2>3 DEF Replay1, Replayed
  <2>4. CASE r.v = Len(s) + 1
    <3>1. Replay1(s, r) = Append(s, r.c)
      BY <2>1, <2>4 DEF Replay1
    <3>2. /\ Append(s, r.c) \in Seq(Nat) /\ Len(Append(s, r.c)) = Len(s) + 1
          /\ Prefix(s, Append(s, r.c))
      BY <1>2, <2>1 DEF Prefix
    <3>3. QED
      BY <2>1, <2>4, <3>1, <3>2 DEF Replayed
  <2>5. CASE r.v > Len(s) + 1
    BY <2>1, <2>5 DEF Replay1, Replayed
  <2>6. QED
    BY <2>1, <2>3, <2>4, <2>5
<1>3. QED
  BY <1>1, <1>2, Zenon DEF Replayed

(* The replay of one file, record by record. *)
LEMMA FileFold ==
    ASSUME NEW s \in Replayed, NEW rs \in Seq(RecType)
    PROVE  \E f \in [0..Len(rs) -> Replayed] :
              /\ f[0] = s /\ \A i \in 1..Len(rs) : f[i] = Replay1(f[i - 1], rs[i])
              /\ ReplayFile(s, rs) = f[Len(rs)]
<1> DEFINE Dom == 0..Len(rs)
           G == [i \in Dom |-> [v \in Replayed |-> Replay1(v, rs[i])]]
           Body(f) == [i \in 0..Len(rs) |->
                          IF i = 0 THEN s ELSE Replay1(f[i - 1], rs[i])]
           F == CHOOSE f : f = Body(f)
<1>0. /\ \A i \in Dom : i # 0 => rs[i] \in RecType /\ i - 1 \in Dom
      /\ \A i \in 1..Len(rs) : i \in Dom /\ i # 0
      /\ Len(rs) \in Dom /\ 0 \in Dom /\ Len(rs) \in Int /\ 0 <= Len(rs) /\ 0 \in Int
  OBVIOUS
<1> HIDE DEF F, G, Dom
<1>1. \A i \in Dom, v \in Replayed : G[i][v] = Replay1(v, rs[i])
  BY Zenon DEF G
<1>2. Closed(G, Replayed, 0, Len(rs))
  <2> SUFFICES ASSUME NEW i \in Dom, NEW v \in Replayed, i # 0
               PROVE  G[i][v] \in Replayed
    BY Zenon DEF Closed, Dom
  <2>1. rs[i] \in RecType
    BY <1>0, Zenon
  <2>2. Replay1(v, rs[i]) \in Replayed
    BY <2>1, ReplayOne
  <2>3. QED
    BY <1>1, <2>2, Zenon
<1>3. PICK f \in [Dom -> Replayed] : Recursive(f, s, G, 0, Len(rs))
  BY <1>0, <1>2, Recursion, Zenon DEF Dom
<1>4. f = Body(f)
  <2>1. \A i \in Dom : f[i] = IF i = 0 THEN s ELSE G[i][f[i - 1]]
    BY <1>3, Zenon DEF Recursive, Dom
  <2>2. \A i \in Dom : f[i] = Body(f)[i]
    BY <1>0, <1>1, <2>1, Zenon DEF Dom
  <2>3. QED
    BY <2>2, Zenon DEF Dom
<1>5. F = Body(F)
  BY <1>4, Zenon DEF F
<1>6. ReplayFile(s, rs) = F[Len(rs)]
  BY Zenon DEF ReplayFile, F
<1>7. F[0] = s /\ \A i \in Dom : i # 0 => F[i] = Replay1(F[i - 1], rs[i])
  BY <1>0, <1>5, Zenon DEF Dom
<1> DEFINE T == {i \in Dom : F[i] \in Replayed}
<1>8. 0 \in T
  BY <1>0, <1>7, Zenon
<1>9. ASSUME NEW i \in Dom, i # 0, i - 1 \in T PROVE i \in T
  <2>1. rs[i] \in RecType /\ F[i - 1] \in Replayed /\ F[i] = Replay1(F[i - 1], rs[i])
    BY <1>0, <1>7, <1>9, Zenon
  <2>2. F[i] \in Replayed
    BY <2>1, ReplayOne
  <2>3. QED
    BY <2>2, Zenon
<1>10. Dom \subseteq T
  <2> HIDE DEF T
  <2>1. QED
    BY <1>0, <1>8, <1>9, IntervalInduction, Zenon DEF Dom
<1>11. F \in [Dom -> Replayed]
  <2>1. \A i \in Dom : F[i] \in Replayed
    BY <1>10, Zenon
  <2>2. F = [i \in Dom |-> F[i]]
    BY <1>5, Zenon DEF Dom
  <2>3. QED
    BY <2>1, <2>2, Zenon
<1>12. QED
  BY <1>0, <1>6, <1>7, <1>11, Zenon DEF Dom

(* The replay of the first n records is the n-th value of the fold. *)
LEMMA FileFacts ==
    ASSUME NEW s \in Replayed, NEW rs \in Seq(RecType)
    PROVE  \E f \in [0..Len(rs) -> Replayed] :
              /\ f[0] = s /\ \A i \in 1..Len(rs) : f[i] = Replay1(f[i - 1], rs[i])
              /\ ReplayFile(s, rs) = f[Len(rs)]
              /\ \A n \in 0..Len(rs) : ReplayFile(s, SubSeq(rs, 1, n)) = f[n]
<1>1. PICK f \in [0..Len(rs) -> Replayed] :
              /\ f[0] = s /\ \A i \in 1..Len(rs) : f[i] = Replay1(f[i - 1], rs[i])
              /\ ReplayFile(s, rs) = f[Len(rs)]
  BY FileFold, Zenon
<1>2. ASSUME NEW n \in 0..Len(rs) PROVE ReplayFile(s, SubSeq(rs, 1, n)) = f[n]
  <2> DEFINE p == SubSeq(rs, 1, n)
  <2>1. /\ p \in Seq(RecType) /\ Len(p) = n /\ n \in Int /\ 0 <= n /\ 0 \in Int
        /\ \A i \in 1..n : p[i] = rs[i] /\ i \in 1..Len(rs)
    OBVIOUS
  <2>2. \A i \in 0..n : i # 0 => i \in 1..n
    OBVIOUS
  <2> HIDE DEF p
  <2>3. PICK g \in [0..n -> Replayed] :
              /\ g[0] = s /\ \A i \in 1..n : g[i] = Replay1(g[i - 1], p[i])
              /\ ReplayFile(s, p) = g[n]
    BY <2>1, FileFold, Zenon
  <2> DEFINE S == {i \in 0..n : g[i] = f[i]}
  <2>4. 0 \in S
    BY <1>1, <2>1, <2>3
  <2>5. ASSUME NEW i \in 0..n, i # 0, i - 1 \in S PROVE i \in S
    BY <1>1, <2>1, <2>2, <2>3, <2>5, Zenon
  <2>6. 0..n \subseteq S
    <3> HIDE DEF S
    <3>1. QED
      BY <2>1, <2>4, <2>5, IntervalInduction, Zenon
  <2>7. n \in 0..n
    BY <2>1
  <2>8. QED
    BY <2>3, <2>6, <2>7, Zenon DEF p
<1>3. QED
  BY <1>1, <1>2, Zenon

(* The beginning of a beginning. *)
LEMMA PrefixTransitive ==
    ASSUME NEW a \in Seq(Nat), NEW b \in Seq(Nat), NEW c \in Seq(Nat),
           Prefix(a, b), Prefix(b, c)
    PROVE  Prefix(a, c)
<1>1. Len(a) \in Nat /\ Len(b) \in Nat /\ Len(c) \in Nat
  OBVIOUS
<1>2. Len(a) <= Len(b) /\ Len(b) <= Len(c)
  BY Zenon DEF Prefix
<1>3. Len(a) <= Len(c) /\ 1..Len(a) \subseteq 1..Len(b)
  BY <1>1, <1>2
<1>4. QED
  BY <1>3, Zenon DEF Prefix

(* The replay of a file without records, and with one more. *)
LEMMA FileSteps ==
    ASSUME NEW s \in Replayed
    PROVE  /\ ReplayFile(s, <<>>) = s
           /\ \A rs \in Seq(RecType), r \in RecType :
                 ReplayFile(s, Append(rs, r)) = Replay1(ReplayFile(s, rs), r)
<1>1. ReplayFile(s, <<>>) = s
  <2> DEFINE e == <<>>
  <2>1. e \in Seq(RecType) /\ Len(e) = 0
    OBVIOUS
  <2> HIDE DEF e
  <2>2. PICK f \in [0..Len(e) -> Replayed] : f[0] = s /\ ReplayFile(s, e) = f[Len(e)]
    BY <2>1, FileFold, ZenonT(30)
  <2>3. QED
    BY <2>1, <2>2, Zenon DEF e
<1>2. ASSUME NEW rs \in Seq(RecType), NEW r \in RecType
      PROVE  ReplayFile(s, Append(rs, r)) = Replay1(ReplayFile(s, rs), r)
  <2> DEFINE a == Append(rs, r)
             n == Len(rs)
  <2>1. /\ a \in Seq(RecType) /\ Len(a) = n + 1 /\ a[n + 1] = r
        /\ SubSeq(a, 1, n) = rs /\ n \in 0..Len(a) /\ n + 1 \in 1..Len(a) /\ (n + 1) - 1 = n
    OBVIOUS
  <2> HIDE DEF a, n
  <2>2. PICK f \in [0..Len(a) -> Replayed] :
                 /\ \A i \in 1..Len(a) : f[i] = Replay1(f[i - 1], a[i])
                 /\ ReplayFile(s, a) = f[Len(a)]
                 /\ \A k \in 0..Len(a) : ReplayFile(s, SubSeq(a, 1, k)) = f[k]
    BY <2>1, FileFacts, ZenonT(30)
  <2>3. f[n + 1] = Replay1(f[n], r) /\ f[n] = ReplayFile(s, rs)
    BY <2>1, <2>2, Zenon
  <2>4. QED
    BY <2>1, <2>2, <2>3, Zenon DEF a
<1>3. QED
  BY <1>1, <1>2, Zenon

(* A replay that succeeds extends what it started from, step by step, and  *)
(* has no gap before any record.                                           *)
LEMMA FileGrows ==
    ASSUME NEW s \in Replayed, NEW rs \in Seq(RecType), ReplayFile(s, rs) # None,
           NEW n \in 0..Len(rs)
    PROVE  LET p == ReplayFile(s, SubSeq(rs, 1, n))
               r == ReplayFile(s, rs)
           IN  /\ s \in Seq(Nat) /\ p \in Seq(Nat) /\ r \in Seq(Nat)
               /\ Prefix(s, p) /\ Prefix(p, r)
               /\ \A i \in 1..n : rs[i].v <= Len(p)
               /\ n < Len(rs) => rs[n + 1].v <= Len(p) + 1
<1> DEFINE N == Len(rs)
<1>0. /\ N \in Nat /\ n \in Nat /\ n \in 0..N /\ n <= N /\ 0 \in 0..N /\ N \in 0..N /\ n \in Int
      /\ \A i \in 1..N : i - 1 \in 0..N /\ i \in 0..N /\ i \in Nat /\ rs[i] \in RecType
      /\ \A i \in 0..N : i # 0 => i \in 1..N
      /\ \A i \in n..N : i # n => i \in 1..N /\ i \in 0..N
      /\ \A i \in n..N : i \in 0..N
  OBVIOUS
<1> HIDE DEF N
<1>1. PICK f \in [0..N -> Replayed] :
              /\ f[0] = s /\ \A i \in 1..N : f[i] = Replay1(f[i - 1], rs[i])
              /\ ReplayFile(s, rs) = f[N]
              /\ \A k \in 0..N : ReplayFile(s, SubSeq(rs, 1, k)) = f[k]
  BY FileFacts, Zenon DEF N
<1>2. ASSUME NEW i \in 1..N
      PROVE  /\ f[i] # None => /\ f[i - 1] # None /\ Prefix(f[i - 1], f[i])
                               /\ rs[i].v <= Len(f[i]) /\ rs[i].v <= Len(f[i - 1]) + 1
  <2> DEFINE x == f[i - 1]
             r == rs[i]
  <2>1. x \in Replayed /\ r \in RecType /\ f[i] = Replay1(x, r)
    BY <1>0, <1>1, Zenon
  <2> HIDE DEF x, r
  <2>2. Replay1(x, r) # None => /\ x # None /\ Prefix(x, Replay1(x, r))
                                /\ r.v <= Len(Replay1(x, r)) /\ r.v <= Len(x) + 1
    BY <2>1, ReplayOne, Zenon
  <2>3. QED
    BY <2>1, <2>2, Zenon DEF x, r
<1>3. ASSUME NEW k \in 0..N PROVE f[k] \in Seq(Nat)
  <2> DEFINE S == {i \in k..N : f[i] = None}
  <2>1. SUFFICES ASSUME f[k] = None PROVE FALSE
    BY <1>1, Zenon DEF Replayed
  <2>2. k \in S /\ k \in Int /\ N \in Int /\ N \in k..N
    BY <1>0, <2>1
  <2>3. ASSUME NEW i \in k..N, i # k, i - 1 \in S PROVE i \in S
    <3>1. i \in 1..N /\ f[i - 1] = None
      BY <2>3
    <3>2. QED
      BY <1>2, <3>1, Zenon
  <2>4. k..N \subseteq S
    <3> HIDE DEF S
    <3>1. QED
      BY <2>2, <2>3, IntervalInduction, Zenon
  <2>5. QED
    BY <1>1, <2>2, <2>4, Zenon
<1>4. \A i \in 1..N : f[i] # None
  BY <1>0, <1>3, NoneAssumption
<1>5. /\ Prefix(s, f[n]) /\ \A i \in 1..n : rs[i].v <= Len(f[n])
  <2> DEFINE S == {k \in 0..N : /\ Prefix(s, f[k])
                                /\ \A i \in 1..k : rs[i].v <= Len(f[k])}
  <2>1. 0 \in S
    <3>1. s \in Seq(Nat) /\ f[0] = s
      BY <1>0, <1>1, <1>3, Zenon
    <3>2. Prefix(s, s)
      BY <3>1 DEF Prefix
    <3>3. QED
      BY <1>0, <3>1, <3>2
  <2>2. ASSUME NEW k \in 0..N, k # 0, k - 1 \in S PROVE k \in S
    <3>1. k \in 1..N /\ k - 1 \in 0..N /\ k \in Nat
      BY <1>0, <2>2, Zenon
    <3>2. /\ Prefix(f[k - 1], f[k]) /\ rs[k].v <= Len(f[k])
      BY <1>2, <1>4, <3>1, Zenon
    <3>3. f[0] = s /\ s \in Seq(Nat) /\ f[k - 1] \in Seq(Nat) /\ f[k] \in Seq(Nat)
      BY <1>0, <1>1, <1>3, <3>1, Zenon
    <3>4. Prefix(s, f[k - 1]) /\ \A i \in 1..(k - 1) : rs[i].v <= Len(f[k - 1])
      BY <2>2, Zenon
    <3>5. Prefix(s, f[k])
      BY <3>2, <3>3, <3>4, PrefixTransitive, Zenon
    <3>6. ASSUME NEW i \in 1..k PROVE rs[i].v <= Len(f[k])
      <4>1. rs[i].v \in Nat /\ Len(f[k - 1]) <= Len(f[k])
        <5>1. i \in 1..N
          BY <1>0, <3>1
        <5>2. QED
          BY <1>0, <3>2, <5>1, Zenon DEF Prefix, RecType
      <4>2. Len(f[k - 1]) \in Nat /\ Len(f[k]) \in Nat
        BY <3>3
      <4>3. CASE i = k
        BY <3>2, <4>3
      <4>4. CASE i # k
        <5>1. i \in 1..(k - 1)
          BY <3>1, <4>4
        <5>2. rs[i].v <= Len(f[k - 1])
          BY <3>4, <5>1, Zenon
        <5>3. QED
          BY <4>1, <4>2, <5>2
      <4>5. QED
        BY <4>3, <4>4, Zenon
    <3>7. QED
      BY <3>1, <3>5, <3>6, Zenon
  <2>3. 0..N \subseteq S
    <3>1. N \in Int /\ 0 \in Int
      BY <1>0
    <3> HIDE DEF S
    <3>2. QED
      BY <2>1, <2>2, <3>1, IntervalInduction, Zenon
  <2>4. n \in 0..N
    BY <1>0
  <2>5. QED
    BY <2>3, <2>4, Zenon
<1>6. Prefix(f[n], f[N])
  <2> DEFINE S == {k \in n..N : Prefix(f[n], f[k])}
  <2>1. n \in S
    <3>1. f[n] \in Seq(Nat) /\ n \in n..N
      BY <1>0, <1>3
    <3>2. QED
      BY <3>1 DEF Prefix
  <2>2. ASSUME NEW k \in n..N, k # n, k - 1 \in S PROVE k \in S
    <3>1. k \in 1..N /\ k - 1 \in 0..N /\ k \in 0..N /\ n \in 0..N
      BY <1>0, <2>2, Zenon
    <3>2. Prefix(f[k - 1], f[k]) /\ Prefix(f[n], f[k - 1])
      BY <1>2, <1>4, <2>2, <3>1, Zenon
    <3>3. f[n] \in Seq(Nat) /\ f[k - 1] \in Seq(Nat) /\ f[k] \in Seq(Nat)
      BY <1>3, <3>1, Zenon
    <3>4. QED
      BY <3>2, <3>3, PrefixTransitive, Zenon
  <2>3. n..N \subseteq S
    <3>1. N \in Int /\ n \in Int
      BY <1>0
    <3> HIDE DEF S
    <3>2. QED
      BY <2>1, <2>2, <3>1, IntervalInduction, Zenon
  <2>4. N \in n..N
    BY <1>0
  <2>5. QED
    BY <2>3, <2>4, Zenon
<1>7. ASSUME n < N PROVE rs[n + 1].v <= Len(f[n]) + 1
  <2>1. n + 1 \in 1..N /\ (n + 1) - 1 = n
    BY <1>0, <1>7
  <2>2. QED
    BY <1>2, <1>4, <2>1
<1>8. f[n] \in Seq(Nat) /\ f[N] \in Seq(Nat) /\ s \in Seq(Nat)
  BY <1>0, <1>1, <1>3, Zenon
<1>9. ReplayFile(s, SubSeq(rs, 1, n)) = f[n] /\ ReplayFile(s, rs) = f[N]
  BY <1>1, Zenon DEF N
<1>10. QED
  BY <1>5, <1>6, <1>7, <1>8, <1>9 DEF N

(* Records that are there already change nothing. *)
LEMMA FileStale ==
    ASSUME NEW s \in Seq(Nat), NEW rs \in Seq(RecType),
           \A i \in 1..Len(rs) : rs[i].v <= Len(s)
    PROVE  ReplayFile(s, rs) = s
<1> DEFINE N == Len(rs)
<1>0. /\ N \in Int /\ 0 \in Int /\ 0 <= N /\ 0 \in 0..N /\ N \in 0..N /\ s \in Replayed /\ s # None
      /\ \A i \in 0..N : i # 0 => i \in 1..N /\ rs[i] \in RecType
  BY NoneAssumption DEF Replayed
<1>1. PICK f \in [0..N -> Replayed] :
              /\ f[0] = s /\ \A i \in 1..N : f[i] = Replay1(f[i - 1], rs[i])
              /\ ReplayFile(s, rs) = f[N]
  BY <1>0, FileFacts, Zenon
<1> DEFINE S == {i \in 0..N : f[i] = s}
<1>2. 0 \in S
  BY <1>0, <1>1, Zenon
<1>3. ASSUME NEW i \in 0..N, i # 0, i - 1 \in S PROVE i \in S
  <2>1. i \in 1..N /\ rs[i] \in RecType /\ f[i] = Replay1(s, rs[i]) /\ rs[i].v <= Len(s)
    BY <1>0, <1>1, <1>3, Zenon
  <2>2. f[i] = s
    BY <1>0, <2>1, ReplayOne
  <2>3. QED
    BY <2>2, Zenon
<1>4. 0..N \subseteq S
  <2> HIDE DEF S, N
  <2>1. QED
    BY <1>0, <1>2, <1>3, IntervalInduction, Zenon
<1>5. QED
  BY <1>0, <1>1, <1>4, Zenon

(* Records that follow one another extend the history. *)
LEMMA FileNext ==
    ASSUME NEW h \in Seq(Nat), NEW k \in Nat, NEW rs \in Seq(RecType),
           k + Len(rs) <= Len(h),
           \A i \in 1..Len(rs) : rs[i].v = k + i /\ rs[i].c = h[k + i]
    PROVE  ReplayFile(SubSeq(h, 1, k), rs) = SubSeq(h, 1, k + Len(rs))
<1> DEFINE N == Len(rs)
           H(i) == SubSeq(h, 1, k + i)
<1>0. /\ N \in Nat /\ N \in Int /\ 0 \in Int /\ 0 \in 0..N /\ N \in 0..N
      /\ H(0) = SubSeq(h, 1, k)
      /\ \A i \in 0..N : i # 0 => i \in 1..N /\ i - 1 \in 0..N /\ k + i = (k + (i - 1)) + 1
  OBVIOUS
<1>1. \A i \in 0..N : H(i) \in Seq(Nat) /\ Len(H(i)) = k + i /\ Len(H(i)) \in Nat
  OBVIOUS
<1>10. \A i \in 0..N : i # 0 => H(i) = Append(H(i - 1), h[k + i])
  OBVIOUS
<1>9. H(N) = SubSeq(h, 1, k + Len(rs))
  OBVIOUS
<1>7. \A i \in 1..N : rs[i].v = k + i /\ rs[i].c = h[k + i]
  OBVIOUS
<1> HIDE DEF N, H
<1>2. H(0) \in Replayed
  BY <1>0, <1>1, Zenon DEF Replayed
<1>3. PICK f \in [0..N -> Replayed] :
              /\ f[0] = H(0) /\ \A i \in 1..N : f[i] = Replay1(f[i - 1], rs[i])
              /\ ReplayFile(H(0), rs) = f[N]
  BY <1>2, FileFacts, ZenonT(30) DEF N
<1> DEFINE S == {i \in 0..N : f[i] = H(i)}
<1>4. 0 \in S
  BY <1>0, <1>3, Zenon
<1>5. ASSUME NEW i \in 0..N, i # 0, i - 1 \in S PROVE i \in S
  <2>0. i \in 1..N /\ i - 1 \in 0..N
    BY <1>0, <1>5, Zenon
  <2>1. f[i] = Replay1(H(i - 1), rs[i])
    BY <1>3, <1>5, <2>0, Zenon
  <2>2. rs[i].v = Len(H(i - 1)) + 1 /\ rs[i].c = h[k + i]
    BY <1>0, <1>1, <1>5, <1>7, <2>0, ZenonT(30)
  <2>3. H(i - 1) # None /\ Len(H(i - 1)) \in Nat
    <3>1. H(i - 1) \in Seq(Nat) /\ Len(H(i - 1)) \in Nat
      BY <1>1, <2>0, Zenon
    <3>2. QED
      BY <3>1, NoneAssumption, Zenon
  <2>4. ~ (Len(H(i - 1)) + 1 <= Len(H(i - 1)))
    BY <2>3
  <2>5. f[i] = Append(H(i - 1), h[k + i])
    BY <2>1, <2>2, <2>3, <2>4, Zenon DEF Replay1
  <2>6. QED
    BY <1>10, <1>5, <2>5, Zenon
<1>6. 0..N \subseteq S
  <2> HIDE DEF S
  <2>1. QED
    BY <1>0, <1>4, <1>5, IntervalInduction, Zenon
<1>8. QED
  BY <1>0, <1>3, <1>6, <1>9, Zenon

-----------------------------------------------------------------------------
(* Replaying a chain.                                                      *)

(* The files a..b hold records; two directories agree on them; they hold   *)
(* nothing; f is the replay of them, file by file.                         *)
Logs(w, a, b) ==
    /\ a \in Int /\ b \in Int /\ a - 1 <= b
    /\ \A id \in a..b : w[id].recs \in Seq(RecType)
SameLogs(w1, w2, a, b) == \A id \in a..b : w1[id].recs = w2[id].recs
IdleLogs(w, a, b) == \A id \in a..b : w[id].recs = <<>>
ChainFolds(f, w, s, a, b) ==
    /\ f \in [(a - 1)..b -> Replayed] /\ f[a - 1] = s
    /\ \A id \in a..b : f[id] = ReplayFile(f[id - 1], w[id].recs)

(* The replay of one file gives a history or None. *)
LEMMA FileReplayed ==
    ASSUME NEW s \in Replayed, NEW rs \in Seq(RecType)
    PROVE  ReplayFile(s, rs) \in Replayed
<1>1. PICK f \in [0..Len(rs) -> Replayed] : ReplayFile(s, rs) = f[Len(rs)]
  BY FileFold, Zenon
<1>2. Len(rs) \in 0..Len(rs)
  OBVIOUS
<1>3. QED
  BY <1>1, <1>2, Zenon

(* The replay of a chain, file by file. *)
LEMMA ChainFold ==
    ASSUME NEW w, NEW s \in Replayed, NEW a, NEW b, Logs(w, a, b)
    PROVE  \E f : ChainFolds(f, w, s, a, b) /\ ReplayTo(w, s, a, b) = f[b]
<1> DEFINE lo == a - 1
           Dom == lo..b
           G == [i \in Dom |-> [v \in Replayed |-> ReplayFile(v, w[i].recs)]]
           Body(f) == [id \in (a - 1)..b |->
                          IF id < a THEN s ELSE ReplayFile(f[id - 1], w[id].recs)]
           F == CHOOSE f : f = Body(f)
<1>0. /\ \A i \in Dom : /\ i # lo => i \in a..b /\ i - 1 \in Dom
                        /\ i < a <=> i = lo
      /\ \A i \in a..b : i \in Dom /\ i # lo
      /\ b \in Dom /\ lo \in Dom /\ lo \in Int /\ b \in Int /\ lo <= b
  BY DEF Logs
<1>x. \A i \in Dom : i # lo => w[i].recs \in Seq(RecType)
  BY <1>0, Zenon DEF Logs
<1>y. lo = a - 1
  OBVIOUS
<1> HIDE DEF F, G, Dom, lo
<1>1. \A i \in Dom, v \in Replayed : G[i][v] = ReplayFile(v, w[i].recs)
  BY Zenon DEF G
<1>2. Closed(G, Replayed, lo, b)
  <2> SUFFICES ASSUME NEW i \in Dom, NEW v \in Replayed, i # lo
               PROVE  G[i][v] \in Replayed
    BY Zenon DEF Closed, Dom
  <2>1. w[i].recs \in Seq(RecType)
    BY <1>x, Zenon
  <2>2. ReplayFile(v, w[i].recs) \in Replayed
    BY <2>1, FileReplayed, Zenon
  <2>3. QED
    BY <1>1, <2>2, Zenon
<1>3. PICK f \in [Dom -> Replayed] : Recursive(f, s, G, lo, b)
  BY <1>0, <1>2, Recursion, Zenon DEF Dom
<1>4. f = Body(f)
  <2>1. \A i \in Dom : f[i] = IF i = lo THEN s ELSE G[i][f[i - 1]]
    BY <1>3, Zenon DEF Recursive, Dom
  <2>2. \A i \in Dom : i # lo => G[i][f[i - 1]] = ReplayFile(f[i - 1], w[i].recs)
    BY <1>0, <1>1, Zenon
  <2>3. \A i \in Dom : f[i] = IF i < a THEN s ELSE ReplayFile(f[i - 1], w[i].recs)
    BY <1>0, <2>1, <2>2, Zenon
  <2>4. QED
    BY <2>3, <1>y, Zenon DEF Dom
<1>5. F = Body(F)
  BY <1>4, Zenon DEF F
<1>6. ReplayTo(w, s, a, b) = F[b]
  BY Zenon DEF ReplayTo, F
<1>z. \A i \in Dom : F[i] = IF i < a THEN s ELSE ReplayFile(F[i - 1], w[i].recs)
  BY <1>5, <1>y, Zenon DEF Dom
<1>7. F[lo] = s /\ \A i \in Dom : i # lo => F[i] = ReplayFile(F[i - 1], w[i].recs)
  BY <1>0, <1>z, Zenon
<1> DEFINE T == {i \in Dom : F[i] \in Replayed}
<1>8. lo \in T
  BY <1>0, <1>7, Zenon
<1>9. ASSUME NEW i \in Dom, i # lo, i - 1 \in T PROVE i \in T
  <2>1. /\ w[i].recs \in Seq(RecType) /\ F[i - 1] \in Replayed
        /\ F[i] = ReplayFile(F[i - 1], w[i].recs)
    BY <1>x, <1>7, <1>9, Zenon
  <2>2. F[i] \in Replayed
    BY <2>1, FileReplayed, Zenon
  <2>3. QED
    BY <2>2, Zenon
<1>10. Dom \subseteq T
  <2> HIDE DEF T
  <2>1. QED
    BY <1>0, <1>8, <1>9, IntervalInduction, Zenon DEF Dom
<1>11. F \in [Dom -> Replayed]
  <2>1. \A i \in Dom : F[i] \in Replayed
    BY <1>10, Zenon
  <2>2. F = [i \in Dom |-> F[i]]
    BY <1>5, <1>y, Zenon DEF Dom
  <2>3. QED
    BY <2>1, <2>2, Zenon
<1>12. \A i \in a..b : F[i] = ReplayFile(F[i - 1], w[i].recs)
  BY <1>0, <1>7, Zenon
<1>13. QED
  BY <1>y, <1>6, <1>7, <1>11, <1>12, Zenon DEF Dom, ChainFolds

(* Two folds over the same files agree, so the replay of a longer chain    *)
(* goes through the replays of the shorter ones.                           *)
LEMMA ChainFacts ==
    ASSUME NEW w, NEW s \in Replayed, NEW a, NEW b, Logs(w, a, b)
    PROVE  \E f : /\ ChainFolds(f, w, s, a, b)
                  /\ \A c \in (a - 1)..b : ReplayTo(w, s, a, c) = f[c]
<1> DEFINE lo == a - 1
<1>1. PICK f : ChainFolds(f, w, s, a, b)
  BY ChainFold, Zenon
<1>2. ASSUME NEW c \in lo..b PROVE ReplayTo(w, s, a, c) = f[c]
  <2>1. /\ c \in Int /\ lo <= c /\ lo \in Int /\ c \in lo..c /\ lo \in lo..c
        /\ \A i \in a..c : i \in a..b
        /\ \A i \in lo..c : i # lo => i \in a..c /\ i \in a..b
    BY DEF Logs
  <2>2. Logs(w, a, c)
    BY <2>1, Zenon DEF Logs
  <2>3. PICK g : ChainFolds(g, w, s, a, c) /\ ReplayTo(w, s, a, c) = g[c]
    BY <2>2, ChainFold
  <2>4. f[lo] = s /\ g[lo] = s
    BY <1>1, <2>3, Zenon DEF ChainFolds
  <2> DEFINE S == {i \in lo..c : g[i] = f[i]}
  <2> HIDE DEF lo
  <2>5. lo \in S
    BY <2>1, <2>4, Zenon
  <2>6. ASSUME NEW i \in lo..c, i # lo, i - 1 \in S PROVE i \in S
    <3>1. i \in a..c /\ i \in a..b /\ g[i - 1] = f[i - 1]
      BY <2>1, <2>6, Zenon
    <3>2. QED
      BY <1>1, <2>3, <3>1, Zenon DEF ChainFolds
  <2>7. lo..c \subseteq S
    <3> HIDE DEF S
    <3>1. QED
      BY <2>1, <2>5, <2>6, IntervalInduction, Zenon
  <2>8. QED
    BY <2>1, <2>3, <2>7, Zenon
<1>3. QED
  BY <1>1, <1>2, Zenon

(* The replay of no file, and of one more. *)
LEMMA ChainSteps ==
    ASSUME NEW w, NEW s \in Replayed, NEW a, NEW b, Logs(w, a, b)
    PROVE  /\ ReplayTo(w, s, a, a - 1) = s
           /\ \A c \in (a - 1)..b : ReplayTo(w, s, a, c) \in Replayed
           /\ \A c \in a..b :
                 ReplayTo(w, s, a, c) = ReplayFile(ReplayTo(w, s, a, c - 1), w[c].recs)
<1>1. PICK f : /\ ChainFolds(f, w, s, a, b)
               /\ \A c \in (a - 1)..b : ReplayTo(w, s, a, c) = f[c]
  BY ChainFacts
<1>2. /\ a - 1 \in (a - 1)..b
      /\ \A c \in a..b : c \in (a - 1)..b /\ c - 1 \in (a - 1)..b
  BY DEF Logs
<1>3. ASSUME NEW c \in a..b
      PROVE  ReplayTo(w, s, a, c) = ReplayFile(ReplayTo(w, s, a, c - 1), w[c].recs)
  <2>1. ReplayTo(w, s, a, c) = f[c] /\ ReplayTo(w, s, a, c - 1) = f[c - 1]
    BY <1>1, <1>2, Zenon
  <2>2. QED
    BY <1>1, <2>1, Zenon DEF ChainFolds
<1>4. QED
  BY <1>1, <1>2, <1>3, Zenon DEF ChainFolds

(* The last file of a chain. *)
LEMMA ChainNext ==
    ASSUME NEW w, NEW s \in Replayed, NEW a, NEW b, Logs(w, a, b), a <= b
    PROVE  /\ ReplayTo(w, s, a, b - 1) \in Replayed /\ w[b].recs \in Seq(RecType)
           /\ ReplayTo(w, s, a, b) = ReplayFile(ReplayTo(w, s, a, b - 1), w[b].recs)
<1>1. b \in a..b /\ b - 1 \in (a - 1)..b
  BY DEF Logs
<1>2. ReplayTo(w, s, a, b - 1) \in Replayed
  BY <1>1, ChainSteps, Zenon
<1>3. ReplayTo(w, s, a, b) = ReplayFile(ReplayTo(w, s, a, b - 1), w[b].recs)
  BY <1>1, ChainSteps
<1>4. w[b].recs \in Seq(RecType)
  BY <1>1, Zenon DEF Logs
<1>5. QED
  BY <1>2, <1>3, <1>4, Zenon

(* Two chains that have replayed the same and go on with the same records. *)
LEMMA ChainAgrees ==
    ASSUME NEW w1, NEW s1 \in Replayed, NEW a1,
           NEW w2, NEW s2 \in Replayed, NEW a2,
           NEW c \in Int, NEW b, a1 - 1 <= c, a2 - 1 <= c, c <= b,
           Logs(w1, a1, b), Logs(w2, a2, b),
           ReplayTo(w1, s1, a1, c) = ReplayTo(w2, s2, a2, c),
           SameLogs(w1, w2, c + 1, b)
    PROVE  ReplayTo(w1, s1, a1, b) = ReplayTo(w2, s2, a2, b)
<1> DEFINE X(i) == ReplayTo(w1, s1, a1, i)
           Y(i) == ReplayTo(w2, s2, a2, i)
           S == {i \in c..b : X(i) = Y(i)}
<1>1. /\ a1 - 1 <= b /\ a2 - 1 <= b /\ c \in c..b /\ b \in c..b
      /\ \A i \in c..b : i # c => i \in a1..b /\ i \in a2..b /\ i \in (c + 1)..b /\ b \in Int
  BY DEF Logs
<1>2. c \in S
  BY <1>1, Zenon
<1>3. ASSUME NEW i \in c..b, i # c, i - 1 \in S PROVE i \in S
  <2>1. i \in a1..b /\ i \in a2..b /\ w1[i].recs = w2[i].recs /\ X(i - 1) = Y(i - 1)
    BY <1>1, <1>3, Zenon DEF SameLogs
  <2>2. X(i) = ReplayFile(X(i - 1), w1[i].recs)
    BY <1>1, <2>1, ChainSteps
  <2>3. Y(i) = ReplayFile(Y(i - 1), w2[i].recs)
    BY <1>1, <2>1, ChainSteps
  <2> HIDE DEF X, Y
  <2>4. X(i) = Y(i)
    BY <2>1, <2>2, <2>3, Zenon
  <2>5. QED
    BY <2>4, Zenon
<1>4. c..b \subseteq S
  <2> HIDE DEF S
  <2>1. QED
    BY <1>1, <1>2, <1>3, IntervalInduction, Zenon
<1>5. QED
  BY <1>1, <1>4, Zenon

(* Files without records change nothing. *)
LEMMA ChainIdle ==
    ASSUME NEW w, NEW s \in Replayed, NEW a,
           NEW c \in Int, NEW b, a - 1 <= c, c <= b, Logs(w, a, b),
           IdleLogs(w, c + 1, b)
    PROVE  ReplayTo(w, s, a, b) = ReplayTo(w, s, a, c)
<1> DEFINE X(i) == ReplayTo(w, s, a, i)
           S == {i \in c..b : X(i) = X(c)}
<1>1. /\ a - 1 <= b /\ c \in c..b /\ b \in c..b
      /\ \A i \in c..b : i # c => i \in a..b /\ i \in (c + 1)..b
      /\ c \in (a - 1)..b /\ b \in Int
  BY DEF Logs
<1>2. c \in S
  BY <1>1, Zenon
<1>3. X(c) \in Replayed
  BY <1>1, ChainSteps, Zenon
<1>4. ASSUME NEW i \in c..b, i # c, i - 1 \in S PROVE i \in S
  <2>1. i \in a..b /\ w[i].recs = <<>> /\ X(i - 1) = X(c)
    BY <1>1, <1>4, Zenon DEF IdleLogs
  <2>2. X(i) = ReplayFile(X(i - 1), w[i].recs)
    BY <1>1, <2>1, ChainSteps, SMTT(20)
  <2> HIDE DEF X
  <2>3. X(i) = ReplayFile(X(c), <<>>)
    BY <2>1, <2>2, Zenon
  <2>4. X(i) = X(c)
    BY <1>3, <2>3, FileSteps, Zenon
  <2>5. QED
    BY <2>4, Zenon
<1>5. c..b \subseteq S
  <2> HIDE DEF S
  <2>1. QED
    BY <1>1, <1>2, <1>4, IntervalInduction, Zenon
<1>6. QED
  BY <1>1, <1>5, Zenon

(* A replay that succeeds has succeeded, with a prefix, all the way.       *)
LEMMA ChainGrows ==
    ASSUME NEW w, NEW s \in Replayed, NEW a,
           NEW c \in Int, NEW b, a - 1 <= c, c <= b, Logs(w, a, b),
           ReplayTo(w, s, a, b) # None
    PROVE  /\ ReplayTo(w, s, a, c) \in Seq(Nat) /\ ReplayTo(w, s, a, b) \in Seq(Nat)
           /\ Prefix(ReplayTo(w, s, a, c), ReplayTo(w, s, a, b))
<1> DEFINE X(i) == ReplayTo(w, s, a, i)
           S == {i \in c..b : /\ X(c) # None \/ X(i) = None
                              /\ X(i) # None => Prefix(X(c), X(i))}
<1>1. /\ a - 1 <= b /\ c \in c..b /\ b \in c..b
      /\ \A i \in c..b : /\ i # c => i \in a..b /\ i - 1 \in (a - 1)..b
                         /\ i \in (a - 1)..b
      /\ b \in Int
  BY DEF Logs
<1>2. \A i \in (a - 1)..b : X(i) \in Replayed
  BY <1>1, ChainSteps, Zenon
<1>3. c \in S
  <2>1. X(c) \in Replayed
    BY <1>1, <1>2, Zenon
  <2> HIDE DEF X
  <2>2. X(c) # None => Prefix(X(c), X(c))
    BY <2>1 DEF Prefix, Replayed
  <2>3. QED
    BY <1>1, <2>2, Zenon
<1>4. ASSUME NEW i \in c..b, i # c, i - 1 \in S PROVE i \in S
  <2> DEFINE rs == w[i].recs
             x == X(i - 1)
  <2>1. i \in a..b /\ X(i - 1) \in Replayed /\ X(i) \in Replayed /\ X(c) \in Replayed
    BY <1>1, <1>2, <1>4, Zenon
  <2>2. X(i) = ReplayFile(x, rs) /\ rs \in Seq(RecType)
    <3>1. X(i) = ReplayFile(x, rs)
      BY <2>1, ChainSteps
    <3>2. rs \in Seq(RecType)
      BY <2>1, Zenon DEF Logs
    <3>3. QED
      BY <3>1, <3>2, Zenon
  <2>3. (X(c) # None \/ x = None) /\ (x # None => Prefix(X(c), x))
    BY <1>4, Zenon
  <2> HIDE DEF X, rs, x
  <2>4. ASSUME X(i) # None PROVE x \in Seq(Nat) /\ X(i) \in Seq(Nat) /\ Prefix(x, X(i))
    <3>1. x \in Replayed /\ Len(rs) \in 0..Len(rs) /\ 0 \in 0..Len(rs)
      BY <2>1, <2>2 DEF x
    <3>2. ReplayFile(x, rs) # None
      BY <2>2, <2>4, Zenon
    <3>3. /\ x \in Seq(Nat) /\ ReplayFile(x, rs) \in Seq(Nat)
          /\ Prefix(x, ReplayFile(x, SubSeq(rs, 1, Len(rs))))
      BY <2>2, <3>1, <3>2, FileGrows, Zenon
    <3>4. SubSeq(rs, 1, Len(rs)) = rs
      BY <2>2
    <3>5. QED
      BY <2>2, <3>3, <3>4, Zenon
  <2>5. ASSUME X(i) # None PROVE X(c) # None /\ Prefix(X(c), X(i))
    <3>1. x # None /\ x \in Seq(Nat) /\ X(i) \in Seq(Nat) /\ Prefix(x, X(i))
      BY <2>4, <2>5, NoneAssumption
    <3>2. X(c) # None /\ Prefix(X(c), x)
      BY <2>3, <3>1, Zenon
    <3>3. X(c) \in Seq(Nat)
      BY <2>1, <3>2, Zenon DEF Replayed
    <3>4. QED
      BY <3>1, <3>2, <3>3, PrefixTransitive, Zenon
  <2>6. QED
    BY <2>5, Zenon
<1>5. c..b \subseteq S
  <2> HIDE DEF S
  <2>1. QED
    BY <1>1, <1>3, <1>4, IntervalInduction, Zenon
<1>6. b \in S /\ X(b) # None
  BY <1>1, <1>5, Zenon
<1>7. X(c) # None /\ Prefix(X(c), X(b))
  BY <1>6, Zenon
<1>8. X(c) \in Replayed /\ X(b) \in Replayed
  BY <1>1, <1>2, Zenon
<1>9. QED
  BY <1>6, <1>7, <1>8, Zenon DEF Replayed

(* Two chains with the same anchor and the same records. *)
LEMMA ChainSame ==
    ASSUME NEW w1, NEW w2, NEW s \in Replayed, NEW a, NEW b,
           Logs(w1, a, b), Logs(w2, a, b),
           SameLogs(w1, w2, a, b)
    PROVE  ReplayTo(w1, s, a, b) = ReplayTo(w2, s, a, b)
<1> DEFINE c == a - 1
<1>1. /\ c \in Int /\ c <= b /\ c <= c /\ c + 1 = a
      /\ SameLogs(w1, w2, c + 1, b)
  BY DEF Logs
<1>2. ReplayTo(w1, s, a, c) = s
  BY ChainSteps, Zenon
<1>3. ReplayTo(w2, s, a, c) = s
  BY ChainSteps, Zenon
<1>4. ReplayTo(w1, s, a, c) = ReplayTo(w2, s, a, c)
  BY <1>2, <1>3, Zenon
<1> HIDE DEF c
<1>5. a - 1 <= c
  BY DEF c, Logs
<1>6. QED
  BY <1>1, <1>4, <1>5, ChainAgrees

-----------------------------------------------------------------------------
(* The inductive invariant.                                                *)

FileType == [recs : Seq(RecType), synced : Nat, torn : BOOLEAN]
ManType == [seg : Seq(Nat), wal : Nat \ {0}, req : Nat \ {0}]
Phases == {"none", "bridge", "active", "swap", "sync", "copy", "final", "clean"}
JobType == [pc : Phases, ver : Nat, wal : Nat, cut : Nat]

(* A directory of WAL files; a barrier covers no more than was written. *)
FileMap(w) ==
    /\ DOMAIN w \subseteq Id
    /\ \A id \in DOMAIN w : w[id] \in FileType /\ w[id].synced <= Len(w[id].recs)

Types ==
    /\ hist \in Seq(Nat) /\ made \in Nat /\ assured \in 0..Len(hist)
    /\ FileMap(wal) /\ man \in disk /\ disk \subseteq ManType
    /\ cur \in Nat /\ unsynced \in BOOLEAN /\ grp \in BOOLEAN /\ job \in JobType

(* The manifest d describes the history h of a writer at the file c: its   *)
(* chain reaches that file, the extent it requires is there, and it        *)
(* replays to h.                                                           *)
Anchors(w, d, c, h) ==
    /\ d.wal <= c /\ d.wal..c \subseteq DOMAIN w /\ c..(d.req) \subseteq DOMAIN w
    /\ ReplayTo(w, d.seg, d.wal, c) = h

(* Every manifest a power loss may leave does, and records the writer's    *)
(* file unless the handle is fenced.                                       *)
Chain == \A d \in disk : Anchors(wal, d, cur, hist) /\ (~fenced => cur <= d.req)

(* The files after the writer's are empty, and only they may be torn. *)
Files(w, c) ==
    \A id \in DOMAIN w : /\ Scans(w[id])
                         /\ id > c => w[id].recs = <<>>
                         /\ id <= c => ~w[id].torn

(* A record of an assured commit that no barrier on its own file covers is *)
(* followed by a record in a later file: the swap replaced the writer and  *)
(* the old file's barrier is still to come, or has failed.                 *)
Covered(w, n) ==
    \A id \in DOMAIN w : \A i \in 1..Len(w[id].recs) :
        i > w[id].synced /\ w[id].recs[i].v <= n =>
            \E later \in DOMAIN w : id < later /\ w[later].recs # <<>>

(* The records after the cutoff of the job j are the commits after the     *)
(* frozen version, in order, and the version they reach.                   *)
TailOf(w, h, j) ==
    /\ j.cut <= Len(w[j.wal].recs)
    /\ \A k \in 1..(Len(w[j.wal].recs) - j.cut) :
          /\ w[j.wal].recs[j.cut + k].v = j.ver + k
          /\ w[j.wal].recs[j.cut + k].c = h[j.ver + k]
Reach(w, j) == j.ver + (Len(w[j.wal].recs) - j.cut)

(* Before the swap the job's file is the writer's and reaches the last     *)
(* commit.                                                                 *)
Frozen ==
    /\ cur = job.wal /\ cur + 2 \in Id
    /\ TailOf(wal, hist, job) /\ Reach(wal, job) = Len(hist)

(* The bridge is there and no manifest requires it yet. *)
Reserved ==
    /\ cur + 1 \in DOMAIN wal /\ ~wal[cur + 1].torn
    /\ \A d \in disk : d.req <= cur

(* After the swap: every manifest replays, up to the job's file, exactly   *)
(* the commits that file reaches; the later ones are in the writer's.      *)
Swapped ==
    /\ cur = job.wal + 2 /\ job.wal \in DOMAIN wal /\ job.wal + 1 \in DOMAIN wal
    /\ TailOf(wal, hist, job) /\ Reach(wal, job) <= Len(hist)
    /\ \A d \in disk :
          /\ d.wal <= job.wal
          /\ ReplayTo(wal, d.seg, d.wal, job.wal) = SubSeq(hist, 1, Reach(wal, job))

(* What each phase of the worker relies on. *)
JobOK ==
    /\ job.pc \in {"bridge", "active", "swap"} => Frozen
    /\ job.pc \in {"active", "swap"} => Reserved
    /\ job.pc = "swap" => cur + 2 \in DOMAIN wal /\ ~wal[cur + 2].torn
    /\ job.pc \in {"sync", "copy", "final"} => Swapped
    /\ job.pc \in {"sync", "copy"} => wal[job.wal + 1].recs = <<>>
    /\ job.pc = "final" =>
          wal[job.wal + 1].recs =
              SubSeq(wal[job.wal].recs, job.cut + 1, Len(wal[job.wal].recs))
    /\ job.pc = "clean" => disk = {man} /\ man.wal = job.wal + 1
    /\ job.pc = "none" => job = NoJob

(* What holds while a handle is open. *)
Opened ==
    /\ Chain /\ Files(wal, cur) /\ JobOK
    /\ (grp \/ unsynced) => wal[cur].recs # <<>>

(* The inductive invariant; closed or crashed, only the files matter. *)
Inv ==
    /\ Types /\ Covered(wal, assured)
    /\ up = "up" => Opened
    /\ up # "up" => job = NoJob /\ ~grp /\ ~unsynced

-----------------------------------------------------------------------------
(* What the types and a chain give.                                        *)

(* What the types give of the files and of a manifest. *)
LEMMA FileMapLogs ==
    ASSUME NEW w, FileMap(w), NEW a \in Int, NEW b \in Int, a - 1 <= b,
           a..b \subseteq DOMAIN w
    PROVE  Logs(w, a, b)
  BY DEF FileMap, FileType, Logs

(* A manifest names a replayed segment, a first log and the recorded       *)
(* extent.                                                                 *)
LEMMA ManFields ==
    ASSUME NEW d \in ManType
    PROVE  /\ d.seg \in Seq(Nat) /\ d.seg \in Replayed
           /\ d.wal \in Nat /\ d.wal \in Int /\ d.wal # 0 /\ d.wal >= 1
           /\ d.req \in Nat /\ d.req \in Int
  BY DEF ManType, Replayed

(* What a manifest and its chain give. *)
LEMMA AnchorFacts ==
    ASSUME NEW w, FileMap(w), NEW d \in ManType, NEW c \in Nat, NEW h \in Seq(Nat),
           Anchors(w, d, c, h)
    PROVE  /\ Logs(w, d.wal, c) /\ c \in DOMAIN w /\ d.wal \in DOMAIN w
           /\ w[c].recs \in Seq(RecType)
           /\ ReplayTo(w, d.seg, d.wal, c - 1) \in Replayed
           /\ h = ReplayFile(ReplayTo(w, d.seg, d.wal, c - 1), w[c].recs)
           /\ \A i \in 1..Len(w[c].recs) : w[c].recs[i].v <= Len(h)
<1> DEFINE x == ReplayTo(w, d.seg, d.wal, c - 1)
           rs == w[c].recs
<1>1. /\ d.wal <= c /\ d.wal..c \subseteq DOMAIN w /\ ReplayTo(w, d.seg, d.wal, c) = h
  BY Zenon DEF Anchors
<1>2. /\ d.wal - 1 <= c /\ c \in Int /\ c \in d.wal..c /\ d.wal \in d.wal..c
      /\ c - 1 \in (d.wal - 1)..c /\ c \in (d.wal - 1)..c
  BY <1>1, ManFields
<1>3. Logs(w, d.wal, c)
  BY <1>1, <1>2, ManFields, FileMapLogs, Zenon
<1>4. x \in Replayed /\ h = ReplayFile(x, rs)
  <2>1. d.seg \in Replayed
    BY ManFields, Zenon
  <2>2. QED
    BY <1>1, <1>3, <2>1, ChainNext, Zenon
<1>5. rs \in Seq(RecType)
  BY <1>2, <1>3, Zenon DEF Logs
<1>6. h # None
  BY NoneAssumption
<1> HIDE DEF x, rs
<1>7. \A i \in 1..Len(rs) : rs[i].v <= Len(h)
  <2>1. Len(rs) \in 0..Len(rs) /\ SubSeq(rs, 1, Len(rs)) = rs
    BY <1>5
  <2>2. \A i \in 1..Len(rs) : rs[i].v <= Len(ReplayFile(x, SubSeq(rs, 1, Len(rs))))
    <3>1. ReplayFile(x, rs) # None
      BY <1>4, <1>6, Zenon
    <3>2. QED
      BY <1>4, <1>5, <2>1, <3>1, FileGrows, Zenon
  <2>3. QED
    BY <1>4, <2>1, <2>2, Zenon
<1>8. QED
  BY <1>1, <1>2, <1>3, <1>4, <1>5, <1>7, Zenon DEF x, rs

(* The files of the chain keep their records. *)
LEMMA AnchorsKeep ==
    ASSUME NEW w, FileMap(w), NEW w2, FileMap(w2),
           NEW d \in ManType, NEW c \in Nat, NEW h, Anchors(w, d, c, h),
           d.wal..c \subseteq DOMAIN w2, c..(d.req) \subseteq DOMAIN w2,
           \A id \in d.wal..c : w2[id].recs = w[id].recs
    PROVE  Anchors(w2, d, c, h)
<1>1. d.wal <= c /\ d.wal..c \subseteq DOMAIN w /\ ReplayTo(w, d.seg, d.wal, c) = h
  BY Zenon DEF Anchors
<1>2. d.wal - 1 <= c /\ c \in Int
  BY <1>1, ManFields
<1>3. Logs(w, d.wal, c) /\ Logs(w2, d.wal, c)
  BY <1>1, <1>2, ManFields, FileMapLogs, Zenon
<1>4. d.seg \in Replayed
  BY ManFields, Zenon
<1>6. ReplayTo(w2, d.seg, d.wal, c) = ReplayTo(w, d.seg, d.wal, c)
  <2>1. SameLogs(w2, w, d.wal, c)
    BY Zenon DEF SameLogs
  <2>2. QED
    BY <1>3, <1>4, <2>1, ChainSame
<1>7. QED
  BY <1>1, <1>6, Zenon DEF Anchors

(* The same for the replay of a part of the chain. *)
LEMMA ReplayKeep ==
    ASSUME NEW w, FileMap(w), NEW w2, FileMap(w2),
           NEW d \in ManType, NEW c \in Nat, d.wal <= c,
           d.wal..c \subseteq DOMAIN w, d.wal..c \subseteq DOMAIN w2,
           \A id \in d.wal..c : w2[id].recs = w[id].recs
    PROVE  ReplayTo(w2, d.seg, d.wal, c) = ReplayTo(w, d.seg, d.wal, c)
<1> DEFINE e == [d EXCEPT !.req = 1]
           h == ReplayTo(w, d.seg, d.wal, c)
<1>1. e \in ManType /\ e.seg = d.seg /\ e.wal = d.wal /\ c..(e.req) \subseteq d.wal..c
  <2>1. d.wal \in Nat /\ 1 <= d.wal /\ d.wal <= c
    BY DEF ManType
  <2>2. c..1 \subseteq d.wal..c
    BY <2>1
  <2>3. e \in ManType /\ e.seg = d.seg /\ e.wal = d.wal /\ e.req = 1
    BY DEF ManType
  <2>4. QED
    BY <2>2, <2>3, Zenon
<1>2. Anchors(w, e, c, h)
  BY <1>1, Zenon DEF Anchors
<1> HIDE DEF e, h
<1>3. c..(e.req) \subseteq DOMAIN w2 /\ e.wal..c \subseteq DOMAIN w2
  BY <1>1, Zenon
<1>4. Anchors(w2, e, c, h)
  BY <1>1, <1>2, <1>3, AnchorsKeep, Zenon
<1>5. QED
  BY <1>1, <1>4, Zenon DEF Anchors, h

(* The writer moves on over files without records. *)
LEMMA AnchorsMove ==
    ASSUME NEW w, FileMap(w), NEW d \in ManType, NEW c \in Nat, NEW c2 \in Nat, NEW h,
           Anchors(w, d, c, h), c <= c2, c..c2 \subseteq DOMAIN w,
           c2..(d.req) \subseteq DOMAIN w,
           \A id \in (c + 1)..c2 : w[id].recs = <<>>
    PROVE  Anchors(w, d, c2, h)
<1>1. d.wal <= c /\ d.wal..c \subseteq DOMAIN w /\ ReplayTo(w, d.seg, d.wal, c) = h
  BY Zenon DEF Anchors
<1>2. /\ d.wal - 1 <= c /\ c \in Int /\ c2 \in Int /\ d.wal - 1 <= c2 /\ d.wal <= c2
      /\ d.wal..c2 \subseteq DOMAIN w
  BY <1>1, ManFields
<1>3. Logs(w, d.wal, c2) /\ d.seg \in Replayed
  BY <1>2, ManFields, FileMapLogs, Zenon
<1>4. ReplayTo(w, d.seg, d.wal, c2) = ReplayTo(w, d.seg, d.wal, c)
  <2>1. IdleLogs(w, c + 1, c2)
    BY Zenon DEF IdleLogs
  <2>2. QED
    BY <1>2, <1>3, <2>1, ChainIdle, Zenon
<1>5. QED
  BY <1>1, <1>2, <1>4, Zenon DEF Anchors

(* w2 is w with the record r appended to the file c. *)
Extended(w, w2, c, r) ==
    /\ DOMAIN w2 = DOMAIN w /\ w2[c].recs = Append(w[c].recs, r)
    /\ \A id \in DOMAIN w : id # c => w2[id].recs = w[id].recs

(* A commit extends the current file and the history. *)
LEMMA AnchorsCommit ==
    ASSUME NEW w, FileMap(w), NEW w2, FileMap(w2),
           NEW d \in ManType, NEW c \in Nat, NEW h \in Seq(Nat), Anchors(w, d, c, h),
           NEW x \in Nat, Extended(w, w2, c, Rec(Len(h) + 1, x))
    PROVE  Anchors(w2, d, c, Append(h, x))
<1> DEFINE r == Rec(Len(h) + 1, x)
           p == ReplayTo(w, d.seg, d.wal, c - 1)
<1>1. /\ d.wal <= c /\ d.wal..c \subseteq DOMAIN w /\ c..(d.req) \subseteq DOMAIN w
  BY Zenon DEF Anchors
<1>2. /\ d.wal - 1 <= c /\ c \in Int /\ c - 1 \in Int /\ d.wal - 1 <= c - 1
      /\ c \in d.wal..c
      /\ \A id \in d.wal..(c - 1) : id \in d.wal..c /\ id # c
      /\ d.wal..(c - 1) \subseteq d.wal..c
  BY <1>1, ManFields
<1>3. Logs(w2, d.wal, c) /\ Logs(w, d.wal, c - 1) /\ Logs(w2, d.wal, c - 1)
  <2>1. d.wal \in Int /\ d.wal..(c - 1) \subseteq DOMAIN w
    BY <1>1, <1>2, ManFields, Zenon
  <2>2. QED
    BY <1>1, <1>2, <2>1, FileMapLogs, Zenon DEF Extended
<1>4. d.seg \in Replayed
  BY ManFields, Zenon
<1>6. \A id \in d.wal..(c - 1) : w2[id].recs = w[id].recs
  BY <1>1, <1>2, Zenon DEF Extended
<1>7. ReplayTo(w2, d.seg, d.wal, c - 1) = p
  <2> DEFINE e == c - 1
             a == d.wal
  <2>1. /\ Logs(w2, a, e) /\ Logs(w, a, e)
        /\ SameLogs(w2, w, a, e)
    BY <1>3, <1>6, Zenon DEF SameLogs
  <2> HIDE DEF e, a
  <2>2. ReplayTo(w2, d.seg, a, e) = ReplayTo(w, d.seg, a, e)
    BY <1>4, <2>1, ChainSame
  <2>3. QED
    BY <2>2, Zenon DEF e, a
<1>8. ReplayTo(w2, d.seg, d.wal, c) = ReplayFile(p, w2[c].recs)
  <2>1. ReplayTo(w2, d.seg, d.wal, c) = ReplayFile(ReplayTo(w2, d.seg, d.wal, c - 1), w2[c].recs)
    <3>1. Logs(w2, d.wal, c) /\ d.wal <= c
      BY <1>1, <1>3, Zenon
    <3>2. QED
      BY <1>4, <3>1, ChainNext, Zenon
  <2>2. QED
    BY <1>7, <2>1, Zenon
<1>9. p \in Replayed /\ h = ReplayFile(p, w[c].recs) /\ w[c].recs \in Seq(RecType)
  BY AnchorFacts, Zenon
<1>10. r \in RecType /\ r.v = Len(h) + 1 /\ r.c = x /\ Len(h) \in Nat
  BY DEF Rec, RecType
<1>11. w2[c].recs = Append(w[c].recs, r)
  BY Zenon DEF Extended
<1> HIDE DEF p, r
<1>12. ReplayTo(w2, d.seg, d.wal, c) = Replay1(h, r)
  <2>1. ReplayFile(p, Append(w[c].recs, r)) = Replay1(ReplayFile(p, w[c].recs), r)
    BY <1>9, <1>10, FileSteps, Zenon
  <2>2. QED
    BY <1>8, <1>9, <1>11, <2>1, Zenon
<1>13. Replay1(h, r) = Append(h, x)
  <2>1. h # None /\ ~ (Len(h) + 1 <= Len(h))
    BY <1>10, NoneAssumption
  <2>2. QED
    BY <1>10, <2>1, Zenon DEF Replay1
<1>14. QED
  BY <1>1, <1>12, <1>13, Zenon DEF Anchors, Extended

(* A checkpoint of the whole history, with an empty successor. *)
LEMMA AnchorsNew ==
    ASSUME NEW w, FileMap(w), NEW n \in Nat \ {0}, n \in DOMAIN w, w[n].recs = <<>>,
           NEW h \in Seq(Nat), NEW d, d = [seg |-> h, wal |-> n, req |-> n]
    PROVE  d \in ManType /\ Anchors(w, d, n, h)
<1>1. /\ d \in ManType /\ d.seg = h /\ d.wal = n /\ d.req = n
  BY DEF ManType
<1>2. /\ n \in Int /\ n - 1 \in Int /\ n - 1 <= n /\ n - 1 <= n - 1 /\ n <= n
      /\ n..n \subseteq DOMAIN w /\ (n - 1) + 1 = n
      /\ IdleLogs(w, (n - 1) + 1, n)
  BY DEF IdleLogs
<1>3. Logs(w, n, n) /\ h \in Replayed
  BY <1>2, FileMapLogs, Zenon DEF Replayed
<1>4. ReplayTo(w, h, n, n) = ReplayTo(w, h, n, n - 1)
  BY <1>2, <1>3, ChainIdle, Zenon
<1>5. ReplayTo(w, h, n, n - 1) = h
  BY <1>2, <1>3, ChainSteps, ZenonT(30)
<1>6. QED
  BY <1>1, <1>2, <1>4, <1>5, Zenon DEF Anchors

-----------------------------------------------------------------------------
(* What the steps do to the files.                                         *)

(* w2 is w with some files synced further. *)
SyncedFurther(w, w2) ==
    /\ DOMAIN w2 = DOMAIN w
    /\ \A id \in DOMAIN w : /\ w2[id].recs = w[id].recs /\ w2[id].torn = w[id].torn
                            /\ w2[id].synced >= w[id].synced

(* A file just created, and the fields of any file. *)
LEMMA EmptyFacts ==
    /\ Empty \in FileType /\ Empty.recs = <<>> /\ Empty.synced = 0 /\ Empty.torn = FALSE
    /\ Len(Empty.recs) = 0 /\ Scans(Empty)
  BY DEF Empty, FileType, Scans

(* The fields of a log file, and its records. *)
LEMMA FileFields ==
    ASSUME NEW f \in FileType
    PROVE  /\ f.recs \in Seq(RecType) /\ Len(f.recs) \in Nat /\ f.synced \in Nat
           /\ f.torn \in BOOLEAN
           /\ \A i \in 1..Len(f.recs) : i \in Nat /\ f.recs[i] \in RecType /\ f.recs[i].v \in Nat
<1>1. f.recs \in Seq(RecType) /\ f.synced \in Nat /\ f.torn \in BOOLEAN
  BY Zenon DEF FileType
<1>2. Len(f.recs) \in Nat /\ \A i \in 1..Len(f.recs) : i \in Nat /\ f.recs[i] \in RecType
  BY <1>1
<1>3. \A r \in RecType : r.v \in Nat
  BY DEF RecType
<1>4. QED
  BY <1>1, <1>2, <1>3, Zenon

(* w2 is w with an empty file id; w2 is w without the files ids. *)
HasNew(w, id, w2) ==
    /\ FileMap(w2) /\ DOMAIN w2 = DOMAIN w \cup {id} /\ w2[id] = Empty
    /\ \A i \in DOMAIN w : i # id => w2[i] = w[i]
Lacks(w, ids, w2) ==
    FileMap(w2) /\ DOMAIN w2 = DOMAIN w \ ids /\ \A i \in DOMAIN w2 : w2[i] = w[i]

(* What create_wal, the removal of files and a barrier leave. *)
LEMMA PutFacts ==
    ASSUME NEW w, FileMap(w), NEW id \in Id
    PROVE  HasNew(w, id, Put(w, id, Empty))
<1> DEFINE w2 == Put(w, id, Empty)
<1>1. DOMAIN w2 = DOMAIN w \cup {id}
  BY Zenon DEF Put
<1>2. w2[id] = Empty /\ \A i \in DOMAIN w : i # id => w2[i] = w[i]
  BY Zenon DEF Put
<1> HIDE DEF w2
<1>3. FileMap(w2)
  <2>1. DOMAIN w2 \subseteq Id
    BY <1>1, Zenon DEF FileMap
  <2>2. ASSUME NEW i \in DOMAIN w2
        PROVE  w2[i] \in FileType /\ w2[i].synced <= Len(w2[i].recs)
    <3>1. CASE i = id
      BY <1>2, <3>1, EmptyFacts
    <3>2. CASE i # id
      BY <1>1, <1>2, <3>2, Zenon DEF FileMap
    <3>3. QED
      BY <3>1, <3>2, Zenon
  <2>3. QED
    BY <2>1, <2>2, Zenon DEF FileMap
<1>4. HasNew(w, id, w2)
  BY <1>1, <1>2, <1>3, Zenon DEF HasNew
<1>5. QED
  BY <1>4, Zenon DEF w2

(* Removing files leaves the others as they were. *)
LEMMA DropFacts ==
    ASSUME NEW w, FileMap(w), NEW ids
    PROVE  Lacks(w, ids, Drop(w, ids))
<1> DEFINE w2 == Drop(w, ids)
<1>1. /\ DOMAIN w2 = DOMAIN w \ ids
      /\ \A i \in DOMAIN w2 : w2[i] = w[i] /\ i \in DOMAIN w
  BY Zenon DEF Drop, Restrict
<1> HIDE DEF w2
<1>2. Lacks(w, ids, w2)
  BY <1>1, Zenon DEF FileMap, Lacks
<1>3. QED
  BY <1>2, Zenon DEF w2

(* A barrier changes how much of a file is synced and nothing else. *)
LEMMA SyncedFacts ==
    ASSUME NEW f \in FileType
    PROVE  /\ Synced(f) \in FileType /\ Synced(f).recs = f.recs
           /\ Synced(f).torn = f.torn /\ Synced(f).synced = Len(f.recs)
  BY DEF Synced, FileType

(* A barrier on one file covers all its records and changes no other file. *)
LEMMA SyncFacts ==
    ASSUME NEW w, FileMap(w), NEW c \in DOMAIN w,
           NEW w2, w2 = [w EXCEPT ![c] = Synced(@)]
    PROVE  /\ FileMap(w2) /\ SyncedFurther(w, w2)
           /\ w2[c].synced = Len(w2[c].recs)
<1>1. DOMAIN w2 = DOMAIN w
  BY Zenon
<1>2. w2[c] = Synced(w[c]) /\ \A i \in DOMAIN w : i # c => w2[i] = w[i]
  BY Zenon
<1>3. \A i \in DOMAIN w : /\ w[i] \in FileType /\ w[i].synced <= Len(w[i].recs)
                          /\ w[i].synced \in Nat /\ Len(w[i].recs) \in Nat
  BY DEF FileMap, FileType
<1>4. ASSUME NEW i \in DOMAIN w
      PROVE  /\ w2[i].recs = w[i].recs /\ w2[i].torn = w[i].torn
             /\ w2[i].synced >= w[i].synced
             /\ w2[i] \in FileType /\ w2[i].synced <= Len(w2[i].recs)
  <2>1. CASE i = c
    <3>1. /\ w2[i] \in FileType /\ w2[i].recs = w[i].recs
          /\ w2[i].torn = w[i].torn /\ w2[i].synced = Len(w[i].recs)
      BY <1>2, <1>3, <2>1, SyncedFacts, Zenon
    <3>2. QED
      BY <1>3, <3>1
  <2>2. CASE i # c
    <3>1. w2[i] = w[i]
      BY <1>2, <2>2, Zenon
    <3>2. QED
      BY <1>3, <3>1
  <2>3. QED
    BY <2>1, <2>2, Zenon
<1>5. w2[c].synced = Len(w2[c].recs)
  BY <1>2, <1>3, SyncedFacts, ZenonT(30)
<1>6. QED
  BY <1>1, <1>4, <1>5, Zenon DEF FileMap, SyncedFurther

(* What the barriers cover stays covered. *)
LEMMA CoveredKeep ==
    ASSUME NEW w, FileMap(w), NEW w2, FileMap(w2), NEW n \in Nat, NEW n2 \in Nat, n2 <= n,
           Covered(w, n),
           \A id \in DOMAIN w2 :
              \/ w2[id].synced >= Len(w2[id].recs)
              \/ /\ id \in DOMAIN w /\ w2[id].recs = w[id].recs
                 /\ w2[id].synced >= w[id].synced
                 /\ \A later \in DOMAIN w : id < later /\ w[later].recs # <<>> =>
                       later \in DOMAIN w2 /\ w2[later].recs # <<>>
    PROVE  Covered(w2, n2)
<1> SUFFICES ASSUME NEW id \in DOMAIN w2, NEW i \in 1..Len(w2[id].recs),
                    i > w2[id].synced, w2[id].recs[i].v <= n2
             PROVE  \E later \in DOMAIN w2 : id < later /\ w2[later].recs # <<>>
  BY Zenon DEF Covered
<1>1. /\ w2[id].recs \in Seq(RecType) /\ Len(w2[id].recs) \in Nat /\ i \in Nat
      /\ w2[id].synced \in Nat /\ w2[id].recs[i].v \in Nat
  <2>1. w2[id] \in FileType
    BY Zenon DEF FileMap
  <2>2. QED
    BY <2>1, FileFields, Zenon
<1>2. ~ (w2[id].synced >= Len(w2[id].recs))
  BY <1>1
<1>3. /\ id \in DOMAIN w /\ w2[id].recs = w[id].recs /\ w2[id].synced >= w[id].synced
      /\ \A later \in DOMAIN w : id < later /\ w[later].recs # <<>> =>
            later \in DOMAIN w2 /\ w2[later].recs # <<>>
  BY <1>2, Zenon
<1>4. w[id].synced \in Nat
  BY <1>3 DEF FileMap, FileType
<1>5. i > w[id].synced /\ w[id].recs[i].v <= n /\ i \in 1..Len(w[id].recs)
  <2>1. i > w[id].synced
    BY <1>1, <1>3, <1>4
  <2>2. w2[id].recs[i].v <= n
    BY <1>1
  <2>3. QED
    BY <1>3, <2>1, <2>2, Zenon
<1>6. \E later \in DOMAIN w : id < later /\ w[later].recs # <<>>
  BY <1>3, <1>5, Zenon DEF Covered
<1>7. QED
  BY <1>3, <1>6, Zenon

-----------------------------------------------------------------------------
(* The tail of the frozen file.                                            *)

(* The records of the frozen file after the cut. *)
CutTail(w, j) == SubSeq(w[j.wal].recs, j.cut + 1, Len(w[j.wal].recs))

(* What SubSeq cuts out of a sequence, and the start of one. *)
LEMMA PartOf ==
    ASSUME NEW S, NEW s \in Seq(S), NEW k \in 1..(Len(s) + 1)
    PROVE  /\ SubSeq(s, k, Len(s)) \in Seq(S)
           /\ Len(SubSeq(s, k, Len(s))) = Len(s) + 1 - k
           /\ \A i \in 1..(Len(s) + 1 - k) : SubSeq(s, k, Len(s))[i] = s[k + i - 1]
  OBVIOUS

LEMMA StartOf ==
    ASSUME NEW S, NEW s \in Seq(S), NEW k \in 0..Len(s)
    PROVE  SubSeq(s, 1, k) \in Seq(S) /\ Len(SubSeq(s, 1, k)) = k
  OBVIOUS

(* The records after the cutoff are the commits after the frozen version. *)
LEMMA TailFacts ==
    ASSUME NEW w, FileMap(w), NEW j \in JobType, j.wal \in DOMAIN w,
           NEW h \in Seq(Nat), TailOf(w, h, j), Reach(w, j) <= Len(h)
    PROVE  /\ CutTail(w, j) \in Seq(RecType) /\ Reach(w, j) \in Nat
           /\ j.ver + Len(CutTail(w, j)) = Reach(w, j)
           /\ \A i \in 2..Len(CutTail(w, j)) : CutTail(w, j)[i - 1].v < CutTail(w, j)[i].v
           /\ SubSeq(h, 1, j.ver) \in Seq(Nat)
           /\ SubSeq(h, 1, Reach(w, j)) \in Seq(Nat)
           /\ ReplayFile(SubSeq(h, 1, j.ver), CutTail(w, j)) = SubSeq(h, 1, Reach(w, j))
           /\ ReplayFile(SubSeq(h, 1, Reach(w, j)), CutTail(w, j)) = SubSeq(h, 1, Reach(w, j))
<1> DEFINE rs == w[j.wal].recs
           ver == j.ver
           cut == j.cut
           t == SubSeq(rs, cut + 1, Len(rs))
           n == ver + (Len(rs) - cut)
<1>1. rs \in Seq(RecType) /\ ver \in Nat /\ cut \in Nat
  BY Zenon DEF FileMap, FileType, JobType
<1>2. /\ cut <= Len(rs)
      /\ \A k \in 1..(Len(rs) - cut) : rs[cut + k].v = ver + k /\ rs[cut + k].c = h[ver + k]
      /\ n <= Len(h) /\ CutTail(w, j) = t /\ Reach(w, j) = n
  BY Zenon DEF TailOf, Reach, CutTail
<1> HIDE DEF rs, ver, cut
<1>3. /\ t \in Seq(RecType) /\ Len(t) = Len(rs) - cut
      /\ \A i \in 1..Len(t) : t[i] = rs[cut + i]
  <2> DEFINE k == cut + 1
             l == Len(rs)
  <2>1. l \in Nat /\ k \in 1..(l + 1) /\ l + 1 - k = l - cut
    BY <1>1, <1>2
  <2>2. \A i \in 1..(l - cut) : k + i - 1 = cut + i
    BY <1>1, <2>1
  <2>3. t = SubSeq(rs, k, l)
    BY Zenon
  <2> HIDE DEF t, k, l
  <2>4. t \in Seq(RecType) /\ Len(t) = l + 1 - k /\ \A i \in 1..(l + 1 - k) : t[i] = rs[k + i - 1]
    BY <1>1, <2>1, <2>3, PartOf, Zenon DEF l
  <2>5. QED
    BY <2>1, <2>2, <2>4, Zenon DEF l
<1> HIDE DEF t
<1>4. Len(t) \in Nat /\ n \in Nat /\ n = ver + Len(t)
  BY <1>1, <1>2, <1>3
<1>5. \A i \in 1..Len(t) : t[i].v = ver + i /\ t[i].c = h[ver + i]
  BY <1>2, <1>3, Zenon
<1> HIDE DEF n
<1>6. \A i \in 2..Len(t) : t[i - 1].v < t[i].v
  <2>1. \A i \in 2..Len(t) : /\ i - 1 \in 1..Len(t) /\ i \in 1..Len(t)
                             /\ ver + (i - 1) < ver + i
    BY <1>1, <1>4
  <2>2. QED
    BY <1>5, <2>1
<1>7. /\ SubSeq(h, 1, ver) \in Seq(Nat) /\ SubSeq(h, 1, n) \in Seq(Nat)
      /\ Len(SubSeq(h, 1, n)) = n
  <2>1. ver \in 0..Len(h) /\ n \in 0..Len(h)
    BY <1>1, <1>2, <1>4
  <2>2. QED
    BY <2>1, StartOf, Zenon
<1>8. ReplayFile(SubSeq(h, 1, ver), t) = SubSeq(h, 1, n)
  <2>1. ver + Len(t) <= Len(h)
    BY <1>2, <1>4, Zenon
  <2>2. QED
    BY <1>1, <1>3, <1>4, <1>5, <2>1, FileNext, Zenon
<1>9. ReplayFile(SubSeq(h, 1, n), t) = SubSeq(h, 1, n)
  <2>1. \A i \in 1..Len(t) : ver + i <= n
    BY <1>1, <1>4
  <2>2. \A i \in 1..Len(t) : t[i].v <= Len(SubSeq(h, 1, n))
    BY <1>5, <1>7, <2>1, Zenon
  <2>3. QED
    BY <1>3, <1>7, <2>2, FileStale, Zenon
<1>10. QED
  BY <1>2, <1>3, <1>4, <1>6, <1>7, <1>8, <1>9, Zenon DEF ver

(* After the swap: what the manifest d replays up to the old file.         *)
Rotated(w, d, j, h) ==
    /\ j.wal \in DOMAIN w /\ j.wal + 1 \in DOMAIN w
    /\ TailOf(w, h, j) /\ Reach(w, j) <= Len(h)
    /\ d.wal <= j.wal /\ Anchors(w, d, j.wal + 2, h)
    /\ ReplayTo(w, d.seg, d.wal, j.wal) = SubSeq(h, 1, Reach(w, j))

(* w2 is w with the tail in the bridge. *)
Copied(w, w2, j) ==
    /\ w[j.wal + 1].recs = <<>> /\ w2[j.wal + 1].recs = CutTail(w, j)
    /\ DOMAIN w2 = DOMAIN w
    /\ \A id \in DOMAIN w : id # j.wal + 1 => w2[id] = w[id]

(* A file whose records are all there already changes nothing: what an     *)
(* older manifest replays stays the same when the tail is copied.          *)
LEMMA CopyKeeps ==
    ASSUME NEW w, FileMap(w), NEW w2, FileMap(w2), NEW j \in JobType,
           NEW h \in Seq(Nat), NEW d \in ManType, Rotated(w, d, j, h), Copied(w, w2, j)
    PROVE  /\ Anchors(w2, d, j.wal + 2, h)
           /\ ReplayTo(w2, d.seg, d.wal, j.wal) = SubSeq(h, 1, Reach(w, j))
<1> DEFINE b == j.wal
           s == d.seg
           a == d.wal
           x == SubSeq(h, 1, Reach(w, j))
<1>1. /\ b \in Nat /\ a \in Nat /\ s \in Replayed /\ a <= b
  BY ManFields, Zenon DEF JobType, Rotated
<1>2. /\ a..(b + 2) \subseteq DOMAIN w /\ (b + 2)..(d.req) \subseteq DOMAIN w
      /\ ReplayTo(w, s, a, b + 2) = h /\ ReplayTo(w, s, a, b) = x
      /\ w2[b + 1].recs = CutTail(w, j) /\ w[b + 1].recs = <<>>
      /\ \A id \in DOMAIN w : id # b + 1 => w2[id].recs = w[id].recs
      /\ DOMAIN w2 = DOMAIN w
  BY Zenon DEF Anchors, Rotated, Copied
<1>3. x \in Seq(Nat) /\ ReplayFile(x, CutTail(w, j)) = x
  BY TailFacts, Zenon DEF Rotated
<1> HIDE DEF b, s, a, x
<1>4. /\ a \in Int /\ b \in Int /\ b + 1 \in Int /\ b + 2 \in Int
      /\ a - 1 <= b /\ a - 1 <= b + 1 /\ a - 1 <= b + 2 /\ a <= b + 1 /\ a <= b + 2
      /\ b <= b + 1 /\ b + 1 <= b + 2 /\ (b + 1) - 1 = b
      /\ a..b \subseteq a..(b + 2) /\ a..(b + 1) \subseteq a..(b + 2)
      /\ \A id \in a..b : id # b + 1 /\ id \in a..(b + 2)
      /\ \A id \in ((b + 1) + 1)..(b + 2) : id # b + 1 /\ id \in a..(b + 2)
      /\ \A id \in (b + 1)..(b + 1) : id = b + 1
  BY <1>1
<1>5. /\ Logs(w, a, b) /\ Logs(w2, a, b) /\ Logs(w, a, b + 1) /\ Logs(w2, a, b + 1)
      /\ Logs(w, a, b + 2) /\ Logs(w2, a, b + 2)
  <2>1. /\ a..b \subseteq DOMAIN w /\ a..(b + 1) \subseteq DOMAIN w
        /\ a..b \subseteq DOMAIN w2 /\ a..(b + 1) \subseteq DOMAIN w2
        /\ a..(b + 2) \subseteq DOMAIN w2
    BY <1>2, <1>4, Zenon
  <2>2. Logs(w, a, b) /\ Logs(w2, a, b)
    BY <1>4, <2>1, FileMapLogs, Zenon
  <2>3. Logs(w, a, b + 1) /\ Logs(w2, a, b + 1)
    BY <1>4, <2>1, FileMapLogs, Zenon
  <2>4. Logs(w, a, b + 2) /\ Logs(w2, a, b + 2)
    BY <1>2, <1>4, <2>1, FileMapLogs, Zenon
  <2>5. QED
    BY <2>2, <2>3, <2>4, Zenon
<1>6. ReplayTo(w2, s, a, b) = x
  <2>1. SameLogs(w2, w, a, b) /\ s \in Replayed /\ Logs(w2, a, b) /\ Logs(w, a, b)
    BY <1>1, <1>2, <1>4, <1>5, Zenon DEF SameLogs
  <2>2. ReplayTo(w2, s, a, b) = ReplayTo(w, s, a, b)
    BY <2>1, ChainSame
  <2>3. QED
    BY <1>2, <2>2, Zenon
<1>7. ReplayTo(w, s, a, b + 1) = x
  <2> DEFINE e == b + 1
  <2>1. /\ IdleLogs(w, b + 1, e)
        /\ s \in Replayed /\ b \in Int /\ a - 1 <= b /\ b <= e /\ Logs(w, a, e)
    BY <1>1, <1>2, <1>4, <1>5, Zenon DEF IdleLogs
  <2> HIDE DEF e
  <2>2. ReplayTo(w, s, a, e) = ReplayTo(w, s, a, b)
    BY <2>1, ChainIdle, Zenon
  <2>3. QED
    BY <1>2, <2>2, Zenon DEF e
<1>8. ReplayTo(w2, s, a, b + 1) = x
  <2>1. ReplayTo(w2, s, a, b + 1) = ReplayFile(ReplayTo(w2, s, a, (b + 1) - 1), w2[b + 1].recs)
    BY <1>1, <1>4, <1>5, ChainNext, Zenon
  <2>2. QED
    BY <1>2, <1>3, <1>4, <1>6, <2>1, Zenon
<1>9. ReplayTo(w2, s, a, b + 2) = ReplayTo(w, s, a, b + 2)
  <2> DEFINE c == b + 1
             e == b + 2
  <2>1. /\ SameLogs(w2, w, c + 1, e)
        /\ s \in Replayed /\ c \in Int /\ a - 1 <= c /\ c <= e
        /\ Logs(w2, a, e) /\ Logs(w, a, e)
    BY <1>1, <1>2, <1>4, <1>5, Zenon DEF SameLogs
  <2>2. ReplayTo(w2, s, a, c) = ReplayTo(w, s, a, c)
    BY <1>7, <1>8, Zenon
  <2> HIDE DEF c, e
  <2>3. ReplayTo(w2, s, a, e) = ReplayTo(w, s, a, e)
    BY <2>1, <2>2, ChainAgrees
  <2>4. QED
    BY <2>3, Zenon DEF e
<1>10. QED
  BY <1>2, <1>4, <1>6, <1>9, Zenon DEF Anchors, a, b, s, x

(* The manifest of the checkpoint replays to the same history. *)
LEMMA FinalAnchors ==
    ASSUME NEW w, FileMap(w), NEW j \in JobType, NEW h \in Seq(Nat), NEW d \in ManType,
           Rotated(w, d, j, h), w[j.wal + 1].recs = CutTail(w, j),
           NEW m \in ManType, m.seg = SubSeq(h, 1, j.ver), m.wal = j.wal + 1,
           m.req = j.wal + 2
    PROVE  Anchors(w, m, j.wal + 2, h)
<1> DEFINE b == j.wal
           s == d.seg
           a == d.wal
           x == SubSeq(h, 1, Reach(w, j))
           v == SubSeq(h, 1, j.ver)
<1>1. /\ b \in Nat /\ a \in Nat /\ s \in Replayed /\ a <= b
  BY ManFields, Zenon DEF JobType, Rotated
<1>2. /\ a..(b + 2) \subseteq DOMAIN w
      /\ ReplayTo(w, s, a, b + 2) = h /\ ReplayTo(w, s, a, b) = x
      /\ w[b + 1].recs = CutTail(w, j)
  BY Zenon DEF Anchors, Rotated
<1>3. /\ x \in Seq(Nat) /\ ReplayFile(x, CutTail(w, j)) = x
      /\ v \in Seq(Nat) /\ ReplayFile(v, CutTail(w, j)) = x
  BY TailFacts, Zenon DEF Rotated
<1>4. m.seg = v /\ m.wal = b + 1 /\ m.req = b + 2
  BY Zenon
<1> HIDE DEF b, s, a, x, v
<1>5. /\ a \in Int /\ b \in Int /\ b + 1 \in Int /\ b + 2 \in Int
      /\ a - 1 <= b + 1 /\ a - 1 <= b + 2 /\ a <= b + 1 /\ a <= b + 2
      /\ b + 1 <= b + 2 /\ (b + 1) - 1 = b /\ (b + 1) - 1 <= b + 1 /\ b + 1 <= b + 1
      /\ (b + 1) - 1 <= b + 2
      /\ a..(b + 1) \subseteq a..(b + 2) /\ (b + 1)..(b + 2) \subseteq a..(b + 2)
      /\ (b + 1)..(b + 1) \subseteq a..(b + 2) /\ (b + 2)..(b + 2) \subseteq a..(b + 2)
  BY <1>1
<1>6. /\ Logs(w, a, b + 1) /\ Logs(w, a, b + 2)
      /\ Logs(w, b + 1, b + 1) /\ Logs(w, b + 1, b + 2)
  <2>1. /\ a..(b + 1) \subseteq DOMAIN w /\ (b + 1)..(b + 1) \subseteq DOMAIN w
        /\ (b + 1)..(b + 2) \subseteq DOMAIN w
    BY <1>2, <1>5, Zenon
  <2>2. Logs(w, a, b + 1)
    BY <1>5, <2>1, FileMapLogs, Zenon
  <2>3. Logs(w, a, b + 2)
    BY <1>2, <1>5, FileMapLogs, Zenon
  <2>4. Logs(w, b + 1, b + 1)
    BY <1>5, <2>1, FileMapLogs, Zenon
  <2>5. Logs(w, b + 1, b + 2)
    BY <1>5, <2>1, FileMapLogs, Zenon
  <2>6. QED
    BY <2>2, <2>3, <2>4, <2>5, Zenon
<1>7. v \in Replayed
  BY <1>3, Zenon DEF Replayed
<1>8. ReplayTo(w, s, a, b + 1) = x
  <2>1. ReplayTo(w, s, a, b + 1) = ReplayFile(ReplayTo(w, s, a, (b + 1) - 1), w[b + 1].recs)
    BY <1>1, <1>5, <1>6, ChainNext, Zenon
  <2>2. QED
    BY <1>2, <1>3, <1>5, <2>1, Zenon
<1>9. ReplayTo(w, v, b + 1, b + 1) = x
  <2>1. ReplayTo(w, v, b + 1, b + 1) = ReplayFile(ReplayTo(w, v, b + 1, (b + 1) - 1), w[b + 1].recs)
    BY <1>5, <1>6, <1>7, ChainNext, Zenon
  <2>2. ReplayTo(w, v, b + 1, (b + 1) - 1) = v
    BY <1>5, <1>6, <1>7, ChainSteps, Zenon
  <2>3. QED
    BY <1>2, <1>3, <2>1, <2>2, Zenon
<1>10. ReplayTo(w, v, b + 1, b + 2) = ReplayTo(w, s, a, b + 2)
  <2> DEFINE c == b + 1
             e == b + 2
  <2>1. /\ s \in Replayed /\ v \in Replayed /\ c \in Int /\ a - 1 <= c /\ c - 1 <= c /\ c <= e
        /\ Logs(w, c, e) /\ Logs(w, a, e) /\ SameLogs(w, w, c + 1, e)
    BY <1>1, <1>5, <1>6, <1>7, Zenon DEF SameLogs
  <2>2. ReplayTo(w, v, c, c) = ReplayTo(w, s, a, c)
    BY <1>8, <1>9, Zenon
  <2> HIDE DEF c, e
  <2>3. ReplayTo(w, v, c, e) = ReplayTo(w, s, a, e)
    BY <2>1, <2>2, ChainAgrees
  <2>4. QED
    BY <2>3, Zenon DEF c, e
<1>11. (b + 1)..(b + 2) \subseteq DOMAIN w /\ (b + 2)..(b + 2) \subseteq DOMAIN w
  BY <1>2, <1>5, Zenon
<1>12. QED
  BY <1>2, <1>4, <1>5, <1>10, <1>11, Zenon DEF Anchors, b

-----------------------------------------------------------------------------
(* Facts the steps share.                                                  *)

(* The parts of the invariant in an open handle. *)
LEMMA UpFacts ==
    ASSUME Inv, up = "up"
    PROVE  /\ Types /\ Covered(wal, assured) /\ Chain /\ Files(wal, cur) /\ JobOK
           /\ (grp \/ unsynced) => wal[cur].recs # <<>>
           /\ FileMap(wal) /\ hist \in Seq(Nat) /\ cur \in Nat /\ cur \in DOMAIN wal
           /\ assured \in Nat /\ assured <= Len(hist)
           /\ man \in disk /\ man \in ManType /\ job \in JobType
           /\ \A d \in disk : /\ d \in ManType /\ Anchors(wal, d, cur, hist)
                              /\ d.wal <= cur /\ d.wal..cur \subseteq DOMAIN wal
                              /\ cur..(d.req) \subseteq DOMAIN wal
<1>1. /\ Types /\ Covered(wal, assured) /\ Chain /\ Files(wal, cur) /\ JobOK
      /\ (grp \/ unsynced) => wal[cur].recs # <<>>
  BY Zenon DEF Inv, Opened
<1>2. /\ FileMap(wal) /\ hist \in Seq(Nat) /\ cur \in Nat /\ assured \in 0..Len(hist)
      /\ man \in disk /\ disk \subseteq ManType /\ job \in JobType
  BY <1>1, Zenon DEF Types
<1>3. assured \in Nat /\ assured <= Len(hist)
  BY <1>2
<1>4. \A d \in disk : /\ d \in ManType /\ Anchors(wal, d, cur, hist)
                      /\ d.wal <= cur /\ d.wal..cur \subseteq DOMAIN wal
                      /\ cur..(d.req) \subseteq DOMAIN wal
  BY <1>1, <1>2, Zenon DEF Chain, Anchors
<1>5. cur \in DOMAIN wal
  BY <1>2, <1>4, AnchorFacts, Zenon
<1>6. QED
  BY <1>1, <1>2, <1>3, <1>4, <1>5, Zenon

(* The manifests keep their chain when its files keep their records. *)
LEMMA ChainKeep ==
    ASSUME FileMap(wal), FileMap(wal'), disk \subseteq ManType, cur \in Nat, Chain,
           disk' \subseteq disk, cur' = cur, hist' = hist, ~fenced' => ~fenced,
           \A d \in disk' : /\ d.wal..cur \subseteq DOMAIN wal'
                            /\ cur..(d.req) \subseteq DOMAIN wal'
                            /\ \A id \in d.wal..cur : wal'[id].recs = wal[id].recs
    PROVE  Chain'
<1> SUFFICES ASSUME NEW d \in disk'
             PROVE  Anchors(wal', d, cur', hist') /\ (~fenced' => cur' <= d.req)
  BY Zenon DEF Chain
<1>1. d \in disk /\ d \in ManType
  BY Zenon
<1>2. Anchors(wal, d, cur, hist) /\ (~fenced => cur <= d.req)
  BY <1>1, Zenon DEF Chain
<1>3. Anchors(wal', d, cur, hist)
  BY <1>1, <1>2, AnchorsKeep
<1>4. QED
  BY <1>2, <1>3, Zenon

(* A barrier on some file changes nothing that replay sees. *)
LEMMA SyncedChain ==
    ASSUME Inv, up = "up", FileMap(wal'), SyncedFurther(wal, wal'),
           disk' = disk, cur' = cur, hist' = hist, ~fenced' => ~fenced
    PROVE  Chain' /\ Files(wal', cur')
<1>1. Chain'
  <2>1. \A d \in disk' : /\ d.wal..cur \subseteq DOMAIN wal'
                         /\ cur..(d.req) \subseteq DOMAIN wal'
                         /\ \A id \in d.wal..cur : wal'[id].recs = wal[id].recs
    BY UpFacts, Zenon DEF SyncedFurther
  <2>2. disk \subseteq ManType /\ disk' \subseteq disk
    BY UpFacts, Zenon
  <2>3. QED
    BY <2>1, <2>2, UpFacts, ChainKeep
<1>2. Files(wal', cur')
  <2>1. Files(wal, cur)
    BY UpFacts, Zenon
  <2>2. QED
    BY <2>1, Zenon DEF Files, SyncedFurther, Scans
<1>3. QED
  BY <1>1, <1>2, Zenon

(* A barrier changes nothing that a running checkpoint relies on. *)
LEMMA SyncedJob ==
    ASSUME Inv, up = "up", FileMap(wal'), SyncedFurther(wal, wal'),
           disk' = disk, cur' = cur, hist' = hist,
           job'.ver = job.ver, job'.wal = job.wal, job'.cut = job.cut
    PROVE  (Frozen => Frozen') /\ (Reserved => Reserved') /\ (Swapped => Swapped')
<1>1. ASSUME NEW id \in DOMAIN wal
      PROVE  id \in DOMAIN wal' /\ wal'[id].recs = wal[id].recs /\ wal'[id].torn = wal[id].torn
  BY Zenon DEF SyncedFurther
<1>2. ASSUME job.wal \in DOMAIN wal
      PROVE  /\ Reach(wal', job') = Reach(wal, job)
             /\ TailOf(wal, hist, job) => TailOf(wal', hist', job')
  BY <1>1, <1>2, Zenon DEF Reach, TailOf
<1>3. ASSUME Frozen PROVE Frozen'
  <2>1. job.wal \in DOMAIN wal
    BY <1>3, UpFacts, Zenon DEF Frozen
  <2>2. QED
    BY <1>2, <1>3, <2>1, Zenon DEF Frozen
<1>4. ASSUME Reserved PROVE Reserved'
  BY <1>1, <1>4, Zenon DEF Reserved
<1>5. ASSUME Swapped PROVE Swapped'
  <2>1. ASSUME NEW d \in disk
        PROVE  ReplayTo(wal', d.seg, d.wal, job.wal) = ReplayTo(wal, d.seg, d.wal, job.wal)
    <3>1. d \in ManType /\ d.wal..cur \subseteq DOMAIN wal
      BY UpFacts, Zenon
    <3>2. d.wal <= job.wal /\ job.wal <= cur /\ job.wal \in Nat
      BY <1>5 DEF Swapped, Types, Inv, JobType
    <3>3. d.wal..(job.wal) \subseteq d.wal..cur
      BY <3>1, <3>2, ManFields, UpFacts
    <3>4. /\ d.wal..(job.wal) \subseteq DOMAIN wal /\ d.wal..(job.wal) \subseteq DOMAIN wal'
          /\ \A id \in d.wal..(job.wal) : wal'[id].recs = wal[id].recs
      BY <1>1, <3>1, <3>3, Zenon
    <3>5. QED
      BY <3>1, <3>2, <3>4, UpFacts, ReplayKeep, ZenonT(30)
  <2>2. job.wal \in DOMAIN wal /\ job.wal + 1 \in DOMAIN wal
    BY <1>5, Zenon DEF Swapped
  <2>3. QED
    BY <1>1, <1>2, <1>5, <2>1, <2>2, Zenon DEF Swapped
<1>6. QED
  BY <1>3, <1>4, <1>5, Zenon

(* A commit appends the record r to the file c. *)
Appends(w, w2, c, r) == w2 = [w EXCEPT ![c].recs = Append(@, r)]
SameRecords(w, w2, id) == w2[id].recs = w[id].recs

(* What an append leaves of the files. *)
LEMMA AppendFacts ==
    ASSUME NEW w, FileMap(w), NEW c \in DOMAIN w, NEW r \in RecType,
           NEW w2, Appends(w, w2, c, r)
    PROVE  /\ FileMap(w2) /\ Extended(w, w2, c, r)
           /\ \A id \in DOMAIN w : w2[id].torn = w[id].torn /\ w2[id].synced = w[id].synced
           /\ \A id \in DOMAIN w : id # c => w2[id] = w[id]
<1>1. /\ DOMAIN w2 = DOMAIN w /\ \A id \in DOMAIN w : id # c => w2[id] = w[id]
      /\ w2[c] = [w[c] EXCEPT !.recs = Append(w[c].recs, r)]
  BY Zenon DEF Appends
<1>2. w[c] \in FileType /\ w[c].synced <= Len(w[c].recs)
  BY Zenon DEF FileMap
<1>3. /\ w2[c] \in FileType /\ w2[c].recs = Append(w[c].recs, r)
      /\ w2[c].torn = w[c].torn /\ w2[c].synced = w[c].synced
      /\ w2[c].synced <= Len(w2[c].recs)
  <2> DEFINE f == w[c]
             g == w2[c]
  <2>1. g = [f EXCEPT !.recs = Append(f.recs, r)] /\ f \in FileType /\ f.synced <= Len(f.recs)
    BY <1>1, <1>2, Zenon
  <2> HIDE DEF f, g
  <2>2. f.recs \in Seq(RecType) /\ f.synced \in Nat /\ f.torn \in BOOLEAN
    BY <2>1, FileFields, Zenon
  <2>3. g = [recs |-> Append(f.recs, r), synced |-> f.synced, torn |-> f.torn]
    BY <2>1, Zenon DEF FileType
  <2>4. Append(f.recs, r) \in Seq(RecType) /\ f.synced <= Len(Append(f.recs, r))
    BY <2>1, <2>2
  <2>5. /\ g \in FileType /\ g.recs = Append(f.recs, r)
        /\ g.torn = f.torn /\ g.synced = f.synced /\ g.synced <= Len(g.recs)
    BY <2>2, <2>3, <2>4 DEF FileType
  <2>6. QED
    BY <2>5, Zenon DEF f, g
<1>4. QED
  BY <1>1, <1>3, Zenon DEF FileMap, Extended

(* The version after the last one the tail reaches. *)
LEMMA NextReach ==
    ASSUME NEW ver \in Nat, NEW cut \in Nat, NEW l \in Nat, NEW n \in Nat,
           cut <= l, ver + (l - cut) = n
    PROVE  /\ cut <= l + 1 /\ ver + ((l + 1) - cut) = n + 1
           /\ \A k \in 1..((l + 1) - cut) :
                 \/ cut + k = l + 1 /\ ver + k = n + 1
                 \/ cut + k \in 1..l /\ ver + k \in 1..n /\ k \in 1..(l - cut)
  OBVIOUS

(* The commits after the cutoff while the frozen file is still current. *)
LEMMA TailExtended ==
    ASSUME NEW w, FileMap(w), NEW w2, NEW j \in JobType, j.wal \in DOMAIN w,
           NEW h \in Seq(Nat), NEW x \in Nat,
           Extended(w, w2, j.wal, Rec(Len(h) + 1, x)),
           TailOf(w, h, j), Reach(w, j) = Len(h)
    PROVE  TailOf(w2, Append(h, x), j) /\ Reach(w2, j) = Len(Append(h, x))
<1> DEFINE rs == w[j.wal].recs
           rs2 == w2[j.wal].recs
           r == Rec(Len(h) + 1, x)
           ver == j.ver
           cut == j.cut
           g == Append(h, x)
<1>1. rs \in Seq(RecType) /\ ver \in Nat /\ cut \in Nat
  BY Zenon DEF FileMap, FileType, JobType
<1>2. /\ cut <= Len(rs) /\ ver + (Len(rs) - cut) = Len(h) /\ rs2 = Append(rs, r)
      /\ \A k \in 1..(Len(rs) - cut) : rs[cut + k].v = ver + k /\ rs[cut + k].c = h[ver + k]
  BY Zenon DEF TailOf, Reach, Extended
<1>3. r.v = Len(h) + 1 /\ r.c = x
  BY Zenon DEF Rec
<1>4. /\ Len(g) = Len(h) + 1 /\ g[Len(h) + 1] = x /\ \A i \in 1..Len(h) : g[i] = h[i]
  OBVIOUS
<1> HIDE DEF rs, rs2, r, ver, cut, g
<1>5. /\ Len(rs2) = Len(rs) + 1 /\ rs2[Len(rs) + 1] = r /\ \A i \in 1..Len(rs) : rs2[i] = rs[i]
  BY <1>1, <1>2
<1>6. Len(rs) \in Nat /\ Len(h) \in Nat
  BY <1>1
<1>10. /\ cut <= Len(rs) /\ ver + (Len(rs) - cut) = Len(h) /\ Len(rs2) = Len(rs) + 1
       /\ Len(rs) \in Nat /\ Len(h) \in Nat /\ ver \in Nat /\ cut \in Nat /\ Len(g) = Len(h) + 1
  BY <1>1, <1>2, <1>4, <1>5, <1>6, Zenon
<1>7. /\ cut <= Len(rs2) /\ ver + (Len(rs2) - cut) = Len(g)
      /\ \A k \in 1..(Len(rs2) - cut) :
            \/ cut + k = Len(rs) + 1 /\ ver + k = Len(h) + 1
            \/ cut + k \in 1..Len(rs) /\ ver + k \in 1..Len(h) /\ k \in 1..(Len(rs) - cut)
  <2> DEFINE l == Len(rs)
             n == Len(h)
             l2 == Len(rs2)
             n2 == Len(g)
  <2>1. /\ cut \in Nat /\ ver \in Nat /\ l \in Nat /\ n \in Nat /\ cut <= l
        /\ ver + (l - cut) = n /\ l2 = l + 1 /\ n2 = n + 1
    BY <1>10, Zenon
  <2> HIDE DEF l, n, l2, n2
  <2>2. /\ cut <= l2 /\ ver + (l2 - cut) = n2
        /\ \A k \in 1..(l2 - cut) :
              \/ cut + k = l + 1 /\ ver + k = n + 1
              \/ cut + k \in 1..l /\ ver + k \in 1..n /\ k \in 1..(l - cut)
    <3>1. /\ cut <= l + 1 /\ ver + ((l + 1) - cut) = n + 1
          /\ \A k \in 1..((l + 1) - cut) :
                \/ cut + k = l + 1 /\ ver + k = n + 1
                \/ cut + k \in 1..l /\ ver + k \in 1..n /\ k \in 1..(l - cut)
      BY <2>1
    <3>2. QED
      BY <2>1, <3>1
  <2>3. QED
    BY <2>2, Zenon DEF l, n, l2, n2
<1>8. ASSUME NEW k \in 1..(Len(rs2) - cut)
      PROVE  rs2[cut + k].v = ver + k /\ rs2[cut + k].c = g[ver + k]
  <2>1. CASE cut + k = Len(rs) + 1 /\ ver + k = Len(h) + 1
    BY <1>3, <1>4, <1>5, <2>1, Zenon
  <2>2. CASE cut + k \in 1..Len(rs) /\ ver + k \in 1..Len(h) /\ k \in 1..(Len(rs) - cut)
    BY <1>2, <1>4, <1>5, <2>2, Zenon
  <2>3. QED
    BY <1>7, <2>1, <2>2, Zenon
<1>9. QED
  BY <1>7, <1>8, Zenon DEF TailOf, Reach, rs2, ver, cut, g

(* The beginning of a history that has grown. *)
LEMMA PrefixCut ==
    ASSUME NEW h \in Seq(Nat), NEW g \in Seq(Nat), Prefix(h, g), NEW n \in Nat, n <= Len(h)
    PROVE  SubSeq(g, 1, n) = SubSeq(h, 1, n) /\ n <= Len(g)
<1>1. Len(h) <= Len(g) /\ \A i \in 1..Len(h) : g[i] = h[i]
  BY DEF Prefix
<1>2. SubSeq(h, 1, n) = [i \in 1..n |-> h[i]]
  OBVIOUS
<1>3. SubSeq(g, 1, n) = [i \in 1..n |-> g[i]] /\ n <= Len(g)
  BY <1>1
<1>4. \A i \in 1..n : i \in 1..Len(h)
  OBVIOUS
<1>5. QED
  BY <1>1, <1>2, <1>3, <1>4, Zenon

(* And once the writer has moved on. *)
LEMMA TailKept ==
    ASSUME FileMap(wal), job \in JobType, job.wal \in DOMAIN wal,
           hist \in Seq(Nat), hist' \in Seq(Nat), Prefix(hist, hist'),
           SameRecords(wal, wal', job.wal), TailOf(wal, hist, job), Reach(wal, job) <= Len(hist)
    PROVE  /\ TailOf(wal', hist', job) /\ Reach(wal', job) = Reach(wal, job)
           /\ Reach(wal, job) <= Len(hist')
           /\ SubSeq(hist', 1, Reach(wal, job)) = SubSeq(hist, 1, Reach(wal, job))
<1> DEFINE rs == wal[job.wal].recs
           ver == job.ver
           cut == job.cut
           n == Reach(wal, job)
<1>1. rs \in Seq(RecType) /\ ver \in Nat /\ cut \in Nat
  BY Zenon DEF FileMap, FileType, JobType
<1>2. /\ cut <= Len(rs) /\ n = ver + (Len(rs) - cut) /\ n <= Len(hist) /\ wal'[job.wal].recs = rs
      /\ \A k \in 1..(Len(rs) - cut) : rs[cut + k].v = ver + k /\ rs[cut + k].c = hist[ver + k]
  BY Zenon DEF TailOf, Reach, SameRecords
<1>3. (\A i \in 1..Len(hist) : hist'[i] = hist[i]) /\ Len(hist) \in Nat
  BY DEF Prefix
<1> HIDE DEF rs, ver, cut, n
<1>4. Len(rs) \in Nat /\ n \in Nat
  BY <1>1, <1>2
<1>5. \A k \in 1..(Len(rs) - cut) : ver + k \in 1..Len(hist)
  BY <1>1, <1>2, <1>3, <1>4
<1>6. \A k \in 1..(Len(rs) - cut) : rs[cut + k].v = ver + k /\ rs[cut + k].c = hist'[ver + k]
  BY <1>2, <1>3, <1>5, Zenon
<1>7. SubSeq(hist', 1, n) = SubSeq(hist, 1, n) /\ n <= Len(hist')
  BY <1>2, <1>4, PrefixCut, ZenonT(30)
<1>8. TailOf(wal', hist', job) /\ Reach(wal', job) = Reach(wal, job)
  BY <1>2, <1>6, Zenon DEF TailOf, Reach, rs, ver, cut
<1>9. QED
  BY <1>7, <1>8, Zenon DEF n

-----------------------------------------------------------------------------
(* Commits.                                                                *)

(* Everything but the files, when only they and the job change. *)
LEMMA InvIntro ==
    ASSUME Types', Covered(wal', assured'), Chain', Files(wal', cur'), JobOK',
           up' = "up", (grp' \/ unsynced') => wal'[cur'].recs # <<>>
    PROVE  Inv'
  BY Zenon DEF Inv, Opened

(* Without a checkpoint there is nothing to keep. *)
LEMMA NoJobFacts == NoJob \in JobType /\ NoJob.pc = "none"
  BY DEF NoJob, JobType, Phases

(* Once the checkpoint is over its part of the invariant holds trivially. *)
LEMMA NoJobOK ==
    ASSUME job' = NoJob
    PROVE  job' \in JobType /\ JobOK'
<1>1. job'.pc = "none" /\ job' \in JobType
  BY NoJobFacts, Zenon
<1>2. QED
  BY <1>1 DEF JobOK

(* commit: the record goes to the active file of every manifest's chain,   *)
(* and behind the cut while the checkpoint's chain is frozen.              *)
LEMMA CommitStep == ASSUME Inv, Commit PROVE Inv'
<1> DEFINE x == made + 1
           r == Rec(Len(hist) + 1, x)
<1>1. /\ up = "up" /\ hist' = Append(hist, x) /\ made' = x
      /\ wal' = [wal EXCEPT ![cur].recs = Append(@, r)]
      /\ unsynced' = TRUE /\ grp' = (mode = "Safe")
      /\ UNCHANGED <<mode, assured, man, disk, up, cur, fenced, job, faults>>
  BY Zenon DEF Commit
<1>2. /\ FileMap(wal) /\ hist \in Seq(Nat) /\ cur \in Nat /\ cur \in DOMAIN wal
      /\ Covered(wal, assured) /\ Files(wal, cur) /\ JobOK /\ Chain
      /\ assured \in Nat /\ assured <= Len(hist) /\ job \in JobType /\ disk \subseteq ManType
      /\ man \in disk
  BY <1>1, UpFacts, Zenon
<1>3. x \in Nat /\ Len(hist) \in Nat /\ r \in RecType /\ r.v = Len(hist) + 1
  BY <1>2 DEF Inv, Types, Rec, RecType
<1>0. Appends(wal, wal', cur, r)
  BY <1>1, Zenon DEF Appends
<1> HIDE DEF x, r
<1>4. /\ FileMap(wal') /\ Extended(wal, wal', cur, r)
      /\ \A id \in DOMAIN wal : wal'[id].torn = wal[id].torn /\ wal'[id].synced = wal[id].synced
      /\ \A id \in DOMAIN wal : id # cur => wal'[id] = wal[id]
  <2>1. FileMap(wal) /\ cur \in DOMAIN wal /\ r \in RecType
    BY <1>2, <1>3, Zenon
  <2>2. QED
    BY <2>1, <1>0, AppendFacts
<1>5. DOMAIN wal' = DOMAIN wal /\ wal'[cur].recs = Append(wal[cur].recs, r)
  BY <1>4, Zenon DEF Extended
<1>6. /\ wal[cur].recs \in Seq(RecType) /\ wal[cur].synced \in Nat
      /\ wal[cur].synced <= Len(wal[cur].recs)
      /\ \A i \in 1..Len(wal[cur].recs) : wal[cur].recs[i].v <= Len(hist)
      /\ \A i \in 1..Len(wal[cur].recs) : wal[cur].recs[i].v \in Nat
  <2>1. man \in ManType /\ Anchors(wal, man, cur, hist)
    BY <1>2, Zenon DEF Chain
  <2>2. \A i \in 1..Len(wal[cur].recs) : wal[cur].recs[i].v <= Len(hist)
    BY <1>2, <2>1, AnchorFacts, Zenon
  <2>3. QED
    BY <1>2, <2>2, FileFields, Zenon DEF FileMap
<1>7. Types'
  <2>1. hist' \in Seq(Nat) /\ assured' \in 0..Len(hist')
    BY <1>1, <1>2, <1>3
  <2>2. made' \in Nat /\ unsynced' \in BOOLEAN /\ grp' \in BOOLEAN
    BY <1>1, <1>3, Zenon
  <2>3. QED
    BY <1>1, <1>2, <1>4, <2>1, <2>2, Zenon DEF Types
<1>8. Chain'
  <2> SUFFICES ASSUME NEW d \in disk
               PROVE  Anchors(wal', d, cur, Append(hist, x)) /\ (~fenced => cur <= d.req)
    BY <1>1, Zenon DEF Chain
  <2>1. d \in ManType /\ Anchors(wal, d, cur, hist) /\ (~fenced => cur <= d.req)
    BY <1>2, Zenon DEF Chain
  <2>2. Extended(wal, wal', cur, Rec(Len(hist) + 1, x))
    BY <1>4, Zenon DEF r
  <2>3. QED
    BY <1>2, <1>3, <1>4, <2>1, <2>2, AnchorsCommit
<1>9. Files(wal', cur')
  <2>1. Scans(wal'[cur])
    <3> DEFINE rs == wal[cur].recs
               l == Len(hist)
    <3>1. /\ rs \in Seq(RecType) /\ wal'[cur].recs = Append(rs, r) /\ l \in Nat
          /\ \A i \in 2..Len(rs) : rs[i - 1].v < rs[i].v
          /\ \A i \in 1..Len(rs) : rs[i].v <= l
          /\ r.v = l + 1
      <4>1. Scans(wal[cur])
        BY <1>2, Zenon DEF Files
      <4>2. QED
        BY <1>3, <1>5, <1>6, <4>1, Zenon DEF Scans
    <3>2. \A i \in 1..Len(rs) : rs[i].v \in Nat
      BY <1>6, Zenon
    <3> DEFINE rs2 == Append(rs, r)
    <3> HIDE DEF rs, l
    <3>3. /\ Len(rs) \in Nat /\ Len(rs2) = Len(rs) + 1 /\ rs2[Len(rs) + 1] = r
          /\ \A i \in 1..Len(rs) : rs2[i] = rs[i]
      BY <3>1, <1>3
    <3> HIDE DEF rs2
    <3>4. ASSUME NEW i \in 2..Len(rs2) PROVE rs2[i - 1].v < rs2[i].v
      <4>1. CASE i = Len(rs) + 1
        <5>1. i - 1 = Len(rs) /\ Len(rs) \in 1..Len(rs)
          BY <3>3, <4>1
        <5>2. rs2[i - 1] = rs[Len(rs)] /\ rs2[i] = r /\ rs[Len(rs)].v <= l /\ rs[Len(rs)].v \in Nat
          BY <3>1, <3>2, <3>3, <4>1, <5>1, Zenon
        <5>3. QED
          BY <3>1, <5>2
      <4>2. CASE i # Len(rs) + 1
        <5>1. i \in 2..Len(rs) /\ i \in 1..Len(rs) /\ i - 1 \in 1..Len(rs)
          BY <3>3, <4>2
        <5>2. QED
          BY <3>1, <3>3, <5>1, Zenon
      <4>3. QED
        BY <4>1, <4>2, Zenon
    <3>5. QED
      BY <3>1, <3>4, Zenon DEF Scans, rs2
  <2>2. ASSUME NEW id \in DOMAIN wal'
        PROVE  /\ Scans(wal'[id]) /\ (id > cur => wal'[id].recs = <<>>)
               /\ (id <= cur => ~wal'[id].torn)
    <3>1. id \in DOMAIN wal
      BY <1>5, Zenon
    <3>2. CASE id = cur
      <4>1. ~ (cur > cur)
        BY <1>2
      <4>2. QED
        BY <1>2, <1>4, <2>1, <3>1, <3>2, <4>1, Zenon DEF Files
    <3>3. CASE id # cur
      BY <1>2, <1>4, <3>1, <3>3, Zenon DEF Files
    <3>4. QED
      BY <3>2, <3>3, Zenon
  <2>3. QED
    BY <1>1, <2>2, Zenon DEF Files
<1>10. wal'[cur].recs # <<>>
  <2>1. Append(wal[cur].recs, r) # <<>>
    BY <1>3, <1>6
  <2>2. QED
    BY <1>5, <2>1, Zenon
<1>11. Covered(wal', assured')
  <2> SUFFICES ASSUME NEW id \in DOMAIN wal, NEW i \in 1..Len(wal'[id].recs),
                      i > wal'[id].synced, wal'[id].recs[i].v <= assured
               PROVE  \E later \in DOMAIN wal : id < later /\ wal'[later].recs # <<>>
    <3>1. assured' = assured /\ DOMAIN wal' = DOMAIN wal
      BY <1>1, <1>5, Zenon
    <3>2. QED
      BY <3>1 DEF Covered
  <2>1. i \in 1..Len(wal[id].recs) /\ wal'[id].recs[i] = wal[id].recs[i]
    <3>1. CASE id # cur
      BY <1>4, <3>1, Zenon
    <3>2. CASE id = cur
      <4> DEFINE rs == wal[cur].recs
      <4>1. /\ rs \in Seq(RecType) /\ i \in 1..Len(Append(rs, r)) /\ Append(rs, r)[i].v <= assured
            /\ wal'[id].recs = Append(rs, r)
        BY <1>5, <1>6, <3>2, Zenon
      <4> HIDE DEF rs
      <4>2. i # Len(rs) + 1
        BY <1>2, <1>3, <4>1
      <4>3. i \in 1..Len(rs) /\ Append(rs, r)[i] = rs[i]
        BY <1>3, <4>1, <4>2
      <4>4. QED
        BY <3>2, <4>1, <4>3, Zenon DEF rs
    <3>3. QED
      BY <3>1, <3>2, Zenon
  <2>2. \E later \in DOMAIN wal : id < later /\ wal[later].recs # <<>>
    BY <1>2, <1>4, <2>1, Zenon DEF Covered
  <2>3. QED
    BY <1>4, <1>10, <2>2, Zenon
<1>12. JobOK'
  <2>1. /\ Frozen => Frozen'
    <3>1. SUFFICES ASSUME Frozen PROVE Frozen'
      BY Zenon
    <3>2. cur = job.wal /\ cur + 2 \in Id /\ TailOf(wal, hist, job) /\ Reach(wal, job) = Len(hist)
      BY <3>1, Zenon DEF Frozen
    <3>3. Extended(wal, wal', job.wal, Rec(Len(hist) + 1, x)) /\ job.wal \in DOMAIN wal
      BY <1>2, <1>4, <3>2, Zenon DEF r
    <3>4. TailOf(wal', Append(hist, x), job) /\ Reach(wal', job) = Len(Append(hist, x))
      BY <1>2, <1>3, <3>2, <3>3, TailExtended
    <3>5. QED
      BY <1>1, <3>2, <3>4, Zenon DEF Frozen
  <2>2. Reserved => Reserved'
    BY <1>1, <1>4, <1>5, Zenon DEF Reserved
  <2>3. ASSUME Swapped
        PROVE  /\ Swapped' /\ wal'[job.wal + 1] = wal[job.wal + 1] /\ wal'[job.wal] = wal[job.wal]
    <3>1. /\ cur = job.wal + 2 /\ job.wal \in DOMAIN wal /\ job.wal + 1 \in DOMAIN wal
          /\ TailOf(wal, hist, job) /\ Reach(wal, job) <= Len(hist)
      BY <2>3, Zenon DEF Swapped
    <3>2. /\ job.wal # cur /\ job.wal + 1 # cur /\ job.wal \in Nat
          /\ \A id \in Nat : id <= job.wal => id <= cur /\ id # cur
      BY <1>2, <3>1 DEF JobType
    <3>3. wal'[job.wal + 1] = wal[job.wal + 1] /\ wal'[job.wal] = wal[job.wal]
      BY <1>4, <3>1, <3>2, Zenon
    <3>4. /\ TailOf(wal', hist', job) /\ Reach(wal', job) = Reach(wal, job)
          /\ Reach(wal, job) <= Len(hist')
          /\ SubSeq(hist', 1, Reach(wal, job)) = SubSeq(hist, 1, Reach(wal, job))
      <4>1. SameRecords(wal, wal', job.wal) /\ FileMap(wal) /\ job \in JobType /\ hist \in Seq(Nat)
        BY <1>2, <3>3, Zenon DEF SameRecords
      <4>2. hist' \in Seq(Nat) /\ Prefix(hist, hist')
        BY <1>1, <1>2, <1>3 DEF Prefix
      <4>3. QED
        BY <3>1, <4>1, <4>2, TailKept, Zenon
    <3>5. ASSUME NEW d \in disk
          PROVE  /\ d.wal <= job.wal
                 /\ ReplayTo(wal', d.seg, d.wal, job.wal) = SubSeq(hist, 1, Reach(wal, job))
      <4>1. /\ d \in ManType /\ d.wal..cur \subseteq DOMAIN wal /\ d.wal <= job.wal
            /\ ReplayTo(wal, d.seg, d.wal, job.wal) = SubSeq(hist, 1, Reach(wal, job))
        BY <1>1, <2>3, UpFacts, Zenon DEF Swapped
      <4>2. \A id \in d.wal..(job.wal) : id \in d.wal..cur /\ id # cur
        BY <1>2, <3>2, <4>1, ManFields
      <4>3. /\ d.wal..(job.wal) \subseteq DOMAIN wal /\ d.wal..(job.wal) \subseteq DOMAIN wal'
            /\ \A id \in d.wal..(job.wal) : wal'[id].recs = wal[id].recs
        BY <1>4, <1>5, <4>1, <4>2, Zenon
      <4>4. ReplayTo(wal', d.seg, d.wal, job.wal) = ReplayTo(wal, d.seg, d.wal, job.wal)
        BY <1>2, <1>4, <3>2, <4>1, <4>3, ReplayKeep, ZenonT(30)
      <4>5. QED
        BY <4>1, <4>4, Zenon
    <3>6. QED
      BY <1>1, <1>5, <3>1, <3>3, <3>4, <3>5, Zenon DEF Swapped
  <2>4. job.pc = "swap" => cur' + 2 \in DOMAIN wal' /\ ~wal'[cur' + 2].torn
    BY <1>1, <1>2, <1>4, <1>5, Zenon DEF JobOK
  <2>5. ASSUME job.pc \in {"sync", "copy", "final"}
        PROVE  /\ Swapped' /\ wal'[job.wal + 1] = wal[job.wal + 1] /\ wal'[job.wal] = wal[job.wal]
    BY <1>2, <2>3, <2>5, Zenon DEF JobOK
  <2>6. job' = job /\ disk' = disk /\ man' = man
    BY <1>1, Zenon
  <2>7. JobOK
    BY <1>2, Zenon
  <2>8. QED
    BY <2>1, <2>2, <2>4, <2>5, <2>6, <2>7, Zenon DEF JobOK
<1>13. up' = "up" /\ cur' = cur
  BY <1>1, Zenon
<1>14. QED
  BY <1>7, <1>8, <1>9, <1>10, <1>11, <1>12, <1>13, InvIntro, Zenon

-----------------------------------------------------------------------------
(* Steps that keep the commits.                                            *)

(* A step of an open handle that keeps the commits and the writer. *)
Stays ==
    /\ up = "up" /\ up' = "up" /\ hist' = hist /\ made' = made /\ assured' = assured
    /\ cur' = cur /\ disk' \subseteq disk /\ man' \in disk' /\ (~fenced' => ~fenced)
    /\ (grp' \/ unsynced' => grp \/ unsynced)
    /\ unsynced' \in BOOLEAN /\ grp' \in BOOLEAN /\ job' \in JobType

(* w2 is w with files beyond c created and some files removed, and the     *)
(* chain of every manifest of D is still there.                            *)
Reshaped(w, w2, c, D) ==
    /\ \A id \in DOMAIN w2 : \/ id \in DOMAIN w /\ w2[id] = w[id]
                             \/ id > c /\ w2[id] = Empty
    /\ \A id \in DOMAIN w2 : \A later \in DOMAIN w :
          id < later /\ later <= c => later \in DOMAIN w2
    /\ \A d \in D : d.wal..c \subseteq DOMAIN w2 /\ c..(d.req) \subseteq DOMAIN w2

(* A step that only reshapes the files beyond the ones a chain needs. *)
LEMMA FileStep ==
    ASSUME Inv, Stays, FileMap(wal'), Reshaped(wal, wal', cur, disk'), JobOK'
    PROVE  Inv'
<1>1. /\ up = "up" /\ up' = "up" /\ hist' = hist /\ made' = made /\ assured' = assured
      /\ cur' = cur /\ disk' \subseteq disk /\ man' \in disk' /\ (~fenced' => ~fenced)
      /\ (grp' \/ unsynced' => grp \/ unsynced)
      /\ unsynced' \in BOOLEAN /\ grp' \in BOOLEAN /\ job' \in JobType
  BY Zenon DEF Stays
<1>2. /\ FileMap(wal) /\ hist \in Seq(Nat) /\ cur \in Nat /\ cur \in DOMAIN wal
      /\ Covered(wal, assured) /\ Files(wal, cur) /\ Chain /\ Types
      /\ assured \in Nat /\ disk \subseteq ManType
      /\ (grp \/ unsynced) => wal[cur].recs # <<>>
  BY <1>1, UpFacts, Zenon
<1>3. /\ \A id \in DOMAIN wal' : \/ id \in DOMAIN wal /\ wal'[id] = wal[id]
                                 \/ id > cur /\ wal'[id] = Empty
      /\ \A id \in DOMAIN wal' : \A later \in DOMAIN wal :
            id < later /\ later <= cur => later \in DOMAIN wal'
      /\ \A d \in disk' : d.wal..cur \subseteq DOMAIN wal' /\ cur..(d.req) \subseteq DOMAIN wal'
  BY Zenon DEF Reshaped
<1>4. \A id \in Id : /\ id \in Nat /\ ~(id > cur /\ id <= cur) /\ (id > cur \/ id <= cur)
                     /\ ~(cur > cur) /\ cur <= cur
  BY <1>2 DEF Id
<1>5. ASSUME NEW id \in DOMAIN wal', id <= cur PROVE id \in DOMAIN wal /\ wal'[id] = wal[id]
  BY <1>3, <1>4, <1>5, Zenon DEF FileMap
<1>6. cur \in DOMAIN wal' /\ wal'[cur] = wal[cur]
  <2>1. man' \in ManType /\ man'.wal <= cur
    BY <1>1, <1>2, Zenon DEF Chain, Anchors
  <2>2. cur \in man'.wal..cur
    BY <1>2, <2>1, ManFields
  <2>3. QED
    BY <1>1, <1>3, <1>4, <1>5, <2>2, Zenon DEF FileMap
<1>7. Types'
  BY <1>1, <1>2, Zenon DEF Types
<1>8. Chain'
  <2>1. ASSUME NEW d \in disk' PROVE \A id \in d.wal..cur : wal'[id].recs = wal[id].recs
    <3>1. d \in ManType /\ d.wal..cur \subseteq DOMAIN wal'
      BY <1>1, <1>2, <1>3, Zenon
    <3>2. d.wal \in Int /\ cur \in Int
      BY <1>2, <3>1, ManFields
    <3>3. \A id \in d.wal..cur : id <= cur
      BY <3>2
    <3>4. QED
      BY <1>5, <3>1, <3>3, Zenon
  <2>2. QED
    BY <1>1, <1>2, <1>3, <2>1, ChainKeep, Zenon
<1>9. Files(wal', cur')
  <2>1. ASSUME NEW id \in DOMAIN wal'
        PROVE  /\ Scans(wal'[id]) /\ (id > cur => wal'[id].recs = <<>>)
               /\ (id <= cur => ~wal'[id].torn)
    BY <1>2, <1>3, EmptyFacts, Zenon DEF Files
  <2>2. QED
    BY <1>1, <2>1, Zenon DEF Files
<1>10. Covered(wal', assured')
  <2>1. ASSUME NEW later \in DOMAIN wal, wal[later].recs # <<>> PROVE later <= cur
    BY <1>2, <1>4, <2>1, Zenon DEF Files, FileMap
  <2>2. ASSUME NEW id \in DOMAIN wal'
        PROVE  \/ wal'[id].synced >= Len(wal'[id].recs)
               \/ /\ id \in DOMAIN wal /\ wal'[id].recs = wal[id].recs
                  /\ wal'[id].synced >= wal[id].synced
                  /\ \A later \in DOMAIN wal : id < later /\ wal[later].recs # <<>> =>
                        later \in DOMAIN wal' /\ wal'[later].recs # <<>>
    <3>1. CASE id \in DOMAIN wal /\ wal'[id] = wal[id]
      <4>1. wal[id].synced >= wal[id].synced
        BY <1>2, <3>1 DEF FileMap, FileType
      <4>2. QED
        BY <1>3, <1>5, <2>1, <3>1, <4>1, Zenon
    <3>2. CASE wal'[id] = Empty
      BY <3>2, EmptyFacts
    <3>3. QED
      BY <1>3, <3>1, <3>2, Zenon
  <2>3. assured' \in Nat /\ assured' <= assured
    BY <1>1, <1>2
  <2>4. QED
    BY <1>1, <1>2, <2>2, <2>3, CoveredKeep
<1>11. QED
  BY <1>1, <1>2, <1>6, <1>7, <1>8, <1>9, <1>10, InvIntro, Zenon

(* The same with no file touched. *)
LEMMA SameStep ==
    ASSUME Inv, Stays, wal' = wal, JobOK'
    PROVE  Inv'
<1>1. up = "up" /\ disk' \subseteq disk
  BY Zenon DEF Stays
<1>2. FileMap(wal') /\ Reshaped(wal, wal', cur, disk')
  BY <1>1, UpFacts, Zenon DEF Reshaped
<1>3. QED
  BY <1>2, FileStep, Zenon

(* A barrier keeps what the worker relies on, whatever its next phase. *)
LEMMA SyncedJobOK ==
    ASSUME Inv, up = "up", FileMap(wal'), SyncedFurther(wal, wal'),
           disk' = disk, cur' = cur, hist' = hist, man' = man, job' = job
    PROVE  JobOK'
<1>1. (Frozen => Frozen') /\ (Reserved => Reserved') /\ (Swapped => Swapped')
  BY SyncedJob, Zenon
<1>2. JobOK
  BY UpFacts, Zenon
<1>3. ASSUME NEW id \in DOMAIN wal
      PROVE  id \in DOMAIN wal' /\ wal'[id].recs = wal[id].recs /\ wal'[id].torn = wal[id].torn
  BY Zenon DEF SyncedFurther
<1>4. job.pc = "swap" => cur' + 2 \in DOMAIN wal' /\ ~wal'[cur' + 2].torn
  BY <1>2, <1>3, Zenon DEF JobOK
<1>5. ASSUME job.pc \in {"sync", "copy", "final"}
      PROVE  wal'[job.wal + 1].recs = wal[job.wal + 1].recs /\ wal'[job.wal].recs = wal[job.wal].recs
  BY <1>2, <1>3, <1>5, Zenon DEF JobOK, Swapped
<1>6. QED
  BY <1>1, <1>2, <1>4, <1>5, Zenon DEF JobOK

(* A successful barrier on the current writer assures every commit. *)
LEMMA BarrierStep ==
    ASSUME Inv, up = "up", grp \/ unsynced, wal' = [wal EXCEPT ![cur] = Synced(@)],
           unsynced' = FALSE, grp' = FALSE, assured' = Len(hist), hist' = hist, made' = made,
           man' = man, disk' = disk, up' = up, cur' = cur, fenced' = fenced, job' = job
    PROVE  Inv'
<1>1. /\ FileMap(wal) /\ hist \in Seq(Nat) /\ cur \in Nat /\ cur \in DOMAIN wal
      /\ Files(wal, cur) /\ Types /\ wal[cur].recs # <<>>
  BY UpFacts, Zenon
<1>2. /\ FileMap(wal') /\ SyncedFurther(wal, wal') /\ wal'[cur].synced = Len(wal'[cur].recs)
  BY <1>1, SyncFacts, Zenon
<1>3. Chain' /\ Files(wal', cur') /\ JobOK'
  BY <1>2, SyncedChain, SyncedJobOK, Zenon
<1>4. Types'
  <2>1. assured' \in 0..Len(hist')
    BY <1>1
  <2>2. QED
    BY <1>1, <1>2, <2>1, Zenon DEF Types
<1>5. Covered(wal', assured')
  <2> SUFFICES ASSUME NEW id \in DOMAIN wal', NEW i \in 1..Len(wal'[id].recs),
                      i > wal'[id].synced
               PROVE  \E later \in DOMAIN wal' : id < later /\ wal'[later].recs # <<>>
    BY Zenon DEF Covered
  <2>1. wal'[cur].recs # <<>> /\ cur \in DOMAIN wal'
    BY <1>1, <1>2, Zenon DEF SyncedFurther
  <2>2. id # cur
    BY <1>1, <1>2 DEF FileMap, FileType
  <2>3. ~(id > cur)
    <3>1. SUFFICES ASSUME id > cur PROVE FALSE
      BY Zenon
    <3>2. wal'[id].recs = <<>>
      BY <1>3, <3>1, Zenon DEF Files
    <3>3. QED
      BY <3>2
  <2>4. id < cur
    BY <1>1, <1>2, <2>2, <2>3 DEF FileMap, Id
  <2>5. QED
    BY <2>1, <2>4, Zenon
<1>6. QED
  BY <1>3, <1>4, <1>5, InvIntro, Zenon

(* A step that only fails: nothing of the files changes, the handle may be *)
(* fenced.                                                                 *)
LEMMA FailStep ==
    ASSUME Inv, up = "up", wal' = wal, hist' = hist, made' = made, assured' = assured,
           man' = man, disk' = disk, up' = up, cur' = cur, job' = job, fenced' = TRUE,
           unsynced' = unsynced, grp' = grp \/ grp' = FALSE
    PROVE  Inv'
<1>1. Types /\ JobOK /\ man \in disk /\ job \in JobType
  BY UpFacts, Zenon
<1>2. Stays
  <2>0. unsynced \in BOOLEAN /\ grp \in BOOLEAN
    BY <1>1, Zenon DEF Types
  <2>1. unsynced' \in BOOLEAN /\ grp' \in BOOLEAN /\ (grp' \/ unsynced' => grp \/ unsynced)
    <3>1. CASE grp' = grp
      BY <2>0, <3>1, Zenon
    <3>2. CASE grp' = FALSE
      BY <2>0, <3>2, Zenon
    <3>3. QED
      BY <3>1, <3>2, Zenon
  <2>2. disk' \subseteq disk /\ man' \in disk' /\ (~fenced' => ~fenced)
    BY <1>1, Zenon
  <2>3. QED
    BY <1>1, <2>1, <2>2, Zenon DEF Stays
<1>3. SyncedFurther(wal, wal') /\ FileMap(wal')
  BY <1>1 DEF SyncedFurther, Types, FileMap, FileType
<1>4. JobOK'
  BY <1>3, SyncedJobOK, Zenon
<1>5. QED
  BY <1>2, <1>4, SameStep, Zenon

(* The two barriers: of a group commit and of the timer. *)
LEMMA GroupSyncStep == ASSUME Inv, GroupSync PROVE Inv'
<1>1. CASE wal' = [wal EXCEPT ![cur] = Synced(@)] /\ unsynced' = FALSE /\ assured' = Len(hist) /\ UNCHANGED <<fenced, faults>>
  BY <1>1, BarrierStep, Zenon DEF GroupSync
<1>2. CASE fenced' = TRUE /\ UNCHANGED <<wal, unsynced, assured>>
  BY <1>2, FailStep, Zenon DEF GroupSync
<1>3. QED
  BY <1>1, <1>2, Zenon DEF GroupSync

(* The timer's barrier, taken or failed. *)
LEMMA TimerSyncStep == ASSUME Inv, TimerSync PROVE Inv'
<1>1. grp' = FALSE
  BY DEF TimerSync, Inv, Types
<1>2. CASE wal' = [wal EXCEPT ![cur] = Synced(@)] /\ unsynced' = FALSE /\ assured' = Len(hist) /\ UNCHANGED <<fenced, faults>>
  BY <1>1, <1>2, BarrierStep, Zenon DEF TimerSync
<1>3. CASE fenced' = TRUE /\ UNCHANGED <<wal, unsynced, assured>>
  BY <1>3, FailStep, Zenon DEF TimerSync
<1>4. QED
  BY <1>2, <1>3, Zenon DEF TimerSync

-----------------------------------------------------------------------------
(* The background checkpoint.                                              *)

(* A step of the worker that leaves the handle and the manifests alone. *)
LEMMA WorkerStays ==
    ASSUME Inv, up = "up", UNCHANGED <<commits, man, disk, handle>>, job' \in JobType
    PROVE  Stays /\ disk' = disk /\ cur' = cur /\ hist' = hist /\ man' = man
<1>1. /\ hist' = hist /\ made' = made /\ assured' = assured /\ man' = man /\ disk' = disk
      /\ up' = up /\ cur' = cur /\ unsynced' = unsynced /\ grp' = grp /\ fenced' = fenced
  BY Zenon DEF commits, handle
<1>2. man \in disk /\ unsynced \in BOOLEAN /\ grp \in BOOLEAN
  BY UpFacts, Zenon DEF Types
<1>3. QED
  BY <1>1, <1>2, Zenon DEF Stays

(* The worker gives up without having touched a file. *)
LEMMA AbandonStep ==
    ASSUME Inv, up = "up", UNCHANGED <<commits, man, disk, handle>>, wal' = wal, job' = NoJob
    PROVE  Inv'
<1>1. job' \in JobType /\ JobOK'
  BY NoJobOK, Zenon
<1>2. QED
  BY <1>1, WorkerStays, SameStep, Zenon

(* Creating or removing files beyond the writer and beyond every extent. *)
LEMMA BeyondReshaped ==
    ASSUME Inv, up = "up", NEW w2,
           \A id \in DOMAIN w2 : \/ id \in DOMAIN wal /\ w2[id] = wal[id]
                                 \/ id > cur /\ w2[id] = Empty,
           \A id \in DOMAIN wal : id \notin DOMAIN w2 => id > cur /\ \A d \in disk : d.req < id
    PROVE  Reshaped(wal, w2, cur, disk)
<1>1. cur \in Nat /\ \A id \in DOMAIN wal : id \in Nat
  BY UpFacts DEF FileMap, Id
<1>2. \A id \in Nat : ~(id <= cur /\ id > cur)
  BY <1>1
<1>3. ASSUME NEW d \in disk
      PROVE  d.wal..cur \subseteq DOMAIN w2 /\ cur..(d.req) \subseteq DOMAIN w2
  <2>1. d \in ManType /\ d.wal..cur \subseteq DOMAIN wal /\ cur..(d.req) \subseteq DOMAIN wal
    BY UpFacts, Zenon
  <2>2. d.wal \in Int /\ d.req \in Int
    BY <2>1, ManFields, Zenon
  <2>3. /\ \A id \in d.wal..cur : ~(id > cur)
        /\ \A id \in cur..(d.req) : ~(d.req < id)
    BY <1>1, <2>2
  <2>4. QED
    BY <2>1, <2>3, Zenon
<1>4. QED
  BY <1>1, <1>2, <1>3, Zenon DEF Reshaped

(* create_wal and remove_file beyond the active file. *)
LEMMA CreateStep ==
    ASSUME Inv, Stays, NEW id \in Id, id > cur, wal' = Put(wal, id, Empty), disk' = disk, JobOK'
    PROVE  Inv'
<1>1. up = "up" /\ FileMap(wal)
  BY UpFacts, Zenon DEF Stays
<1>2. HasNew(wal, id, wal')
  BY <1>1, PutFacts, Zenon
<1>3. Reshaped(wal, wal', cur, disk)
  BY <1>1, <1>2, BeyondReshaped, Zenon DEF HasNew
<1>4. QED
  BY <1>2, <1>3, FileStep, Zenon DEF HasNew

(* Files past the recorded extent may be removed. *)
LEMMA RemoveStep ==
    ASSUME Inv, Stays, NEW ids, wal' = Drop(wal, ids), disk' = disk, JobOK',
           \A id \in ids : id > cur /\ \A d \in disk : d.req < id
    PROVE  Inv'
<1>1. up = "up" /\ FileMap(wal)
  BY UpFacts, Zenon DEF Stays
<1>2. Lacks(wal, ids, wal')
  BY <1>1, DropFacts, Zenon
<1>3. Reshaped(wal, wal', cur, disk)
  BY <1>1, <1>2, BeyondReshaped, Zenon DEF Lacks
<1>4. QED
  BY <1>2, <1>3, FileStep, Zenon DEF Lacks

(* freeze: the cut is the end of the active file. *)
LEMMA FreezeStep == ASSUME Inv, Freeze PROVE Inv'
<1> DEFINE l == Len(hist)
           n == Len(wal[cur].recs)
<1>1. /\ up = "up" /\ cur + 2 \in Id /\ wal' = wal
      /\ job' = [pc |-> "bridge", ver |-> l, wal |-> cur, cut |-> n]
      /\ UNCHANGED <<commits, man, disk, handle>>
  BY Zenon DEF Freeze, files
<1>2. l \in Nat /\ n \in Nat /\ cur \in Nat
  BY <1>1, UpFacts, FileFields DEF FileMap
<1> HIDE DEF l, n
<1>3. /\ job' \in JobType /\ job'.pc = "bridge" /\ job'.ver = l /\ job'.wal = cur /\ job'.cut = n
  BY <1>1, <1>2 DEF JobType, Phases
<1>4. Stays /\ cur' = cur /\ hist' = hist
  BY <1>1, <1>3, WorkerStays, Zenon
<1>5. n <= n /\ n - n = 0 /\ l + 0 = l /\ \A k \in 1..0 : FALSE
  BY <1>2
<1>6. TailOf(wal', hist', job') /\ Reach(wal', job') = Len(hist')
  BY <1>1, <1>3, <1>4, <1>5 DEF TailOf, Reach, l, n
<1>7. Frozen'
  BY <1>1, <1>3, <1>4, <1>6, Zenon DEF Frozen
<1>8. JobOK'
  BY <1>3, <1>7 DEF JobOK
<1>9. QED
  BY <1>1, <1>4, <1>8, SameStep, Zenon

(* The job of the next phase. *)
LEMMA JobMove ==
    ASSUME NEW j \in JobType, NEW p \in Phases, NEW k, k = [j EXCEPT !.pc = p]
    PROVE  k \in JobType /\ k.pc = p /\ k.ver = j.ver /\ k.wal = j.wal /\ k.cut = j.cut
  BY DEF JobType

(* The ids a reservation uses. *)
LEMMA FrozenIds ==
    ASSUME Inv, up = "up", Frozen
    PROVE  /\ job.wal = cur /\ cur \in Nat /\ cur + 1 \in Id /\ cur + 2 \in Id
           /\ cur + 1 > cur /\ cur + 2 > cur /\ cur + 1 # cur /\ cur + 2 # cur
           /\ cur + 1 # cur + 2
<1>1. job.wal = cur /\ cur \in Nat /\ cur + 2 \in Id
  BY UpFacts, Zenon DEF Frozen
<1>2. QED
  BY <1>1, CheckpointAssumption DEF Id

(* While the writer's file is not touched, what was frozen stays. *)
LEMMA FrozenKeep ==
    ASSUME Inv, up = "up", Frozen, wal'[cur] = wal[cur], cur' = cur, hist' = hist,
           job'.ver = job.ver, job'.wal = job.wal, job'.cut = job.cut
    PROVE  Frozen'
<1>1. job.wal = cur
  BY Zenon DEF Frozen
<1>2. TailOf(wal', hist', job') /\ Reach(wal', job') = Reach(wal, job)
  BY <1>1, Zenon DEF Frozen, TailOf, Reach
<1>3. QED
  BY <1>2, Zenon DEF Frozen

(* The two reservations: their files are empty and beyond every manifest. *)
LEMMA ReserveBridgeStep == ASSUME Inv, ReserveBridge PROVE Inv'
<1> DEFINE b == job.wal + 1
<1>1. up = "up" /\ job.pc = "bridge" /\ UNCHANGED <<commits, man, disk, handle>>
  BY Zenon DEF ReserveBridge
<1>2. Frozen /\ job \in JobType /\ FileMap(wal) /\ cur \in DOMAIN wal
  BY <1>1, UpFacts DEF JobOK
<1>3. /\ job.wal = cur /\ cur \in Nat /\ b \in Id /\ b > cur /\ b # cur /\ b = cur + 1
  BY <1>1, <1>2, FrozenIds, Zenon
<1>4. \/ b \notin DOMAIN wal /\ wal' = Put(wal, b, Empty) /\ job' = [job EXCEPT !.pc = "active"]
      \/ wal' = Put(wal, b, Empty) /\ job' = NoJob
      \/ wal' = wal /\ job' = NoJob
  BY Zenon DEF ReserveBridge
<1> HIDE DEF b
<1>5. ASSUME b \notin DOMAIN wal, wal' = Put(wal, b, Empty), job' = [job EXCEPT !.pc = "active"]
      PROVE  Inv'
  <2>1. /\ job' \in JobType /\ job'.pc = "active"
        /\ job'.ver = job.ver /\ job'.wal = job.wal /\ job'.cut = job.cut
    <3>1. "active" \in Phases
      BY DEF Phases
    <3>2. job \in JobType /\ job' = [job EXCEPT !.pc = "active"]
      BY <1>2, <1>5, Zenon
    <3>3. QED
      BY <3>1, <3>2, JobMove
  <2>2. Stays /\ disk' = disk /\ cur' = cur /\ hist' = hist
    BY <1>1, <2>1, WorkerStays, Zenon
  <2>3. b \in DOMAIN wal' /\ wal'[b] = Empty /\ wal'[cur] = wal[cur]
    <3>1. HasNew(wal, b, wal')
      BY <1>2, <1>3, <1>5, PutFacts, Zenon
    <3>2. QED
      BY <1>2, <1>3, <3>1, Zenon DEF HasNew
  <2>4. Frozen'
    BY <1>1, <1>2, <2>1, <2>2, <2>3, FrozenKeep, Zenon
  <2>5. ASSUME NEW d \in disk PROVE d.req <= cur
    <3>1. d \in ManType /\ cur..(d.req) \subseteq DOMAIN wal
      BY <1>1, UpFacts, Zenon
    <3>2. d.req \in Int /\ b \notin cur..(d.req)
      BY <1>5, <3>1, ManFields, Zenon
    <3>3. QED
      BY <1>3, <3>2
  <2>6. Reserved'
    BY <1>3, <2>2, <2>3, <2>5, EmptyFacts, Zenon DEF Reserved
  <2>7. JobOK'
    BY <2>1, <2>4, <2>6 DEF JobOK
  <2>8. QED
    BY <1>3, <1>5, <2>2, <2>7, CreateStep, Zenon
<1>6. ASSUME wal' = Put(wal, b, Empty), job' = NoJob PROVE Inv'
  <2>1. job' \in JobType /\ JobOK'
    BY <1>6, NoJobOK, Zenon
  <2>2. Stays /\ disk' = disk
    BY <1>1, <2>1, WorkerStays, Zenon
  <2>3. QED
    BY <1>3, <1>6, <2>1, <2>2, CreateStep, Zenon
<1>7. QED
  BY <1>1, <1>4, <1>5, <1>6, AbandonStep, Zenon

(* The second reserved file, or the failure to create it. *)
LEMMA ReserveActiveStep == ASSUME Inv, ReserveActive PROVE Inv'
<1> DEFINE b == job.wal + 1
           a == job.wal + 2
<1>1. up = "up" /\ job.pc = "active" /\ UNCHANGED <<commits, man, disk, handle>>
  BY Zenon DEF ReserveActive
<1>2. Frozen /\ Reserved /\ job \in JobType /\ FileMap(wal) /\ cur \in DOMAIN wal
  BY <1>1, UpFacts DEF JobOK
<1>3. /\ job.wal = cur /\ cur \in Nat /\ b \in Id /\ b > cur /\ b # cur /\ b = cur + 1
      /\ a \in Id /\ a > cur /\ a # cur /\ a = cur + 2 /\ a # b
  BY <1>1, <1>2, FrozenIds, Zenon
<1>4. \/ wal' = Put(wal, a, Empty) /\ job' = [job EXCEPT !.pc = "swap"]
      \/ wal' = Put(Drop(wal, {b}), a, Empty) /\ job' = NoJob
      \/ wal' = Drop(wal, {b}) /\ job' = NoJob
  BY Zenon DEF ReserveActive
<1> HIDE DEF a, b
<1>5. \A d \in disk : d.req < b
  <2>1. ASSUME NEW d \in disk PROVE d.req < b
    <3>1. d.req <= cur /\ d.req \in Int
      BY <1>1, <1>2, UpFacts, ManFields, Zenon DEF Reserved
    <3>2. QED
      BY <1>3, <3>1
  <2>2. QED
    BY <2>1, Zenon
<1>6. ASSUME wal' = Put(wal, a, Empty), job' = [job EXCEPT !.pc = "swap"]
      PROVE  Inv'
  <2>1. /\ job' \in JobType /\ job'.pc = "swap"
        /\ job'.ver = job.ver /\ job'.wal = job.wal /\ job'.cut = job.cut
    <3>1. "swap" \in Phases
      BY DEF Phases
    <3>2. job \in JobType /\ job' = [job EXCEPT !.pc = "swap"]
      BY <1>2, <1>6, Zenon
    <3>3. QED
      BY <3>1, <3>2, JobMove
  <2>2. Stays /\ disk' = disk /\ cur' = cur /\ hist' = hist
    BY <1>1, <2>1, WorkerStays, Zenon
  <2>3. /\ a \in DOMAIN wal' /\ wal'[a] = Empty /\ wal'[cur] = wal[cur]
        /\ b \in DOMAIN wal => b \in DOMAIN wal' /\ wal'[b] = wal[b]
    <3>1. HasNew(wal, a, wal')
      BY <1>2, <1>3, <1>6, PutFacts, Zenon
    <3>2. QED
      BY <1>2, <1>3, <3>1, Zenon DEF HasNew
  <2>4. Frozen'
    BY <1>1, <1>2, <2>1, <2>2, <2>3, FrozenKeep, Zenon
  <2>5. Reserved'
    BY <1>2, <1>3, <2>2, <2>3, Zenon DEF Reserved
  <2>6. cur' + 2 \in DOMAIN wal' /\ ~wal'[cur' + 2].torn
    BY <1>3, <2>2, <2>3, EmptyFacts, Zenon
  <2>7. JobOK'
    BY <2>1, <2>4, <2>5, <2>6 DEF JobOK
  <2>8. QED
    BY <1>3, <1>6, <2>2, <2>7, CreateStep, Zenon
<1>7. ASSUME job' = NoJob, wal' = Put(Drop(wal, {b}), a, Empty) \/ wal' = Drop(wal, {b})
      PROVE  Inv'
  <2>1. job' \in JobType /\ JobOK'
    BY <1>7, NoJobOK, Zenon
  <2>2. Stays /\ disk' = disk
    BY <1>1, <2>1, WorkerStays, Zenon
  <2>3. Lacks(wal, {b}, Drop(wal, {b}))
    BY <1>2, DropFacts, Zenon
  <2>4. CASE wal' = Drop(wal, {b})
    <3>1. \A id \in {b} : id > cur /\ \A d \in disk : d.req < id
      BY <1>3, <1>5, Zenon
    <3> DEFINE ids == {b}
    <3>2. wal' = Drop(wal, ids) /\ \A id \in ids : id > cur /\ \A d \in disk : d.req < id
      BY <2>4, <3>1, Zenon
    <3> HIDE DEF ids
    <3>3. QED
      BY <2>1, <2>2, <3>2, RemoveStep, Zenon
  <2>5. CASE wal' = Put(Drop(wal, {b}), a, Empty)
    <3> DEFINE w == Drop(wal, {b})
    <3>1. FileMap(w) /\ DOMAIN w = DOMAIN wal \ {b} /\ \A i \in DOMAIN w : w[i] = wal[i]
      BY <2>3, Zenon DEF Lacks
    <3> HIDE DEF w
    <3>2. HasNew(w, a, wal')
      BY <1>3, <2>5, <3>1, PutFacts, Zenon DEF w
    <3>3. Reshaped(wal, wal', cur, disk)
      <4>1. /\ DOMAIN wal' = (DOMAIN wal \ {b}) \cup {a} /\ wal'[a] = Empty
            /\ \A i \in DOMAIN wal : i # b /\ i # a => wal'[i] = wal[i]
        BY <3>1, <3>2, Zenon DEF HasNew
      <4>2. QED
        BY <1>1, <1>3, <1>5, <4>1, BeyondReshaped, Zenon
    <3>4. QED
      BY <2>1, <2>2, <3>2, <3>3, FileStep, Zenon DEF HasNew
  <2>6. QED
    BY <1>7, <2>4, <2>5, Zenon
<1>8. QED
  BY <1>4, <1>6, <1>7, Zenon

(* The manifest with another extent. *)
LEMMA ManMove ==
    ASSUME NEW d \in ManType, NEW e \in Nat \ {0}, NEW m, m = [d EXCEPT !.req = e]
    PROVE  m \in ManType /\ m.seg = d.seg /\ m.wal = d.wal /\ m.req = e
  BY DEF ManType

(* Recording the extent and replacing the writer: the files it names were  *)
(* reserved, and both manifests a failed sync may leave replay to the      *)
(* same.                                                                   *)
LEMMA SwapStep == ASSUME Inv, Swap PROVE Inv'
<1> DEFINE m == [man EXCEPT !.req = job.wal + 2]
           c2 == cur + 2
<1>1. /\ up = "up" /\ up' = "up" /\ job.pc = "swap" /\ ~grp
      /\ hist' = hist /\ made' = made /\ assured' = assured /\ grp' = grp
  BY Zenon DEF Swap, commits
<1>2. /\ Frozen /\ Reserved /\ c2 \in DOMAIN wal /\ ~wal[c2].torn
      /\ job \in JobType /\ FileMap(wal) /\ cur \in DOMAIN wal /\ hist \in Seq(Nat)
  BY <1>1, UpFacts DEF JobOK
<1>9. Types /\ Covered(wal, assured) /\ Files(wal, cur) /\ Chain /\ man \in disk /\ man \in ManType
  BY <1>1, UpFacts, Zenon
<1>3. /\ job.wal = cur /\ cur \in Nat /\ cur + 1 \in Id /\ cur + 1 > cur /\ cur + 1 # cur
      /\ c2 \in Id /\ c2 > cur /\ c2 # cur /\ cur + 1 # c2 /\ job.wal + 2 = c2 /\ job.wal + 1 = cur + 1
  BY <1>1, <1>2, FrozenIds, Zenon
<1>4. /\ c2 \in Nat /\ cur <= c2 /\ c2 \in Nat \ {0}
      /\ \A id \in cur..c2 : id = cur \/ id = cur + 1 \/ id = c2
      /\ \A id \in (cur + 1)..c2 : id \in cur..c2 /\ id > cur
      /\ \A id \in c2..c2 : id = c2
      /\ \A id \in Nat : /\ (id > c2 => id > cur)
                         /\ (id <= c2 => id <= cur \/ id = cur + 1 \/ id = c2)
      /\ c2 <= c2
  BY <1>3
<1>5. m \in ManType /\ m.seg = man.seg /\ m.wal = man.wal /\ m.req = c2
  BY <1>3, <1>4, <1>9, ManMove
<1>6. cur..c2 \subseteq DOMAIN wal /\ c2..c2 \subseteq DOMAIN wal
  BY <1>2, <1>4, Zenon DEF Reserved
<1> HIDE DEF c2
<1>7. Anchors(wal, m, cur, hist)
  BY <1>5, <1>6, <1>9, Zenon DEF Chain, Anchors
<1>8. \/ /\ man' = m /\ disk' = {m} /\ fenced' = fenced
         /\ cur' = job.wal + 2 /\ unsynced' = FALSE /\ job' = [job EXCEPT !.pc = "sync"] /\ wal' = wal
      \/ /\ man' = man /\ disk' = disk /\ fenced' = fenced /\ cur' = cur /\ unsynced' = unsynced
         /\ wal' = Drop(wal, {job.wal + 1, job.wal + 2}) /\ job' = NoJob
      \/ /\ man' = m /\ disk' = disk \cup {m} /\ fenced' = TRUE
         /\ job' = NoJob /\ wal' = wal /\ cur' = cur /\ unsynced' = unsynced
  BY Zenon DEF Swap, Published, PublishFailed, PublishSyncFailed
<1> HIDE DEF m
<1>10. ASSUME man' = m, disk' = {m}, fenced' = fenced, cur' = job.wal + 2, unsynced' = FALSE,
              job' = [job EXCEPT !.pc = "sync"], wal' = wal
       PROVE  Inv'
  <2>1. /\ job' \in JobType /\ job'.pc = "sync"
        /\ job'.ver = job.ver /\ job'.wal = job.wal /\ job'.cut = job.cut
    <3>1. "sync" \in Phases
      BY DEF Phases
    <3>2. job \in JobType /\ job' = [job EXCEPT !.pc = "sync"]
      BY <1>2, <1>10, Zenon
    <3>3. QED
      BY <3>1, <3>2, JobMove
  <2>2. cur' = c2
    BY <1>3, <1>10, Zenon
  <2>3. \A id \in (cur + 1)..c2 : wal[id].recs = <<>>
    BY <1>4, <1>6, <1>9, Zenon DEF Files
  <2>4. Anchors(wal, m, c2, hist)
    BY <1>2, <1>3, <1>4, <1>5, <1>6, <1>7, <2>3, AnchorsMove, Zenon
  <2>5. Chain'
    BY <1>1, <1>4, <1>5, <1>10, <2>2, <2>4, Zenon DEF Chain
  <2>6. Files(wal', cur')
    <3>1. ASSUME NEW id \in DOMAIN wal
          PROVE  /\ Scans(wal[id]) /\ (id > c2 => wal[id].recs = <<>>)
                 /\ (id <= c2 => ~wal[id].torn)
      <4>1. id \in Nat
        BY <1>2 DEF FileMap, Id
      <4>2. QED
        BY <1>2, <1>4, <1>9, <4>1, Zenon DEF Files, Reserved
    <3>2. QED
      BY <1>10, <2>2, <3>1, Zenon DEF Files
  <2>7. Types'
    <3>1. cur' \in Nat /\ unsynced' \in BOOLEAN /\ disk' \subseteq ManType /\ man' \in disk'
      BY <1>4, <1>5, <1>10, <2>2, Zenon
    <3>2. QED
      BY <1>1, <1>9, <1>10, <2>1, <3>1, Zenon DEF Types
  <2>8. Swapped'
    <3>1. TailOf(wal, hist, job) /\ Reach(wal, job) = Len(hist)
      BY <1>2, Zenon DEF Frozen
    <3>2. TailOf(wal', hist', job') /\ Reach(wal', job') = Len(hist)
      BY <1>1, <1>10, <2>1, <3>1, Zenon DEF TailOf, Reach
    <3>3. Len(hist) <= Len(hist) /\ SubSeq(hist, 1, Len(hist)) = hist
      BY <1>2
    <3>4. ReplayTo(wal, m.seg, m.wal, cur) = hist /\ m.wal <= cur
      BY <1>7, Zenon DEF Anchors
    <3>5. \A d \in disk' : d.wal <= job'.wal
                           /\ ReplayTo(wal', d.seg, d.wal, job'.wal) = SubSeq(hist', 1, Reach(wal', job'))
      BY <1>1, <1>3, <1>10, <2>1, <3>2, <3>3, <3>4, Zenon
    <3>6. cur' = job'.wal + 2 /\ job'.wal \in DOMAIN wal' /\ job'.wal + 1 \in DOMAIN wal'
      BY <1>2, <1>3, <1>10, <2>1, Zenon DEF Reserved
    <3>7. QED
      BY <1>1, <3>2, <3>3, <3>5, <3>6, Zenon DEF Swapped
  <2>9. wal'[job'.wal + 1].recs = <<>>
    BY <1>2, <1>3, <1>9, <1>10, <2>1, Zenon DEF Files, Reserved
  <2>10. JobOK'
    BY <2>1, <2>8, <2>9 DEF JobOK
  <2>11. Covered(wal', assured') /\ ~grp' /\ ~unsynced'
    BY <1>1, <1>9, <1>10, Zenon
  <2>12. QED
    BY <1>1, <2>5, <2>6, <2>7, <2>10, <2>11, InvIntro, Zenon
<1>11. ASSUME man' = man, disk' = disk, fenced' = fenced, cur' = cur, unsynced' = unsynced,
              wal' = Drop(wal, {job.wal + 1, job.wal + 2}), job' = NoJob
       PROVE  Inv'
  <2>1. job' \in JobType /\ JobOK'
    BY <1>11, NoJobOK, Zenon
  <2>2. Stays
    BY <1>1, <1>9, <1>11, <2>1, Zenon DEF Stays, Types
  <2>3. \A d \in disk : d.req < cur + 1 /\ d.req < c2
    <3>1. ASSUME NEW d \in disk PROVE d.req < cur + 1 /\ d.req < c2
      <4>1. d.req <= cur /\ d.req \in Int
        BY <1>1, <1>2, UpFacts, ManFields, Zenon DEF Reserved
      <4>2. cur \in Nat /\ c2 = cur + 2
        BY <1>3, Zenon DEF c2
      <4>3. QED
        BY <4>1, <4>2
    <3>2. QED
      BY <3>1, Zenon
  <2>4. \A id \in {job.wal + 1, job.wal + 2} : id > cur /\ \A d \in disk : d.req < id
    BY <1>3, <2>3, Zenon
  <2>5. QED
    <3> DEFINE ids == {job.wal + 1, job.wal + 2}
    <3>1. wal' = Drop(wal, ids) /\ disk' = disk
      BY <1>11, Zenon
    <3>2. \A id \in ids : id > cur /\ \A d \in disk : d.req < id
      BY <2>4, Zenon
    <3> HIDE DEF ids
    <3>3. QED
      BY <2>1, <2>2, <3>1, <3>2, RemoveStep, Zenon
<1>12. ASSUME man' = m, disk' = disk \cup {m}, fenced' = TRUE,
              job' = NoJob, wal' = wal, cur' = cur, unsynced' = unsynced
       PROVE  Inv'
  <2>1. job' \in JobType /\ JobOK'
    BY <1>12, NoJobOK, Zenon
  <2>2. Chain'
    BY <1>1, <1>7, <1>9, <1>12, Zenon DEF Chain
  <2>3. Types'
    BY <1>1, <1>5, <1>9, <1>12, <2>1, Zenon DEF Types
  <2>4. QED
    BY <1>1, <1>9, <1>12, <2>1, <2>2, <2>3, UpFacts, InvIntro, ZenonT(30)
<1>13. QED
  BY <1>8, <1>10, <1>11, <1>12, Zenon

(* The barrier on the frozen file. *)
LEMMA SyncOldStep == ASSUME Inv, SyncOld PROVE Inv'
<1>1. up = "up" /\ job.pc = "sync" /\ UNCHANGED <<commits, man, disk, handle>>
  BY Zenon DEF SyncOld
<1>2. /\ Swapped /\ wal[job.wal + 1].recs = <<>> /\ job \in JobType /\ FileMap(wal)
      /\ cur \in DOMAIN wal /\ Covered(wal, assured) /\ assured \in Nat
      /\ (grp \/ unsynced) => wal[cur].recs # <<>>
  BY <1>1, UpFacts DEF JobOK
<1>3. job.wal \in DOMAIN wal /\ job.wal + 1 \in DOMAIN wal
  BY <1>2, Zenon DEF Swapped
<1>4. \/ wal' = [wal EXCEPT ![job.wal] = Synced(@)] /\ job' = [job EXCEPT !.pc = "copy"]
      \/ wal' = wal /\ job' = NoJob
  BY Zenon DEF SyncOld
<1>5. ASSUME wal' = [wal EXCEPT ![job.wal] = Synced(@)], job' = [job EXCEPT !.pc = "copy"]
      PROVE  Inv'
  <2>1. /\ job' \in JobType /\ job'.pc = "copy"
        /\ job'.ver = job.ver /\ job'.wal = job.wal /\ job'.cut = job.cut
    <3>1. "copy" \in Phases
      BY DEF Phases
    <3>2. job \in JobType /\ job' = [job EXCEPT !.pc = "copy"]
      BY <1>2, <1>5, Zenon
    <3>3. QED
      BY <3>1, <3>2, JobMove
  <2>2. Stays /\ disk' = disk /\ cur' = cur /\ hist' = hist /\ man' = man
    BY <1>1, <2>1, WorkerStays, Zenon
  <2>3. /\ up' = "up" /\ made' = made /\ assured' = assured /\ (~fenced' => ~fenced)
        /\ (grp' \/ unsynced' => grp \/ unsynced) /\ unsynced' \in BOOLEAN /\ grp' \in BOOLEAN
    BY <2>2, Zenon DEF Stays
  <2>4. FileMap(wal') /\ SyncedFurther(wal, wal')
    BY <1>2, <1>3, <1>5, SyncFacts, Zenon
  <2>5. Chain' /\ Files(wal', cur')
    BY <1>1, <2>2, <2>3, <2>4, SyncedChain, Zenon
  <2>6. Swapped'
    BY <1>1, <1>2, <2>1, <2>2, <2>4, SyncedJob, ZenonT(30)
  <2>7. wal'[job'.wal + 1].recs = <<>>
    BY <1>2, <1>3, <2>1, <2>4, Zenon DEF SyncedFurther
  <2>8. JobOK'
    BY <2>1, <2>6, <2>7 DEF JobOK
  <2>9. Types'
    BY <1>1, <2>1, <2>2, <2>3, <2>4, UpFacts, Zenon DEF Types
  <2>10. Covered(wal', assured')
    <3>1. \A id \in DOMAIN wal' :
             /\ id \in DOMAIN wal /\ wal'[id].recs = wal[id].recs
             /\ wal'[id].synced >= wal[id].synced
             /\ \A later \in DOMAIN wal : id < later /\ wal[later].recs # <<>> =>
                   later \in DOMAIN wal' /\ wal'[later].recs # <<>>
      BY <2>4, Zenon DEF SyncedFurther
    <3>2. assured <= assured
      <4>1. assured \in Nat
        BY <1>2, Zenon
      <4>2. QED
        BY <4>1
    <3>3. Covered(wal', assured)
      BY <1>2, <2>4, <3>1, <3>2, CoveredKeep, Zenon
    <3>4. QED
      BY <2>3, <3>3, Zenon
  <2>11. grp' \/ unsynced' => wal'[cur'].recs # <<>>
    BY <1>2, <2>2, <2>3, <2>4, Zenon DEF SyncedFurther
  <2>12. QED
    BY <2>3, <2>5, <2>8, <2>9, <2>10, <2>11, InvIntro, ZenonT(30)
<1>6. QED
  BY <1>1, <1>4, <1>5, AbandonStep, Zenon

(* After the swap, for every manifest. *)
LEMMA SwappedFacts ==
    ASSUME Inv, up = "up", Swapped
    PROVE  /\ job \in JobType /\ job.wal \in Nat /\ cur = job.wal + 2 /\ cur \in Nat
           /\ job.wal \in DOMAIN wal /\ job.wal + 1 \in DOMAIN wal
           /\ job.wal # job.wal + 1 /\ job.wal + 1 # cur /\ job.wal # cur
           /\ TailOf(wal, hist, job) /\ Reach(wal, job) <= Len(hist)
           /\ \A d \in disk : d \in ManType /\ Rotated(wal, d, job, hist)
<1>1. /\ job \in JobType /\ cur = job.wal + 2
      /\ job.wal \in DOMAIN wal /\ job.wal + 1 \in DOMAIN wal
      /\ TailOf(wal, hist, job) /\ Reach(wal, job) <= Len(hist)
  BY UpFacts, Zenon DEF Swapped
<1>2. job.wal \in Nat
  BY <1>1, Zenon DEF JobType
<1>3. cur \in Nat /\ job.wal # job.wal + 1 /\ job.wal + 1 # cur /\ job.wal # cur
  BY <1>1, <1>2
<1>4. \A d \in disk : d \in ManType /\ Rotated(wal, d, job, hist)
  BY <1>1, UpFacts, Zenon DEF Rotated, Swapped
<1>5. QED
  BY <1>1, <1>2, <1>3, <1>4, Zenon

(* The file the tail is copied to. *)
LEMMA CopyFile ==
    ASSUME NEW t \in Seq(RecType), NEW f, f = Synced([Empty EXCEPT !.recs = t])
    PROVE  f \in FileType /\ f.recs = t /\ f.synced = Len(f.recs) /\ ~f.torn
<1>1. PICK g : g = [Empty EXCEPT !.recs = t] /\ f = Synced(g)
  BY Zenon
<1>2. Empty \in FileType /\ Empty.torn = FALSE
  BY EmptyFacts, Zenon
<1>3. g = [recs |-> t, synced |-> Empty.synced, torn |-> Empty.torn]
  BY <1>1, <1>2, Zenon DEF FileType
<1>4. g \in FileType /\ g.recs = t /\ g.torn = FALSE
  BY <1>2, <1>3, EmptyFacts DEF FileType
<1>5. /\ Synced(g) \in FileType /\ Synced(g).recs = g.recs
      /\ Synced(g).torn = g.torn /\ Synced(g).synced = Len(g.recs)
  BY <1>4, SyncedFacts, Zenon
<1>6. f \in FileType /\ f.recs = g.recs /\ f.torn = g.torn /\ f.synced = Len(g.recs)
  BY <1>1, <1>5, Zenon
<1>7. QED
  BY <1>4, <1>6, Zenon

(* The tail of the frozen file is copied into the bridge, which replays to *)
(* what the frozen file did.                                               *)
LEMMA CopyTailStep == ASSUME Inv, CopyTail PROVE Inv'
<1> DEFINE t == CutTail(wal, job)
           b == job.wal + 1
<1>1. up = "up" /\ job.pc = "copy" /\ UNCHANGED <<commits, man, disk, handle>>
  BY Zenon DEF CopyTail
<1>2. /\ Swapped /\ wal[b].recs = <<>> /\ FileMap(wal) /\ hist \in Seq(Nat)
      /\ Files(wal, cur) /\ Covered(wal, assured) /\ assured \in Nat
      /\ (grp \/ unsynced) => wal[cur].recs # <<>>
  BY <1>1, UpFacts DEF JobOK
<1>3. /\ job \in JobType /\ job.wal \in Nat /\ cur = job.wal + 2 /\ cur \in Nat
      /\ job.wal \in DOMAIN wal /\ b \in DOMAIN wal
      /\ job.wal # b /\ b # cur /\ job.wal # cur
      /\ TailOf(wal, hist, job) /\ Reach(wal, job) <= Len(hist)
      /\ \A d \in disk : d \in ManType /\ Rotated(wal, d, job, hist)
  BY <1>1, <1>2, SwappedFacts, Zenon
<1>4. \/ /\ wal' = [wal EXCEPT ![b] = Synced([Empty EXCEPT !.recs = t])]
         /\ job' = [job EXCEPT !.pc = "final"]
      \/ wal' = wal /\ job' = NoJob
  BY Zenon DEF CopyTail, CutTail
<1>5. t \in Seq(RecType) /\ \A i \in 2..Len(t) : t[i - 1].v < t[i].v
  BY <1>2, <1>3, TailFacts, Zenon
<1>6. ASSUME wal' = [wal EXCEPT ![b] = Synced([Empty EXCEPT !.recs = t])],
             job' = [job EXCEPT !.pc = "final"]
      PROVE  Inv'
  <2>1. /\ job' \in JobType /\ job'.pc = "final"
        /\ job'.ver = job.ver /\ job'.wal = job.wal /\ job'.cut = job.cut
    <3>1. "final" \in Phases
      BY DEF Phases
    <3>2. job \in JobType /\ job' = [job EXCEPT !.pc = "final"]
      BY <1>3, <1>6, Zenon
    <3>3. QED
      BY <3>1, <3>2, JobMove
  <2>2. Stays /\ disk' = disk /\ cur' = cur /\ hist' = hist /\ man' = man
    BY <1>1, <2>1, WorkerStays, Zenon
  <2>3. /\ up' = "up" /\ made' = made /\ assured' = assured /\ (~fenced' => ~fenced)
        /\ (grp' \/ unsynced' => grp \/ unsynced) /\ unsynced' \in BOOLEAN /\ grp' \in BOOLEAN
    BY <2>2, Zenon DEF Stays
  <2>4. /\ DOMAIN wal' = DOMAIN wal /\ \A id \in DOMAIN wal : id # b => wal'[id] = wal[id]
        /\ wal'[b] = Synced([Empty EXCEPT !.recs = t])
    BY <1>3, <1>6, Zenon
  <2> HIDE DEF t, b
  <2>5. wal'[b] \in FileType /\ wal'[b].recs = t /\ wal'[b].synced = Len(wal'[b].recs) /\ ~wal'[b].torn
    BY <1>5, <2>4, CopyFile, Zenon
  <2>6. FileMap(wal')
    <3>1. wal'[b].synced <= Len(wal'[b].recs)
      BY <2>5 DEF FileType
    <3>2. QED
      BY <1>2, <2>4, <2>5, <3>1, Zenon DEF FileMap
  <2>7. Copied(wal, wal', job)
    BY <1>2, <2>4, <2>5, Zenon DEF Copied, b, t
  <2>8. ASSUME NEW d \in disk
        PROVE  /\ Anchors(wal', d, cur, hist)
               /\ ReplayTo(wal', d.seg, d.wal, job.wal) = SubSeq(hist, 1, Reach(wal, job))
    <3>1. d \in ManType /\ Rotated(wal, d, job, hist)
      BY <1>3, Zenon
    <3>2. QED
      BY <1>2, <1>3, <2>6, <2>7, <3>1, CopyKeeps, Zenon
  <2>9. Chain'
    <3>1. Chain
      BY <1>1, UpFacts, Zenon
    <3>2. QED
      BY <2>2, <2>3, <2>8, <3>1, Zenon DEF Chain
  <2>10. Files(wal', cur')
    <3>1. ASSUME NEW id \in DOMAIN wal
          PROVE  /\ Scans(wal'[id]) /\ (id > cur => wal'[id].recs = <<>>)
                 /\ (id <= cur => ~wal'[id].torn)
      <4>1. CASE id # b
        BY <1>2, <2>4, <4>1, Zenon DEF Files
      <4>2. CASE id = b
        <5>1. ~(b > cur)
          BY <1>3 DEF b
        <5>2. Scans(wal'[b])
          BY <1>5, <2>5, Zenon DEF Scans
        <5>3. QED
          BY <2>5, <4>2, <5>1, <5>2, Zenon
      <4>3. QED
        BY <4>1, <4>2, Zenon
    <3>2. QED
      BY <2>2, <2>4, <3>1, Zenon DEF Files
  <2>11. wal'[job.wal].recs = wal[job.wal].recs /\ wal'[cur].recs = wal[cur].recs
    <3>1. cur \in DOMAIN wal
      BY <1>1, UpFacts, Zenon
    <3>2. QED
      BY <1>3, <2>4, <3>1, Zenon
  <2>12. Swapped'
    <3>1. TailOf(wal', hist', job') /\ Reach(wal', job') = Reach(wal, job)
      BY <1>3, <2>1, <2>2, <2>11, Zenon DEF TailOf, Reach
    <3>2. \A d \in disk : d.wal <= job.wal
      BY <1>2, Zenon DEF Swapped
    <3>3. QED
      BY <1>3, <2>1, <2>2, <2>4, <2>8, <3>1, <3>2, Zenon DEF Swapped, b
  <2>13. wal'[job'.wal + 1].recs = SubSeq(wal'[job'.wal].recs, job'.cut + 1, Len(wal'[job'.wal].recs))
    BY <2>1, <2>5, <2>11, ZenonT(30) DEF b, t, CutTail
  <2>14. JobOK'
    BY <2>1, <2>12, <2>13 DEF JobOK
  <2>15. Types'
    BY <1>1, <2>1, <2>2, <2>3, <2>6, UpFacts, ZenonT(30) DEF Types
  <2>16. Covered(wal', assured')
    <3>1. ASSUME NEW id \in DOMAIN wal'
          PROVE  \/ wal'[id].synced >= Len(wal'[id].recs)
                 \/ /\ id \in DOMAIN wal /\ wal'[id].recs = wal[id].recs
                    /\ wal'[id].synced >= wal[id].synced
                    /\ \A later \in DOMAIN wal : id < later /\ wal[later].recs # <<>> =>
                          later \in DOMAIN wal' /\ wal'[later].recs # <<>>
      <4>1. CASE id = b
        <5>1. Len(wal'[b].recs) >= Len(wal'[b].recs)
          BY <1>5, <2>5
        <5>2. QED
          BY <2>5, <4>1, <5>1, Zenon
      <4>2. CASE id # b
        <5>1. wal[id].synced >= wal[id].synced
          BY <1>2, <2>4 DEF FileMap, FileType
        <5>2. QED
          BY <1>2, <2>4, <4>2, <5>1, Zenon
      <4>3. QED
        BY <4>1, <4>2, Zenon
    <3>2. assured <= assured
      <4>1. assured \in Nat
        BY <1>2, Zenon
      <4>2. QED
        BY <4>1
    <3>3. Covered(wal', assured)
      BY <1>2, <2>6, <3>1, <3>2, CoveredKeep, Zenon
    <3>4. QED
      BY <2>3, <3>3, Zenon
  <2>17. grp' \/ unsynced' => wal'[cur'].recs # <<>>
    BY <1>2, <2>2, <2>3, <2>11, Zenon
  <2>18. QED
    BY <2>3, <2>9, <2>10, <2>14, <2>15, <2>16, <2>17, InvIntro, Zenon
<1>7. QED
  BY <1>1, <1>4, <1>6, AbandonStep, Zenon

(* The last publication: the segments hold what the frozen chain replayed  *)
(* up to the cut, and the bridge the rest.                                 *)
LEMMA PublishFinalStep == ASSUME Inv, PublishFinal PROVE Inv'
<1> DEFINE m == [seg |-> SubSeq(hist, 1, job.ver), wal |-> job.wal + 1, req |-> job.wal + 2]
<1>1. /\ up = "up" /\ up' = up /\ job.pc = "final" /\ wal' = wal /\ cur' = cur /\ unsynced' = unsynced
      /\ grp' = grp /\ hist' = hist /\ made' = made /\ assured' = assured
  BY Zenon DEF PublishFinal, commits
<1>2. /\ Swapped /\ wal[job.wal + 1].recs = CutTail(wal, job) /\ FileMap(wal) /\ hist \in Seq(Nat)
      /\ Files(wal, cur) /\ Covered(wal, assured) /\ Types /\ Chain /\ man \in disk
      /\ (grp \/ unsynced) => wal[cur].recs # <<>>
  BY <1>1, UpFacts DEF JobOK, CutTail
<1>3. /\ job \in JobType /\ job.wal \in Nat /\ cur = job.wal + 2 /\ cur \in Nat
      /\ TailOf(wal, hist, job) /\ Reach(wal, job) <= Len(hist) /\ job.wal \in DOMAIN wal
      /\ man \in ManType /\ Rotated(wal, man, job, hist)
  BY <1>1, <1>2, SwappedFacts, Zenon
<1>4. m.seg = SubSeq(hist, 1, job.ver) /\ m.wal = job.wal + 1 /\ m.req = job.wal + 2
  BY Zenon
<1>5. m \in ManType
  <2>1. SubSeq(hist, 1, job.ver) \in Seq(Nat)
    BY <1>2, <1>3, TailFacts, Zenon
  <2>2. job.wal \in Nat
    BY <1>3, Zenon
  <2>3. job.wal + 1 \in Nat \ {0} /\ job.wal + 2 \in Nat \ {0}
    BY <2>2
  <2>4. QED
    BY <2>1, <2>3, Zenon DEF ManType
<1>6. \/ man' = m /\ disk' = {m} /\ fenced' = fenced /\ job' = [job EXCEPT !.pc = "clean"]
      \/ man' = man /\ disk' = disk /\ fenced' = fenced /\ job' = NoJob
      \/ man' = m /\ disk' = disk \cup {m} /\ fenced' = TRUE /\ job' = NoJob
  BY Zenon DEF PublishFinal, Published, PublishFailed, PublishSyncFailed
<1> HIDE DEF m
<1>7. Anchors(wal, m, cur, hist) /\ cur <= m.req
  <2>1. Anchors(wal, m, job.wal + 2, hist)
    BY <1>2, <1>3, <1>4, <1>5, FinalAnchors, Zenon
  <2>2. cur <= cur
    BY <1>3
  <2>3. QED
    BY <1>3, <1>4, <2>1, <2>2, Zenon
<1>8. ASSUME man' = m, disk' = {m} \/ disk' = disk \cup {m}, fenced' = fenced \/ fenced' = TRUE,
             disk' = {m} \/ fenced' = TRUE, job' \in JobType, JobOK'
      PROVE  Inv'
  <2>1. Chain'
    BY <1>1, <1>2, <1>7, <1>8, Zenon DEF Chain
  <2>2. Types'
    <3>1. disk' \subseteq ManType /\ man' \in disk'
      BY <1>2, <1>5, <1>8, Zenon DEF Types
    <3>2. QED
      BY <1>1, <1>2, <1>8, <3>1, Zenon DEF Types
  <2>3. QED
    BY <1>1, <1>2, <1>8, <2>1, <2>2, InvIntro, Zenon
<1>9. ASSUME man' = m, disk' = {m}, fenced' = fenced, job' = [job EXCEPT !.pc = "clean"]
      PROVE  Inv'
  <2>1. /\ job' \in JobType /\ job'.pc = "clean" /\ job'.wal = job.wal
    <3>1. "clean" \in Phases
      BY DEF Phases
    <3>2. job \in JobType /\ job' = [job EXCEPT !.pc = "clean"]
      BY <1>3, <1>9, Zenon
    <3>3. QED
      BY <3>1, <3>2, JobMove
  <2>2. disk' = {man'} /\ man'.wal = job'.wal + 1
    BY <1>4, <1>9, <2>1, Zenon
  <2>3. JobOK'
    BY <2>1, <2>2 DEF JobOK
  <2>4. QED
    BY <1>8, <1>9, <2>1, <2>3, Zenon
<1>10. ASSUME man' = man, disk' = disk, fenced' = fenced, job' = NoJob PROVE Inv'
  <2>1. job' \in JobType /\ JobOK'
    BY <1>10, NoJobOK, Zenon
  <2>2. Stays
    BY <1>1, <1>2, <1>10, <2>1, Zenon DEF Stays, Types
  <2>3. QED
    BY <1>1, <2>1, <2>2, SameStep, Zenon
<1>11. ASSUME man' = m, disk' = disk \cup {m}, fenced' = TRUE, job' = NoJob PROVE Inv'
  BY <1>8, <1>11, NoJobOK, Zenon
<1>12. QED
  BY <1>6, <1>9, <1>10, <1>11, Zenon

(* The files before the anchor go; every manifest starts at that anchor. *)
LEMMA CleanupStep == ASSUME Inv, Cleanup PROVE Inv'
<1>1. /\ up = "up" /\ job.pc = "clean" /\ wal' = Drop(wal, 1..(job.wal)) /\ job' = NoJob
      /\ UNCHANGED <<commits, man, disk, handle>>
  BY Zenon DEF Cleanup
<1>2. /\ disk = {man} /\ man.wal = job.wal + 1 /\ job \in JobType /\ FileMap(wal)
      /\ cur \in Nat /\ man \in ManType /\ man.wal <= cur
      /\ man.wal..cur \subseteq DOMAIN wal /\ cur..(man.req) \subseteq DOMAIN wal
  BY <1>1, UpFacts DEF JobOK
<1>3. job' \in JobType /\ JobOK'
  BY <1>1, NoJobOK, Zenon
<1>4. Stays /\ disk' = disk
  BY <1>1, <1>3, WorkerStays, Zenon
<1>5. Lacks(wal, 1..(job.wal), wal')
  BY <1>1, <1>2, DropFacts, Zenon
<1>6. /\ FileMap(wal') /\ DOMAIN wal' = DOMAIN wal \ 1..(job.wal)
      /\ \A i \in DOMAIN wal' : wal'[i] = wal[i]
  BY <1>5, Zenon DEF Lacks
<1>7. job.wal \in Nat /\ man.req \in Int
  BY <1>2, ManFields, Zenon DEF JobType
<1>8. \A id \in Id : id \in Nat /\ (id \notin 1..(job.wal) => id > job.wal)
  BY <1>7 DEF Id
<1>9. \A id \in man.wal..cur : id \notin 1..(job.wal)
  BY <1>2, <1>7
<1>10. \A id \in cur..(man.req) : id \notin 1..(job.wal)
  BY <1>2, <1>7
<1>11. \A id, later \in Nat : id > job.wal /\ id < later => later \notin 1..(job.wal)
  BY <1>7
<1>12. Reshaped(wal, wal', cur, disk')
  <2>1. ASSUME NEW id \in DOMAIN wal', NEW later \in DOMAIN wal, id < later
        PROVE  later \in DOMAIN wal'
    BY <1>2, <1>6, <1>8, <1>11, <2>1, Zenon DEF FileMap
  <2>2. QED
    BY <1>2, <1>4, <1>6, <1>9, <1>10, <2>1, Zenon DEF Reshaped
<1>13. QED
  BY <1>3, <1>4, <1>6, <1>12, FileStep, Zenon
=============================================================================
