------------------------- MODULE ConstraintsProofs --------------------------
(***************************************************************************)
(* Proofs about Constraints for any rows, keys, clients and batches: keys  *)
(* stay unique and references are kept.                                    *)
(*                                                                         *)
(* Both properties are inductive once they are stated of the latest        *)
(* version, which is the version readers see; the snapshots of the         *)
(* transactions, however old, play no part, because the validation reads   *)
(* the latest rows under the commit mutex.                                 *)
(***************************************************************************)
EXTENDS Constraints, WellFoundedInduction, TLAPS

-----------------------------------------------------------------------------
(* Induction over the naturals and over an interval.                       *)

(* A non-empty set of naturals has a least element. *)
LEMMA LeastNatural ==
    ASSUME NEW T \in SUBSET Nat, T # {}
    PROVE  \E m \in T : \A k \in T : m <= k
<1>1. PICK m \in T : \A k \in T : ~(<<k, m>> \in OpToRel(<, Nat))
  BY NatLessThanWellFounded, WFMin, Zenon
<1>2. \A k \in T : ~(k < m)
  BY <1>1, Zenon DEF OpToRel
<1>3. QED
  BY <1>2

(* Induction over an interval. *)
LEMMA IntervalInduction ==
    ASSUME NEW lo \in Int, NEW hi \in Int, NEW S,
           lo \in S,
           \A i \in lo..hi : i # lo /\ i - 1 \in S => i \in S
    PROVE  lo..hi \subseteq S
<1> DEFINE Out == {n \in Nat : lo + n \in lo..hi /\ lo + n \notin S}
<1>1. SUFFICES ASSUME Out # {} PROVE FALSE
  <2>1. ASSUME NEW i \in lo..hi, i \notin S PROVE i - lo \in Out
    <3>1. i - lo \in Nat /\ lo + (i - lo) = i
      OBVIOUS
    <3>2. QED
      BY <2>1, <3>1, Zenon
  <2>2. QED
    BY <2>1, Zenon
<1>2. PICK n \in Out : \A k \in Out : n <= k
  <2>1. Out \in SUBSET Nat
    BY Zenon
  <2> HIDE DEF Out
  <2>2. QED
    BY <1>1, <2>1, LeastNatural, Zenon
<1>3. n # 0
  BY <1>2
<1>4. /\ n - 1 \in Nat /\ n - 1 < n /\ lo + (n - 1) = (lo + n) - 1
      /\ lo + n \in lo..hi /\ lo + n # lo
  BY <1>2, <1>3
<1>5. n - 1 \notin Out
  BY <1>2, <1>4
<1>6. (lo + n) - 1 \in S
  BY <1>4, <1>5
<1>7. QED
  BY <1>2, <1>4, <1>6, Zenon

(* A non-empty set of naturals with a bound has a greatest element, which  *)
(* is what Max returns.                                                    *)
LEMMA MaxFacts ==
    ASSUME NEW n \in Nat, NEW S \in SUBSET (0..n), S # {}
    PROVE  Max(S) \in S /\ \A y \in S : Max(S) >= y
<1> DEFINE Gaps == {d \in Nat : \E x \in S : d = n - x}
<1>1. PICK x \in S : TRUE
  BY Zenon
<1>2. n - x \in Gaps
  BY <1>1
<1>3. PICK d \in Gaps : \A e \in Gaps : d <= e
  <2>1. Gaps \in SUBSET Nat /\ Gaps # {}
    BY <1>2, Zenon
  <2> HIDE DEF Gaps
  <2>2. QED
    BY <2>1, LeastNatural, Zenon
<1>4. PICK m \in S : d = n - m
  BY <1>3, Zenon
<1>5. ASSUME NEW y \in S PROVE m >= y
  <2>1. n - y \in Gaps
    OBVIOUS
  <2>2. n - m <= n - y
    BY <1>3, <1>4, <2>1, Zenon
  <2>3. QED
    BY <2>2
<1>6. QED
  BY <1>5, Zenon DEF Max

-----------------------------------------------------------------------------
(* Recursive functions over an interval: the value at i comes from the     *)
(* value at i - 1 by the function G[i], which stays in V.                  *)

Closed(G, V, lo, hi) ==
    \A i \in lo..hi, v \in V : i # lo => G[i][v] \in V

Recursive(f, c, G, lo, hi) ==
    f = [i \in lo..hi |-> IF i = lo THEN c ELSE G[i][f[i - 1]]]

(* Such a function exists. *)
LEMMA Recursion ==
    ASSUME NEW lo \in Int, NEW hi \in Int, lo <= hi, NEW V, NEW c \in V, NEW G,
           Closed(G, V, lo, hi)
    PROVE  \E f \in [lo..hi -> V] : Recursive(f, c, G, lo, hi)
<1> DEFINE Steps(f, n) == f[lo] = c /\ \A i \in lo..n : i # lo => f[i] = G[i][f[i - 1]]
           S == {n \in lo..hi : \E f \in [lo..n -> V] : Steps(f, n)}
<1>1. lo \in S
  <2> DEFINE f == [i \in lo..lo |-> c]
  <2>1. f \in [lo..lo -> V] /\ f[lo] = c
    OBVIOUS
  <2>2. \A i \in lo..lo : i = lo
    OBVIOUS
  <2> HIDE DEF f
  <2>3. Steps(f, lo)
    BY <2>1, <2>2, Zenon
  <2> HIDE DEF Steps
  <2>4. QED
    BY <2>1, <2>3
<1>2. ASSUME NEW n \in lo..hi, n # lo, n - 1 \in S PROVE n \in S
  <2>1. PICK f \in [lo..(n - 1) -> V] : Steps(f, n - 1)
    BY <1>2, Zenon
  <2> DEFINE g == [i \in lo..n |-> IF i = n THEN G[n][f[n - 1]] ELSE f[i]]
  <2>2. n - 1 \in lo..(n - 1)
    BY <1>2
  <2>3. G[n][f[n - 1]] \in V
    BY <1>2, <2>2, Zenon DEF Closed
  <2>4. g \in [lo..n -> V]
    BY <1>2, <2>3
  <2>5. g[lo] = c
    BY <1>2, <2>1
  <2>6. ASSUME NEW i \in lo..n, i # lo PROVE g[i] = G[i][g[i - 1]]
    <3>1. i - 1 \in lo..(n - 1) /\ g[i - 1] = f[i - 1]
      BY <1>2, <2>6
    <3>2. CASE i = n
      BY <3>1, <3>2, Zenon
    <3>3. CASE i # n
      BY <2>1, <2>6, <3>1, <3>3
    <3>4. QED
      BY <3>2, <3>3, Zenon
  <2> HIDE DEF g
  <2>7. Steps(g, n)
    BY <2>5, <2>6, Zenon
  <2> HIDE DEF Steps
  <2>8. QED
    BY <2>4, <2>7, Zenon
<1> HIDE DEF S
<1>3. lo..hi \subseteq S
  BY <1>1, <1>2, IntervalInduction, Zenon
<1>4. PICK f \in [lo..hi -> V] : Steps(f, hi)
  BY <1>3 DEF S
<1>5. Recursive(f, c, G, lo, hi)
  BY <1>4, Zenon DEF Recursive
<1>6. QED
  BY <1>5, Zenon

-----------------------------------------------------------------------------
(* The rows after a sequence of commits.                                   *)

\* What a transaction may write.
Writes == UNION {[D -> Int] : D \in SUBSET Rows}

\* The row after the commits of s.
ChangedIn(s, row) == {i \in 1..Len(s) : row \in DOMAIN s[i]}
RowIn(s, row) ==
    IF Max({0} \cup ChangedIn(s, row)) = 0 THEN Missing
    ELSE s[Max({0} \cup ChangedIn(s, row))][row]

\* The last commit that writes a row decides it.
LEMMA RowInLast ==
    ASSUME NEW s \in Seq(Writes), NEW row, NEW m \in ChangedIn(s, row),
           \A i \in ChangedIn(s, row) : i <= m
    PROVE  RowIn(s, row) = s[m][row]
<1> DEFINE S == {0} \cup ChangedIn(s, row)
<1>1. Len(s) \in Nat /\ S \in SUBSET (0..Len(s)) /\ S # {} /\ m \in S /\ m # 0
  BY DEF ChangedIn
<1>2. \A i \in S : i <= m
  BY <1>1
<1> HIDE DEF S
<1>3. Max(S) \in S /\ Max(S) >= m
  BY <1>1, MaxFacts, Zenon
<1>4. Max(S) = m
  <2> DEFINE x == Max(S)
  <2>1. x \in S /\ x >= m /\ x <= m
    BY <1>2, <1>3, Zenon
  <2> HIDE DEF x
  <2>2. x = m
    BY <1>1, <2>1, SMTT(20)
  <2>3. QED
    BY <2>2 DEF x
<1>5. QED
  BY <1>1, <1>4, Zenon DEF RowIn, S

\* A row no later commit writes stays as it was.
LEMMA RowInSame ==
    ASSUME NEW s \in Seq(Writes), NEW g \in Seq(Writes), NEW row, ChangedIn(g, row) = {}
    PROVE  RowIn(s \o g, row) = RowIn(s, row)
<1> DEFINE h == s \o g
<1>1. /\ Len(s) \in Nat /\ Len(g) \in Nat /\ Len(h) = Len(s) + Len(g)
      /\ \A i \in 1..Len(s) : h[i] = s[i]
      /\ \A i \in 1..Len(g) : h[Len(s) + i] = g[i]
  OBVIOUS
<1> HIDE DEF h
<1>2. ASSUME NEW i \in ChangedIn(h, row) PROVE i \in ChangedIn(s, row)
  <2>1. i \in 1..Len(h) /\ row \in DOMAIN h[i]
    BY Zenon DEF ChangedIn
  <2>2. CASE i \in 1..Len(s)
    BY <1>1, <2>1, <2>2, Zenon DEF ChangedIn
  <2>3. CASE i \notin 1..Len(s)
    <3>1. i - Len(s) \in 1..Len(g) /\ Len(s) + (i - Len(s)) = i
      BY <1>1, <2>1, <2>3
    <3>2. i - Len(s) \in ChangedIn(g, row)
      BY <1>1, <2>1, <3>1, Zenon DEF ChangedIn
    <3>3. QED
      BY <3>2, Zenon
  <2>4. QED
    BY <2>2, <2>3, Zenon
<1>3. ASSUME NEW i \in ChangedIn(s, row) PROVE i \in ChangedIn(h, row)
  <2>1. i \in 1..Len(s) /\ row \in DOMAIN s[i]
    BY Zenon DEF ChangedIn
  <2>2. i \in 1..Len(h)
    BY <1>1, <2>1
  <2>3. QED
    BY <1>1, <2>1, <2>2, Zenon DEF ChangedIn
<1>4. ChangedIn(h, row) = ChangedIn(s, row)
  BY <1>2, <1>3, Zenon
<1>5. CASE ChangedIn(s, row) = {}
  <2>1. Max({0} \cup {}) = 0
    BY DEF Max
  <2>2. QED
    BY <1>4, <1>5, <2>1, Zenon DEF RowIn, h
<1>6. CASE ChangedIn(s, row) # {}
  <2> DEFINE S == {0} \cup ChangedIn(s, row)
  <2>1. S \in SUBSET (0..Len(s)) /\ S # {} /\ Len(s) \in Nat
    BY <1>1 DEF ChangedIn
  <2>2. Max(S) \in S
    <3> HIDE DEF S
    <3>1. QED
      BY <2>1, MaxFacts, Zenon
  <2>3. Max(S) # 0 => h[Max(S)] = s[Max(S)]
    BY <1>1, <2>2, Zenon DEF ChangedIn
  <2> HIDE DEF S
  <2>4. QED
    BY <1>4, <2>3, Zenon DEF RowIn, S, h
<1>7. QED
  BY <1>5, <1>6, Zenon

\* A row later commits write has a value one of them writes.
LEMMA RowInNew ==
    ASSUME NEW s \in Seq(Writes), NEW g \in Seq(Writes), NEW row, ChangedIn(g, row) # {}
    PROVE  \E i \in ChangedIn(g, row) : RowIn(s \o g, row) = g[i][row]
<1> DEFINE h == s \o g
           C == ChangedIn(g, row)
<1>1. /\ Len(s) \in Nat /\ Len(g) \in Nat /\ Len(h) = Len(s) + Len(g)
      /\ h \in Seq(Writes)
      /\ \A i \in 1..Len(s) : h[i] = s[i]
      /\ \A i \in 1..Len(g) : h[Len(s) + i] = g[i]
  OBVIOUS
<1> HIDE DEF h
<1>2. C \in SUBSET (0..Len(g)) /\ \A i \in C : i \in 1..Len(g) /\ row \in DOMAIN g[i]
  BY <1>1 DEF ChangedIn
<1> HIDE DEF C
<1>3. Max(C) \in C /\ \A i \in C : Max(C) >= i
  BY <1>1, <1>2, MaxFacts, Zenon DEF C
<1> DEFINE m == Max(C)
<1>4. m \in 1..Len(g) /\ row \in DOMAIN g[m] /\ h[Len(s) + m] = g[m]
  BY <1>1, <1>2, <1>3, Zenon
<1> HIDE DEF m
<1>5. Len(s) + m \in ChangedIn(h, row)
  <2>1. Len(s) + m \in 1..Len(h)
    BY <1>1, <1>4
  <2>2. QED
    BY <1>4, <2>1, Zenon DEF ChangedIn
<1>6. ASSUME NEW i \in ChangedIn(h, row) PROVE i <= Len(s) + m
  <2>1. i \in 1..Len(h) /\ row \in DOMAIN h[i]
    BY Zenon DEF ChangedIn
  <2>2. CASE i <= Len(s)
    BY <1>1, <1>4, <2>1, <2>2
  <2>3. CASE i > Len(s)
    <3>1. i - Len(s) \in 1..Len(g) /\ Len(s) + (i - Len(s)) = i
      BY <1>1, <2>1, <2>3
    <3>2. i - Len(s) \in C
      BY <1>1, <2>1, <3>1, Zenon DEF ChangedIn, C
    <3>3. m >= i - Len(s)
      BY <1>3, <3>2, Zenon DEF m
    <3>4. QED
      BY <1>1, <1>4, <2>1, <3>3
  <2>4. QED
    BY <1>1, <2>1, <2>2, <2>3
<1>7. RowIn(h, row) = h[Len(s) + m][row]
  BY <1>1, <1>5, <1>6, RowInLast, Zenon
<1>8. QED
  BY <1>3, <1>4, <1>7, Zenon DEF h, m, C

-----------------------------------------------------------------------------
(* A validated group.                                                      *)

\* The parts of a transaction the validation reads.
TxnOK(t) ==
    DOMAIN t = {"phase", "snap", "staged", "removed", "result"} /\ t.staged \in Writes

\* Every version is a set of writes, and readers see the last one.
TypeInv ==
    /\ commits \in Seq(Writes)
    /\ published = Len(commits)
    /\ DOMAIN txn = Clients
    /\ \A c \in Clients : TxnOK(txn[c])

\* The two properties, of the rows after the commits of s.
UniqueIn(s) ==
    \A p, q \in Parents :
        /\ Live(RowIn(s, <<"parents", p>>))
        /\ RowIn(s, <<"parents", p>>) = RowIn(s, <<"parents", q>>)
        => p = q

ForeignIn(s) ==
    \A c \in Children :
        RowIn(s, <<"children", c>>) \in KeyValues =>
            \E p \in Parents : RowIn(s, <<"parents", p>>) = RowIn(s, <<"children", c>>)

\* What a group commits.
Staged(group) == [i \in DOMAIN group |-> txn[group[i]].staged]

\* The commits of a group are its members' writes.
LEMMA StagedFacts ==
    ASSUME TypeInv, NEW group \in Seq(Clients)
    PROVE  /\ Staged(group) \in Seq(Writes) /\ Len(Staged(group)) = Len(group)
           /\ \A i \in 1..Len(group) : Staged(group)[i] = txn[group[i]].staged
<1>1. DOMAIN group = 1..Len(group) /\ Len(group) \in Nat /\ \A i \in 1..Len(group) : group[i] \in Clients
  OBVIOUS
<1>2. \A i \in 1..Len(group) : txn[group[i]].staged \in Writes
  BY <1>1, Zenon DEF TypeInv, TxnOK
<1> DEFINE g == [i \in 1..Len(group) |-> txn[group[i]].staged]
<1>3. g \in [1..Len(group) -> Writes]
  BY <1>2, Zenon
<1>4. \A i \in 1..Len(group) : g[i] = txn[group[i]].staged
  BY Zenon
<1>5. Staged(group) = g
  BY <1>1, Zenon DEF Staged
<1> HIDE DEF g
<1>6. g \in Seq(Writes) /\ Len(g) = Len(group)
  BY <1>1, <1>3
<1>7. QED
  BY <1>4, <1>5, <1>6, Zenon

\* The writes of a group, by member and row.
LEMMA WrittenFacts ==
    ASSUME TypeInv, NEW group \in Seq(Clients)
    PROVE  /\ \A row : \A i \in ChangedIn(Staged(group), row) :
                 /\ i \in DOMAIN group /\ row \in DOMAIN txn[group[i]].staged
                 /\ <<i, row>> \in AllWrites(group)
                 /\ Staged(group)[i][row] = txn[group[i]].staged[row]
           /\ \A w \in AllWrites(group) : w[1] \in ChangedIn(Staged(group), w[2])
<1>1. DOMAIN group = 1..Len(group)
  OBVIOUS
<1>2. ASSUME NEW row, NEW i \in ChangedIn(Staged(group), row)
      PROVE  /\ i \in DOMAIN group /\ row \in DOMAIN txn[group[i]].staged
             /\ <<i, row>> \in AllWrites(group)
             /\ Staged(group)[i][row] = txn[group[i]].staged[row]
  <2>1. i \in DOMAIN group /\ Staged(group)[i] = txn[group[i]].staged
    BY <1>1, StagedFacts, Zenon DEF ChangedIn
  <2>2. row \in DOMAIN txn[group[i]].staged
    BY <2>1, Zenon DEF ChangedIn
  <2>3. <<i, row>> \in {i} \X DOMAIN txn[group[i]].staged
    BY <2>2
  <2>4. <<i, row>> \in AllWrites(group)
    BY <2>1, <2>3, Zenon DEF AllWrites
  <2>5. QED
    BY <2>1, <2>2, <2>4, Zenon
<1>3. ASSUME NEW w \in AllWrites(group) PROVE w[1] \in ChangedIn(Staged(group), w[2])
  <2>1. PICK i \in DOMAIN group : w \in {i} \X DOMAIN txn[group[i]].staged
    BY Zenon DEF AllWrites
  <2>2. w[1] = i /\ w[2] \in DOMAIN txn[group[i]].staged
    BY <2>1
  <2>3. QED
    BY <1>1, <2>1, <2>2, StagedFacts, Zenon DEF ChangedIn
<1>4. QED
  BY <1>2, <1>3, Zenon

\* A validated group keeps keys unique: a key two rows end up with is staged
\* twice, or staged for one and still held by the other, or was held twice.
LEMMA UniqueStep ==
    ASSUME TypeInv, UniqueIn(commits), NEW group \in Seq(Clients), validate_unique(group)
    PROVE  UniqueIn(commits \o Staged(group))
<1> DEFINE g == Staged(group)
           h == commits \o g
           Row(p) == <<"parents", p>>
<1>1. g \in Seq(Writes) /\ commits \in Seq(Writes)
  BY StagedFacts, Zenon DEF TypeInv
<1>2. \A row : Current(row) = RowIn(commits, row)
  BY Zenon DEF Current, RowAt, LatestVersion, ChangedBy, RowIn, ChangedIn
<1>3. ASSUME NEW p \in Parents, NEW i \in ChangedIn(g, Row(p)), Live(g[i][Row(p)])
      PROVE  /\ \A q \in Parents : \A j \in ChangedIn(g, Row(q)) :
                    g[j][Row(q)] = g[i][Row(p)] => q = p
             /\ \A q \in Parents : Current(Row(q)) = g[i][Row(p)] =>
                    q = p \/ ChangedIn(g, Row(q)) # {}
  <2> DEFINE v == txn[group[i]].staged[Row(p)]
             w == <<i, Row(p)>>
  <2>1. w \in AllWrites(group) /\ g[i][Row(p)] = v /\ Live(v)
    BY <1>3, WrittenFacts, Zenon
  <2>2. w[1] = i /\ w[2] = Row(p) /\ w[2][1] = "parents"
    OBVIOUS
  <2>3. /\ \A x \in AllWrites(group) :
              x[2][1] = "parents" /\ txn[group[x[1]]].staged[x[2]] = v => x[2] = Row(p)
        /\ \A row \in Rows : row[1] = "parents" /\ Current(row) = v =>
              row = Row(p) \/ \E x \in AllWrites(group) : x[2] = row
    <3> HIDE DEF w
    <3>1. txn[group[w[1]]].staged[w[2]] = v
      BY <2>2, Zenon
    <3> HIDE DEF v, Row
    <3>2. QED
      BY <2>1, <2>2, <3>1, Zenon DEF validate_unique
  <2> HIDE DEF v, w
  <2>4. ASSUME NEW q \in Parents, NEW j \in ChangedIn(g, Row(q)), g[j][Row(q)] = v
        PROVE  q = p
    <3> DEFINE x == <<j, Row(q)>>
    <3>1. x \in AllWrites(group) /\ txn[group[j]].staged[Row(q)] = v
      BY <2>4, WrittenFacts, Zenon
    <3>2. x[1] = j /\ x[2] = Row(q) /\ x[2][1] = "parents"
      OBVIOUS
    <3> HIDE DEF x
    <3>3. Row(q) = Row(p)
      BY <2>3, <3>1, <3>2, Zenon
    <3>4. QED
      BY <3>3
  <2>5. ASSUME NEW q \in Parents, Current(Row(q)) = v
        PROVE  q = p \/ ChangedIn(g, Row(q)) # {}
    <3>1. Row(q) \in Rows /\ Row(q)[1] = "parents"
      BY DEF Rows
    <3>2. Row(q) = Row(p) \/ \E x \in AllWrites(group) : x[2] = Row(q)
      BY <2>3, <2>5, <3>1, Zenon
    <3>3. Row(q) = Row(p) => q = p
      OBVIOUS
    <3>4. ASSUME NEW x \in AllWrites(group), x[2] = Row(q) PROVE ChangedIn(g, Row(q)) # {}
      BY <3>4, WrittenFacts, Zenon
    <3>5. QED
      BY <3>2, <3>3, <3>4, Zenon
  <2>6. QED
    BY <2>1, <2>4, <2>5, Zenon
<1>4. SUFFICES ASSUME NEW p \in Parents, NEW q \in Parents, Live(RowIn(h, Row(p))),
                      RowIn(h, Row(p)) = RowIn(h, Row(q))
               PROVE  p = q
  BY Zenon DEF UniqueIn
<1>5. /\ \A r \in Parents : ChangedIn(g, Row(r)) = {} => RowIn(h, Row(r)) = Current(Row(r))
      /\ \A r \in Parents : ChangedIn(g, Row(r)) # {} =>
            \E i \in ChangedIn(g, Row(r)) : RowIn(h, Row(r)) = g[i][Row(r)]
  <2> HIDE DEF g
  <2>1. QED
    BY <1>1, <1>2, RowInSame, RowInNew, Zenon
<1> HIDE DEF g, h, Row
<1>6. CASE ChangedIn(g, Row(p)) # {}
  <2>1. PICK i \in ChangedIn(g, Row(p)) : RowIn(h, Row(p)) = g[i][Row(p)]
    BY <1>5, <1>6, Zenon
  <2>2. Live(g[i][Row(p)]) /\ RowIn(h, Row(q)) = g[i][Row(p)]
    BY <1>4, <2>1, Zenon
  <2>3. CASE ChangedIn(g, Row(q)) = {}
    BY <1>3, <1>5, <2>2, <2>3, Zenon
  <2>4. CASE ChangedIn(g, Row(q)) # {}
    BY <1>3, <1>5, <2>2, <2>4, Zenon
  <2>5. QED
    BY <2>3, <2>4, Zenon
<1>7. CASE ChangedIn(g, Row(q)) # {}
  <2>1. PICK i \in ChangedIn(g, Row(q)) : RowIn(h, Row(q)) = g[i][Row(q)]
    BY <1>5, <1>7, Zenon
  <2>2. Live(g[i][Row(q)]) /\ RowIn(h, Row(p)) = g[i][Row(q)]
    BY <1>4, <2>1, Zenon
  <2>3. CASE ChangedIn(g, Row(p)) = {}
    BY <1>3, <1>5, <2>2, <2>3, Zenon
  <2>4. CASE ChangedIn(g, Row(p)) # {}
    BY <1>3, <1>5, <2>2, <2>4, Zenon
  <2>5. QED
    BY <2>3, <2>4, Zenon
<1>8. CASE ChangedIn(g, Row(p)) = {} /\ ChangedIn(g, Row(q)) = {}
  BY <1>2, <1>4, <1>5, <1>8, Zenon DEF UniqueIn, Row
<1>9. QED
  BY <1>6, <1>7, <1>8, Zenon

\* No two members of the group stage one table.
OneHolder(group) ==
    \A i, j \in DOMAIN group, t \in {"parents", "children"} :
        StagedTable(group[i], t) # {} /\ StagedTable(group[j], t) # {} => i = j

\* The least element of a set of naturals is what Min returns.
LEMMA MinFacts ==
    ASSUME NEW S \in SUBSET Nat, S # {}
    PROVE  Min(S) \in S /\ \A y \in S : Min(S) =< y
<1>1. \E m \in S : \A y \in S : m =< y
  BY LeastNatural, Zenon
<1>2. QED
  BY <1>1, Zenon DEF Min

\* Then the row the validation looks at is the row the commits leave.
LEMMA FinalRecord ==
    ASSUME TypeInv, NEW group \in Seq(Clients), OneHolder(group), NEW row \in Rows
    PROVE  final_record(group, row) = RowIn(commits \o Staged(group), row)
<1> DEFINE g == Staged(group)
           t == row[1]
           holders == {i \in DOMAIN group : StagedTable(group[i], t) # {}}
           first == group[Min(holders)]
           own == prepared_change(group, row)
<1>1. g \in Seq(Writes) /\ commits \in Seq(Writes) /\ t \in {"parents", "children"}
  BY StagedFacts, SMT DEF TypeInv, Rows
<1>2. holders \in SUBSET Nat /\ DOMAIN group = 1..Len(group)
  OBVIOUS
<1>3. own = IF holders = {} \/ row \notin DOMAIN txn[first].staged THEN 0 ELSE first
  BY Zenon DEF prepared_change
<1>4. final_record(group, row) = IF own = 0 THEN RowIn(commits, row) ELSE txn[own].staged[row]
  BY Zenon DEF final_record, Current, RowAt, LatestVersion, ChangedBy, RowIn, ChangedIn
<1>5. CASE ChangedIn(g, row) = {}
  <2>1. ASSUME holders # {} PROVE row \notin DOMAIN txn[first].staged
    <3>1. Min(holders) \in DOMAIN group
      <4>1. Min(holders) \in holders
        <5> HIDE DEF holders
        <5>1. QED
          BY <1>2, <2>1, MinFacts, Zenon
      <4>2. QED
        BY <4>1, Zenon
    <3>2. g[Min(holders)] = txn[first].staged /\ Min(holders) \in 1..Len(g)
      BY <1>2, <3>1, StagedFacts, Zenon
    <3> HIDE DEF holders
    <3>3. QED
      BY <1>5, <3>2, Zenon DEF ChangedIn
  <2>2. own = 0
    BY <1>3, <2>1, Zenon
  <2>3. RowIn(commits \o g, row) = RowIn(commits, row)
    BY <1>1, <1>5, RowInSame, Zenon
  <2>4. QED
    BY <1>4, <2>2, <2>3, Zenon
<1>6. CASE ChangedIn(g, row) # {}
  <2>1. PICK i \in ChangedIn(g, row) : RowIn(commits \o g, row) = g[i][row]
    BY <1>1, <1>6, RowInNew, Zenon
  <2>2. i \in DOMAIN group /\ row \in DOMAIN txn[group[i]].staged /\ g[i][row] = txn[group[i]].staged[row]
    BY <2>1, WrittenFacts, Zenon
  <2>3. StagedTable(group[i], t) # {}
    BY <2>2, Zenon DEF StagedTable
  <2>4. holders = {i}
    <3>1. ASSUME NEW j \in DOMAIN group, StagedTable(group[j], t) # {} PROVE j = i
      <4> HIDE DEF t
      <4>1. QED
        BY <1>1, <2>2, <2>3, <3>1, Zenon DEF OneHolder
    <3>2. QED
      BY <2>2, <2>3, <3>1, Zenon
  <2>5. Min(holders) = i
    <3>1. Min(holders) \in holders
      <4> HIDE DEF holders
      <4>1. holders # {}
        BY <2>4, Zenon
      <4>2. QED
        BY <1>2, <4>1, MinFacts, Zenon
    <3> HIDE DEF holders
    <3>2. QED
      BY <2>4, <3>1, Zenon
  <2>6. group[i] \in Clients
    BY <1>2, <2>2
  <2>7. own = group[i] /\ own # 0
    <3> HIDE DEF holders, own
    <3>1. QED
      BY <1>3, <2>2, <2>4, <2>5, <2>6, ConstraintsAssumption, Zenon
  <2>8. QED
    <3> HIDE DEF holders, own
    <3>1. QED
      BY <1>4, <2>1, <2>2, <2>7, Zenon
<1>7. QED
  BY <1>5, <1>6, Zenon

\* A validated group keeps every child's parent: a written child resolves in
\* the final view, and the parent of any other is kept, or its key is held by
\* another parent, or no child of it is left.
LEMMA ForeignStep ==
    ASSUME TypeInv, ForeignIn(commits), NEW group \in Seq(Clients),
           OneHolder(group), validate_foreign_keys(group)
    PROVE  ForeignIn(commits \o Staged(group))
<1> DEFINE g == Staged(group)
           h == commits \o g
<1>1. g \in Seq(Writes) /\ commits \in Seq(Writes)
  BY StagedFacts, Zenon DEF TypeInv
<1>2. \A row : Current(row) = RowIn(commits, row)
  BY Zenon DEF Current, RowAt, LatestVersion, ChangedBy, RowIn, ChangedIn
<1>3. \A row \in Rows : final_record(group, row) = RowIn(h, row)
  BY FinalRecord, Zenon
<1>4. /\ \A p \in Parents : <<"parents", p>> \in Rows /\ <<"parents", p>>[1] = "parents"
      /\ \A c \in Children : <<"children", c>> \in Rows /\ <<"children", c>>[1] = "children"
      /\ \A row \in Rows : row[1] = "parents" => \E p \in Parents : row = <<"parents", p>>
  BY DEF Rows
<1>5. ASSUME NEW v, final_ids_matching(group, "parents", v) # {}
      PROVE  \E p \in Parents : RowIn(h, <<"parents", p>>) = v
  BY <1>3, <1>4, <1>5, Zenon DEF final_ids_matching
<1>6. SUFFICES ASSUME NEW c \in Children, RowIn(h, <<"children", c>>) \in KeyValues
               PROVE  \E p \in Parents : RowIn(h, <<"parents", p>>) = RowIn(h, <<"children", c>>)
  BY Zenon DEF ForeignIn
<1> DEFINE child == <<"children", c>>
           k == RowIn(h, child)
<1>7. k \in KeyValues /\ k > NULL /\ Live(k)
  <2>1. \A x \in KeyValues : x > NULL /\ Live(x)
    BY ConstraintsAssumption DEF NULL, Live
  <2>2. QED
    BY <1>6, <2>1, Zenon
<1>8. CASE ChangedIn(g, child) # {}
  <2>1. PICK i \in ChangedIn(g, child) : k = g[i][child]
    BY <1>1, <1>8, RowInNew, Zenon
  <2> DEFINE w == <<i, child>>
  <2>2. w \in AllWrites(group) /\ k = txn[group[i]].staged[child]
    BY <2>1, WrittenFacts, Zenon
  <2>3. w[1] = i /\ w[2] = child /\ w[2][1] = "children"
    OBVIOUS
  <2> HIDE DEF w, child, k
  <2>4. final_ids_matching(group, "parents", k) # {}
    BY <1>7, <2>2, <2>3, Zenon DEF validate_foreign_keys, ChildrenResolve
  <2>5. QED
    BY <1>5, <2>4, Zenon DEF k, child
<1>9. CASE ChangedIn(g, child) = {}
  <2>1. RowIn(commits, child) = k
    BY <1>1, <1>9, RowInSame, Zenon
  <2>2. PICK p \in Parents : RowIn(commits, <<"parents", p>>) = k
    BY <1>7, <2>1, Zenon DEF ForeignIn
  <2> DEFINE parent == <<"parents", p>>
  <2>3. CASE ChangedIn(g, parent) = {}
    <3>1. RowIn(h, parent) = k
      BY <1>1, <2>2, <2>3, RowInSame, Zenon
    <3>2. QED
      BY <3>1, Zenon
  <2>4. CASE ChangedIn(g, parent) # {}
    <3>1. PICK i \in ChangedIn(g, parent) : RowIn(h, parent) = g[i][parent]
      BY <1>1, <2>4, RowInNew, Zenon
    <3> DEFINE w == <<i, parent>>
    <3>2. w \in AllWrites(group) /\ RowIn(h, parent) = txn[group[i]].staged[parent]
      BY <3>1, WrittenFacts, Zenon
    <3>3. w[1] = i /\ w[2] = parent /\ w[2][1] = "parents"
      OBVIOUS
    <3>4. Current(parent) = k
      BY <1>2, <2>2, Zenon
    <3>5. CASE RowIn(h, parent) = k
      BY <3>5, Zenon
    <3>6. CASE RowIn(h, parent) # k
      <4>1. \/ final_ids_matching(group, "parents", k) # {}
            \/ final_ids_matching(group, "children", k) = {}
        <5> HIDE DEF w, parent, k
        <5>1. QED
          BY <1>7, <3>2, <3>3, <3>4, <3>6, Zenon DEF validate_foreign_keys, ParentsReleased
      <4>2. child \in final_ids_matching(group, "children", k)
        <5>1. child \in Rows /\ child[1] = "children" /\ Current(child) = k
              /\ final_record(group, child) = k
          BY <1>2, <1>3, <1>4, <2>1, Zenon
        <5> HIDE DEF child, k
        <5>2. QED
          BY <5>1, Zenon DEF final_ids_matching
      <4>3. QED
        BY <1>5, <4>1, <4>2, Zenon
    <3>7. QED
      BY <3>5, <3>6, Zenon
  <2>5. QED
    BY <2>3, <2>4, Zenon
<1>10. QED
  BY <1>8, <1>9, Zenon

-----------------------------------------------------------------------------
(* Every step.                                                             *)

\* The inductive invariant: keys are unique in the latest version, and so are
\* references kept unless a batch staged one table in two members.
Inv == TypeInv /\ UniqueIn(commits) /\ (shadowed \/ ForeignIn(commits))

\* Writes over writes are writes.
LEMMA OverFacts ==
    ASSUME NEW a \in Writes, NEW b \in Writes
    PROVE  Over(a, b) \in Writes
<1>1. PICK A \in SUBSET Rows : a \in [A -> Int]
  BY Zenon DEF Writes
<1>2. PICK B \in SUBSET Rows : b \in [B -> Int]
  BY Zenon DEF Writes
<1>3. A \cup B \in SUBSET Rows /\ DOMAIN a = A /\ DOMAIN b = B
  BY <1>1, <1>2, Zenon
<1>4. Over(a, b) = [r \in A \cup B |-> IF r \in A THEN a[r] ELSE b[r]]
  BY <1>3, Zenon DEF Over
<1>5. \A r \in A \cup B : (IF r \in A THEN a[r] ELSE b[r]) \in Int
  BY <1>1, <1>2, Zenon
<1>6. Over(a, b) \in [A \cup B -> Int]
  BY <1>4, <1>5, Zenon
<1>7. QED
  BY <1>3, <1>6, Zenon DEF Writes

\* So is the write of one row, and that of no row.
LEMMA WriteFacts ==
    /\ \A row \in Rows, v \in Int : Writing(row, v) \in Writes
    /\ \A D \in SUBSET Rows, v \in Int : [row \in D |-> v] \in Writes
    /\ << >> \in Writes
<1>1. ASSUME NEW D \in SUBSET Rows, NEW v \in Int PROVE [row \in D |-> v] \in Writes
  <2>1. [row \in D |-> v] \in [D -> Int]
    BY Zenon
  <2>2. QED
    BY <2>1, Zenon DEF Writes
<1>2. ASSUME NEW row \in Rows, NEW v \in Int PROVE Writing(row, v) \in Writes
  <2>1. {row} \in SUBSET Rows
    BY Zenon
  <2>2. QED
    BY <1>1, <2>1, Zenon DEF Writing
<1>3. << >> \in [{} -> Int]
  OBVIOUS
<1>4. {} \in SUBSET Rows
  BY Zenon
<1>5. << >> \in Writes
  BY <1>3, <1>4, Zenon DEF Writes
<1>6. QED
  BY <1>1, <1>2, <1>5, Zenon

\* The members a batch takes are clients.
LEMMA TakenFacts ==
    ASSUME NEW batch \in Seq(Clients)
    PROVE  Taken(batch) \in Seq(Clients)
<1> DEFINE Dom == 0..Len(batch)
           V == Seq(Clients)
           One(v, c) == IF Conflicts(c) \/ Overlaps(v, c) THEN v ELSE Append(v, c)
           G == [i \in Dom |-> [v \in V |-> One(v, batch[i])]]
           Body(f) == [n \in 0..Len(batch) |->
                          IF n = 0 THEN << >>
                          ELSE IF Conflicts(batch[n]) \/ Overlaps(f[n - 1], batch[n])
                          THEN f[n - 1] ELSE Append(f[n - 1], batch[n])]
           F == CHOOSE f : f = Body(f)
<1>0. /\ \A i \in Dom : i # 0 => batch[i] \in Clients /\ i - 1 \in Dom
      /\ Len(batch) \in Dom /\ 0 \in Dom /\ Len(batch) \in Int /\ 0 <= Len(batch) /\ 0 \in Int
      /\ << >> \in V
  OBVIOUS
<1>1. \A v \in V, c \in Clients : One(v, c) \in V
  <2>1. \A v \in V, c \in Clients : Append(v, c) \in V
    OBVIOUS
  <2>2. QED
    BY <2>1, Zenon
<1> HIDE DEF F, G, Dom, V
<1>2. \A i \in Dom, v \in V : G[i][v] = One(v, batch[i])
  BY Zenon DEF G
<1>3. Closed(G, V, 0, Len(batch))
  BY <1>0, <1>1, <1>2, Zenon DEF Closed, Dom
<1>4. PICK f \in [Dom -> V] : Recursive(f, << >>, G, 0, Len(batch))
  BY <1>0, <1>3, Recursion, Zenon DEF Dom
<1>5. f = Body(f)
  <2>1. \A i \in Dom : f[i] = IF i = 0 THEN << >> ELSE G[i][f[i - 1]]
    BY <1>4, Zenon DEF Recursive, Dom
  <2>2. \A i \in Dom : f[i] = Body(f)[i]
    BY <1>0, <1>2, <2>1, Zenon DEF Dom
  <2>3. QED
    BY <2>2, Zenon DEF Dom
<1>6. F = Body(F)
  BY <1>5, Zenon DEF F
<1>7. Taken(batch) = F[Len(batch)]
  BY Zenon DEF Taken, F
<1>8. F[0] = << >> /\ \A i \in Dom : i # 0 => F[i] = One(F[i - 1], batch[i])
  BY <1>0, <1>6, Zenon DEF Dom
<1> DEFINE T == {i \in Dom : F[i] \in V}
<1>9. 0 \in T
  BY <1>0, <1>8, Zenon
<1>10. ASSUME NEW i \in Dom, i # 0, i - 1 \in T PROVE i \in T
  BY <1>0, <1>1, <1>8, <1>10, Zenon
<1>11. Dom \subseteq T
  <2> HIDE DEF T
  <2>1. QED
    BY <1>0, <1>9, <1>10, IntervalInduction, Zenon DEF Dom
<1>12. QED
  BY <1>0, <1>7, <1>11, Zenon DEF V

\* A row no commit writes is missing.
LEMMA RowInNone ==
    ASSUME NEW s, NEW row, ChangedIn(s, row) = {}
    PROVE  RowIn(s, row) = Missing
<1>1. Max({0} \cup {}) = 0
  BY DEF Max
<1>2. QED
  BY <1>1, Zenon DEF RowIn

\* The database starts with one parent and one child of it.
LEMMA InitInv == ASSUME Init PROVE Inv
<1> DEFINE P == <<"parents", Min(Parents)>>
           C == <<"children", Min(Children)>>
           k == Min(KeyValues)
           w == Over(Writing(P, k), Writing(C, k))
<1>1. Min(Parents) \in Parents /\ Min(Children) \in Children /\ k \in KeyValues
  <2>1. KeyValues \in SUBSET Nat
    BY ConstraintsAssumption
  <2>2. QED
    BY <2>1, MinFacts, ConstraintsAssumption, Zenon
<1> HIDE DEF k
<1>2. k \in Int /\ k # Missing /\ Missing \notin KeyValues /\ ~Live(Missing)
  BY <1>1, ConstraintsAssumption DEF Missing, Live, NULL
<1>3. P \in Rows /\ C \in Rows
  BY <1>1 DEF Rows
<1> HIDE DEF P, C
<1>4. w \in Writes
  BY <1>2, <1>3, OverFacts, WriteFacts, Zenon
<1>5. DOMAIN w = {P, C} /\ w[P] = k /\ w[C] = k
  BY Zenon DEF Over, Writing
<1> HIDE DEF w
<1>6. commits = <<w>> /\ published = 1 /\ txn = [c \in Clients |-> Idle]
  BY Zenon DEF Init, w, k, P, C
<1>7. <<w>> \in Seq(Writes) /\ Len(<<w>>) = 1 /\ <<w>>[1] = w /\ 1..1 = {1}
  BY <1>4
<1>8. ASSUME NEW row
      PROVE  RowIn(commits, row) = IF row \in {P, C} THEN k ELSE Missing
  <2>1. ChangedIn(<<w>>, row) = IF row \in {P, C} THEN {1} ELSE {}
    BY <1>5, <1>7, Zenon DEF ChangedIn
  <2>2. CASE row \in {P, C}
    <3>1. 1 \in ChangedIn(<<w>>, row) /\ \A i \in ChangedIn(<<w>>, row) : i <= 1
      BY <2>1, <2>2
    <3>2. RowIn(<<w>>, row) = <<w>>[1][row]
      BY <1>7, <3>1, RowInLast, Zenon
    <3>3. QED
      BY <1>5, <1>6, <1>7, <2>2, <3>2, Zenon
  <2>3. CASE row \notin {P, C}
    BY <1>6, <2>1, <2>3, RowInNone, Zenon
  <2>4. QED
    BY <2>2, <2>3, Zenon
<1>9. TypeInv
  <2>1. TxnOK(Idle)
    BY WriteFacts, Zenon DEF TxnOK, Idle
  <2>2. QED
    BY <1>6, <1>7, <2>1, Zenon DEF TypeInv
<1>10. \A p \in Parents : <<"parents", p>> \in {P, C} => p = Min(Parents)
  BY DEF P, C
<1>11. UniqueIn(commits)
  BY <1>2, <1>8, <1>10, Zenon DEF UniqueIn
<1>12. ForeignIn(commits)
  <2>1. RowIn(commits, P) = k
    BY <1>8, Zenon
  <2>2. \A row : RowIn(commits, row) \in KeyValues => RowIn(commits, row) = k
    BY <1>2, <1>8, Zenon
  <2>3. QED
    BY <1>1, <2>1, <2>2, Zenon DEF ForeignIn, P
<1>13. QED
  BY <1>9, <1>11, <1>12, Zenon DEF Inv

\* A step that commits nothing.
LEMMA QuietStep ==
    ASSUME Inv, commits' = commits, published' = published, shadowed' = shadowed,
           NEW c \in Clients, NEW t, TxnOK(t), txn' = [txn EXCEPT ![c] = t]
    PROVE  Inv'
<1>1. DOMAIN txn' = Clients /\ txn'[c] = t /\ \A d \in Clients : d # c => txn'[d] = txn[d]
  BY Zenon DEF Inv, TypeInv
<1>2. TypeInv'
  BY <1>1, Zenon DEF Inv, TypeInv
<1>3. QED
  BY <1>2, Zenon DEF Inv, UniqueIn, ForeignIn

\* A step that commits a validated group.
LEMMA GroupStep ==
    ASSUME Inv, NEW group \in Seq(Clients),
           validate_unique(group), validate_foreign_keys(group),
           commits' = commits \o Staged(group),
           published' = Len(commits) + Len(group),
           shadowed' \/ (~shadowed /\ OneHolder(group)),
           DOMAIN txn' = Clients, \A d \in Clients : TxnOK(txn'[d])
    PROVE  Inv'
<1>1. Staged(group) \in Seq(Writes) /\ Len(Staged(group)) = Len(group) /\ commits \in Seq(Writes)
  BY StagedFacts, Zenon DEF Inv, TypeInv
<1>2. commits' \in Seq(Writes) /\ published' = Len(commits')
  <2>1. \A s, g \in Seq(Writes) : s \o g \in Seq(Writes) /\ Len(s \o g) = Len(s) + Len(g)
    OBVIOUS
  <2>2. QED
    BY <1>1, <2>1, Zenon
<1>3. TypeInv'
  BY <1>2, Zenon DEF TypeInv
<1>4. UniqueIn(commits')
  BY UniqueStep, Zenon DEF Inv
<1>5. shadowed' \/ ForeignIn(commits')
  BY ForeignStep, Zenon DEF Inv
<1>6. QED
  BY <1>3, <1>4, <1>5, Zenon DEF Inv, UniqueIn, ForeignIn

\* Writes staged by a statement.
LEMMA StageStep ==
    ASSUME Inv, NEW c \in Clients, NEW row \in Rows, NEW v \in Int, StageWrite(c, row, v)
    PROVE  Inv'
<1> DEFINE new == Over(Writing(row, v), txn[c].staged)
           gone == IF v = Deleted THEN Over(Writing(row, Reads(c, row)), txn[c].removed)
                   ELSE RestrictDomain(txn[c].removed, LAMBDA r : r # row)
           t == [txn[c] EXCEPT !.staged = new, !.removed = gone]
<1>1. TxnOK(txn[c]) /\ c \in DOMAIN txn
  BY Zenon DEF Inv, TypeInv
<1>2. new \in Writes
  BY <1>1, OverFacts, WriteFacts, Zenon DEF TxnOK
<1>3. txn' = [txn EXCEPT ![c] = t]
  BY Zenon DEF StageWrite
<1> HIDE DEF new, gone
<1>4. TxnOK(t)
  BY <1>1, <1>2, Zenon DEF TxnOK
<1>5. commits' = commits /\ published' = published /\ shadowed' = shadowed
  BY Zenon DEF StageWrite
<1> HIDE DEF t
<1>6. QED
  BY <1>3, <1>4, <1>5, QuietStep, Zenon

\* The answer of a commit leaves the client idle.
LEMMA AnswerFacts == \A c, r : TxnOK(Answer(c, r))
<1>1. TxnOK(Idle)
  BY WriteFacts, Zenon DEF TxnOK, Idle
<1>2. QED
  BY <1>1, Zenon DEF TxnOK, Answer

\* expand_delete_cascades adds deletes of children.
LEMMA PrepareStep == ASSUME Inv, NEW c \in Clients, Prepare(c) PROVE Inv'
<1> DEFINE more == [row \in CascadeRows(c) |-> Deleted]
           new == Over(more, txn[c].staged)
           t == [txn[c] EXCEPT !.phase = "ready", !.staged = new]
<1>1. TxnOK(txn[c]) /\ commits' = commits /\ published' = published /\ shadowed' = shadowed
  BY Zenon DEF Inv, TypeInv, Prepare
<1>2. CASE txn' = [txn EXCEPT ![c].phase = "ready", ![c].staged = Over(more, @)]
  <2>1. CascadeRows(c) \in SUBSET Rows /\ Deleted \in Int
    BY DEF CascadeRows, Rows, Deleted
  <2>2. new \in Writes
    BY <1>1, <2>1, OverFacts, WriteFacts, Zenon DEF TxnOK
  <2>3. txn' = [txn EXCEPT ![c] = t]
    BY <1>2, Zenon DEF Inv, TypeInv
  <2> HIDE DEF new
  <2>4. TxnOK(t)
    BY <1>1, <2>2, Zenon DEF TxnOK
  <2> HIDE DEF t
  <2>5. QED
    BY <1>1, <2>3, <2>4, QuietStep, Zenon
<1>3. CASE txn' = [txn EXCEPT ![c] = Answer(c, "refused")]
  BY <1>1, <1>3, AnswerFacts, QuietStep, Zenon
<1>4. QED
  BY <1>2, <1>3, Zenon DEF Prepare

\* finish_prepared_commit: a commit is a group of one member.
LEMMA SingleStep == ASSUME Inv, NEW c \in Clients, CommitSingle(c) PROVE Inv'
<1> DEFINE valid == ~Conflicts(c) /\ validate_unique(<<c>>) /\ validate_foreign_keys(<<c>>)
<1>1. CASE /\ valid /\ commits' = Append(commits, txn[c].staged)
           /\ published' = Len(commits) + 1
           /\ txn' = [txn EXCEPT ![c] = Answer(c, "committed")]
           /\ shadowed' = shadowed
  <2>1. <<c>> \in Seq(Clients) /\ Len(<<c>>) = 1 /\ DOMAIN <<c>> = {1} /\ <<c>>[1] = c
    OBVIOUS
  <2>2. Staged(<<c>>) = [i \in {1} |-> txn[c].staged]
    BY <2>1, Zenon DEF Staged
  <2>3. Staged(<<c>>) = <<txn[c].staged>>
    BY <2>2
  <2>4. commits \in Seq(Writes) /\ txn[c].staged \in Writes
    BY Zenon DEF Inv, TypeInv, TxnOK
  <2>5. commits' = commits \o Staged(<<c>>)
    <3>1. \A s \in Seq(Writes), w \in Writes : Append(s, w) = s \o <<w>>
      BY SMTT(20)
    <3>2. QED
      BY <1>1, <2>3, <2>4, <3>1, Zenon
  <2>6. OneHolder(<<c>>)
    BY <2>1, Zenon DEF OneHolder
  <2>7. DOMAIN txn' = Clients /\ \A d \in Clients : TxnOK(txn'[d])
    BY <1>1, AnswerFacts, Zenon DEF Inv, TypeInv
  <2>8. shadowed' \/ (~shadowed /\ OneHolder(<<c>>))
    BY <1>1, <2>6, Zenon
  <2>9. QED
    BY <1>1, <2>1, <2>5, <2>7, <2>8, GroupStep, Zenon
<1>2. CASE /\ txn' = [txn EXCEPT ![c] = Answer(c, "refused")]
           /\ commits' = commits /\ published' = published /\ shadowed' = shadowed
  BY <1>2, AnswerFacts, QuietStep, Zenon
<1>3. QED
  BY <1>1, <1>2, Zenon DEF CommitSingle

\* finish_coordinated_insert_batch.
LEMMA BatchStep == ASSUME Inv, NEW batch \in Batches, CommitBatch(batch) PROVE Inv'
<1>1. batch \in Seq(Clients)
  BY SMTT(20) DEF Batches, SeqOf
<1>2. PICK group \in Seq(Clients) : group = Taken(batch)
  BY <1>1, TakenFacts, Zenon
<1>3. /\ validate_unique(group) /\ validate_foreign_keys(group)
      /\ commits' = commits \o Staged(group)
      /\ published' = Len(commits) + Len(group)
      /\ txn' = [c \in Clients |->
                   IF Contains(group, c) THEN Answer(c, "committed") ELSE txn[c]]
      /\ shadowed' = (shadowed \/ \E i, j \in DOMAIN group, t \in {"parents", "children"} :
                          /\ i # j
                          /\ StagedTable(group[i], t) # {}
                          /\ StagedTable(group[j], t) # {})
  BY <1>2, Zenon DEF CommitBatch, Staged
<1>4. DOMAIN txn' = Clients /\ \A d \in Clients : TxnOK(txn'[d])
  BY <1>3, AnswerFacts, Zenon DEF Inv, TypeInv
<1>5. shadowed' \/ (~shadowed /\ OneHolder(group))
  BY <1>3, Zenon DEF OneHolder
<1>6. QED
  BY <1>2, <1>3, <1>4, <1>5, GroupStep, Zenon

\* Every step keeps the invariant.
LEMMA NextInv == ASSUME Inv, [Next]_vars PROVE Inv'
<1>1. CASE UNCHANGED vars
  BY <1>1, Zenon DEF vars, Inv, TypeInv, UniqueIn, ForeignIn
<1>2. ASSUME NEW c \in Clients, Begin(c) PROVE Inv'
  <2> DEFINE t == [Idle EXCEPT !.phase = "open", !.snap = published]
  <2>1. TxnOK(t)
    BY WriteFacts, Zenon DEF TxnOK, Idle
  <2> HIDE DEF t
  <2>2. QED
    BY <1>2, <2>1, QuietStep, Zenon DEF Begin, t
<1>3. ASSUME NEW c \in Clients, NEW row \in Rows, NEW v \in KeyValues,
             Insert(c, row, v) \/ UpdateChild(c, row, v)
      PROVE  Inv'
  <2>1. v \in Int
    BY ConstraintsAssumption
  <2>2. QED
    BY <1>3, <2>1, StageStep, Zenon DEF Insert, UpdateChild
<1>4. ASSUME NEW c \in Clients, NEW row \in Rows, Delete(c, row) PROVE Inv'
  <2>1. Deleted \in Int
    BY DEF Deleted
  <2>2. QED
    BY <1>4, <2>1, StageStep, Zenon DEF Delete
<1>5. QED
  BY <1>1, <1>2, <1>3, <1>4, PrepareStep, SingleStep, BatchStep, Zenon DEF Next

\* In every reachable state.
LEMMA AlwaysInv == Spec => []Inv
<1>1. Init => Inv
  BY InitInv
<1>2. Inv /\ [Next]_vars => Inv'
  BY NextInv
<1>3. QED
  BY <1>1, <1>2, PTL DEF Spec

\* UniqueHolds: whatever transactions commit alone or in a batch, with which
\* snapshots and in which order, validate_unique under the commit mutex leaves
\* no two visible rows with one key.
THEOREM KeysStayUnique == Spec => []UniqueHolds
<1>1. Inv => UniqueHolds
  BY Zenon DEF Inv, TypeInv, UniqueIn, UniqueHolds, RowAt, LatestVersion, ChangedBy,
     RowIn, ChangedIn
<1>2. QED
  BY <1>1, AlwaysInv, PTL

\* ForeignKeysHold: and validate_foreign_keys, after the cascades were expanded
\* against a snapshot that may be stale, leaves every visible child with its
\* parent, unless a batch staged one table in two of its members.
THEOREM ChildrenKeepTheirParents == Spec => []ForeignKeysHold
<1>1. ASSUME Inv PROVE ForeignKeysHold
  <2>1. \A row : RowAt(row, published) = RowIn(commits, row)
    BY <1>1, Zenon DEF Inv, TypeInv, RowAt, LatestVersion, ChangedBy, RowIn, ChangedIn
  <2>2. QED
    BY <1>1, <2>1, Zenon DEF Inv, ForeignIn, ForeignKeysHold, Referenced, ParentKeys
<1>2. QED
  BY <1>1, AlwaysInv, PTL
=============================================================================
