----------------------------- MODULE ChunkedMaps -----------------------------
(***************************************************************************)
(* The two copy-on-write sorted maps of the engine, as operators on their  *)
(* values: PrimaryTableDelta (db.rs), the resident part of the primary     *)
(* MVCC directory, and CowMap (db/cow.rs), the map under the derived       *)
(* indexes.  Both keep their entries in chunks that split when they        *)
(* double.  The delta also caches the prefix of every chunk's first id and *)
(* compares whole ids only when prefixes tie.                              *)
(*                                                                         *)
(* Ids and keys are integers in id order.  id_prefix groups neighbouring   *)
(* ids under one prefix, as the first 16 bytes of a string do.  Sharing    *)
(* between copies needs no modelling: a TLA+ value never changes.          *)
(***************************************************************************)
EXTENDS Integers, Sequences, SequencesExt, FiniteSetsExt

CONSTANTS DeltaChunkEntries,   \* DELTA_CHUNK_ENTRIES
          CowChunkEntries,     \* CHUNK_ENTRIES of cow.rs
          PrefixSpan,          \* how many neighbouring ids share a prefix
          MapKeys,             \* ids and keys used
          MaxMapCalls          \* calls in a behaviour

VARIABLES deltaMap,   \* a PrimaryTableDelta
          cowMap,     \* a CowMap
          entries,    \* what the map under test should hold: key -> value
          mapCalls    \* the calls made so far, which also number the versions

cmVars == <<deltaMap, cowMap, entries, mapCalls>>

id_prefix(id) == id \div PrefixSpan

\* The halving loop of every binary search here: how many of the leading n
\* positions are in `before`, found by probing the middle.
PartitionPoint(n, before) ==
    LET search[low \in 0..n, high \in 0..n] ==
          LET mid == low + (high - low) \div 2
          IN  IF low >= high THEN low
              ELSE IF mid + 1 \in before THEN search[mid + 1, high]
                   ELSE search[low, mid]
    IN  search[0, n]

\* Saturating subtraction of one from a count of chunks, as a 1-based index.
ChunkBefore(count) == IF count = 0 THEN 1 ELSE count

-----------------------------------------------------------------------------
(* PrimaryTableDelta: [chunks |-> <<<<[id, versions], ...>>, ...>>,        *)
(*                     firsts |-> <<prefix, ...>>]                         *)

EmptyDelta == [chunks |-> << >>, firsts |-> << >>]

\* The chunk that may hold id: the last whose first id is not greater.
DeltaChunkFor(d, id) ==
    ChunkBefore(PartitionPoint(Len(d.chunks), {c \in DOMAIN d.chunks :
        \/ d.firsts[c] < id_prefix(id)
        \/ d.firsts[c] = id_prefix(id) /\ d.chunks[c][1].id <= id}))

\* Position of id in a chunk, or where it would be inserted.
DeltaSearch(chunk, id) ==
    LET below == PartitionPoint(Len(chunk), {i \in DOMAIN chunk :
                    \/ id_prefix(chunk[i].id) < id_prefix(id)
                    \/ /\ id_prefix(chunk[i].id) = id_prefix(id)
                       /\ chunk[i].id < id})
    IN  [at    |-> below + 1,
         found |-> below < Len(chunk) /\ chunk[below + 1].id = id]

DeltaLocate(d, id) ==
    IF d.chunks = << >> THEN [chunk |-> 1, at |-> 1, found |-> FALSE]
    ELSE LET c == DeltaChunkFor(d, id)
             p == DeltaSearch(d.chunks[c], id)
         IN  [chunk |-> c, at |-> p.at, found |-> p.found]

DeltaGet(d, id) ==
    LET p == DeltaLocate(d, id)
    IN  IF p.found THEN d.chunks[p.chunk][p.at].versions ELSE << >>

DeltaPushChunk(d, id, version) ==
    [chunks |-> Append(d.chunks, <<[id |-> id, versions |-> <<version>>]>>),
     firsts |-> Append(d.firsts, id_prefix(id))]

\* A split that leaves the prefix of the upper chunk's old neighbour in place.
DeltaSplitStaleFirst(d, c) ==
    LET half  == Len(d.chunks[c]) \div 2
        lower == SubSeq(d.chunks[c], 1, half)
        upper == SubSeq(d.chunks[c], half + 1, Len(d.chunks[c]))
    IN  [chunks |-> InsertAt([d.chunks EXCEPT ![c] = lower], c + 1, upper),
         firsts |-> InsertAt(d.firsts, c + 1, d.firsts[c])]

\* A chunk past twice its size gives its upper half to a chunk after it.
DeltaSplit(d, c) ==
    LET half  == Len(d.chunks[c]) \div 2
        lower == SubSeq(d.chunks[c], 1, half)
        upper == SubSeq(d.chunks[c], half + 1, Len(d.chunks[c]))
    IN  [chunks |-> InsertAt([d.chunks EXCEPT ![c] = lower], c + 1, upper),
         firsts |-> InsertAt(d.firsts, c + 1, id_prefix(upper[1].id))]

\* push: an id past the last is appended, the last id again gets one more
\* version, and only an id out of order is located.
DeltaPush(d, id, version) ==
    LET n    == Len(d.chunks)
        last == Last(d.chunks[n])
        p    == DeltaLocate(d, id)
        with == InsertAt(d.chunks[p.chunk], p.at,
                         [id |-> id, versions |-> <<version>>])
        wide == [chunks |-> [d.chunks EXCEPT ![p.chunk] = with],
                 firsts |-> IF p.at = 1
                            THEN [d.firsts EXCEPT ![p.chunk] = id_prefix(id)]
                            ELSE d.firsts]
        append(c, at) == [d EXCEPT !.chunks[c][at].versions =
                                       Append(@, version)]
    IN  CASE n = 0 -> DeltaPushChunk(d, id, version)
          [] n > 0 /\ last.id < id ->
               IF Len(d.chunks[n]) >= DeltaChunkEntries
               THEN DeltaPushChunk(d, id, version)
               ELSE [d EXCEPT !.chunks[n] =
                        Append(@, [id |-> id, versions |-> <<version>>])]
          [] n > 0 /\ last.id = id -> append(n, Len(d.chunks[n]))
          [] OTHER ->
               IF p.found THEN append(p.chunk, p.at)
               ELSE IF Len(with) > 2 * DeltaChunkEntries
                    THEN DeltaSplit(wide, p.chunk)
                    ELSE wide

\* merge_versions: used when a frozen generation thaws back into the active
\* delta; the two version lists are merged, sorted and deduplicated.
DeltaMergeVersions(d, id, versions) ==
    LET p == DeltaLocate(d, id)
    IN  IF ~p.found
        THEN FoldLeft(LAMBDA acc, v : DeltaPush(acc, id, v), d, versions)
        ELSE [d EXCEPT !.chunks[p.chunk][p.at].versions =
                SetToSortSeq(ToSet(@ \o versions), <)]

DeltaIter(d) == FlattenSeq(d.chunks)

\* range_after: the entries strictly after an id, from the chunk it falls in.
DeltaRangeAfter(d, after) ==
    LET p    == DeltaLocate(d, after)
        skip == IF p.found THEN p.at + 1 ELSE p.at
        rest == SubSeq(d.chunks, p.chunk + 1, Len(d.chunks))
    IN  IF d.chunks = << >> THEN << >>
        ELSE SubSeq(d.chunks[p.chunk], skip, Len(d.chunks[p.chunk]))
                \o FlattenSeq(rest)

-----------------------------------------------------------------------------
(* CowMap: a sequence of chunks of [key, value].                           *)

CowLocate(m, key) ==
    IF m = << >> THEN [chunk |-> 1, at |-> 1, found |-> FALSE]
    ELSE LET c == ChunkBefore(PartitionPoint(Len(m),
                                {i \in DOMAIN m : m[i][1].key <= key}))
             below == PartitionPoint(Len(m[c]),
                                     {i \in DOMAIN m[c] : m[c][i].key < key})
         IN  [chunk |-> c, at |-> below + 1,
              found |-> below < Len(m[c]) /\ m[c][below + 1].key = key]

CowGet(m, key, absent) ==
    LET p == CowLocate(m, key)
    IN  IF p.found THEN m[p.chunk][p.at].value ELSE absent

\* insert: replace in place; past the last key of a full map open a chunk;
\* otherwise insert and split a chunk that grew past twice its size.
CowInsert(m, key, value) ==
    LET p    == CowLocate(m, key)
        e    == [key |-> key, value |-> value]
        with == InsertAt(m[p.chunk], p.at, e)
        half == Len(with) \div 2
    IN  CASE p.found -> [m EXCEPT ![p.chunk][p.at].value = value]
          [] m = << >> -> <<<<e>>>>
          [] /\ ~p.found
             /\ m # << >>
             /\ p.chunk = Len(m)
             /\ p.at = Len(m[p.chunk]) + 1
             /\ Len(m[p.chunk]) >= CowChunkEntries -> Append(m, <<e>>)
          [] OTHER ->
               IF Len(with) > 2 * CowChunkEntries
               THEN InsertAt([m EXCEPT ![p.chunk] = SubSeq(with, 1, half)],
                             p.chunk + 1, SubSeq(with, half + 1, Len(with)))
               ELSE [m EXCEPT ![p.chunk] = with]

CowRemove(m, key) ==
    LET p == CowLocate(m, key)
    IN  IF ~p.found THEN m
        ELSE IF Len(m[p.chunk]) = 1 THEN RemoveAt(m, p.chunk)
        ELSE [m EXCEPT ![p.chunk] = RemoveAt(@, p.at)]

CowIter(m) == FlattenSeq(m)

CowRangeFrom(m, start, inclusive) ==
    LET p    == CowLocate(m, start)
        skip == IF p.found /\ ~inclusive THEN p.at + 1 ELSE p.at
    IN  IF m = << >> THEN << >>
        ELSE SubSeq(m[p.chunk], skip, Len(m[p.chunk]))
                \o FlattenSeq(SubSeq(m, p.chunk + 1, Len(m)))

-----------------------------------------------------------------------------
(* Any sequence of calls on one of the two maps.                           *)

cmInit == /\ deltaMap = EmptyDelta
          /\ cowMap = << >>
          /\ entries = [k \in {} |-> << >>]
          /\ mapCalls = 0

Holding(k, value) ==
    entries' = [j \in DOMAIN entries \cup {k} |->
                    IF j = k THEN value ELSE entries[j]]

Held(k) == IF k \in DOMAIN entries THEN entries[k] ELSE << >>

Push(k) ==
    /\ cowMap = << >>
    /\ deltaMap' = DeltaPush(deltaMap, k, mapCalls + 1)
    /\ Holding(k, Append(Held(k), mapCalls + 1))
    /\ UNCHANGED cowMap

\* The versions of a frozen generation are older than the active delta's and
\* may repeat them.
Thaw(k) ==
    /\ cowMap = << >>
    /\ LET thawed == SetToSortSeq(ToSet(Held(k)) \cup {0, mapCalls + 1}, <)
       IN  /\ deltaMap' = DeltaMergeVersions(deltaMap, k, thawed)
           /\ Holding(k, thawed)
    /\ UNCHANGED cowMap

Put(k) ==
    /\ deltaMap = EmptyDelta
    /\ cowMap' = CowInsert(cowMap, k, <<mapCalls + 1>>)
    /\ Holding(k, <<mapCalls + 1>>)
    /\ UNCHANGED deltaMap

Drop(k) ==
    /\ deltaMap = EmptyDelta
    /\ cowMap' = CowRemove(cowMap, k)
    /\ entries' = [j \in DOMAIN entries \ {k} |-> entries[j]]
    /\ UNCHANGED deltaMap

cmNext ==
    /\ mapCalls < MaxMapCalls
    /\ mapCalls' = mapCalls + 1
    /\ \E k \in MapKeys : Push(k) \/ Thaw(k) \/ Put(k) \/ Drop(k)

cmSpec == cmInit /\ [][cmNext]_cmVars

-----------------------------------------------------------------------------
\* The keys of a set in order, and those of the entries after a key.
InOrder(keys) == SetToSortSeq(keys, <)
After(k, inclusive) ==
    InOrder({j \in DOMAIN entries : j > k \/ (inclusive /\ j = k)})

DeltaEntries(keys) == [n \in DOMAIN keys |->
                          [id |-> keys[n], versions |-> entries[keys[n]]]]
CowEntries(keys) == [n \in DOMAIN keys |->
                        [key |-> keys[n], value |-> entries[keys[n]]]]

\* After any sequence of pushes, thaws, insertions and removals, wherever the
\* chunks split: iteration returns the entries in key order, a lookup of any
\* key finds exactly what was stored (with the cached prefixes of the first
\* ids too), a range that starts at or after any key, present or not, returns
\* exactly the rest, and no chunk is empty or more than twice its size.
MapsExact ==
    /\ cowMap = << >> =>
         /\ DeltaIter(deltaMap) = DeltaEntries(InOrder(DOMAIN entries))
         /\ \A k \in MapKeys :
              /\ DeltaGet(deltaMap, k) = Held(k)
              /\ DeltaRangeAfter(deltaMap, k) = DeltaEntries(After(k, FALSE))
         /\ \A c \in DOMAIN deltaMap.chunks :
              Len(deltaMap.chunks[c]) \in 1..(2 * DeltaChunkEntries)
    /\ deltaMap = EmptyDelta =>
         /\ CowIter(cowMap) = CowEntries(InOrder(DOMAIN entries))
         /\ \A k \in MapKeys :
              /\ CowGet(cowMap, k, << >>) = Held(k)
              /\ \A inclusive \in BOOLEAN :
                   CowRangeFrom(cowMap, k, inclusive) =
                       CowEntries(After(k, inclusive))
         /\ \A c \in DOMAIN cowMap :
              Len(cowMap[c]) \in 1..(2 * CowChunkEntries)
=============================================================================
