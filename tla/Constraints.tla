----------------------------- MODULE Constraints -----------------------------
(***************************************************************************)
(* Uniqueness and foreign keys under concurrent commits: deletes expanded  *)
(* through ON DELETE CASCADE against the transaction's snapshot, then      *)
(* validate_unique and validate_foreign_keys under the commit mutex, for   *)
(* one commit or for a coordinated batch validated as a whole              *)
(* (db/commit.rs, Txn in db.rs).                                           *)
(*                                                                         *)
(* Parents carry a unique column `key`; children reference it through      *)
(* `ref`.  A write is a put of that column's value or a delete.  The       *)
(* secondary indexes the validation reads are exact (the commit applies    *)
(* them with the rows), so they are sets comprehended from the rows.       *)
(***************************************************************************)
EXTENDS Integers, Sequences, SequencesExt, FiniteSets, FiniteSetsExt, Functions

CONSTANTS Parents, Children,   \* record ids of the two tables
          KeyValues,           \* values of Parents.key, positive integers
          Clients,             \* transactions
          OnDelete,            \* {"Restrict", "Cascade"} or one of them
          MaxStatements,       \* bound: writes of one transaction
          BatchMembers         \* bound: COMMIT_COORDINATOR_MAX_BATCH

\* Ids are naturals, keys positive, and 0 names no client.
ASSUME ConstraintsAssumption ==
    /\ Parents \in SUBSET Nat /\ Parents # {}
    /\ Children \in SUBSET Nat /\ Children # {}
    /\ KeyValues \in SUBSET (Nat \ {0}) /\ KeyValues # {}
    /\ 0 \notin Clients

NULL == 0                      \* the value of an optional column
Deleted == -1                  \* a tombstone
Missing == -2                  \* no version at all

Rows == ({"parents"} \X Parents) \cup ({"children"} \X Children)

VARIABLES onDelete,  \* ForeignKey::on_delete
          commits,   \* the versions, each the writes of one transaction
          published, \* the version readers see
          txn,       \* per client: phase, snapshot, staged writes, deleted_record
          shadowed   \* ghost: a batch staged one table in two members

vars == <<onDelete, commits, published, txn, shadowed>>

Idle == [phase |-> "idle", snap |-> 0, staged |-> << >>,
         removed |-> << >>, result |-> "none"]

-----------------------------------------------------------------------------
(* Rows at a version.                                                      *)

ChangedBy(row, n) == {i \in 1..n : row \in DOMAIN commits[i]}
LatestVersion(row, n) == Max({0} \cup ChangedBy(row, n))
RowAt(row, n) ==
    IF LatestVersion(row, n) = 0 THEN Missing
    ELSE commits[LatestVersion(row, n)][row]

\* A transaction reads its staged writes over its snapshot.
Reads(c, row) ==
    IF row \in DOMAIN txn[c].staged THEN txn[c].staged[row]
    ELSE RowAt(row, txn[c].snap)

Live(value) == value >= NULL

\* A write of one row, and writes that replace older ones.
Writing(row, value) == [r \in {row} |-> value]
Over(new, old) ==
    [r \in DOMAIN new \cup DOMAIN old |-> IF r \in DOMAIN new THEN new[r] ELSE old[r]]

-----------------------------------------------------------------------------
(* Statements.                                                             *)

\* The database starts with one parent, one child of it, both in version 1.
Init ==
    /\ onDelete \in OnDelete
    /\ commits = <<Over(Writing(<<"parents", Min(Parents)>>, Min(KeyValues)),
                        Writing(<<"children", Min(Children)>>, Min(KeyValues)))>>
    /\ published = 1
    /\ txn = [c \in Clients |-> Idle]
    /\ shadowed = FALSE

Begin(c) ==
    /\ txn[c].phase = "idle" /\ txn[c].result = "none"
    /\ txn' = [txn EXCEPT ![c] = [Idle EXCEPT !.phase = "open", !.snap = published]]
    /\ UNCHANGED <<onDelete, commits, published, shadowed>>

StageWrite(c, row, value) ==
    /\ txn[c].phase = "open"
    /\ Cardinality(DOMAIN txn[c].staged) < MaxStatements
    /\ txn' = [txn EXCEPT
                 ![c].staged  = Over(Writing(row, value), @),
                 ![c].removed = IF value = Deleted
                                THEN Over(Writing(row, Reads(c, row)), @)
                                ELSE RestrictDomain(@, LAMBDA r : r # row)]
    /\ UNCHANGED <<onDelete, commits, published, shadowed>>

\* insert: the row must be invisible; neither constraint is looked at yet.
Insert(c, row, value) ==
    /\ ~Live(Reads(c, row))
    /\ StageWrite(c, row, value)

\* update: a referenced column cannot be patched, so only children change.
UpdateChild(c, row, value) ==
    /\ row[1] = "children"
    /\ Live(Reads(c, row)) /\ Reads(c, row) # value
    /\ StageWrite(c, row, value)

Delete(c, row) ==
    /\ Live(Reads(c, row))
    /\ StageWrite(c, row, Deleted)

\* expand_delete_cascades, from the snapshot and the staged writes: children
\* of every parent the transaction deletes, by the value it removed there.
CascadeRows(c) ==
    LET gone == {txn[c].removed[row] : row \in
                    {r \in DOMAIN txn[c].removed : r[1] = "parents"}}
    IN  {row \in {"children"} \X Children :
           onDelete = "Cascade" /\ Reads(c, row) > NULL /\ Reads(c, row) \in gone}

Answer(c, result) == [Idle EXCEPT !.result = result]

\* Write-write conflict against the transaction's own snapshot.
Conflicts(c) ==
    \E row \in DOMAIN txn[c].staged :
        LatestVersion(row, Len(commits)) > txn[c].snap

\* Txn::commit up to the commit mutex; prepare_commit already reports a row
\* that moved past the snapshot.
Prepare(c) ==
    /\ txn[c].phase = "open"
    /\ txn[c].staged # << >>
    /\ \/ /\ ~Conflicts(c)
          /\ txn' = [txn EXCEPT ![c].phase = "ready",
                       ![c].staged = Over([row \in CascadeRows(c) |-> Deleted], @)]
       \/ /\ Conflicts(c)
          /\ txn' = [txn EXCEPT ![c] = Answer(c, "refused")]
    /\ UNCHANGED <<onDelete, commits, published, shadowed>>

-----------------------------------------------------------------------------
(* Validation under the commit mutex.  `group` is the sequence of members  *)
(* whose staged tables are validated together, in batch order.             *)

Current(row) == RowAt(row, Len(commits))

StagedTable(c, table) == {row \in DOMAIN txn[c].staged : row[1] = table}

\* prepared_change: the member whose staged table holds the row's change, or
\* 0.  Only the first staged table of that name is searched.
prepared_change(group, row) ==
    LET holders == {i \in DOMAIN group : StagedTable(group[i], row[1]) # {}}
        first   == group[Min(holders)]
    IN  IF holders = {} \/ row \notin DOMAIN txn[first].staged THEN 0 ELSE first

\* final_record: the row as it would be once the group is applied.
final_record(group, row) ==
    LET c == prepared_change(group, row)
    IN  IF c = 0 THEN Current(row) ELSE txn[c].staged[row]

\* final_ids_matching: candidates from the index and from the first staged
\* table, kept if their final record still holds the value.
final_ids_matching(group, table, value) ==
    {row \in Rows :
        /\ row[1] = table
        /\ Current(row) = value \/ prepared_change(group, row) # 0
        /\ final_record(group, row) = value}

AllWrites(group) ==
    UNION {{i} \X DOMAIN txn[group[i]].staged : i \in DOMAIN group}

\* Mutant: holders the transaction also writes are not excused but the
\* staged values are not compared either.
UniqueAgainstCommitted(group) ==
    \A w \in AllWrites(group) :
        LET value == txn[group[w[1]]].staged[w[2]]
        IN  (w[2][1] = "parents" /\ Live(value)) =>
              \A row \in Rows :
                 row[1] = "parents" /\ Current(row) = value =>
                     row = w[2] \/ \E v \in AllWrites(group) : v[2] = row

\* validate_unique: no two staged rows share a key, and no other row holds
\* it unless the group writes that row too.
validate_unique(group) ==
    \A w \in AllWrites(group) :
        LET value == txn[group[w[1]]].staged[w[2]]
        IN  (w[2][1] = "parents" /\ Live(value)) =>
              /\ \A v \in AllWrites(group) :
                    v[2][1] = "parents" /\ txn[group[v[1]]].staged[v[2]] = value
                        => v[2] = w[2]
              /\ \A row \in Rows :
                    row[1] = "parents" /\ Current(row) = value =>
                        row = w[2] \/ \E v \in AllWrites(group) : v[2] = row

\* The children of the group resolve in the final view.
ChildrenResolve(group) ==
    \A w \in AllWrites(group) :
        LET value == txn[group[w[1]]].staged[w[2]]
        IN  (w[2][1] = "children" /\ value > NULL) =>
              final_ids_matching(group, "parents", value) # {}

\* Mutant: children are looked for at the snapshot of the transaction, where
\* the cascade looked too.
ParentsReleasedAtSnapshot(group) ==
    \A w \in AllWrites(group) :
        LET old == Current(w[2])
            new == txn[group[w[1]]].staged[w[2]]
        IN  (w[2][1] = "parents" /\ Live(old) /\ new # old) =>
              \/ final_ids_matching(group, "parents", old) # {}
              \/ \A row \in {"children"} \X Children : Reads(group[w[1]], row) # old

\* A key that disappears has another parent or no child in the final view.
ParentsReleased(group) ==
    \A w \in AllWrites(group) :
        LET old == Current(w[2])
            new == txn[group[w[1]]].staged[w[2]]
        IN  (w[2][1] = "parents" /\ Live(old) /\ new # old) =>
              \/ final_ids_matching(group, "parents", old) # {}
              \/ final_ids_matching(group, "children", old) = {}

validate_foreign_keys(group) == ChildrenResolve(group) /\ ParentsReleased(group)

-----------------------------------------------------------------------------
(* Commits.                                                                *)

\* finish_prepared_commit.
CommitSingle(c) ==
    LET valid == /\ ~Conflicts(c)
                 /\ validate_unique(<<c>>)
                 /\ validate_foreign_keys(<<c>>)
    IN  /\ txn[c].phase = "ready"
        /\ \/ /\ valid
              /\ commits' = Append(commits, txn[c].staged)
              /\ published' = Len(commits) + 1
              /\ txn' = [txn EXCEPT ![c] = Answer(c, "committed")]
           \/ /\ ~valid
              /\ txn' = [txn EXCEPT ![c] = Answer(c, "refused")]
              /\ UNCHANGED <<commits, published>>
        /\ UNCHANGED <<onDelete, shadowed>>

\* A row the client writes is written by a member of the group.
Overlaps(group, c) ==
    \E i \in DOMAIN group :
        DOMAIN txn[group[i]].staged \cap DOMAIN txn[c].staged # {}

\* The members a batch takes: a conflicting one, and one that writes a row
\* an earlier member took, are set aside for the single path.
Taken(batch) ==
    LET taken[n \in 0..Len(batch)] ==
          IF n = 0 THEN << >>
          ELSE IF Conflicts(batch[n]) \/ Overlaps(taken[n - 1], batch[n])
          THEN taken[n - 1] ELSE Append(taken[n - 1], batch[n])
    IN  taken[Len(batch)]

\* finish_coordinated_insert_batch: all taken members are validated together
\* and published together, each as its own version.  A failed validation
\* hands every member to the single path, which is CommitSingle.
CommitBatch(batch) ==
    LET group == Taken(batch)
    IN  /\ \A i \in DOMAIN batch : txn[batch[i]].phase = "ready"
        /\ group # << >>
        /\ validate_unique(group) /\ validate_foreign_keys(group)
        /\ commits' = commits \o [i \in DOMAIN group |-> txn[group[i]].staged]
        /\ published' = Len(commits) + Len(group)
        /\ txn' = [c \in Clients |->
                     IF Contains(group, c) THEN Answer(c, "committed") ELSE txn[c]]
        /\ shadowed' = (shadowed \/ \E i, j \in DOMAIN group, t \in {"parents", "children"} :
                          /\ i # j
                          /\ StagedTable(group[i], t) # {}
                          /\ StagedTable(group[j], t) # {})
        /\ UNCHANGED onDelete

Batches == {s \in SeqOf(Clients, BatchMembers) : Len(s) >= 2 /\ IsInjective(s)}

Next ==
    \/ \E c \in Clients :
          \/ Begin(c)
          \/ \E row \in Rows :
                \/ \E value \in KeyValues : Insert(c, row, value) \/ UpdateChild(c, row, value)
                \/ Delete(c, row)
          \/ Prepare(c)
          \/ CommitSingle(c)
    \/ \E batch \in Batches : CommitBatch(batch)

Spec == Init /\ [][Next]_vars

-----------------------------------------------------------------------------
(* Properties.                                                             *)

Referenced(n) == {RowAt(<<"children", c>>, n) : c \in Children} \cap KeyValues
ParentKeys(n) == {RowAt(<<"parents", p>>, n) : p \in Parents}

(* No two live rows of a table share the value of a unique column, however *)
(* concurrent transactions, single or batched, interleave (validate_unique *)
(* over the whole batch).                                                  *)
UniqueHolds ==
    \A p, q \in Parents :
        LET v == RowAt(<<"parents", p>>, published)
        IN  Live(v) /\ v = RowAt(<<"parents", q>>, published) => p = q

(* Every published child resolves to a published parent, through RESTRICT  *)
(* and CASCADE deletes racing inserts of children, as long as no batch     *)
(* staged one table in two of its members (validate_foreign_keys,          *)
(* expand_delete_cascades).                                                *)
ForeignKeysHold == shadowed \/ Referenced(published) \subseteq ParentKeys(published)

(* Every published child resolves to a published parent.  The comment on   *)
(* is_coordinated_insert_candidate promises it of batches too: "the batch  *)
(* validates its members against the committed state *and* against each    *)
(* other".                                                                 *)
ForeignKeysAlwaysHold == Referenced(published) \subseteq ParentKeys(published)
=============================================================================
