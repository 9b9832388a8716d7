----------------------------- MODULE TxnStaging -----------------------------
(***************************************************************************)
(* The write buffer of one transaction (Txn in db.rs): per table, an       *)
(* append-only vector of operations that turns once into a hash map, the   *)
(* undo of the running statement, the byte budget, and the existence test  *)
(* of an insert.  Ids are integers in id order; an operation is what its   *)
(* properties tell apart: a put of some size or a delete, its position,    *)
(* how many delta updates it can replay at commit, and the size of the     *)
(* record a delete keeps for its cascades.                                 *)
(***************************************************************************)
EXTENDS Integers, Sequences, SequencesExt, FiniteSets, FiniteSetsExt, Functions

CONSTANTS StagedRows,   \* <<table, id>> pairs, the ids small integers
          SnapshotIds,  \* the ids live at the snapshot, in every table
          SnapshotSize, \* the size of each row at the snapshot
          Sizes,        \* encoded sizes of a record
          UniqueKeys,   \* values under the table's UNIQUE index
          PoolBytes,    \* memory.index_delta_pool_bytes
          MaxWrites,    \* bound: staging calls of the transaction
          MaxObserved   \* bound: rows read through the transaction

VARIABLES staged,     \* Txn::staged, a sequence of tables
          stagedBytes,\* Txn::staged_bytes
          savepoint,  \* Txn::statement_savepoint
          ignoring,   \* an INSERT ... ON CONFLICT DO NOTHING owns the Txn
          acceptedKeys, \* its accepted_keys
          observed,   \* Txn::observed, for one table's worth of ids each
          atSnapshot, \* the ids live in the snapshot
          highId,     \* the high id a view at or past the snapshot reports
          inForce,    \* ghost: the writes in force, in order, per table and id
          inForceBefore, \* ghost: inForce when the statement began
          stagingCalls

StagedTables == {row[1] : row \in StagedRows}
StagedIds == {row[2] : row \in StagedRows}

vars == <<staged, stagedBytes, savepoint, ignoring, acceptedKeys, observed,
          atSnapshot, highId, inForce, inForceBefore, stagingCalls>>

NoSavepoint == [tables |-> << >>, stagedBytes |-> 0, undoBytes |-> 0, open |-> FALSE]
Delete == 0                       \* an operation is Delete or a size
NoRebase == 0                     \* or the number of steps to replay
NoRecord == 0                     \* or the size of the deleted record
NoKey == 0                        \* a key with a NULL in it, not in UniqueKeys
Absent == [position |-> -1, operation |-> Delete, rebase |-> NoRebase,
           deleted |-> NoRecord]

-----------------------------------------------------------------------------
(* StagedOperations: [monotonic, general, isGeneral].                      *)

NewOperations == [monotonic |-> << >>, general |-> << >>, isGeneral |-> FALSE]

GetOp(ops, id) ==
    IF ops.isGeneral
    THEN IF id \in DOMAIN ops.general THEN ops.general[id] ELSE Absent
    ELSE LET at == {i \in DOMAIN ops.monotonic : ops.monotonic[i].id = id}
         IN  IF at = {} THEN Absent ELSE ops.monotonic[CHOOSE i \in at : TRUE].op

AsFunction(mono) ==
    [id \in {mono[i].id : i \in DOMAIN mono} |->
        mono[CHOOSE i \in DOMAIN mono : mono[i].id = id].op]

make_general(ops) ==
    IF ops.isGeneral THEN ops
    ELSE [monotonic |-> << >>, general |-> AsFunction(ops.monotonic),
          isGeneral |-> TRUE]

\* insert: past the last id it appends, on the last id it replaces, below it
\* it converts the vector to a map.
PutOp(ops, id, op) ==
    LET mono == ops.monotonic
        gen  == make_general(ops)
    IN  IF ops.isGeneral \/ (mono # << >> /\ Last(mono).id > id)
        THEN [gen EXCEPT !.general = (id :> op) @@ @]
        ELSE IF mono # << >> /\ Last(mono).id = id
        THEN [ops EXCEPT !.monotonic[Len(mono)].op = op]
        ELSE [ops EXCEPT !.monotonic = Append(@, [id |-> id, op |-> op])]

RemoveOp(ops, id) ==
    [ops EXCEPT !.monotonic = SelectSeq(@, LAMBDA e : e.id # id),
                !.general = RestrictDomain(@, LAMBDA i : i # id)]

OpIds(ops) ==
    IF ops.isGeneral THEN DOMAIN ops.general
    ELSE {ops.monotonic[i].id : i \in DOMAIN ops.monotonic}

\* into_ordered: a map is laid out by position, then sorted if that is not
\* id order.  A hole in the positions is the panic "staged positions are
\* contiguous".
PositionsContiguous(ops) ==
    ops.isGeneral => {ops.general[id].position : id \in DOMAIN ops.general}
                        = 0..(Cardinality(DOMAIN ops.general) - 1)

into_ordered(ops) ==
    IF ~ops.isGeneral THEN ops.monotonic
    ELSE LET at(p) == CHOOSE id \in DOMAIN ops.general :
                         ops.general[id].position = p
             laid  == [i \in 1..Cardinality(DOMAIN ops.general) |->
                         [id |-> at(i - 1), op |-> ops.general[at(i - 1)]]]
         IN  IF \A i \in 1..(Len(laid) - 1) : laid[i].id < laid[i + 1].id
             THEN laid
             ELSE SortSeq(laid, LAMBDA a, b : a.id < b.id)

-----------------------------------------------------------------------------
(* Tables of the transaction.                                              *)

TableIndex(tables, t) ==
    LET at == {i \in DOMAIN tables : tables[i].name = t}
    IN  IF at = {} THEN 0 ELSE CHOOSE i \in at : TRUE

\* schema: the first use of a table adds it to the transaction.
WithTable(tables, t) ==
    IF TableIndex(tables, t) # 0 THEN tables
    ELSE Append(tables, [name |-> t, operations |-> NewOperations,
                         nextPosition |-> 0])

StagedOp(tables, t, id) ==
    IF TableIndex(tables, t) = 0 THEN Absent
    ELSE GetOp(tables[TableIndex(tables, t)].operations, id)

\* get_unobserved: the staged operation decides, else the snapshot.
Visible(tables, t, id) ==
    LET op == StagedOp(tables, t, id)
    IN  IF op = Absent THEN id \in atSnapshot ELSE op.operation # Delete

VisibleSize(tables, t, id) ==
    LET op == StagedOp(tables, t, id)
    IN  IF op = Absent THEN SnapshotSize ELSE op.operation

\* staged_operation_bytes, with one byte for the table name and the id.
OperationBytes(op) == IF op = Absent THEN 0 ELSE 1 + op.operation

\* Mutant: overwriting a staged row charges it twice.
BytesAfterTwice(old, operation) == stagedBytes + 1 + operation

\* staged_bytes once the operation replaces the old one.
BytesAfter(old, operation) == stagedBytes - OperationBytes(old) + 1 + operation

\* What stage() charges and saves before it writes, under a savepoint.
SavesOriginal(sp, i, id) ==
    /\ sp.open
    /\ i <= Len(sp.tables)
    /\ id \notin DOMAIN sp.tables[i].operations

\* The undo of one row: its id, the operation and the record a delete kept.
UndoBytes(old) ==
    1 + OperationBytes(old)
      + (IF old.deleted = NoRecord THEN 0 ELSE 1 + old.deleted)

StageFits(sp, tables, i, id, operation) ==
    LET old == GetOp(tables[i].operations, id)
    IN  BytesAfter(old, operation)
          + sp.undoBytes
          + (IF SavesOriginal(sp, i, id) THEN UndoBytes(old) ELSE 0)
            <= PoolBytes

\* stage(): save the original once per statement and row, then overwrite the
\* row's operation in place, or append it at the next position.
SaveOriginal(sp, tables, i, id) ==
    LET old == GetOp(tables[i].operations, id)
    IN  IF ~SavesOriginal(sp, i, id) THEN sp
        ELSE [sp EXCEPT !.tables[i].operations = (id :> old) @@ @,
                        !.undoBytes = @ + UndoBytes(old)]

Overwrite(tables, i, id, operation, rebase, deleted) ==
    LET old == GetOp(tables[i].operations, id)
        op  == [position  |-> IF old = Absent THEN tables[i].nextPosition
                              ELSE old.position,
                operation |-> operation, rebase |-> rebase, deleted |-> deleted]
    IN  [tables EXCEPT ![i].operations   = PutOp(@, id, op),
                       ![i].nextPosition = IF old = Absent THEN @ + 1 ELSE @]

Stage(tables, t, id, operation, rebase, deleted) ==
    LET i == TableIndex(tables, t)
    IN  /\ staged' = Overwrite(tables, i, id, operation, rebase, deleted)
        /\ stagedBytes' = BytesAfter(GetOp(tables[i].operations, id), operation)
        /\ savepoint' = SaveOriginal(savepoint, tables, i, id)

Write(tables, t, id, operation, rebase, deleted, kind) ==
    LET fits == StageFits(savepoint, tables, TableIndex(tables, t), id, operation)
    IN  /\ ~ignoring
        /\ stagingCalls < MaxWrites
        /\ stagingCalls' = stagingCalls + 1
        /\ \/ /\ fits
              /\ Stage(tables, t, id, operation, rebase, deleted)
              /\ inForce' = [inForce EXCEPT ![t][id] =
                            Append(@, [kind |-> kind, operation |-> operation])]
           \/ /\ ~fits
              /\ staged' = tables
              /\ UNCHANGED <<stagedBytes, savepoint, inForce>>
        /\ UNCHANGED <<ignoring, acceptedKeys, observed, atSnapshot, highId,
                       inForceBefore>>

-----------------------------------------------------------------------------
(* Operations of the transaction.                                          *)

\* An INSERT ... ON CONFLICT DO NOTHING has a transaction of its own, which
\* begins by caching the schema of its table.
Init ==
    /\ ignoring \in BOOLEAN
    /\ IF ignoring THEN \E t \in StagedTables : staged = WithTable(<< >>, t)
       ELSE staged = << >>
    /\ stagedBytes = 0 /\ savepoint = NoSavepoint /\ acceptedKeys = {}
    /\ observed = [t \in StagedTables |-> {}]
    /\ atSnapshot = SnapshotIds
    /\ highId \in {id \in StagedIds : \A live \in SnapshotIds : live <= id}
    /\ inForce = [t \in StagedTables |-> [id \in StagedIds |-> << >>]]
    /\ inForceBefore = inForce
    /\ stagingCalls = 0

\* The existence test of insert_record: ids above the high mark a view at or
\* past the snapshot reports are absent without a lookup.
Exists(tables, t, id) ==
    LET op == StagedOp(tables, t, id)
    IN  IF op # Absent THEN op.operation # Delete
        ELSE id <= highId /\ id \in atSnapshot

Insert(t, id, size) ==
    LET tables == WithTable(staged, t)
    IN  /\ ~Exists(tables, t, id)
        /\ Write(tables, t, id, size, NoRebase, NoRecord, "insert")

\* update: the row must be visible; a plain update drops the replay steps.
Update(t, id, size) ==
    LET tables == WithTable(staged, t)
    IN  /\ Visible(tables, t, id)
        /\ Write(tables, t, id, size, NoRebase, NoRecord, "update")

\* update_with_rebase: replayable while every write to the row was a delta.
NextRebase(tables, t, id) ==
    LET earlier == StagedOp(tables, t, id)
    IN  IF earlier = Absent THEN 1
        ELSE IF earlier.rebase = NoRebase THEN NoRebase
        ELSE earlier.rebase + 1

UpdateWithRebase(t, id, size) ==
    LET tables == WithTable(staged, t)
    IN  /\ Visible(tables, t, id)
        /\ Write(tables, t, id, size, NextRebase(tables, t, id), NoRecord, "delta")

\* delete: the record it removes is kept, and charged only to an undo.
DeleteRow(t, id) ==
    LET tables == WithTable(staged, t)
    IN  /\ Visible(tables, t, id)
        /\ Write(tables, t, id, Delete, NoRebase, VisibleSize(tables, t, id), "delete")

\* get: a row handed to the caller is observed.
Get(t, id) ==
    /\ Visible(staged, t, id)
    /\ id \notin observed[t]
    /\ SumFunction([u \in StagedTables |-> Cardinality(observed[u])]) < MaxObserved
    /\ observed' = [observed EXCEPT ![t] = @ \cup {id}]
    /\ UNCHANGED <<staged, stagedBytes, savepoint, ignoring, acceptedKeys,
                   atSnapshot, highId, inForce, inForceBefore, stagingCalls>>

\* with_statement_savepoint.
NewSavepoint ==
    [tables |-> [i \in DOMAIN staged |->
                    [nextPosition |-> staged[i].nextPosition,
                     operations   |-> << >>]],
     stagedBytes |-> stagedBytes, undoBytes |-> 0, open |-> TRUE]

BeginStatement ==
    /\ ~ignoring /\ ~savepoint.open
    /\ stagingCalls < MaxWrites
    /\ savepoint' = NewSavepoint
    /\ inForceBefore' = inForce
    /\ UNCHANGED <<staged, stagedBytes, ignoring, acceptedKeys, observed,
                   atSnapshot, highId, inForce, stagingCalls>>

StatementSucceeds ==
    /\ savepoint.open
    /\ savepoint' = NoSavepoint
    /\ UNCHANGED <<staged, stagedBytes, ignoring, acceptedKeys, observed,
                   atSnapshot, highId, inForce, inForceBefore, stagingCalls>>

\* Mutant: positions are not handed back.
UndoneKeepsPosition(table, undo, order) ==
    [table EXCEPT
        !.operations = FoldLeft(LAMBDA ops, id :
                            IF undo.operations[id] = Absent THEN RemoveOp(ops, id)
                            ELSE PutOp(ops, id, undo.operations[id]),
                         @, order)]

\* The undo of one table, its rows restored in the order the map yields them.
Undone(table, undo, order) ==
    [table EXCEPT
        !.operations = FoldLeft(LAMBDA ops, id :
                            IF undo.operations[id] = Absent THEN RemoveOp(ops, id)
                            ELSE PutOp(ops, id, undo.operations[id]),
                         @, order),
        !.nextPosition = undo.nextPosition]

\* finish_statement after an error or an unwind.
Restored(tables, sp, reversed) ==
    [i \in 1..Len(sp.tables) |->
        LET undo == sp.tables[i]
            up   == SetToSortSeq(DOMAIN undo.operations, <)
        IN  Undone(tables[i], undo, IF reversed THEN Reverse(up) ELSE up)]

StatementFails ==
    /\ savepoint.open
    /\ \E reversed \in BOOLEAN : staged' = Restored(staged, savepoint, reversed)
    /\ stagedBytes' = savepoint.stagedBytes
    /\ savepoint' = NoSavepoint
    /\ inForce' = inForceBefore
    /\ UNCHANGED <<ignoring, acceptedKeys, observed, atSnapshot, highId,
                   inForceBefore, stagingCalls>>

\* A column name, the key and the entry of accepted_keys.
KeyBytes(key) == IF key = NoKey THEN 0 ELSE 1

\* insert_if_unique: a row of INSERT ... ON CONFLICT DO NOTHING, a statement
\* of its own. The index of the latest state may hold the key (taken); then,
\* for a key or an id already there and when the budget is short, the row is
\* staged in vain and the savepoint restored.
insert_if_unique(t, id, size, key, taken) ==
    LET sp     == NewSavepoint
        saved  == SaveOriginal(sp, staged, 1, id)
        fits   == StageFits(sp, staged, 1, id, size)
        put    == Overwrite(staged, 1, id, size, NoRebase, NoRecord)
        bytes  == BytesAfter(Absent, size) + KeyBytes(key)
        unique == key = NoKey \/ (key \notin acceptedKeys /\ ~taken)
    IN  /\ ignoring /\ t = staged[1].name
        /\ stagingCalls < MaxWrites
        /\ stagingCalls' = stagingCalls + 1
        /\ \/ /\ ~Exists(staged, t, id) /\ fits /\ unique
              /\ bytes + saved.undoBytes <= PoolBytes
              /\ staged' = put
              /\ stagedBytes' = bytes
              /\ acceptedKeys' = acceptedKeys \cup ({key} \ {NoKey})
              /\ inForce' = [inForce EXCEPT ![t][id] =
                            Append(@, [kind |-> "insert", operation |-> size])]
           \/ /\ ~Exists(staged, t, id) /\ fits
              /\ ~unique \/ bytes + saved.undoBytes > PoolBytes
              /\ staged' = Restored(put, saved, FALSE)
              /\ UNCHANGED <<stagedBytes, acceptedKeys, inForce>>
           \/ /\ Exists(staged, t, id) \/ ~fits
              /\ UNCHANGED <<staged, stagedBytes, acceptedKeys, inForce>>
        /\ UNCHANGED <<savepoint, ignoring, observed, atSnapshot, highId,
                       inForceBefore>>

Next ==
    \/ \E <<t, id>> \in StagedRows :
          \/ Insert(t, id, Min(Sizes))
          \/ Update(t, id, Max(Sizes))
          \/ UpdateWithRebase(t, id, Min(Sizes))
          \/ DeleteRow(t, id)
          \/ Get(t, id)
          \/ \E key \in UniqueKeys \cup {NoKey}, size \in Sizes, taken \in BOOLEAN :
                insert_if_unique(t, id, size, key, taken)
    \/ BeginStatement
    \/ StatementSucceeds
    \/ StatementFails

Spec == Init /\ [][Next]_vars

-----------------------------------------------------------------------------
(* What commit_staged consumes.                                            *)

\* Mutant: a read row stays replayable.
CommittedRebaseObserved(t, e) == e.op.rebase

\* commit_uncontrolled: a row returned to the caller is not replayed.
CommittedRebase(t, e) ==
    IF e.id \in observed[t] THEN NoRebase ELSE e.op.rebase

Written(t) == {id \in StagedIds : inForce[t][id] # << >>}

(* After any mix of statements, rollbacks and conversions, the operations  *)
(* handed to the commit are exactly the last write in force on every row,  *)
(* in strictly ascending id order (PreparedTable is binary-searched and    *)
(* its last id becomes the high mark), and laying them out never meets a   *)
(* hole in the positions (StagedOperations::into_ordered, whose expect     *)
(* would panic in the middle of a commit).                                 *)
StagedIsLastWrite ==
    \A t \in StagedTables :
        LET i == TableIndex(staged, t)
        IN  IF i = 0 THEN Written(t) = {}
            ELSE LET ops == staged[i].operations
                     out == into_ordered(ops)
                 IN  /\ PositionsContiguous(ops)
                     /\ OpIds(ops) = Written(t)
                     /\ {out[k].id : k \in DOMAIN out} = Written(t)
                     /\ \A k \in 1..(Len(out) - 1) : out[k].id < out[k + 1].id
                     /\ \A k \in DOMAIN out :
                           out[k].op.operation = Last(inForce[t][out[k].id]).operation

(* A row is replayed over a newer version at commit only if every write of *)
(* the transaction to it was a delta update, each step once, and the       *)
(* caller never saw the row (ObservedRows, update_with_rebase): otherwise  *)
(* a newer version has to be a conflict.                                   *)
ReplayOnlyBlindDeltas ==
    \A i \in DOMAIN staged :
        LET t   == staged[i].name
            out == into_ordered(staged[i].operations)
        IN  \A k \in DOMAIN out :
               LET past == inForce[t][out[k].id]
                   r    == CommittedRebase(t, out[k])
               IN  r # NoRebase =>
                     /\ r = Len(past)
                     /\ \A w \in DOMAIN past : past[w].kind = "delta"
                     /\ out[k].id \notin observed[t]

(* The budget counts what is staged and the keys an ON CONFLICT DO NOTHING *)
(* has accepted, the undo what the running statement would restore, no     *)
(* more and no less, also after failed statements and skipped rows; and    *)
(* both together never exceed index_delta_pool_bytes (stage,               *)
(* insert_if_unique, finish_statement).  The record a delete keeps is      *)
(* charged only while it is in an undo, as in the code.                    *)
BudgetExact ==
    LET bytes(i) == LET ops == staged[i].operations
                    IN  MapThenSumSet(LAMBDA id : OperationBytes(GetOp(ops, id)),
                                      OpIds(ops))
        undo(i)  == LET ops == savepoint.tables[i].operations
                    IN  MapThenSumSet(LAMBDA id : UndoBytes(ops[id]), DOMAIN ops)
    IN  /\ stagedBytes = MapThenSumSet(bytes, DOMAIN staged)
                            + MapThenSumSet(KeyBytes, acceptedKeys)
        /\ savepoint.undoBytes = MapThenSumSet(undo, DOMAIN savepoint.tables)
        /\ stagedBytes + savepoint.undoBytes <= PoolBytes
=============================================================================
