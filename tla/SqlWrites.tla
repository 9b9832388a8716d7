------------------------------ MODULE SqlWrites ------------------------------
(***************************************************************************)
(* INSERT, UPDATE and DELETE of sql/exec.rs, run by several clients on one *)
(* table.  An autocommit statement takes a snapshot, reads the LATEST rows *)
(* one after the other, stages its changes against the snapshot and        *)
(* commits; a conflict starts it again.  A statement of an explicit        *)
(* transaction reads the snapshot and what the transaction staged.  An     *)
(* UPDATE that only adds to its column can be replayed at commit on a      *)
(* version newer than the snapshot (DeltaUpdate, rebase_change).           *)
(*                                                                         *)
(* A row is its one numeric column.  A statement is a record               *)
(* [op, where, arg, ids]: the values its WHERE keeps, and the ids it reads *)
(* or inserts, in order.  `newer` is the set of ids whose latest version   *)
(* is past the snapshot, which is all the version check tells apart.       *)
(***************************************************************************)
EXTENDS Integers, Sequences, FiniteSets, SequencesExt

CONSTANTS WriteClients, RowIds,
          MaxInt,          \* arithmetic past it overflows
          InitialValues,   \* id -> value, or Absent
          Autocommits,     \* the statements sent outside a transaction
          InTxn,           \* the statements sent inside one
          MaxInTxn,        \* statements of one transaction
          MaxRun           \* statements and transactions each client starts

VARIABLES committed,       \* id -> the latest committed value
          session,         \* client -> its statement or transaction
          started          \* client -> how many it has started

wrVars == <<committed, session, started>>

Absent == -1
NoRow == [i \in {} |-> << >>]
NoStmt == [op |-> "none", where |-> {}, arg |-> 0, ids |-> << >>]
Reads(stmt) == stmt.op \in {"add", "mul", "set", "del", "select"}

Idle(result, count) ==
    [phase |-> "idle", result |-> result, count |-> count]

-----------------------------------------------------------------------------
(* One statement on one row.                                               *)

\* arithmetic_value: a sum or product that leaves the range is an error.
arithmetic_value(left, stmt) ==
    LET value == IF stmt.op = "mul" THEN left * stmt.arg ELSE left + stmt.arg
    IN  [ok |-> value \in 0..MaxInt, value |-> value]

\* The value an UPDATE or DELETE gives a row it matched.
Patched(stmt, value) ==
    CASE stmt.op = "set" -> [ok |-> TRUE, value |-> stmt.arg]
      [] stmt.op = "del" -> [ok |-> TRUE, value |-> Absent]
      [] OTHER -> arithmetic_value(value, stmt)

\* DeltaUpdate::plan: only an addition to the column itself can be replayed.
DeltaPlan(stmt) == stmt.op = "add"

\* DeltaUpdate::apply: nothing when the WHERE fails on this version.
DeltaApply(stmt, value) ==
    LET next == arithmetic_value(value, stmt)
    IN  [ok |-> value \in stmt.where /\ next.ok, value |-> next.value]

\* rebase_change: the delta updates of a row, in order, on its latest version.
rebase_change(op, latest) ==
    IF ~op.rebase \/ latest = Absent THEN [ok |-> FALSE, value |-> latest]
    ELSE FoldLeft(LAMBDA acc, stmt : IF acc.ok THEN DeltaApply(stmt, acc.value)
                                     ELSE acc,
                  [ok |-> TRUE, value |-> latest], op.steps)

-----------------------------------------------------------------------------
(* Staging.  staged: id -> [value, steps, rebase]; steps are the statements *)
(* that counted the row.                                                   *)

Visible(s, i) == IF i \in DOMAIN s.staged THEN s.staged[i].value ELSE s.view[i]

\* Txn::update, update_with_rebase and delete: a row the transaction does not
\* see is not staged; a row stays replayable while all its writes are deltas.
StageWrite(s, i, stmt, value) ==
    LET earlier == i \in DOMAIN s.staged
        steps   == IF earlier THEN s.staged[i].steps ELSE << >>
        op      == [value  |-> value,
                    steps  |-> Append(steps, stmt),
                    rebase |-> /\ DeltaPlan(stmt)
                               /\ earlier => s.staged[i].rebase]
    IN  IF Visible(s, i) = Absent THEN s
        ELSE [s EXCEPT !.staged = [j \in DOMAIN @ \cup {i} |->
                                      IF j = i THEN op ELSE @[j]],
                       !.count = @ + 1]

\* Txn::insert: the id must be free in what the transaction sees.
StageInsert(s, i, stmt) ==
    LET steps == IF i \in DOMAIN s.staged THEN s.staged[i].steps ELSE << >>
        op    == [value |-> stmt.arg, steps |-> Append(steps, stmt),
                  rebase |-> FALSE]
    IN  [s EXCEPT !.staged = [j \in DOMAIN @ \cup {i} |->
                                 IF j = i THEN op ELSE @[j]],
                  !.count = @ + 1]

\* The rows a statement matched, staged in order; an arithmetic error ends it.
StageMatched(s, stmt, matched) ==
    FoldLeft(LAMBDA acc, m :
               LET next == Patched(stmt, m.value)
               IN  IF ~acc.ok \/ ~next.ok THEN [acc EXCEPT !.ok = FALSE]
                   ELSE [acc EXCEPT !.s = StageWrite(@, m.id, stmt, next.value)],
             [ok |-> TRUE, s |-> s], matched)

\* insert_if_unique, for ON CONFLICT DO NOTHING: skipped when the id shows in the transaction or its key
\* in the latest unique index; `accepted` keys are ids staged before.
insert_if_unique(s, i, stmt) ==
    IF Visible(s, i) # Absent \/ committed[i] # Absent THEN s
    ELSE StageInsert(s, i, stmt)

\* The rows of exec_insert_txn_with_conflicts, one by one; a taken id fails the
\* statement unless it says ON CONFLICT DO NOTHING.
StageInserts(s, stmt, ids) ==
    FoldLeft(LAMBDA acc, i :
               CASE ~acc.ok -> acc
                 [] stmt.op = "ignore" ->
                      [acc EXCEPT !.s = insert_if_unique(@, i, stmt)]
                 [] acc.ok /\ stmt.op = "insert" ->
                      IF Visible(acc.s, i) # Absent THEN [acc EXCEPT !.ok = FALSE]
                      ELSE [acc EXCEPT !.s = StageInsert(@, i, stmt)],
             [ok |-> TRUE, s |-> s], ids)

-----------------------------------------------------------------------------
(* Commit, as far as the rows of this table go.                            *)

\* The conflict check: every staged row with a newer version is replayed, or
\* the commit fails.  A row the client was shown is never replayed.
Resolve(s) ==
    [i \in DOMAIN s.staged |->
        IF i \notin s.newer THEN [ok |-> TRUE, value |-> s.staged[i].value]
        ELSE rebase_change([s.staged[i] EXCEPT !.rebase = @ /\ i \notin s.seen],
                           committed[i])]

Lands(s) == \A i \in DOMAIN s.staged : Resolve(s)[i].ok

\* The session of every other client learns that these rows have moved.
Publish(c, s, result) ==
    /\ committed' = [i \in RowIds |-> IF i \in DOMAIN s.staged
                                      THEN Resolve(s)[i].value
                                      ELSE committed[i]]
    /\ session' = [d \in WriteClients |->
                      IF d = c THEN result
                      ELSE IF session[d].phase = "idle" THEN session[d]
                      ELSE [session[d] EXCEPT !.newer = @ \cup DOMAIN s.staged]]

-----------------------------------------------------------------------------
(* An autocommit statement.                                                *)

\* db.begin() comes before the first read.
Opened(stmt) ==
    [phase |-> "read", stmt |-> stmt, todo |-> stmt.ids, matched |-> << >>,
     view |-> committed, newer |-> {}, staged |-> NoRow, seen |-> {},
     count |-> 0, length |-> 0]

Begin(c, stmt) ==
    /\ session[c].phase = "idle"
    /\ started[c] < MaxRun
    /\ started' = [started EXCEPT ![c] = @ + 1]
    /\ session' = [session EXCEPT ![c] = Opened(stmt)]
    /\ UNCHANGED committed

\* fetch_table, one row: the latest version, kept when the WHERE holds.
FetchRow(c) ==
    LET s == session[c]
        i == Head(s.todo)
    IN  /\ s.phase = "read" /\ s.todo # << >> /\ Reads(s.stmt)
        /\ session' = [session EXCEPT
              ![c].todo = Tail(@),
              ![c].matched = IF committed[i] \in s.stmt.where
                             THEN Append(@, [id |-> i, value |-> committed[i]])
                             ELSE @]
        /\ UNCHANGED <<committed, started>>

\* One row of an INSERT.
InsertRow(c) ==
    LET s == session[c]
        r == StageInserts(s, s.stmt, <<Head(s.todo)>>)
    IN  /\ s.phase = "read" /\ s.todo # << >> /\ ~Reads(s.stmt)
        /\ session' = [session EXCEPT
              ![c] = IF r.ok THEN [r.s EXCEPT !.todo = Tail(@)]
                     ELSE Idle("error", 0)]
        /\ UNCHANGED <<committed, started>>

\* A loop that began its transaction only after reading the rows.
StageRowsBeginLate(s) ==
    StageMatched([s EXCEPT !.view = committed, !.newer = {}], s.stmt, s.matched)

\* The matched rows are patched and staged against the snapshot.
StageRows(s) == StageMatched(s, s.stmt, s.matched)

StageStatement(c) ==
    LET s == session[c]
        r == StageRows(s)
    IN  /\ s.phase = "read" /\ s.todo = << >>
        /\ session' = [session EXCEPT
              ![c] = IF r.ok THEN [r.s EXCEPT !.phase = "commit"]
                     ELSE Idle("error", 0)]
        /\ UNCHANGED <<committed, started>>

CommitStatement(c) ==
    LET s == session[c]
    IN  /\ s.phase = "commit" /\ Lands(s)
        /\ Publish(c, s, Idle("ok", s.count))
        /\ UNCHANGED started

\* A conflict: the loop starts over until WRITE_RETRY_BUDGET has passed; a
\* plain INSERT is not retried.
RetryStatement(c) ==
    LET s == session[c]
    IN  /\ s.phase = "commit" /\ ~Lands(s)
        /\ \/ /\ s.stmt.op # "insert"
              /\ session' = [session EXCEPT ![c] = Opened(s.stmt)]
           \/ session' = [session EXCEPT ![c] = Idle("error", 0)]
        /\ UNCHANGED <<committed, started>>

-----------------------------------------------------------------------------
(* An explicit transaction.                                                *)

BeginTxn(c) ==
    /\ session[c].phase = "idle"
    /\ started[c] < MaxRun
    /\ started' = [started EXCEPT ![c] = @ + 1]
    /\ session' = [session EXCEPT ![c] = [Opened(NoStmt) EXCEPT !.phase = "txn"]]
    /\ UNCHANGED committed

\* fetch_table_txn: the rows as the transaction sees them.
fetch_table_txn(s, stmt) ==
    LET ids == SelectSeq(stmt.ids, LAMBDA i : Visible(s, i) \in stmt.where)
    IN  [n \in 1..Len(ids) |-> [id |-> ids[n], value |-> Visible(s, ids[n])]]

\* execute_txn_statement: the savepoint of a statement that failed.
AfterStatement(r, s) == IF r.ok THEN r.s ELSE s

\* exec_select_txn, exec_update_txn, exec_delete_txn and exec_insert_txn; a
\* failed statement leaves the transaction as it was, and ON CONFLICT DO NOTHING
\* is refused.  SELECT and DELETE show the client the rows.
ExecTxn(c, stmt) ==
    LET s    == session[c]
        rows == fetch_table_txn(s, stmt)
        r    == CASE stmt.op = "select" -> [ok |-> TRUE, s |-> s]
                  [] stmt.op = "ignore" -> [ok |-> FALSE, s |-> s]
                  [] stmt.op = "insert" -> StageInserts(s, stmt, stmt.ids)
                  [] OTHER -> StageMatched(s, stmt, rows)
        shown == IF stmt.op \in {"select", "del"}
                 THEN {rows[n].id : n \in DOMAIN rows} ELSE {}
    IN  /\ s.phase = "txn" /\ s.length < MaxInTxn
        /\ session' = [session EXCEPT
              ![c] = [AfterStatement(r, s) EXCEPT
                        !.length = @ + 1, !.seen = @ \cup shown]]
        /\ UNCHANGED <<committed, started>>

CommitTxn(c) ==
    LET s == session[c]
    IN  /\ s.phase = "txn"
        /\ IF Lands(s) THEN Publish(c, s, Idle("ok", s.count))
           ELSE /\ session' = [session EXCEPT ![c] = Idle("error", 0)]
                /\ UNCHANGED committed
        /\ UNCHANGED started

Rollback(c) ==
    /\ session[c].phase = "txn"
    /\ session' = [session EXCEPT ![c] = Idle("error", 0)]
    /\ UNCHANGED <<committed, started>>

-----------------------------------------------------------------------------
wrInit ==
    /\ committed = InitialValues
    /\ session = [c \in WriteClients |-> Idle("ok", 0)]
    /\ started = [c \in WriteClients |-> 0]

wrNext ==
    \E c \in WriteClients :
        \/ \E stmt \in Autocommits : Begin(c, stmt)
        \/ FetchRow(c)
        \/ InsertRow(c)
        \/ StageStatement(c)
        \/ CommitStatement(c)
        \/ RetryStatement(c)
        \/ BeginTxn(c)
        \/ \E stmt \in InTxn : ExecTxn(c, stmt)
        \/ CommitTxn(c)
        \/ Rollback(c)

wrSpec == wrInit /\ [][wrNext]_wrVars

-----------------------------------------------------------------------------
(* What an answer says is what happened.                                   *)

\* The row a sequence of statements makes of a row, each of them finding what
\* it says it found: an insert no row, any other a row its WHERE keeps.
Serially(steps, value) ==
    FoldLeft(LAMBDA acc, stmt :
        IF stmt.op \in {"insert", "ignore"}
        THEN [ok |-> acc.ok /\ acc.value = Absent, value |-> stmt.arg]
        ELSE LET next == Patched(stmt, acc.value)
             IN  [ok    |-> acc.ok /\ acc.value \in stmt.where /\ next.ok,
                  value |-> next.value],
        [ok |-> TRUE, value |-> value], steps)

Counted(s) == FoldFunction(LAMBDA op, n : n + Len(op.steps), 0, s.staged)

\* Every statement and transaction that answers success did to each row it
\* counted what its statements, run one after the other on the version that
\* was the latest when it committed, do to it: no other client's update is
\* overwritten, no guard such as `stock >= 1` is passed on a stale value, and
\* the count in the answer is the number of row changes made.  A row that a
\* transaction had shown to its client and then wrote was still the row shown.
WritesAsReported ==
    [][\A c \in WriteClients :
         LET s == session[c]
         IN  (s.phase # "idle" /\ session'[c].phase = "idle"
                                /\ session'[c].result = "ok") =>
               /\ session'[c].count = Counted(s)
               /\ \A i \in RowIds \ DOMAIN s.staged : committed'[i] = committed[i]
               /\ \A i \in DOMAIN s.staged :
                     /\ Serially(s.staged[i].steps, committed[i]) =
                            [ok |-> TRUE, value |-> committed'[i]]
                     /\ i \in s.seen => committed[i] = s.view[i]]_wrVars
=============================================================================
