------------------------------- MODULE Sidecar -------------------------------
(***************************************************************************)
(* The sidecar server of elitesql-cli (serve.rs) with the streaming cursor *)
(* it serves (QueryCursor, sql/exec.rs): connections, each with at most    *)
(* one explicit transaction or one open cursor, requests served one at a   *)
(* time per connection, pages cut by rows and by bytes, deadlines, and     *)
(* replies that may not reach the client.                                  *)
(*                                                                         *)
(* One action is one request: read_request_line, dispatch_with_txn and the *)
(* reply.  The engine below is its outcome: a table of ids holding the     *)
(* number of the write unit that last wrote them (0: no row), snapshots    *)
(* that are copies of it, and first-committer-wins commits.  A request     *)
(* refused before it touches anything leaves the state as it was.          *)
(***************************************************************************)
EXTENDS Integers, Sequences, FiniteSets, TLC, SequencesExt

CONSTANTS Conns,         \* clients that may connect
          MaxLive,       \* ServeOptions::max_connections
          MaxAccepts,    \* connections in a behaviour
          Ids,           \* row ids, in id order
          Present,       \* the ids with a row at first
          Touched,       \* the ids that requests write
          Wanted,        \* the ids the cursor's WHERE keeps
          Wide,          \* ids whose row alone exceeds a response
          PageBytes,     \* MAX_RESPONSE_BYTES less the envelope
          ScanRows,      \* QueryCursor::batch_rows
          Offsets, Limits,
          Budget         \* write units and faults in a behaviour, together

VARIABLES table,       \* id -> [unit that wrote the row or 0, commit version]
          conn,        \* what handle_connection_with_timeouts keeps, per client
          live,        \* the accept loop's count of connections
          accepted,
          units,       \* history of the write units, by number
          published,   \* <<unit, id>> pairs ever visible in the table
          faults

scVars == <<table, conn, live, accepted, units, published, faults>>

Unlimited == -1
NoFault == -1
Spend == Len(units) + faults < Budget
RowBytes(id) == IF id \in Wide THEN PageBytes + 1 ELSE 1

-----------------------------------------------------------------------------
(* QueryCursor: rows of one snapshot, fetched a batch at a time.           *)

CursorNew(snap, driver, offset, limit) ==
    [snap |-> snap, driver |-> driver, after |-> 0, batch |-> << >>,
     offset |-> offset, limit |-> limit, done |-> FALSE, late |-> FALSE,
     fault |-> NoFault]

\* How many rows the next batch may hold: OFFSET and LIMIT bound it only when
\* no predicate can drop a row.
FetchRows(cur) ==
    IF cur.limit # Unlimited /\ cur.driver \subseteq Wanted
    THEN LET all == cur.offset + cur.limit
             few == IF ScanRows < all THEN ScanRows ELSE all
         IN  IF few < 1 THEN 1 ELSE few
    ELSE ScanRows

FetchBatch(cur) ==
    LET ids  == {i \in cur.driver : i > cur.after /\ cur.snap[i].unit # 0}
        next == SetToSortSeq(ids, <)
    IN  SubSeq(next, 1, IF FetchRows(cur) < Len(next) THEN FetchRows(cur)
                                                      ELSE Len(next))

\* One call of Iterator::next: a row, the end, or an error; an error or the
\* end is final.
RECURSIVE next_controlled(_)
next_controlled(cur) ==
    LET ended(out) == [cur |-> [cur EXCEPT !.done = TRUE, !.batch = << >>],
                       out |-> out, row |-> 0]
        rest  == [cur EXCEPT !.batch = Tail(@)]
        fetch == FetchBatch(cur)
    IN  CASE cur.done -> ended("none")
          [] ~cur.done /\ cur.late -> ended("error")
          [] ~cur.done /\ ~cur.late /\ cur.limit = 0 -> ended("none")
          [] ~cur.done /\ ~cur.late /\ cur.limit # 0 /\ cur.batch # << >> ->
               LET id == Head(cur.batch)
               IN  IF id \notin Wanted THEN next_controlled(rest)
                   ELSE IF cur.offset > 0
                   THEN next_controlled([rest EXCEPT !.offset = @ - 1])
                   ELSE [cur |-> [rest EXCEPT !.limit =
                                    IF @ = Unlimited THEN @ ELSE @ - 1],
                         out |-> "row", row |-> id]
          [] OTHER ->
               IF cur.fault = 0 THEN ended("error")
               ELSE IF fetch = << >> THEN ended("none")
               ELSE next_controlled(
                      [cur EXCEPT !.batch = fetch, !.after = Last(fetch),
                                  !.fault = IF @ = NoFault THEN @ ELSE @ - 1])

\* sidecar_cursor_next, from the rows collected so far: a row that does not
\* fit the page goes back to pending; an error discards what was collected.
RECURSIVE PageFrom(_, _, _, _)
PageFrom(active, rows, bytes, max) ==
    LET got  == IF active.pending # 0
                THEN [cur |-> active.cur, out |-> "row", row |-> active.pending]
                ELSE next_controlled(active.cur)
        now  == [cur |-> got.cur, pending |-> 0]
        size == bytes + RowBytes(got.row)
    IN  CASE got.out = "none" -> [active |-> now, rows |-> rows, res |-> "done"]
          [] got.out = "error" ->
               [active |-> now, rows |-> << >>, res |-> "error"]
          [] OTHER ->
               IF Len(rows) = max \/ size > PageBytes
               THEN [active |-> [now EXCEPT !.pending = got.row], rows |-> rows,
                     res |-> IF rows = << >> THEN "retained" ELSE "more"]
               ELSE PageFrom(now, Append(rows, got.row), size, max)

\* As sidecar_cursor_next, but the row that ended the page is forgotten.
RECURSIVE PageDropsRow(_, _, _, _)
PageDropsRow(active, rows, bytes, max) ==
    LET got  == next_controlled(active.cur)
        now  == [cur |-> got.cur, pending |-> 0]
        size == bytes + RowBytes(got.row)
    IN  CASE got.out = "none" -> [active |-> now, rows |-> rows, res |-> "done"]
          [] got.out = "error" ->
               [active |-> now, rows |-> << >>, res |-> "error"]
          [] OTHER ->
               IF Len(rows) = max \/ size > PageBytes
               THEN [active |-> now, rows |-> rows,
                     res |-> IF rows = << >> THEN "retained" ELSE "more"]
               ELSE PageDropsRow(now, Append(rows, got.row), size, max)

CursorNextDropsRow(active, max) == PageDropsRow(active, << >>, 0, max)

sidecar_cursor_next(active, max) == PageFrom(active, << >>, 0, max)

-----------------------------------------------------------------------------
(* Connections.                                                            *)

NoTxn == [unit |-> 0, snap |-> << >>, staged |-> << >>, old |-> FALSE]
NoCursor == [cur |-> CursorNew(<< >>, {}, 0, 0), pending |-> 0]
NoView == [expect |-> << >>, got |-> << >>, done |-> FALSE, erred |-> FALSE]
Closed == [open |-> FALSE, auth |-> FALSE, txn |-> NoTxn, active |-> NoCursor,
           reading |-> FALSE, view |-> NoView]

InTxn(c) == conn[c].txn.unit # 0
Reading(c) == conn[c].reading

scInit ==
    /\ table = [i \in Ids |->
                  [unit |-> IF i \in Present THEN 1 ELSE 0, at |-> 0]]
    /\ conn = [c \in Conns |-> Closed]
    /\ live = 0
    /\ accepted = 0
    /\ units = <<[told |-> "ok", asked |-> TRUE, ids |-> Present, cut |-> "no"]>>
    /\ published = {1} \X Present
    /\ faults = 0

\* accept_loop: a connection over the limit is refused and never served.
Accept(c) ==
    /\ ~conn[c].open
    /\ accepted < MaxAccepts
    /\ live < MaxLive
    /\ live' = live + 1
    /\ accepted' = accepted + 1
    /\ conn' = [conn EXCEPT ![c] = [Closed EXCEPT !.open = TRUE]]
    /\ UNCHANGED <<table, units, published, faults>>

\* handle_connection returns and its thread gives the slot back.  The
\* transaction is dropped, which is rollback, and so is the cursor.
Hangup(c) ==
    /\ conn' = [conn EXCEPT ![c] = Closed]
    /\ live' = live - 1

\* What a request leaves behind: the connection goes on as `then` when the
\* reply was written, and ends when writing it failed.  For a request that
\* changes nothing but its own connection the second case is Disconnect.
Answer(c, then, delivered) ==
    IF delivered THEN conn' = [conn EXCEPT ![c] = then] /\ UNCHANGED live
                 ELSE Hangup(c)

\* The client goes away, sends a line over the limit, or (with a transaction
\* or a cursor open, or before it authenticated) stays silent too long.
Disconnect(c) ==
    /\ conn[c].open
    /\ Hangup(c)
    /\ UNCHANGED <<table, accepted, units, published, faults>>

Authenticate(c) ==
    /\ conn[c].open /\ ~conn[c].auth
    /\ Answer(c, [conn[c] EXCEPT !.auth = TRUE], TRUE)
    /\ UNCHANGED <<table, accepted, units, published, faults>>

\* Every operation but auth needs an authenticated connection, and finds its
\* transaction younger than the sidecar's deadline.
Serving(c) == conn[c].open /\ conn[c].auth /\ ~conn[c].txn.old

-----------------------------------------------------------------------------
(* Cursor requests.                                                        *)

\* What the statement of query_open answers on a snapshot.
CursorAnswer(snap, driver, offset, limit) ==
    LET ids == SetToSortSeq({i \in driver \cap Wanted : snap[i].unit # 0}, <)
        all == SubSeq(ids, offset + 1, Len(ids))
    IN  IF limit = Unlimited \/ limit > Len(all) THEN all
                                                 ELSE SubSeq(all, 1, limit)

\* query_open, refused inside a transaction or over an open cursor.  The
\* driver is the set of ids the access path visits.
QueryOpen(c) ==
    /\ Serving(c) /\ ~InTxn(c) /\ ~Reading(c)
    /\ \E offset \in Offsets, limit \in Limits,
          driver \in {Ids, Wanted} :
         LET cur  == CursorNew(table, driver, offset, limit)
             view == [NoView EXCEPT !.expect =
                        CursorAnswer(table, driver, offset, limit)]
         IN  Answer(c, [conn[c] EXCEPT !.reading = TRUE,
                          !.active = [cur |-> cur, pending |-> 0],
                          !.view = view], TRUE)
    /\ UNCHANGED <<table, accepted, units, published, faults>>

\* query_next: the page, the end (which closes the cursor), the row that
\* fits no response, or an error of the cursor.
QueryNext(c) ==
    /\ Serving(c) /\ Reading(c)
    /\ \E max \in 1..2, fault \in {NoFault} \cup 0..1 :
         LET page == sidecar_cursor_next(
                       [conn[c].active EXCEPT !.cur.fault = fault], max)
             left == [page.active EXCEPT !.cur.fault = NoFault]
             view == [conn[c].view EXCEPT !.got = @ \o page.rows,
                        !.done  = page.res = "done",
                        !.erred = @ \/ page.res = "error"]
         IN  /\ fault = NoFault \/ (Spend /\ page.res = "error")
             /\ faults' = IF fault = NoFault THEN faults ELSE faults + 1
             /\ Answer(c, [conn[c] EXCEPT
                             !.reading = page.res # "done",
                             !.active = IF page.res = "done" THEN NoCursor
                                                             ELSE left,
                             !.view = view], TRUE)
    /\ UNCHANGED <<table, accepted, units, published>>

QueryClose(c) ==
    /\ Serving(c) /\ Reading(c)
    /\ Answer(c, [conn[c] EXCEPT !.reading = FALSE, !.active = NoCursor,
                                 !.view = NoView], TRUE)
    /\ UNCHANGED <<table, accepted, units, published, faults>>

\* The deadline of the statement's QueryControl, which the cursor keeps.
CursorDeadline(c) ==
    /\ Reading(c) /\ ~conn[c].active.cur.late /\ Spend
    /\ conn' = [conn EXCEPT ![c].active.cur.late = TRUE]
    /\ faults' = faults + 1
    /\ UNCHANGED <<table, accepted, live, units, published>>

-----------------------------------------------------------------------------
(* Transaction requests.                                                   *)

\* The client learns the fate of a unit once; a lost reply tells nothing.
Tell(us, u, what, delivered) ==
    IF delivered /\ us[u].told = "nothing"
    THEN [us EXCEPT ![u].told = what] ELSE us

\* `cut` says which work a reply over the limit has hidden from the client.
NewUnit == [told |-> "nothing", asked |-> FALSE, ids |-> {}, cut |-> "no"]

Begin(c) ==
    /\ Serving(c) /\ ~InTxn(c) /\ ~Reading(c)
    /\ Spend
    /\ units' = Append(units, NewUnit)
    /\ \E delivered \in BOOLEAN :
         Answer(c, [conn[c] EXCEPT
                      !.txn = [unit |-> Len(units) + 1, snap |-> table,
                               staged |-> << >>, old |-> FALSE]], delivered)
    /\ UNCHANGED <<table, accepted, published, faults>>

Visible(t, i) ==
    IF i \in DOMAIN t.staged THEN t.staged[i] ELSE t.snap[i].unit

\* txn_insert, txn_update, txn_delete and the statements of query_in_txn stage
\* a change.  txn_insert echoes the row, and INSERT its ids or its RETURNING
\* columns: when that reply is over the limit, in rows or in bytes, the client
\* is answered an error, after the row was staged.
StageIn(c, i, value, echoed) ==
    LET t   == conn[c].txn
        cut == echoed /\ i \in Wide
    IN  \E delivered \in BOOLEAN :
          /\ Answer(c, [conn[c] EXCEPT !.txn.staged = (i :> value) @@ @],
                    delivered)
          /\ units' = IF cut THEN [units EXCEPT ![t.unit].cut = "staged"]
                      ELSE [units EXCEPT ![t.unit].ids = @ \cup {i}]

TxnInsert(c) ==
    /\ Serving(c) /\ InTxn(c)
    /\ \E i \in Touched, echoed \in BOOLEAN :
          /\ Visible(conn[c].txn, i) = 0
          /\ StageIn(c, i, conn[c].txn.unit, echoed)
    /\ UNCHANGED <<table, accepted, published, faults>>

TxnUpdate(c) ==
    /\ Serving(c) /\ InTxn(c)
    /\ \E i \in Touched : /\ Visible(conn[c].txn, i) # 0
                          /\ StageIn(c, i, conn[c].txn.unit, FALSE)
    /\ UNCHANGED <<table, accepted, published, faults>>

TxnDelete(c) ==
    /\ Serving(c) /\ InTxn(c)
    /\ \E i \in Touched : /\ Visible(conn[c].txn, i) # 0
                          /\ StageIn(c, i, 0, FALSE)
    /\ UNCHANGED <<table, accepted, published, faults>>

NextVersion == 1 + CHOOSE v \in {table[i].at : i \in Ids} :
                     \A i \in Ids : table[i].at <= v

\* What a commit of unit u publishes.
Publish(u, staged) ==
    /\ table' = [i \in Ids |->
                   IF i \in DOMAIN staged
                   THEN [unit |-> staged[i], at |-> NextVersion] ELSE table[i]]
    /\ published' = published \cup ({u} \X DOMAIN staged)

\* How the engine's commit of unit u ends: published, refused by a conflict
\* or by another error, or unknown to the engine itself.
Ends(u, staged, outcome, applied) ==
    /\ outcome = "ok" => applied
    /\ outcome \in {"conflict", "error"} => ~applied
    /\ IF applied THEN Publish(u, staged) ELSE UNCHANGED <<table, published>>
    /\ faults' = IF outcome = "unknown" THEN faults + 1 ELSE faults

Outcomes == {"ok", "conflict", "error", "unknown"}

\* commit takes the transaction whatever the outcome.
Commit(c) ==
    LET t     == conn[c].txn
        clash == \E i \in DOMAIN t.staged : table[i].at # t.snap[i].at
        asked == [units EXCEPT ![t.unit].asked = TRUE]
    IN  /\ Serving(c) /\ InTxn(c)
        /\ UNCHANGED accepted
        /\ \E delivered \in BOOLEAN, outcome \in Outcomes, applied \in BOOLEAN :
             /\ Answer(c, [conn[c] EXCEPT !.txn = NoTxn], delivered)
             /\ IF clash THEN outcome \in {"conflict", "error"}
                         ELSE outcome # "conflict"
             /\ outcome = "unknown" => Spend
             /\ Ends(t.unit, t.staged, outcome, applied)
             /\ units' = Tell(asked, t.unit, outcome, delivered)

Rollback(c) ==
    /\ Serving(c) /\ InTxn(c)
    /\ \E delivered \in BOOLEAN :
         /\ Answer(c, [conn[c] EXCEPT !.txn = NoTxn], delivered)
         /\ units' = Tell(units, conn[c].txn.unit, "rolled back", delivered)
    /\ UNCHANGED <<table, accepted, published, faults>>

TxnAges(c) ==
    /\ InTxn(c) /\ ~conn[c].txn.old
    /\ conn' = [conn EXCEPT ![c].txn.old = TRUE]
    /\ UNCHANGED <<table, accepted, live, units, published, faults>>

\* Any request after the deadline, commit included, is answered that the
\* transaction was rolled back, and takes it.
ExpiredKeepsTxn(c) ==
    /\ conn[c].open /\ conn[c].txn.old
    /\ \E delivered \in BOOLEAN :
         /\ Answer(c, [conn[c] EXCEPT !.txn.old = FALSE], delivered)
         /\ units' = Tell(units, conn[c].txn.unit, "expired", delivered)
    /\ UNCHANGED <<table, accepted, published, faults>>

Expired(c) ==
    /\ conn[c].open /\ conn[c].txn.old
    /\ \E delivered \in BOOLEAN :
         /\ Answer(c, [conn[c] EXCEPT !.txn = NoTxn], delivered)
         /\ units' = Tell(units, conn[c].txn.unit, "expired", delivered)
    /\ UNCHANGED <<table, accepted, published, faults>>

\* query with one autocommit statement, refused inside a transaction but not
\* over an open cursor.  It commits before its answer is looked at: an INSERT
\* whose answer is over the limit, in rows (sidecar_query) or in bytes
\* (bounded_response_bytes), is answered an error like a failed one.
Query(c) ==
    /\ Serving(c) /\ ~InTxn(c)
    /\ Spend
    /\ \E i \in Touched, value \in {0, Len(units) + 1}, echoed \in BOOLEAN,
          delivered \in BOOLEAN, outcome \in Outcomes, applied \in BOOLEAN :
         LET insert == value # 0 /\ table[i].unit = 0
             cut    == echoed /\ outcome = "ok" /\ i \in Wide
             told   == IF cut THEN "error" ELSE outcome
         IN  /\ value = 0 => table[i].unit # 0
             /\ echoed => insert
             /\ outcome = "unknown" => Len(units) + 1 + faults < Budget
             /\ Answer(c, conn[c], delivered)
             /\ Ends(Len(units) + 1, i :> value, outcome, applied)
             /\ units' = Append(units,
                  [told  |-> IF delivered THEN told ELSE "nothing",
                   asked |-> TRUE, ids |-> {i},
                   cut   |-> IF cut THEN "committed" ELSE "no"])
    /\ UNCHANGED accepted

scNext ==
    \E c \in Conns :
        \/ Accept(c) \/ Disconnect(c) \/ Authenticate(c)
        \/ QueryOpen(c) \/ QueryNext(c) \/ QueryClose(c) \/ CursorDeadline(c)
        \/ Begin(c) \/ TxnInsert(c) \/ TxnUpdate(c) \/ TxnDelete(c)
        \/ Commit(c) \/ Rollback(c) \/ TxnAges(c) \/ Expired(c) \/ Query(c)

scSpec == scInit /\ [][scNext]_scVars

-----------------------------------------------------------------------------
\* Across pages of any size, retries of a row that fits no page and commits
\* of other clients, the rows a client received are a prefix of the answer on
\* the snapshot query_open took, each once and in order; and when it was told
\* the cursor is done, without an error before, it received all of them
\* (sidecar_cursor_next, QueryCursor::next).
CursorPagesExact ==
    \A c \in Conns :
        LET v == conn[c].view
        IN  /\ IsPrefix(v.got, v.expect)
            /\ v.done /\ ~v.erred => v.got = v.expect

\* The rows a unit of work has ever made visible.
PublishedBy(u) == {i \in Ids : <<u, i>> \in published}

\* What a client is told of a transaction or an autocommit statement is what
\* happened: a conflict, a rollback or an expiry published nothing, and nor did
\* an error, unless it replaced the answer of a statement that had committed;
\* an ok published all the changes the client was told are staged, and no
\* other unless a reply about one was cut; and nothing is published without a
\* commit request, whenever connections break and deadlines pass
\* (handle_request, drop of Txn; retry_safe in the client libraries).
TxnAnswersHonest ==
    \A u \in DOMAIN units :
        LET unit == units[u]
            ids  == PublishedBy(u)
        IN  /\ ids # {} => unit.asked
            /\ unit.told \in {"conflict", "rolled back", "expired"} => ids = {}
            /\ unit.told = "error" => ids = {} \/ unit.cut = "committed"
            /\ unit.told = "ok" => unit.ids \subseteq ids
            /\ unit.told = "ok" /\ unit.cut = "no" => ids = unit.ids

\* error.maybe_published is "True for 17 and 1" (bindings/python/README.md:83):
\* an error with any other code, which is no CommitUnknown and no lost reply,
\* published nothing.  An INSERT ... RETURNING whose answer is over the limit
\* says otherwise (serve.rs:488-491, 417-442).
ErrorsPublishNothing ==
    \A u \in DOMAIN units : units[u].told = "error" => PublishedBy(u) = {}
=============================================================================
