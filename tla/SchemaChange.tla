---------------------------- MODULE SchemaChange ----------------------------
(***************************************************************************)
(* Schema changes of a running database (db.rs, ddl.rs): the catalog-only  *)
(* statements, published in one manifest, and the statements that also     *)
(* rewrite data, recorded first in ddl.json and replayed by open.          *)
(*                                                                         *)
(* A stored payload holds its values by position, without column names.    *)
(* Every column gets an identity of its own when it is created, and every  *)
(* stored cell remembers the identity it was written for.  A row's `kept`  *)
(* says that a client's last committed write left a value in column "c".   *)
(* Both are history: no guard reads them.                                  *)
(*                                                                         *)
(* Commits are durable at once, and a manifest publication is one step:    *)
(* CommitPath and ManifestStore model what is inside them.                 *)
(***************************************************************************)
EXTENDS Integers, Sequences, FiniteSets, SequencesExt, FiniteSetsExt

CONSTANTS Names,            \* table names
          FirstTable,       \* the table of the database at the start
          Ids,              \* record ids, in key order
          BatchRows,        \* rows of a backfill batch
          BackfillRetries,  \* BACKFILL_RETRIES
          MaxVersions, MaxStatements, MaxCrashes, MaxFaults

VARIABLES tables,      \* the published catalog
          stored,      \* the newest version of every row
          lastVersion, \* committed_version
          intent,      \* ddl.json
          phase,       \* of the handle: "open", "opening", "closed", "refused"
          fenced,      \* canonical_error
          runsMatch,   \* primary.runs has the generation open expects
          ddl,         \* the statement holding the ddl lock
          client,      \* a client's transaction
          budget       \* what the bounds still allow

scVars == <<tables, stored, lastVersion, intent, phase, fenced, runsMatch,
            ddl, client, budget>>

-----------------------------------------------------------------------------
NoTable == [epoch |-> 0, columns |-> << >>]
NoRow   == [version |-> 0, live |-> FALSE, payload |-> << >>, at |-> "wal",
            indexed |-> FALSE, kept |-> FALSE]
NoIntent == [op |-> "none", table |-> "", column |-> "", to |-> "",
             notNull |-> FALSE]
NoTxn    == [table |-> ""]
Idle     == [at |-> "idle", cursor |-> 0, batch |-> {}, tries |-> 0,
             attempts |-> 0, since |-> 0, staged |-> {}]

Column(name, ident, nullable, default) ==
    [name |-> name, ident |-> ident, nullable |-> nullable,
     default |-> default]

Cell(column, value) == [of |-> column.ident, value |-> value]

Exists(n) == tables[n].columns # << >>

HasColumn(columns, name) == \E k \in DOMAIN columns : columns[k].name = name

PositionOf(columns, name) ==
    CHOOSE k \in DOMAIN columns : columns[k].name = name

\* latest_owned and visible_owned: the row as reads and commits see it, which
\* hides what an earlier table of this name left behind.
Owned(n, i) ==
    /\ Exists(n)
    /\ stored[n, i].indexed
    /\ stored[n, i].version > tables[n].epoch

VisibleRow(n, i) == Owned(n, i) /\ stored[n, i].live

\* Whether an encoded record has no value for the column at position k.
encoded_column_needs_fill(payload, k) ==
    k > Len(payload) \/ payload[k].value = "null"

\* The directory as visit_table walks it, whatever table wrote the row.
ids_needing_fill_in(n, name, cursor) ==
    {i \in Ids : /\ i > cursor
                 /\ stored[n, i].indexed
                 /\ stored[n, i].live
                 /\ encoded_column_needs_fill(stored[n, i].payload,
                        PositionOf(tables[n].columns, name))}

table_is_empty(n) == \A i \in Ids : ~(stored[n, i].indexed /\ stored[n, i].live)

-----------------------------------------------------------------------------
Init ==
    /\ tables = [n \in Names |->
                   IF n = FirstTable
                   THEN [epoch |-> 0, columns |-> <<Column("a", 0, TRUE, FALSE)>>]
                   ELSE NoTable]
    /\ stored = [r \in Names \X Ids |-> NoRow]
    /\ lastVersion = 0
    /\ intent = NoIntent
    /\ phase = "open"
    /\ fenced = FALSE
    /\ runsMatch = TRUE
    /\ ddl = Idle
    /\ client = NoTxn
    /\ budget = [statements |-> MaxStatements, crashes |-> MaxCrashes,
                 faults |-> MaxFaults]

-----------------------------------------------------------------------------
(* A client's transaction: one write against the schema it cached, then    *)
(* commit.                                                                  *)

\* A value an insert or update may give a column.
Allowed(column) == {"user"} \cup (IF column.nullable THEN {"null"} ELSE {})

\* normalize_record: an omitted column takes its default, or NULL.
normalize_record(columns, given) ==
    [k \in DOMAIN columns |->
        Cell(columns[k],
             CASE given[k] # "omitted" -> given[k]
               [] columns[k].default   -> "default"
               [] OTHER                -> "null")]

\* The payload of an update: the patch over the row's own values.
Patched(columns, payload, k, value) ==
    [j \in DOMAIN columns |->
        CASE j = k            -> Cell(columns[j], value)
          [] j <= Len(payload) /\ j # k -> payload[j]
          [] OTHER            -> Cell(columns[j], "null")]

StageRow(n, i, live, payload) ==
    client' = [table |-> n, schema |-> tables[n], id |-> i, live |-> live,
               payload |-> payload, since |-> lastVersion]

TxnInsert(n, i) ==
    LET columns == tables[n].columns
    IN  /\ ~VisibleRow(n, i)
        /\ \E given \in [DOMAIN columns -> {"user", "null", "omitted"}] :
              /\ \A k \in DOMAIN columns :
                    \/ columns[k].name = "c"
                    \/ given[k] = "user"
              /\ \A k \in DOMAIN columns :
                    normalize_record(columns, given)[k].value
                        \in Allowed(columns[k]) \cup {"default"}
              /\ StageRow(n, i, TRUE, normalize_record(columns, given))

TxnUpdate(n, i) ==
    LET columns == tables[n].columns
    IN  /\ VisibleRow(n, i)
        /\ \E k \in DOMAIN columns : \E value \in Allowed(columns[k]) :
              StageRow(n, i, TRUE, Patched(columns, stored[n, i].payload, k, value))

TxnDelete(n, i) ==
    /\ VisibleRow(n, i)
    /\ StageRow(n, i, FALSE, << >>)

TxnStage(n, i) ==
    /\ phase = "open"
    /\ client = NoTxn
    /\ lastVersion < MaxVersions
    /\ Exists(n)
    /\ \/ TxnInsert(n, i)
       \/ TxnUpdate(n, i)
       \/ TxnDelete(n, i)
    /\ UNCHANGED <<tables, stored, lastVersion, intent, phase, fenced,
                   runsMatch, ddl, budget>>

\* A mutant: the table is found again, its columns are not compared.
TableStillThere(n, schema) == Exists(n)

\* The schema a transaction cached must equal the published one: the epoch
\* and the definitions of its columns, whichever statement created them.
Definition(column) == [column EXCEPT !.ident = 0]
Definitions(columns) == [k \in DOMAIN columns |-> Definition(columns[k])]

SchemaUnchanged(n, schema) ==
    /\ Exists(n)
    /\ tables[n].epoch = schema.epoch
    /\ Definitions(tables[n].columns) = Definitions(schema.columns)

\* History: where the published column is defined as the one the transaction
\* cached, the value it commits is a value for the published one.
WrittenAtCommit(n, schema, payload) ==
    [k \in DOMAIN payload |->
        IF /\ k \in DOMAIN tables[n].columns
           /\ Definition(tables[n].columns[k]) = Definition(schema.columns[k])
           /\ payload[k].of = schema.columns[k].ident
        THEN [payload[k] EXCEPT !.of = tables[n].columns[k].ident]
        ELSE payload[k]]

Conflicting(n, i, since) == Owned(n, i) /\ stored[n, i].version > since

ClientValue(columns, payload) ==
    /\ HasColumn(columns, "c")
    /\ LET k == PositionOf(columns, "c")
       IN  k \in DOMAIN payload /\ payload[k].value = "user"

TxnCommit ==
    LET n == client.table
        i == client.id
    IN  /\ phase = "open"
        /\ client # NoTxn
        /\ client' = NoTxn
        /\ IF /\ ~fenced
              /\ SchemaUnchanged(n, client.schema)
              /\ ~Conflicting(n, i, client.since)
           THEN /\ lastVersion' = lastVersion + 1
                /\ stored' = [stored EXCEPT ![n, i] =
                      [version |-> lastVersion + 1, live |-> client.live,
                       payload |-> WrittenAtCommit(n, client.schema,
                                                   client.payload),
                       at |-> "wal",
                       indexed |-> TRUE,
                       kept |-> ClientValue(client.schema.columns,
                                            client.payload)]]
           ELSE UNCHANGED <<lastVersion, stored>>
        /\ UNCHANGED <<tables, intent, phase, fenced, runsMatch, ddl, budget>>

-----------------------------------------------------------------------------
(* Statements that only publish a catalog.  Each runs under the ddl lock   *)
(* and the commit mutex.                                                    *)

\* lock_commit_for_maintenance refuses a fenced database.
MayChange == phase = "open" /\ ddl = Idle /\ ~fenced

Counted == /\ budget.statements > 0
           /\ budget' = [budget EXCEPT !.statements = @ - 1]

NewIdent == MaxStatements - budget.statements + 1

create_table(n) ==
    /\ MayChange /\ Counted
    /\ \A m \in Names : ~Exists(m)
    /\ tables' = [tables EXCEPT ![n] =
                    [epoch   |-> lastVersion,
                     columns |-> <<Column("a", NewIdent, TRUE, FALSE)>>]]
    /\ runsMatch' = FALSE
    /\ UNCHANGED <<stored, lastVersion, intent, phase, fenced, ddl, client>>

\* The rows only the delta holds leave the directory; those in runs stay.
drop_table(n) ==
    /\ MayChange /\ Counted
    /\ Exists(n)
    /\ tables' = [tables EXCEPT ![n] = NoTable]
    /\ stored' = [r \in Names \X Ids |->
                    IF r[1] = n /\ stored[r].at = "wal"
                    THEN [stored[r] EXCEPT !.indexed = FALSE]
                    ELSE stored[r]]
    /\ runsMatch' = FALSE
    /\ UNCHANGED <<lastVersion, intent, phase, fenced, ddl, client>>

\* ADD COLUMN without a default.
add_plain_column(n) ==
    /\ MayChange /\ Counted
    /\ Exists(n)
    /\ ~HasColumn(tables[n].columns, "c")
    /\ \E nullable \in BOOLEAN :
          /\ nullable \/ table_is_empty(n)
          /\ tables' = [tables EXCEPT ![n].columns =
                          Append(@, Column("c", NewIdent, nullable, FALSE))]
    /\ UNCHANGED <<stored, lastVersion, intent, phase, fenced, runsMatch,
                   ddl, client>>

-----------------------------------------------------------------------------
(* Statements with an intent: run_ddl_intent, and the steps of apply_ddl.  *)

Intent(op, table, column, to, notNull) ==
    [op |-> op, table |-> table, column |-> column, to |-> to,
     notNull |-> notNull]

\* What add_column, drop_column, rename_table and rename_column accept.
Intents ==
    LET named(n, name) == HasColumn(tables[n].columns, name)
        live == {n \in Names : Exists(n)}
    IN  {Intent("AddColumn", n, "c", "", notNull) :
            n \in {m \in live : ~named(m, "c")}, notNull \in BOOLEAN}
        \cup UNION {{Intent("DropColumn", n, name, "", FALSE) :
                        name \in {c \in {"a", "b", "c"} : named(n, c)}} :
                    n \in {m \in live : Len(tables[m].columns) > 1}}
        \cup {Intent("RenameColumn", n, "a", "b", FALSE) :
                n \in {m \in live : named(m, "a") /\ ~named(m, "b")}}
        \cup {Intent("RenameTable", n, "", to, FALSE) :
                n \in live, to \in Names \ live}

FirstStep(op) == IF op = "AddColumn" THEN "publish" ELSE "rewrite"

\* The intent is durable before the first step.  A write that fails after its
\* rename fences the database, and leaves the intent for the next open.
run_ddl_intent ==
    /\ MayChange /\ Counted
    /\ \E wanted \in Intents :
          /\ intent' = wanted
          /\ ddl' = [Idle EXCEPT !.at = FirstStep(wanted.op)]
    /\ UNCHANGED <<tables, stored, lastVersion, phase, fenced, runsMatch,
                   client>>

\* An error fences a running database; the intent stays.  While opening, the
\* error is the result of open.
DdlError(closedAs) ==
    /\ ddl' = Idle
    /\ IF phase = "opening"
       THEN phase' = closedAs /\ UNCHANGED fenced
       ELSE fenced' = TRUE /\ UNCHANGED phase

\* The name a row is written under, the catalog, and the payload, after a
\* rewrite.  Each does nothing when the change is already published.
output_table(n) ==
    IF intent.op = "RenameTable" /\ n = intent.table THEN intent.to ELSE n

apply_to_catalog ==
    LET n == intent.table
        columns == tables[n].columns
    IN  CASE intent.op = "RenameTable" /\ Exists(n) ->
               [tables EXCEPT ![n] = NoTable, ![intent.to] = tables[n]]
          [] intent.op = "RenameColumn" /\ HasColumn(columns, intent.column) ->
               [tables EXCEPT ![n].columns[PositionOf(columns, intent.column)].name =
                                  intent.to]
          [] intent.op = "DropColumn" /\ HasColumn(columns, intent.column) ->
               [tables EXCEPT ![n].columns =
                   RemoveAt(@, PositionOf(columns, intent.column))]
          [] OTHER -> tables

transform_payload(n, payload) ==
    LET columns == tables[n].columns
        drops == /\ intent.op = "DropColumn"
                 /\ n = intent.table
                 /\ HasColumn(columns, intent.column)
                 /\ PositionOf(columns, intent.column) <= Len(payload)
    IN  IF drops THEN RemoveAt(payload, PositionOf(columns, intent.column))
        ELSE payload

\* rewrite_segments: only live rows of the catalog's tables are written, and
\* the manifest publishes rows and catalog together.
rewrite_segments ==
    /\ ddl.at = "rewrite"
    /\ tables' = apply_to_catalog
    /\ stored' = [r \in Names \X Ids |->
          LET from == {n \in Names : output_table(n) = r[1] /\ VisibleRow(n, r[2])}
          IN  IF from = {} THEN NoRow
              ELSE LET n == CHOOSE m \in from : TRUE
                       row == stored[n, r[2]]
                       dropsC == /\ intent.op = "DropColumn"
                                 /\ intent.column = "c"
                   IN  [row EXCEPT !.payload = transform_payload(n, @),
                                   !.at = "segment",
                                   !.kept = @ /\ ~dropsC]]
    /\ runsMatch' = TRUE
    /\ ddl' = [ddl EXCEPT !.at = "clear"]
    /\ UNCHANGED <<lastVersion, intent, phase, fenced, client, budget>>

\* apply_add_column, first step: publish the column as nullable.
AddNullable ==
    LET n == intent.table
        columns == tables[n].columns
        added == Column("c", NewIdent - 1, TRUE, TRUE)
    IN  /\ ddl.at = "publish"
        /\ tables' = [tables EXCEPT ![n].columns =
              IF HasColumn(columns, "c")
              THEN [@ EXCEPT ![PositionOf(columns, "c")].nullable = TRUE]
              ELSE Append(@, added)]
        /\ ddl' = [ddl EXCEPT !.at = "fill"]
        /\ UNCHANGED <<stored, lastVersion, intent, phase, fenced, runsMatch,
                       client, budget>>

\* backfill_column: list a batch of the rows that need the value, then patch
\* every one of them in one transaction.
BackfillBatch ==
    LET pending == ids_needing_fill_in(intent.table, "c", ddl.cursor)
        batch == {i \in pending :
                    Cardinality({j \in pending : j < i}) < BatchRows}
    IN  /\ ddl.at = "fill"
        /\ ddl' = CASE pending # {} ->
                         [ddl EXCEPT !.at = "begin", !.batch = batch,
                                     !.cursor = Max(batch), !.tries = 0]
                    [] pending = {} /\ intent.notNull ->
                         [ddl EXCEPT !.at = "verify"]
                    [] OTHER -> [ddl EXCEPT !.at = "clear"]
        /\ UNCHANGED <<tables, stored, lastVersion, intent, phase, fenced,
                       runsMatch, client, budget>>

\* A row deleted in the meantime, and one of an earlier table, is skipped.
BackfillBegin ==
    /\ ddl.at = "begin"
    /\ ddl' = [ddl EXCEPT
                  !.at = "commit", !.since = lastVersion,
                  !.staged = {i \in ddl.batch : VisibleRow(intent.table, i)}]
    /\ UNCHANGED <<tables, stored, lastVersion, intent, phase, fenced,
                   runsMatch, client, budget>>

BackfillCommit ==
    LET n == intent.table
        columns == tables[n].columns
        k == PositionOf(columns, "c")
        conflict == \E i \in ddl.staged : Conflicting(n, i, ddl.since)
    IN  /\ ddl.at = "commit"
        /\ \/ /\ ~conflict
              /\ lastVersion' = IF ddl.staged = {} THEN lastVersion
                                ELSE lastVersion + 1
              /\ stored' = [r \in Names \X Ids |->
                    IF r[1] = n /\ r[2] \in ddl.staged
                    THEN [stored[r] EXCEPT
                            !.version = lastVersion', !.at = "wal",
                            !.payload = Patched(columns, @, k, "default")]
                    ELSE stored[r]]
              /\ ddl' = [ddl EXCEPT !.at = "fill"]
              /\ UNCHANGED <<phase, fenced>>
           \/ /\ conflict
              /\ IF ddl.tries < BackfillRetries
                 THEN /\ ddl' = [ddl EXCEPT !.at = "begin", !.tries = @ + 1]
                      /\ UNCHANGED <<phase, fenced>>
                 ELSE DdlError("refused")
              /\ UNCHANGED <<lastVersion, stored>>
        /\ UNCHANGED <<tables, intent, runsMatch, client, budget>>

\* A mutant: NOT NULL is published after the backfill without looking again.
EnforceUnverified ==
    LET n == intent.table
        k == PositionOf(tables[n].columns, "c")
    IN  /\ ddl.at = "verify"
        /\ tables' = [tables EXCEPT ![n].columns[k].nullable = FALSE]
        /\ ddl' = [ddl EXCEPT !.at = "clear"]
        /\ UNCHANGED <<stored, lastVersion, intent, phase, fenced, runsMatch,
                       client, budget>>

\* NOT NULL is published under the commit mutex, over a table in which no row
\* needs the value; otherwise the backfill starts again, a bounded number of
\* times.
EnforceNotNull ==
    LET n == intent.table
        pending == ids_needing_fill_in(n, "c", 0)
        k == PositionOf(tables[n].columns, "c")
    IN  /\ ddl.at = "verify"
        /\ \/ /\ pending = {}
              /\ tables' = [tables EXCEPT ![n].columns[k].nullable = FALSE]
              /\ ddl' = [ddl EXCEPT !.at = "clear"]
              /\ UNCHANGED <<phase, fenced>>
           \/ /\ pending # {}
              /\ UNCHANGED tables
              /\ IF ddl.attempts < BackfillRetries
                 THEN /\ ddl' = [ddl EXCEPT !.at = "fill", !.cursor = 0,
                                            !.attempts = @ + 1]
                      /\ UNCHANGED <<phase, fenced>>
                 ELSE DdlError("refused")
        /\ UNCHANGED <<stored, lastVersion, intent, runsMatch, client, budget>>

\* What a checkpoint leaves: the delta's rows are in a segment and a run, and
\* the log no longer holds the ones the delta dropped.
Checkpointed ==
    [r \in Names \X Ids |->
        CASE stored[r].at = "wal" /\ stored[r].indexed ->
               [stored[r] EXCEPT !.at = "segment"]
          [] stored[r].at = "wal" /\ ~stored[r].indexed -> NoRow
          [] OTHER -> stored[r]]

\* The intent is removed; after a replay, finish_ddl_recovery checkpoints.
ClearIntent ==
    /\ ddl.at = "clear"
    /\ intent' = NoIntent
    /\ ddl' = Idle
    /\ phase' = "open"
    /\ IF phase = "opening"
       THEN stored' = Checkpointed /\ runsMatch' = TRUE
       ELSE UNCHANGED <<stored, runsMatch>>
    /\ UNCHANGED <<tables, lastVersion, fenced, client, budget>>

\* An I/O error in any step, or in the write or the removal of the intent.
DdlStepFails ==
    /\ ddl # Idle
    /\ budget.faults > 0
    /\ budget' = [budget EXCEPT !.faults = @ - 1]
    /\ DdlError("closed")
    /\ UNCHANGED <<tables, stored, lastVersion, intent, runsMatch, client>>

-----------------------------------------------------------------------------
checkpoint ==
    /\ phase = "open"
    /\ ~fenced
    /\ \E r \in Names \X Ids : stored[r].at = "wal" /\ stored[r] # NoRow
    /\ stored' = Checkpointed
    /\ runsMatch' = TRUE
    /\ UNCHANGED <<tables, lastVersion, intent, phase, fenced, ddl, client,
                   budget>>

Crash ==
    /\ phase \in {"open", "opening"}
    /\ budget.crashes > 0
    /\ budget' = [budget EXCEPT !.crashes = @ - 1]
    /\ phase' = "closed"
    /\ fenced' = FALSE
    /\ ddl' = Idle
    /\ client' = NoTxn
    /\ UNCHANGED <<tables, stored, lastVersion, intent, runsMatch>>

\* What open puts in the directory: the runs as they are when their generation
\* matches, otherwise the segments, pruned by epoch unless an intent is
\* pending; and every row of the log.
Reloaded(r) ==
    LET kept == /\ Exists(r[1])
                /\ stored[r].version > tables[r[1]].epoch
    IN  CASE stored[r] = NoRow \/ (stored[r].at = "segment" /\ runsMatch) ->
               stored[r]
          [] stored[r] # NoRow /\ stored[r].at = "wal" ->
               [stored[r] EXCEPT !.indexed = TRUE]
          [] OTHER ->
               [stored[r] EXCEPT !.indexed = kept \/ intent # NoIntent]

open_with ==
    /\ phase \in {"closed", "refused"}
    /\ stored' = [r \in Names \X Ids |-> Reloaded(r)]
    /\ runsMatch' = TRUE
    /\ IF intent = NoIntent
       THEN phase' = "open" /\ UNCHANGED ddl
       ELSE /\ phase' = "opening"
            /\ ddl' = [Idle EXCEPT !.at = FirstStep(intent.op)]
    /\ UNCHANGED <<tables, lastVersion, intent, fenced, client, budget>>

Next ==
    \/ \E n \in Names, i \in Ids : TxnStage(n, i)
    \/ TxnCommit
    \/ \E n \in Names : create_table(n) \/ drop_table(n) \/ add_plain_column(n)
    \/ run_ddl_intent
    \/ rewrite_segments
    \/ AddNullable \/ BackfillBatch \/ BackfillBegin \/ BackfillCommit
    \/ EnforceNotNull
    \/ ClearIntent
    \/ DdlStepFails
    \/ checkpoint
    \/ Crash \/ open_with

Spec == Init /\ [][Next]_scVars

-----------------------------------------------------------------------------
(* Properties *)

\* Every stored value is read back as the column it was written for: schema
\* changes, interrupted or not, and commits of transactions that cached an
\* older schema never leave a payload whose positions mean other columns.  A
\* column that was dropped and created again with the same definition while a
\* transaction had a value staged for it counts as the same: finish_prepared_
\* commit compares definitions.
PayloadsMatchCatalog ==
    \A n \in Names, i \in Ids :
        VisibleRow(n, i) =>
            /\ Len(stored[n, i].payload) <= Len(tables[n].columns)
            /\ \A k \in DOMAIN stored[n, i].payload :
                  stored[n, i].payload[k].of = tables[n].columns[k].ident

\* A column the catalog declares NOT NULL holds a value in every row, although
\* clients write NULLs while ADD COLUMN is filling the table.
NotNullHonest ==
    \A n \in Names, i \in Ids :
        VisibleRow(n, i) =>
            \A k \in DOMAIN tables[n].columns :
                \/ tables[n].columns[k].nullable
                \/ ~encoded_column_needs_fill(stored[n, i].payload, k)

\* "Write `fill` into every record that predates the column or holds NULL in
\* it": a value a client committed in the new column is not overwritten by
\* the default.
BackfillFillsOnlyNulls ==
    \A n \in Names, i \in Ids :
        (VisibleRow(n, i) /\ stored[n, i].kept) =>
            ClientValue(tables[n].columns, stored[n, i].payload)

\* "the next read-write open replays the operation to completion before
\* serving anything": open never returns an error of the replayed statement.
ReplayCompletes == phase # "refused"
=============================================================================
