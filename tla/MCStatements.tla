---------------------------- MODULE MCStatements -----------------------------
(***************************************************************************)
(* What statements and transactions go through above the storage engine,   *)
(* checked side by side.  A behaviour drives one part, named by `subject`; *)
(* the others stay as they start, so the states are the sum of the parts'  *)
(* and every property below is the property of its part.                   *)
(*                                                                         *)
(* The instances: four writes over three rows of two tables, one of them   *)
(* in a statement that may fail; two transactions of two writes over two   *)
(* parents and two children; two DDL statements with a concurrent client,  *)
(* a crash and a failure; two clients with a run of writes each over two   *)
(* rows; two connections with three units of writes and faults; the        *)
(* bounded SQL inputs of SqlCases.                                         *)
(***************************************************************************)
EXTENDS SqlCases, Constraints

CONSTANTS d1, d2, e1, e2    \* connections, writing clients

VARIABLES subject,
    \* TxnStaging
    staged, stagedBytes, savepoint, ignoring, acceptedKeys, observed, atSnapshot,
    highId, inForce, inForceBefore, stagingCalls,
    \* SchemaChange
    tables, stored, lastVersion, intent, phase, fenced, runsMatch, ddl, client,
    budget,
    \* SqlWrites
    committed, session, started,
    \* Sidecar
    table, conn, live, accepted, units, shown, faults

TS == INSTANCE TxnStaging WITH
    StagedRows <- {<<"a", 1>>, <<"a", 2>>, <<"a", 3>>, <<"b", 1>>},
    SnapshotIds <- {2}, SnapshotSize <- 1, Sizes <- {1, 2}, UniqueKeys <- {1, 2},
    PoolBytes <- 8, MaxWrites <- 4, MaxObserved <- 1

SC == INSTANCE SchemaChange WITH
    Names <- {"t", "u"}, FirstTable <- "t", Ids <- {1, 2}, BatchRows <- 1,
    BackfillRetries <- 1, MaxVersions <- 2, MaxStatements <- 2,
    MaxCrashes <- 1, MaxFaults <- 1

\* `stock = stock - 1 WHERE stock >= 1` and the like, on two rows.
Stmt(op, where, arg, ids) ==
    [op |-> op, where |-> where, arg |-> arg, ids |-> ids]

SW == INSTANCE SqlWrites WITH
    WriteClients <- {e1, e2}, RowIds <- {1, 2}, MaxInt <- 3,
    InitialValues <- <<2, 1>>,
    Autocommits <- {Stmt("add", 1..3, -1, <<1, 2>>),
                    Stmt("set", 1..3, 0, <<1, 2>>), Stmt("mul", 0..3, 2, <<1>>),
                    Stmt("del", {0}, 0, <<1, 2>>), Stmt("insert", {}, 1, <<2>>),
                    Stmt("ignore", {}, 1, <<2, 1>>)},
    InTxn <- {Stmt("add", 1..3, -1, <<1>>), Stmt("select", 0..3, 0, <<1>>),
              Stmt("set", 0..3, 1, <<1, 2>>), Stmt("del", 0..3, 0, <<2>>),
              Stmt("insert", {}, 3, <<2>>), Stmt("ignore", {}, 1, <<2>>)},
    MaxInTxn <- 2, MaxRun <- 1

SI == INSTANCE Sidecar WITH
    Conns <- {d1, d2}, MaxLive <- 2, MaxAccepts <- 2, Ids <- 1..4,
    Present <- 1..3, Touched <- {4}, Wanted <- {1, 3, 4}, Wide <- {4},
    PageBytes <- 1, ScanRows <- 1, Offsets <- {0}, Limits <- {Unlimited, 1},
    Budget <- 3, published <- shown

-----------------------------------------------------------------------------
staging == <<staged, stagedBytes, savepoint, ignoring, acceptedKeys, observed,
             atSnapshot, highId, inForce, inForceBefore, stagingCalls>>
constraints == vars
schema == <<tables, stored, lastVersion, intent, phase, fenced, runsMatch, ddl,
            client, budget>>
writes == <<committed, session, started>>
sidecar == <<table, conn, live, accepted, units, shown, faults>>

Subjects == {"staging", "constraints", "schema", "writes", "sidecar", "sql"}

\* A part that is not driven has one initial state.
smInit ==
    /\ subject \in Subjects
    /\ TS!Init /\ Init /\ SC!Init /\ SW!wrInit /\ SI!scInit
    /\ sqInit
    /\ subject # "staging" => highId = 2 /\ ~ignoring
    /\ subject # "constraints" => onDelete = "Restrict"

\* The connections of the sidecar are interchangeable.
Symmetry == Permutations({d1, d2})

Drive(s) == subject = s /\ UNCHANGED subject

smNext ==
    \/ /\ Drive("staging") /\ TS!Next
       /\ UNCHANGED <<constraints, schema, writes, sidecar, sqVars>>
    \/ /\ Drive("constraints") /\ Next
       /\ UNCHANGED <<staging, schema, writes, sidecar, sqVars>>
    \/ /\ Drive("schema") /\ SC!Next
       /\ UNCHANGED <<staging, constraints, writes, sidecar, sqVars>>
    \/ /\ Drive("writes") /\ SW!wrNext
       /\ UNCHANGED <<staging, constraints, schema, sidecar, sqVars>>
    \/ /\ Drive("sidecar") /\ SI!scNext
       /\ UNCHANGED <<staging, constraints, schema, writes, sqVars>>
    \/ /\ Drive("sql") /\ sqNext
       /\ UNCHANGED <<staging, constraints, schema, writes, sidecar>>

smVars == <<subject, staging, constraints, schema, writes, sidecar, sqVars>>

smSpec == smInit /\ [][smNext]_smVars

-----------------------------------------------------------------------------
(* The properties of the parts; their modules say what each one means.     *)
(* Those of Constraints are used as they are: its state is the initial one *)
(* when another part is driven.                                            *)

\* TxnStaging: what is staged for a row is the last write in force.
StagedIsLastWrite == subject = "staging" => TS!StagedIsLastWrite

\* TxnStaging: only rows written by deltas and never shown are replayed.
ReplayOnlyBlindDeltas == subject = "staging" => TS!ReplayOnlyBlindDeltas

\* TxnStaging: the staged bytes are those of the staged operations.
BudgetExact == subject = "staging" => TS!BudgetExact

\* SchemaChange: every stored row decodes under the published catalog.
PayloadsMatchCatalog == subject = "schema" => SC!PayloadsMatchCatalog

\* SchemaChange: a NOT NULL column holds no NULL.
NotNullHonest == subject = "schema" => SC!NotNullHonest

\* SqlWrites: a successful statement did what it reported, serially.
WritesAsReported == SW!WritesAsReported

\* Sidecar: the pages of a cursor are the rows of its query.
CursorPagesExact == subject = "sidecar" => SI!CursorPagesExact

\* Sidecar: a transaction's answers say what happened to its writes.
TxnAnswersHonest == subject = "sidecar" => SI!TxnAnswersHonest
=============================================================================
