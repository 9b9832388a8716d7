----------------------------- MODULE CommitPath -----------------------------
(***************************************************************************)
(* The commit path of db/commit.rs over one WAL: commit_staged, the        *)
(* coordinator that batches prepared commits behind an elected leader, the *)
(* single-commit path, the groups of Safe commits that share one sync, the *)
(* write fence, the Balanced sync timer, and crashes.                      *)
(*                                                                         *)
(* One hold of the commit mutex is one action: everything it protects      *)
(* (writer, sync group, state, published version) is read and written      *)
(* nowhere else. The fence is set and results are delivered after the      *)
(* mutex is released, so those are steps of their own. A row holds the     *)
(* set of transactions whose effect it contains: an ordinary update writes *)
(* what it read in its snapshot plus itself, a delta update replays over   *)
(* the latest version.                                                     *)
(***************************************************************************)
EXTENDS Integers, Sequences, FiniteSetsExt

CONSTANTS
    Txn,          \* callers, each running one transaction
    Key,          \* rows
    Shape,        \* what a transaction may stage: rows, delta update, batchable
    None,
    Durability,   \* the modes a handle may be opened with: "Safe", "Balanced"
    Discards,     \* a failed fsync drops the dirty pages it covered
    MaxBatch,     \* COMMIT_COORDINATOR_MAX_BATCH
    MaxFaults     \* bound: crashes and failed system calls

(* What a caller of commit is told. *)
Told == {"Ok", "Unknown", "Conflict", "Refused", "Fenced", "Io"}

ASSUME CommitAssumption ==
    /\ Durability \subseteq {"Safe", "Balanced"}
    /\ Discards \in BOOLEAN
    /\ MaxBatch \in Nat \ {0}
    /\ MaxFaults \in Nat
    /\ None \notin Txn \cup Told
    /\ Shape \subseteq [keys : (SUBSET Key) \ {{}}, delta : BOOLEAN, batch : BOOLEAN]

VARIABLES
    mode,      \* DbOptions::durability
    log,       \* WAL records, equal to the versions applied and published
    durable,   \* length of the prefix known to be on the medium
    doubt,     \* records whose pages a failed sync may have dropped
    stray,     \* complete records left behind a poisoned writer's length
    poisoned,  \* WalWriter::poisoned
    unsynced,  \* WalWriter::unsynced
    base,      \* length of the log when this handle opened it
    clean,     \* length of the log at the last clean close
    timer,     \* the length an unlocked sync covers, or None
    grp,       \* CommitState::wal_sync_group, named by the leading request
    gres,      \* WalSyncGroup::result
    fenced,    \* Shared::canonical_error is set
    queue,     \* CommitCoordinatorState::queue
    active,    \* CommitCoordinatorState::active
    lead,      \* CoordinatedCommit::lead
    pc,        \* where each caller's thread is
    tx,        \* the transaction each caller staged
    todo,      \* requests the thread commits one by one
    held,      \* requests of a finished batch, results not yet delivered
    via,       \* the sync group the thread leads or waits for
    result,    \* what each caller is told
    faults

wal == <<mode, log, durable, doubt, stray, poisoned, unsynced, base, clean, timer>>
sync == <<grp, gres>>
coord == <<queue, active, lead>>
thread == <<pc, tx, todo, held, via>>
vars == <<wal, sync, fenced, coord, thread, result, faults>>

NoTx == [snap |-> 0, keys |-> {}, delta |-> FALSE, batch |-> FALSE]

Init ==
    /\ mode \in Durability
    /\ log = <<>> /\ durable = 0 /\ doubt = {} /\ stray = <<>>
    /\ poisoned = FALSE /\ unsynced = FALSE /\ base = 0 /\ clean = 0 /\ timer = None
    /\ grp = None /\ gres = [t \in Txn |-> None]
    /\ fenced = FALSE
    /\ queue = <<>> /\ active = FALSE /\ lead = [t \in Txn |-> FALSE]
    /\ pc = [t \in Txn |-> "idle"]
    /\ tx = [t \in Txn |-> NoTx]
    /\ todo = [t \in Txn |-> <<>>]
    /\ held = [t \in Txn |-> <<>>]
    /\ via = [t \in Txn |-> None]
    /\ result = [t \in Txn |-> None]
    /\ faults = 0

Fault == faults < MaxFaults /\ faults' = faults + 1
Goto(t, label) == pc' = [pc EXCEPT ![t] = label]

-----------------------------------------------------------------------------
(* Versions and rows.                                                      *)

Writers(k, n) == {i \in 1..n : k \in DOMAIN log[i].rows}
Latest(k, n) == Max({0} \cup Writers(k, n))
Row(k, n) == IF Latest(k, n) = 0 THEN {} ELSE log[Latest(k, n)].rows[k]

(* Some row changed after the transaction's snapshot. *)
Stale(m) == \E k \in tx[m].keys : Latest(k, Len(log)) > tx[m].snap

(* The WAL record: a stale row of a delta update is replayed over the      *)
(* latest version, every other row holds what was staged.                  *)
Record(m) ==
    [txn |-> m,
     rows |-> [k \in tx[m].keys |->
        {m} \cup Row(k, IF tx[m].delta THEN Len(log) ELSE tx[m].snap)]]

-----------------------------------------------------------------------------
(* The caller: Db::begin, staging, and commit_staged.                      *)

Begin(t) ==
    /\ pc[t] = "idle"
    /\ \E s \in Shape :
          tx' = [tx EXCEPT ![t] = [snap |-> Len(log), keys |-> s.keys,
                                   delta |-> s.delta, batch |-> s.batch]]
    /\ Goto(t, "open")
    /\ UNCHANGED <<wal, sync, fenced, coord, todo, held, via, result, faults>>

(* The only place where a commit looks at the fence. prepare_commit then   *)
(* encodes the changes outside the mutex, or fails on them.                *)
CommitStaged(t) ==
    /\ pc[t] = "open"
    /\ \/ fenced /\ Goto(t, "done") /\ result' = [result EXCEPT ![t] = "Fenced"]
       \/ ~fenced /\ Goto(t, "done") /\ result' = [result EXCEPT ![t] = "Refused"]
       \/ ~fenced /\ Goto(t, "ready") /\ UNCHANGED result
    /\ UNCHANGED <<wal, sync, fenced, coord, tx, todo, held, via, faults>>

(* A commit with a text or vector indexed table bypasses the coordinator. *)
Direct(t) ==
    /\ pc[t] = "ready" /\ ~tx[t].batch
    /\ todo' = [todo EXCEPT ![t] = <<t>>]
    /\ Goto(t, "single")
    /\ UNCHANGED <<wal, sync, fenced, coord, tx, held, via, result, faults>>

-----------------------------------------------------------------------------
(* coordinate_commit.                                                      *)

(* Mutant: whoever finds the queue empty leads. *)
EnqueueElectsAgain(t) ==
    /\ pc[t] = "ready" /\ tx[t].batch
    /\ queue' = Append(queue, t) /\ active' = TRUE
    /\ Goto(t, IF queue # <<>> THEN "wait" ELSE "lead")
    /\ UNCHANGED <<wal, sync, fenced, lead, tx, todo, held, via, result, faults>>

Enqueue(t) ==
    /\ pc[t] = "ready" /\ tx[t].batch
    /\ queue' = Append(queue, t)
    /\ active' = TRUE
    /\ Goto(t, IF active THEN "wait" ELSE "lead")
    /\ UNCHANGED <<wal, sync, fenced, lead, tx, todo, held, via, result, faults>>

TakeBatch(t) ==
    LET take == IF Len(queue) < MaxBatch THEN Len(queue) ELSE MaxBatch
    IN  /\ pc[t] = "lead"
        /\ todo' = [todo EXCEPT ![t] = SubSeq(queue, 1, take)]
        /\ queue' = SubSeq(queue, take + 1, Len(queue))
        /\ Goto(t, "batch")
        /\ UNCHANGED <<wal, sync, fenced, active, lead, tx, held, via, result,
                       faults>>

(* Mutant: the leader steps down without passing the baton. *)
HandoffDropped(t) ==
    /\ pc[t] = "handoff"
    /\ active' = (queue # <<>>)
    /\ Goto(t, "wait")
    /\ UNCHANGED <<wal, sync, fenced, queue, lead, tx, todo, held, via, result,
                   faults>>

(* The baton goes to the front of the queue; the old leader then looks for *)
(* its own result.                                                         *)
Handoff(t) ==
    /\ pc[t] = "handoff"
    /\ IF queue # <<>>
       THEN lead' = [lead EXCEPT ![Head(queue)] = TRUE] /\ UNCHANGED active
       ELSE active' = FALSE /\ UNCHANGED lead
    /\ Goto(t, "wait")
    /\ UNCHANGED <<wal, sync, fenced, queue, tx, todo, held, via, result, faults>>

(* take_result and wait_for_result_or_lead. *)
Wake(t) ==
    /\ pc[t] = "wait"
    /\ \/ result[t] # None /\ Goto(t, "done") /\ UNCHANGED lead
       \/ /\ result[t] = None /\ lead[t]
          /\ lead' = [lead EXCEPT ![t] = FALSE]
          /\ Goto(t, "lead")
    /\ UNCHANGED <<wal, sync, fenced, queue, active, tx, todo, held, via, result,
                   faults>>

-----------------------------------------------------------------------------
(* WalWriter: appends and barriers.                                        *)

Appended(records) ==
    /\ ~poisoned
    /\ log' = log \o records
    /\ UNCHANGED <<mode, stray, poisoned, base, clean, timer>>

(* A failed write is rolled back to the old length; if the truncation      *)
(* fails too, the writer is poisoned and a proper prefix of the records is *)
(* left in the file.                                                       *)
AppendFailed(records) ==
    /\ \/ poisoned /\ UNCHANGED <<stray, poisoned, faults>>
       \/ ~poisoned /\ Fault /\ UNCHANGED <<stray, poisoned>>
       \/ /\ ~poisoned /\ Fault
          /\ poisoned' = TRUE
          /\ \E n \in 0..(Len(records) - 1) : stray' = SubSeq(records, 1, n)
    /\ UNCHANGED <<mode, log, durable, doubt, unsynced, base, clean, timer>>

(* A barrier over the first n records; `unsynced` is cleared only when it  *)
(* covers everything appended so far.                                      *)
SyncOk(n, pending) ==
    durable' = n /\ unsynced' = pending /\ UNCHANGED <<doubt, faults>>
SyncFailed(n) ==
    /\ Fault
    /\ doubt' = IF Discards THEN doubt \cup (durable + 1 .. n) ELSE doubt
    /\ unsynced' = TRUE
    /\ UNCHANGED durable
NoSync == unsynced' = TRUE /\ UNCHANGED <<durable, doubt, faults>>

-----------------------------------------------------------------------------
(* finish_coordinated_insert_batch.                                        *)

(* No batch forms: fewer than two members, a pending background error, the *)
(* memory pool, a schema change, a unique or foreign key violation.        *)
BatchRefused(t) ==
    /\ pc[t] = "batch"
    /\ Goto(t, "single")
    /\ UNCHANGED <<wal, sync, fenced, coord, tx, todo, held, via, result, faults>>

(* Mutant: two members of a batch may write the same row. *)
TakenOverlapping(members, replayed) ==
    {m \in Txn : (\E i \in 1..Len(members) : members[i] = m)
                 /\ (~Stale(m) \/ m \in replayed)}

(* Members in queue order: one is set aside when an earlier member taken   *)
(* writes one of its rows, or a row of it changed after its snapshot and   *)
(* its delta update is not in `replayed`.                                  *)
Taken(members, replayed) ==
    LET Rows(S) == UNION {tx[m].keys : m \in S}
        upto[i \in 0..Len(members)] ==
            IF i = 0 THEN {}
            ELSE LET m == members[i] IN
                 IF /\ tx[m].keys \cap Rows(upto[i - 1]) = {}
                    /\ ~Stale(m) \/ m \in replayed
                 THEN upto[i - 1] \cup {m} ELSE upto[i - 1]
    IN  upto[Len(members)]

(* The requests of s that are in S, in their order. *)
Keep(s, S) ==
    LET kept[i \in 0..Len(s)] ==
            IF i = 0 THEN <<>>
            ELSE IF s[i] \in S THEN Append(kept[i - 1], s[i]) ELSE kept[i - 1]
    IN  kept[Len(s)]

Batch(t) ==
    /\ pc[t] = "batch" /\ Len(todo[t]) >= 2
    /\ \E replayed \in SUBSET {m \in Txn : tx[m].delta /\ Stale(m)} :
        LET members == Keep(todo[t], Taken(todo[t], replayed))
            aside   == Keep(todo[t], Txn \ Taken(todo[t], replayed))
            records == [i \in 1..Len(members) |-> Record(members[i])]
            end     == Len(log) + Len(records)
            deliver(r) == held' = [held EXCEPT ![t] =
                [i \in 1..Len(members) |-> [txn |-> members[i], told |-> r]]]
        IN  /\ members # <<>>
            /\ todo' = [todo EXCEPT ![t] = aside]
            /\ \/ /\ Appended(records)
                  /\ IF mode = "Safe"
                     THEN \/ SyncOk(end, FALSE) /\ deliver("Ok")
                          \/ SyncFailed(end) /\ deliver("Unknown")
                     ELSE NoSync /\ deliver("Ok")
               \/ AppendFailed(records) /\ deliver("Io")
    /\ Goto(t, "post")
    /\ UNCHANGED <<sync, fenced, coord, tx, via, result>>

(* After the mutex: fence on a failed sync, deliver the results, go on     *)
(* with the members set aside.                                             *)
BatchPost(t) ==
    LET told(m) == {i \in 1..Len(held[t]) : held[t][i].txn = m}
    IN  /\ pc[t] = "post"
        /\ fenced' = \/ fenced
                     \/ \E i \in 1..Len(held[t]) : held[t][i].told = "Unknown"
        /\ result' = [m \in Txn |-> IF told(m) = {} THEN result[m]
                                    ELSE held[t][CHOOSE i \in told(m) : TRUE].told]
        /\ held' = [held EXCEPT ![t] = <<>>]
        /\ Goto(t, IF todo[t] = <<>> THEN "handoff" ELSE "single")
        /\ UNCHANGED <<wal, sync, coord, tx, todo, via, faults>>

-----------------------------------------------------------------------------
(* finish_prepared_commit, run by thread t for the request Head(todo[t]).  *)

(* The request is answered; a coordinator leader takes the next one. *)
Finish(t, r) ==
    /\ result' = [result EXCEPT ![Head(todo[t])] = r]
    /\ todo' = [todo EXCEPT ![t] = Tail(todo[t])]
    /\ Goto(t, IF Len(todo[t]) > 1 THEN "single"
               ELSE IF tx[t].batch THEN "handoff" ELSE "done")

(* A row changed after the snapshot and no delta replay settles it. *)
Conflict(t) ==
    /\ pc[t] = "single" /\ Stale(Head(todo[t]))
    /\ Finish(t, "Conflict")
    /\ UNCHANGED <<wal, sync, fenced, coord, tx, held, via, faults>>

(* Mutant: the error a background checkpoint left is raised after the      *)
(* append instead of before it.                                            *)
RefuseLate(t) ==
    /\ pc[t] = "single"
    /\ Appended(<<Record(Head(todo[t]))>>) /\ NoSync
    /\ Finish(t, "Refused")
    /\ UNCHANGED <<sync, fenced, coord, tx, held, via>>

(* Schema change, unique or foreign key violation, memory limit, or the    *)
(* error a background checkpoint left for the next commit.                 *)
Refuse(t) ==
    /\ pc[t] = "single"
    /\ Finish(t, "Refused")
    /\ UNCHANGED <<wal, sync, fenced, coord, tx, held, via, faults>>

Single(t) ==
    LET m == Head(todo[t])
    IN  /\ pc[t] = "single"
        /\ Stale(m) => tx[m].delta
        /\ Appended(<<Record(m)>>)
        /\ NoSync
        /\ IF mode = "Safe"
           THEN /\ grp' = IF grp = None THEN m ELSE grp
                /\ via' = [via EXCEPT ![t] = grp']
                /\ Goto(t, IF grp = None THEN "sync" ELSE "groupWait")
                /\ UNCHANGED <<result, todo>>
           ELSE Finish(t, "Ok") /\ UNCHANGED <<grp, via>>
        /\ UNCHANGED <<gres, fenced, coord, tx, held>>

SingleFails(t) ==
    LET m == Head(todo[t])
    IN  /\ pc[t] = "single"
        /\ Stale(m) => tx[m].delta
        /\ AppendFailed(<<Record(m)>>)
        /\ Finish(t, "Io")
        /\ UNCHANGED <<sync, fenced, coord, tx, held, via>>

(* finish_or_wait_wal_sync: the leader's barrier, under the mutex. *)
GroupSync(t) ==
    /\ pc[t] = "sync"
    /\ grp' = None
    /\ \/ SyncOk(Len(log), FALSE) /\ Goto(t, "synced")
       \/ SyncFailed(Len(log)) /\ Goto(t, "syncFailed")
    /\ UNCHANGED <<mode, log, stray, poisoned, base, clean, timer, gres, fenced, coord, tx,
                   todo, held, via, result>>

(* Mutant: a leader whose barrier failed returns without waking the group. *)
GroupCompleteOnSuccess(t) ==
    /\ pc[t] \in {"synced", "syncFailed"}
    /\ fenced' = (fenced \/ pc[t] = "syncFailed")
    /\ gres' = [gres EXCEPT ![via[t]] = IF pc[t] = "synced" THEN "Ok" ELSE @]
    /\ Finish(t, IF pc[t] = "synced" THEN "Ok" ELSE "Unknown")
    /\ UNCHANGED <<wal, grp, coord, tx, held, via, faults>>

(* After the mutex: fence on failure, then wake the group. *)
GroupComplete(t) ==
    /\ pc[t] \in {"synced", "syncFailed"}
    /\ fenced' = (fenced \/ pc[t] = "syncFailed")
    /\ gres' = [gres EXCEPT ![via[t]] = IF pc[t] = "synced" THEN "Ok" ELSE "Unknown"]
    /\ Finish(t, gres'[via[t]])
    /\ UNCHANGED <<wal, grp, coord, tx, held, via, faults>>

(* Mutant: a member of a group does not wait for the leader's barrier. *)
GroupWaitEarly(t) ==
    /\ pc[t] = "groupWait"
    /\ Finish(t, "Ok")
    /\ UNCHANGED <<wal, sync, fenced, coord, tx, held, via, faults>>

GroupWait(t) ==
    /\ pc[t] = "groupWait" /\ gres[via[t]] # None
    /\ Finish(t, gres[via[t]])
    /\ UNCHANGED <<wal, sync, fenced, coord, tx, held, via, faults>>

-----------------------------------------------------------------------------
(* The Balanced timer: a barrier outside the mutex, reconciled afterwards. *)

(* Mutant: the barrier is credited with one record too many. *)
TimerBeginTooLong ==
    /\ mode = "Balanced" /\ timer = None /\ unsynced
    /\ timer' = Len(log) + 1
    /\ UNCHANGED <<mode, log, durable, doubt, stray, poisoned, unsynced, base,
                   clean, sync, fenced, coord, thread, result, faults>>

TimerBegin ==
    /\ mode = "Balanced" /\ timer = None /\ unsynced
    /\ timer' = Len(log)
    /\ UNCHANGED <<mode, log, durable, doubt, stray, poisoned, unsynced, base, clean,
                   sync, fenced, coord, thread, result, faults>>

(* Mutant: the flag is cleared though records came in meanwhile. *)
TimerSyncClears ==
    /\ timer # None /\ timer' = None
    /\ SyncOk(timer, FALSE)
    /\ UNCHANGED <<mode, log, stray, poisoned, base, clean, sync, fenced, coord,
                   thread, result>>

TimerSync ==
    /\ timer # None
    /\ timer' = None
    /\ \/ SyncOk(timer, Len(log) # timer) /\ UNCHANGED fenced
       \/ SyncFailed(timer) /\ fenced' = TRUE
    /\ UNCHANGED <<mode, log, stray, poisoned, base, clean, sync, coord, thread, result>>

-----------------------------------------------------------------------------
(* Endings of a handle, each followed by an open that replays the WAL.     *)

(* Callers in flight are gone; the new handle starts from what it replays. *)
Reopen(recovered) ==
    /\ log' = recovered
    /\ base' = Len(recovered)
    /\ stray' = <<>> /\ poisoned' = FALSE /\ unsynced' = FALSE /\ timer' = None
    /\ grp' = None /\ gres' = [t \in Txn |-> None]
    /\ fenced' = FALSE
    /\ queue' = <<>> /\ active' = FALSE /\ lead' = [t \in Txn |-> FALSE]
    /\ pc' = [t \in Txn |-> IF pc[t] \in {"idle", "done"} THEN pc[t] ELSE "dead"]
    /\ todo' = [t \in Txn |-> <<>>]
    /\ held' = [t \in Txn |-> <<>>]
    /\ via' = [t \in Txn |-> None]
    /\ UNCHANGED <<mode, tx, result>>

(* The process dies: the page cache keeps every complete record. *)
Kill ==
    /\ Fault
    /\ Reopen(log \o stray)
    /\ UNCHANGED <<durable, doubt, clean>>

(* The machine dies: the file keeps a prefix that holds what was synced,   *)
(* and ends before a record whose pages a failed sync dropped.             *)
PowerLoss ==
    /\ Fault
    /\ \E n \in durable..Len(log) \cup {i - 1 : i \in doubt} :
          Reopen(SubSeq(log, 1, n)) /\ durable' = n
    /\ doubt' = {}
    /\ UNCHANGED clean

(* Drop for Db: the last barrier runs only if the writer has appends it    *)
(* has not synced. `clean` is the history the closed handle vouches for.   *)
Close ==
    /\ \A t \in Txn : pc[t] \in {"idle", "done", "dead"}
    /\ timer = None
    /\ Len(log) > clean
    /\ IF unsynced
       THEN \/ durable' = Len(log) /\ clean' = Len(log) /\ UNCHANGED <<doubt, faults>>
            \/ Fault /\ UNCHANGED <<durable, doubt, clean>>
       ELSE clean' = Len(log) /\ UNCHANGED <<durable, doubt, faults>>
    /\ Reopen(log \o stray)

Step(t) ==
    \/ CommitStaged(t) \/ Direct(t) \/ Enqueue(t) \/ TakeBatch(t) \/ Handoff(t)
    \/ Wake(t) \/ BatchRefused(t) \/ Batch(t) \/ BatchPost(t) \/ Conflict(t)
    \/ Refuse(t) \/ Single(t) \/ SingleFails(t) \/ GroupSync(t)
    \/ GroupComplete(t) \/ GroupWait(t)

(* Every caller has its answer; without this the last state would be a     *)
(* deadlock.                                                               *)
Finished == (\A t \in Txn : pc[t] \in {"done", "dead"}) /\ UNCHANGED vars

Next ==
    \/ \E t \in Txn : Begin(t) \/ Step(t)
    \/ TimerBegin \/ TimerSync \/ Kill \/ PowerLoss \/ Close \/ Finished

Spec == Init /\ [][Next]_vars

(* The operating system schedules every runnable thread. *)
FairSpec == Spec /\ \A t \in Txn : WF_vars(Step(t))

-----------------------------------------------------------------------------
Phase == {"idle", "open", "ready", "lead", "wait", "batch", "post", "single",
          "sync", "synced", "syncFailed", "groupWait", "handoff", "done", "dead"}

TypeOK ==
    /\ mode \in Durability
    /\ \A i \in 1..Len(log) : log[i].txn \in Txn
    /\ durable \in 0..Len(log)
    /\ doubt \subseteq 1..Len(log)
    /\ poisoned \in BOOLEAN /\ unsynced \in BOOLEAN /\ fenced \in BOOLEAN
    /\ base \in 0..Len(log)
    /\ timer \in 0..Len(log) \cup {None}
    /\ grp \in Txn \cup {None}
    /\ gres \in [Txn -> {"Ok", "Unknown", None}]
    /\ active \in BOOLEAN /\ lead \in [Txn -> BOOLEAN]
    /\ pc \in [Txn -> Phase]
    /\ result \in [Txn -> Told \cup {None}]

Committed == {log[i].txn : i \in 1..Len(log)}
WritersOf(k) == {log[i].txn : i \in Writers(k, Len(log))}

(* First-committer-wins across the single path, the batch and the delta    *)
(* replay: the latest version of a row contains the effect of every        *)
(* committed transaction that wrote it, whichever thread committed it.     *)
NoLostUpdate == \A k \in Key : Row(k, Len(log)) = WritersOf(k)

(* Durability::Safe, "survives OS crash": a transaction that was answered  *)
(* Ok is in the history for good, through every crash that follows.        *)
AckedSurvives ==
    mode = "Safe" => \A t \in Txn : result[t] = "Ok" => t \in Committed

(* The writer's flag never hides an append from the timer or from close:   *)
(* once this handle has appended, a clear flag means all of it is synced.  *)
UnsyncedFlagHonest == ~unsynced /\ Len(log) > base => durable = Len(log)

(* One baton: while requests are queued or a batch is being committed, the *)
(* coordinator is active and exactly one thread leads it or is about to.   *)
Leaders == {t \in Txn : \/ lead[t]
                        \/ tx[t].batch /\ pc[t] \in {"lead", "batch", "post",
                             "single", "sync", "synced", "syncFailed",
                             "groupWait", "handoff"}}
OneLeader == IF active THEN \E t \in Txn : Leaders = {t}
             ELSE Leaders = {} /\ queue = <<>>

(* Every open sync group has a leader that will complete it, so nobody     *)
(* waits for a barrier that no thread is going to run.                     *)
GroupHasLeader ==
    \A t \in Txn : pc[t] = "groupWait" =>
        \/ gres[via[t]] # None
        \/ \E u \in Txn : /\ pc[u] \in {"sync", "synced", "syncFailed"}
                         /\ via[u] = via[t]

(* Drop for Db: "A clean close makes every acknowledged commit durable in  *)
(* all modes".                                                             *)
CleanCloseIsDurable == clean <= durable

(* Every commit that passes the fence is answered, unless the process      *)
(* dies first: no lost wake-up in the coordinator or in a sync group.      *)
EveryCommitAnswered ==
    \A t \in Txn : pc[t] = "ready" ~> pc[t] \in {"done", "dead"}

(* The commit path implements the history its callers are promised. *)
History == INSTANCE CommitLog WITH
    hist <- [i \in 1..Len(log) |-> log[i].txn],
    outcome <- result
ImplementsHistory == History!Spec
=============================================================================
