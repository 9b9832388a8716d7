---------------------------- MODULE SnapshotStore ----------------------------
(***************************************************************************)
(* What the storage engine promises a reader: a table is a history of      *)
(* committed contents, a snapshot is a position in it, and a read at a     *)
(* snapshot returns the row as of that position, whatever commits,         *)
(* checkpoints and compactions do in the meantime.                         *)
(***************************************************************************)
EXTENDS Naturals, Sequences

CONSTANTS Ids, Readers

VARIABLES
    history,    \* history[v][id]: the row's version as of commit v, 0 if none
    snap,       \* snap[r]: the version a reader reads at, 0 if none is taken
    got         \* got[r]: what its last read returned

Init ==
    /\ history = << >>
    /\ snap = [r \in Readers |-> 0]
    /\ got = [r \in Readers |-> 0]

RowAt(v, id) == IF v = 0 THEN 0 ELSE history[v][id]

Commit ==
    /\ \E id \in Ids, value \in {0, Len(history) + 1} :
           history' = Append(history, [i \in Ids |->
               IF i = id THEN value ELSE RowAt(Len(history), i)])
    /\ UNCHANGED <<snap, got>>

Take(r) ==
    /\ snap' = [snap EXCEPT ![r] = Len(history)]
    /\ UNCHANGED <<history, got>>

Read(r) ==
    /\ snap[r] # 0
    /\ \E id \in Ids : got' = [got EXCEPT ![r] = RowAt(snap[r], id)]
    /\ UNCHANGED <<history, snap>>

Release(r) ==
    /\ snap' = [snap EXCEPT ![r] = 0] /\ got' = [got EXCEPT ![r] = 0]
    /\ UNCHANGED history

Next == Commit \/ \E r \in Readers : Take(r) \/ Read(r) \/ Release(r)

Spec == Init /\ [][Next]_<<history, snap, got>>
=============================================================================
