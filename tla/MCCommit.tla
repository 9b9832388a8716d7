------------------------------ MODULE MCCommit ------------------------------
(* Bounds for CommitPath: three callers over two rows. Batchable updates   *)
(* of one row, batchable delta updates of the other and direct commits of  *)
(* both meet in every order: batches with disjoint and with common rows,   *)
(* stale members with and without a replay, groups that overlap batches.   *)
EXTENDS CommitPath, TLC
CONSTANTS k1, k2
TwoKeys == {k1, k2}
Contended ==
    {[keys |-> {k1}, delta |-> FALSE, batch |-> TRUE],
     [keys |-> {k2}, delta |-> TRUE, batch |-> TRUE],
     [keys |-> {k1, k2}, delta |-> FALSE, batch |-> FALSE]}
Answered ==
    {[keys |-> {k1}, delta |-> FALSE, batch |-> TRUE],
     [keys |-> {k1}, delta |-> TRUE, batch |-> FALSE]}
Symmetry == Permutations(Txn)
=============================================================================
