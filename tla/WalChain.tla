------------------------------ MODULE WalChain ------------------------------
(***************************************************************************)
(* The recoverable WAL chain: scan_wal and validate_wal_chain of wal.rs,   *)
(* and the replay loop of Db::open_with.                                   *)
(*                                                                         *)
(* A WAL file is [recs, torn]: the complete records scan_wal returns and   *)
(* whether bytes that are not a complete record follow them (`clean` is    *)
(* its negation). A record is [v, c]: its commit version and the commit it *)
(* carries. `wal` maps the ids of the files in the directory to the files. *)
(***************************************************************************)
EXTENDS Integers, Sequences, FiniteSetsExt, Functions

CONSTANT None    \* the result of a replay that meets a version gap

ASSUME NoneAssumption == None \notin Seq(Nat)

Rec(v, c) == [v |-> v, c |-> c]

(* The ids at or above the manifest's anchor. *)
Ids(wal, anchor) == {id \in DOMAIN wal : id >= anchor}

(* scan_wal: the versions of one file increase strictly. Its search for a  *)
(* valid record after a damaged one finds none here: a file is damaged at  *)
(* its end only, because a failed append is cut off or poisons the writer, *)
(* and a crash is taken to leave a prefix of what was appended.            *)
Scans(file) ==
    \A i \in 2..Len(file.recs) : file.recs[i - 1].v < file.recs[i].v

(* The anchor is there, the chain is consecutive and reaches the required  *)
(* extent.                                                                 *)
ChainComplete(wal, anchor, required) ==
    /\ anchor \in DOMAIN wal
    /\ LET last == Max(Ids(wal, anchor))
       IN  last >= required /\ anchor..last \subseteq DOMAIN wal

(* An incomplete tail may only be followed by empty successors. *)
TornTailIsLast(wal, anchor) ==
    \A id \in Ids(wal, anchor) : wal[id].torn =>
        \A later \in Ids(wal, anchor) : later > id => wal[later].recs = <<>>

(* Replaying one record over the versions recovered so far: duplicates are *)
(* skipped, a gap is an error (None).                                      *)
Replay1(done, r) ==
    IF done = None THEN None
    ELSE IF r.v <= Len(done) THEN done
    ELSE IF r.v = Len(done) + 1 THEN Append(done, r.c)
    ELSE None

ReplayFile(start, recs) ==
    LET upto[i \in 0..Len(recs)] ==
            IF i = 0 THEN start ELSE Replay1(upto[i - 1], recs[i])
    IN  upto[Len(recs)]

(* All files from the anchor to `last`, over the commits of the segments.  *)
ReplayTo(wal, seg, anchor, last) ==
    LET upto[id \in (anchor - 1)..last] ==
            IF id < anchor THEN seg
            ELSE ReplayFile(upto[id - 1], wal[id].recs)
    IN  upto[last]

(* validate_wal_chain. *)
ValidChain(wal, seg, anchor, required) ==
    /\ ChainComplete(wal, anchor, required)
    /\ \A id \in Ids(wal, anchor) : Scans(wal[id])
    /\ TornTailIsLast(wal, anchor)
    /\ ReplayTo(wal, seg, anchor, Max(Ids(wal, anchor))) # None

(* The file in which replay stops and appends resume: the first torn one,  *)
(* else the last one.                                                      *)
ActiveWal(wal, anchor) ==
    LET torn == {id \in Ids(wal, anchor) : wal[id].torn}
    IN  IF torn = {} THEN Max(Ids(wal, anchor)) ELSE Min(torn)

(* What the open recovers. *)
Recovered(wal, seg, anchor) ==
    ReplayTo(wal, seg, anchor, ActiveWal(wal, anchor))
=============================================================================
