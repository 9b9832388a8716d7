----------------------------- MODULE CommitLog -----------------------------
(***************************************************************************)
(* What a caller of Txn::commit is promised, without threads, queues,      *)
(* groups or files: transactions enter one total history, each at most     *)
(* once; every transaction is told at most one outcome; and a crash cuts   *)
(* the history to a prefix that keeps every acknowledged transaction.      *)
(***************************************************************************)
EXTENDS Sequences, Integers

CONSTANTS Txn, None

VARIABLES
    hist,     \* the committed transactions, in version order
    outcome   \* what each caller has been told

vars == <<hist, outcome>>

Committed == {hist[i] : i \in 1..Len(hist)}
Published == {"Ok", "Unknown"}          \* the transaction is visible
Refused == {"Conflict", "Refused", "Fenced"}   \* it never will be

Init == hist = <<>> /\ outcome = [t \in Txn |-> None]

(* New versions are appended for transactions nobody has an answer for. *)
Grow ==
    /\ Len(hist') > Len(hist)
    /\ SubSeq(hist', 1, Len(hist)) = hist
    /\ \A i \in Len(hist) + 1 .. Len(hist') :
          /\ outcome[hist'[i]] \in {None, "Io"}
          /\ \A j \in 1..(i - 1) : hist'[j] # hist'[i]

(* An outcome is told once, and agrees with the history. *)
Tell ==
    \A t \in Txn :
        \/ outcome'[t] = outcome[t]
        \/ /\ outcome[t] = None
           /\ outcome'[t] \in Published => \E i \in 1..Len(hist') : hist'[i] = t
           /\ outcome'[t] \in Refused => \A i \in 1..Len(hist') : hist'[i] # t

(* A crash drops a suffix in which nothing was acknowledged. *)
Cut ==
    /\ Len(hist') <= Len(hist)
    /\ hist' = SubSeq(hist, 1, Len(hist'))
    /\ \A i \in Len(hist') + 1 .. Len(hist) : outcome[hist[i]] # "Ok"
    /\ UNCHANGED outcome

Next == ((Grow \/ UNCHANGED hist) /\ Tell) \/ Cut

Spec == Init /\ [][Next]_vars
=============================================================================
