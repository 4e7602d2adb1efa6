----------------------------- MODULE AtMostOnce -----------------------------
(***************************************************************************)
(* What the execution engine promises of an execution identity, to its     *)
(* callers: at most one transaction is ever broadcast for it, and its      *)
(* record reads CONFIRMED only once that transaction has succeeded.        *)
(* Nothing is promised of a record that reads FAILED.                      *)
(***************************************************************************)
CONSTANTS Ids, Txs
VARIABLES
    sent,       \* sent[i]: the transactions broadcast for execution i
    mined,      \* the transactions that have succeeded
    confirmed   \* the executions whose record reads CONFIRMED

vars == <<sent, mined, confirmed>>

Init ==
    /\ sent = [i \in Ids |-> {}]
    /\ mined = {}
    /\ confirmed = {}

Broadcast(i, t) ==
    /\ sent[i] = {}
    /\ sent' = [sent EXCEPT ![i] = {t}]
    /\ UNCHANGED <<mined, confirmed>>

Mine(i, t) ==
    /\ t \in sent[i]
    /\ mined' = mined \cup {t}
    /\ UNCHANGED <<sent, confirmed>>

Confirm(i) ==
    /\ sent[i] # {} /\ sent[i] \subseteq mined
    /\ confirmed' = confirmed \cup {i}
    /\ UNCHANGED <<sent, mined>>

\* A late answer may take the record back.
Reopen(i) ==
    /\ confirmed' = confirmed \ {i}
    /\ UNCHANGED <<sent, mined>>

Next == \E i \in Ids : \/ \E t \in Txs : Broadcast(i, t) \/ Mine(i, t)
                       \/ Confirm(i) \/ Reopen(i)

Spec == Init /\ [][Next]_vars
=============================================================================
