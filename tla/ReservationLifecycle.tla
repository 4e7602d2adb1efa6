------------------------ MODULE ReservationLifecycle ------------------------
(***************************************************************************)
(* What the policy engine promises of one reservation                      *)
(* (packages/policy-engine/src/index.ts:22-25): it flows through           *)
(* RESERVED -> COMMITTED or RESERVED -> RELEASED, and stays RESERVED while *)
(* the transaction's state is unknown.  The Firestore repository adds one  *)
(* step: a RELEASED key may be reserved again for a retry.                 *)
(*                                                                         *)
(* commit is guarded by the outcome on the chain, release by its absence:  *)
(* "confirmed success" and "definitive failure".                           *)
(***************************************************************************)
CONSTANTS Keys

VARIABLES
    status,   \* status[k]: the reservation's status, "ABSENT" before the first
    spent     \* spent: the keys whose transaction was mined with success

vars == <<status, spent>>

Init == /\ status = [k \in Keys |-> "ABSENT"]
        /\ spent = {}

Reserve(k) == /\ status[k] \in {"ABSENT", "RELEASED"}
              /\ status' = [status EXCEPT ![k] = "RESERVED"]
              /\ UNCHANGED spent

Spend(k) == /\ status[k] = "RESERVED"
            /\ spent' = spent \cup {k}
            /\ UNCHANGED status

Commit(k) == /\ status[k] = "RESERVED"
             /\ k \in spent
             /\ status' = [status EXCEPT ![k] = "COMMITTED"]
             /\ UNCHANGED spent

Release(k) == /\ status[k] = "RESERVED"
              /\ k \notin spent
              /\ status' = [status EXCEPT ![k] = "RELEASED"]
              /\ UNCHANGED spent

Next == \E k \in Keys : Reserve(k) \/ Spend(k) \/ Commit(k) \/ Release(k)

Spec == Init /\ [][Next]_vars
=============================================================================
