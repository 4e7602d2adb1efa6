---------------------------- MODULE SpendLedger ----------------------------
(***************************************************************************)
(* The session spend ledger: apps/web/lib/policy/spend-ledger-repo.ts.     *)
(*                                                                         *)
(* One document per idempotency key (doc id == idempotencyKey).  This      *)
(* module holds the value of a document and what each repository call does *)
(* to it; AgentCycle decides when the calls' reads and writes happen,      *)
(* because only reserve runs in a transaction.                             *)
(***************************************************************************)
EXTENDS Integers, FiniteSets, FiniteSetsExt

CONSTANTS
    Keys,       \* idempotency keys a brain may put on a proposal
    Sessions    \* agent_sessions documents

\* Keys double as document ids, which the confirm-watcher's query orders.
ASSUME KeysAssumption == Keys \in SUBSET Nat /\ IsFiniteSet(Keys)

\* ABSENT stands for a missing document; the others are
\* SpendReservationStatusSchema.
EntryStatus == {"ABSENT", "RESERVED", "COMMITTED", "RELEASED"}

Entry == [status : EntryStatus, amount : Nat, session : Sessions]

AbsentEntry == [status |-> "ABSENT", amount |-> 0,
                session |-> CHOOSE s \in Sessions : TRUE]

\* What counts against a session: reservedAndCommittedTotal's filter.
Counted(e) == e.status \in {"RESERVED", "COMMITTED"}

(***************************************************************************)
(* reservedAndCommittedTotal(sessionId): a query over the whole session,   *)
(* outside any transaction.                                                *)
(***************************************************************************)
SessionTotal(led, s) ==
    LET counts == {k \in Keys : led[k].session = s /\ Counted(led[k])}
    IN  MapThenSumSet(LAMBDA k : led[k].amount, counts)

(***************************************************************************)
(* reserve(entry): the transaction on one key.  A RESERVED document is     *)
(* returned as it is (idempotent replay, whatever amount and session the   *)
(* caller asked for); an absent or RELEASED one is (re)written; a          *)
(* COMMITTED one is refused with DUPLICATE_PROPOSAL.                       *)
(***************************************************************************)
Refused(e) == e.status = "COMMITTED"

Reserved(e, amount, session) ==
    IF e.status = "RESERVED"
    THEN e
    ELSE [status |-> "RESERVED", amount |-> amount, session |-> session]

(***************************************************************************)
(* commit / release / hold write back the document they read, with the     *)
(* status changed (hold: only updatedAt).                                  *)
(***************************************************************************)
FinalizeKind == {"commit", "release", "hold"}

Finalized(e, kind) ==
    CASE kind = "commit"  -> [e EXCEPT !.status = "COMMITTED"]
      [] kind = "release" -> [e EXCEPT !.status = "RELEASED"]
      [] kind = "hold"    -> e
=============================================================================
