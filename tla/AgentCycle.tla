----------------------------- MODULE AgentCycle -----------------------------
(***************************************************************************)
(* The closed agent loop over the spend ledger, the execution records and  *)
(* the chain:                                                              *)
(*   runAgentCycle          apps/web/lib/agent-runtime/run-cycle.ts        *)
(*   validateAction         packages/policy-engine/src/index.ts            *)
(*   spend ledger           apps/web/lib/policy/spend-ledger-repo.ts       *)
(*   signing backend        apps/web/lib/altana-signer.ts (outcomes only)  *)
(*   confirm-watcher        apps/web/inngest/reconcile.ts                  *)
(*                                                                         *)
(* A cycle is one call of runAgentCycle; an action is what it does between *)
(* two awaits that touch shared state, so cycles, the watcher, the chain   *)
(* and the owner (who pauses and revokes) interleave at every await.       *)
(* A brain's proposal is a key, a value and a session: proposalId and      *)
(* idempotencyKey both come from the model's answer and stand as one key.  *)
(***************************************************************************)
EXTENDS SpendLedger

CONSTANTS
    Cycles,         \* runAgentCycle calls; a cycle's id names its transaction
    KeysOf,         \* KeysOf[c]: the keys the brain may answer with in cycle c
    Amounts,        \* values (estimatedValue, cap-normalised) it may propose
    PerTxCap,       \* session.perTransactionCap
    SpendCap,       \* session.spendCap
    MaxActive,      \* how many cycles may be in flight at once
    WatchLimit,     \* documents one confirm-watcher pass reads (25)
    RequiresUserFunds, \* opts.requiresUserFunds of every cycle
    LostSend,       \* may the backend throw after a call of the batch was sent
    Faults,         \* may an await throw, or the process die, mid-cycle
    NoTx            \* no transaction

ASSUME CycleAssumption ==
    /\ KeysOf \in [Cycles -> SUBSET Keys]
    /\ Amounts \in SUBSET Nat
    /\ {PerTxCap, SpendCap, MaxActive, WatchLimit} \subseteq Nat
    /\ {RequiresUserFunds, LostSend, Faults} \subseteq BOOLEAN
    /\ Keys # {} /\ Sessions # {} /\ NoTx \notin Cycles
    /\ IsFiniteSet(Cycles)

VARIABLES
    agentActive,    \* agents/{id}.status = ACTIVE
    sessStatus,     \* agent_sessions/{id}.status
    inFlight,       \* history: cycles already authorised when their session ended
    ledger,         \* spend_ledger, by idempotency key
    executions,     \* executions, by executionId (derived from the proposal)
    positions,      \* positions, by positionId (derived from the proposal)
    chain,          \* chain[c]: the transaction cycle c broadcast
    pc,             \* where each cycle is
    prop,           \* its proposal
    seen,           \* the agent and session objects it holds
    receipt,        \* what verifyOnchainReceipt told it
    snap,           \* the ledger document its commit/release/hold has read
    watch           \* watch[k]: the copy of executions/k the watcher works on

envVars   == <<agentActive, sessStatus, inFlight>>
store     == <<ledger, executions, positions>>
cycleVars == <<pc, prop, seen, receipt, snap>>
vars      == <<envVars, store, chain, cycleVars, watch>>

-----------------------------------------------------------------------------
(* Values                                                                  *)

SessionStatus == {"PENDING", "ACTIVE", "ENDED"}   \* ENDED: revoked or expired
Phase == {"start", "session", "policyAgent", "policySession", "policyTotal",
          "reserve", "gate", "submit", "receipt", "finalize", "write",
          "persist", "position", "done", "dead"}
Proposal == [key : Keys, amount : Nat, session : Sessions]
Receipt  == {"none", "success", "reverted", "pending", "unverifiable"}

\* A transaction: its state on the chain, and whether the id the backend gave
\* back is its hash or a relay's batch id (callsId).
Tx == [status : {"none", "pending", "success", "reverted"},
       id : {"hash", "batch"}]
NoTransaction == [status |-> "none", id |-> "hash"]

\* An execution document.  age is where now - createdAt stands against the
\* watcher's limits: 0 young, 1 past 30 minutes, 2 past 24 hours.
Execution == [status : {"ABSENT", "EXECUTING", "CONFIRMED", "FAILED"},
              tx : Cycles \cup {NoTx}, age : 0..2]
NoExecution == [status |-> "ABSENT", tx |-> NoTx, age |-> 0]

\* The watcher's copy of a document, or NoExecution when it holds none.
Idle(k) == watch[k] = NoExecution

Active == {c \in Cycles : pc[c] \notin {"start", "done", "dead"}}

\* Phases in which a cycle has passed the policy's session check and may
\* still broadcast.
MaySend == {"policyTotal", "reserve", "gate", "submit"}

AnyProposal == [key |-> CHOOSE k \in Keys : TRUE, amount |-> 0,
                session |-> CHOOSE s \in Sessions : TRUE]

Init ==
    /\ agentActive \in BOOLEAN
    /\ sessStatus \in [Sessions -> {"PENDING", "ACTIVE"}]
    /\ inFlight = {}
    /\ ledger = [k \in Keys |-> AbsentEntry]
    /\ executions = [k \in Keys |-> NoExecution]
    /\ positions = {}
    /\ chain = [c \in Cycles |-> NoTransaction]
    /\ pc = [c \in Cycles |-> "start"]
    /\ prop = [c \in Cycles |-> AnyProposal]
    /\ seen = [c \in Cycles |-> [agent |-> FALSE, session |-> FALSE]]
    /\ receipt = [c \in Cycles |-> "none"]
    /\ snap = [c \in Cycles |-> AbsentEntry]
    /\ watch = [k \in Keys |-> NoExecution]

Goto(c, phase) == pc' = [pc EXCEPT ![c] = phase]

-----------------------------------------------------------------------------
(* The cycle: from the agent record to the reservation                     *)

\* agentRegistry.getById: the object whose status the execution gate reads.
LoadAgent(c) ==
    /\ pc[c] = "start"
    /\ Cardinality(Active) < MaxActive
    /\ seen' = [seen EXCEPT ![c].agent = agentActive]
    /\ Goto(c, "session")
    /\ UNCHANGED <<envVars, store, chain, prop, receipt, snap, watch>>

Usable(s) == sessStatus[s] = "ACTIVE"

\* Resolve the session object, observe, decide.  Without a usable session the
\* policy is asked about the session id the model claims.
Decide(c) ==
    /\ pc[c] = "session"
    /\ \E k \in KeysOf[c], a \in Amounts, s \in Sessions :
           /\ Usable(s) \/ \A t \in Sessions : ~Usable(t)
           /\ prop' = [prop EXCEPT ![c] = [key |-> k, amount |-> a, session |-> s]]
           /\ seen' = [seen EXCEPT ![c].session = Usable(s)]
    /\ Goto(c, "policyAgent")
    /\ UNCHANGED <<envVars, store, chain, receipt, snap, watch>>

\* The brain answers PASS, or preflight, strategy or brain refuse.
Pass(c) ==
    /\ pc[c] = "session"
    /\ Goto(c, "done")
    /\ UNCHANGED <<envVars, store, chain, prop, seen, receipt, snap, watch>>

\* validateAction's getAgent and checkAgentActive.
PolicyAgent(c) ==
    /\ pc[c] = "policyAgent"
    /\ Goto(c, IF agentActive THEN "policySession" ELSE "done")
    /\ UNCHANGED <<envVars, store, chain, prop, seen, receipt, snap, watch>>

\* Mutant: no checkSessionActive.
SessionChecksNoStatus(c) == prop[c].amount <= PerTxCap

\* validateAction's getSession, checkSessionActive and checkPerTransactionCap.
SessionChecks(c) ==
    /\ Usable(prop[c].session)
    /\ prop[c].amount <= PerTxCap

\* The allowlist and risk checks read nothing but the two objects and the
\* proposal: a proposal may fail them whatever the rest of the state.
PolicySession(c) ==
    /\ pc[c] = "policySession"
    /\ \/ SessionChecks(c) /\ Goto(c, "policyTotal")
       \/ Goto(c, "done")
    /\ UNCHANGED <<envVars, store, chain, prop, seen, receipt, snap, watch>>

\* Mutant: the proposal's own value is not added to the total.
UnderCapWithoutOwn(c) == SessionTotal(ledger, prop[c].session) <= SpendCap

\* checkCumulativeSpend.
UnderCap(c) ==
    SessionTotal(ledger, prop[c].session) + prop[c].amount <= SpendCap

PolicyTotal(c) ==
    /\ pc[c] = "policyTotal"
    /\ Goto(c, IF UnderCap(c) THEN "reserve" ELSE "done")
    /\ UNCHANGED <<envVars, store, chain, prop, seen, receipt, snap, watch>>

\* The allow path: reserve, in a transaction on the key's document.
Reserve(c) ==
    LET k == prop[c].key
    IN  /\ pc[c] = "reserve"
        /\ IF Refused(ledger[k])
           THEN Goto(c, "done") /\ UNCHANGED ledger
           ELSE /\ ledger' = [ledger EXCEPT ![k] =
                       Reserved(@, prop[c].amount, prop[c].session)]
                /\ Goto(c, "gate")
        /\ UNCHANGED <<envVars, executions, positions, chain, prop, seen,
                       receipt, snap, watch>>

-----------------------------------------------------------------------------
(* The cycle: gates, broadcast, receipt                                    *)

\* The user-funds gate refuses: the cycle returns, and calls nothing.
UserFundsDeny(c) ==
    /\ pc[c] = "gate"
    /\ RequiresUserFunds
    /\ Goto(c, "done")
    /\ UNCHANGED <<envVars, store, chain, prop, seen, receipt, snap, watch>>

\* canExecute: a backend, and the agent and session objects loaded at the
\* start ACTIVE.  Neither is read again.
CanExecute(c) == seen[c].agent /\ seen[c].session

Gate(c) ==
    /\ pc[c] = "gate"
    /\ \/ CanExecute(c) /\ Goto(c, "submit")
       \/ Goto(c, "finalize")           \* no backend, or not CanExecute
    /\ UNCHANGED <<envVars, store, chain, prop, seen, receipt, snap, watch>>

\* The backend returns an id: the hash of the last call of the batch, or the
\* relay's callsId.
Send(c) ==
    /\ pc[c] = "submit"
    /\ \E id \in {"hash", "batch"} :
           chain' = [chain EXCEPT ![c] = [status |-> "pending", id |-> id]]
    /\ Goto(c, "receipt")
    /\ UNCHANGED <<envVars, store, prop, seen, receipt, snap, watch>>

\* The backend throws, or returns no id.  With LostSend an earlier call of
\* the sequential broadcast (or the failing one itself) is already out.
SendThrows(c) ==
    /\ pc[c] = "submit"
    /\ \/ UNCHANGED chain
       \/ LostSend /\ chain' = [chain EXCEPT ![c].status = "pending"]
    /\ Goto(c, "finalize")
    /\ UNCHANGED <<envVars, store, prop, seen, receipt, snap, watch>>

\* verifyOnchainReceipt: an RPC failure reads as pending.
ReceiptsFor(tx) ==
    IF tx.id = "batch" THEN {"unverifiable"} ELSE {tx.status, "pending"}

VerifyReceipt(c) ==
    /\ pc[c] = "receipt"
    /\ \E r \in ReceiptsFor(chain[c]) : receipt' = [receipt EXCEPT ![c] = r]
    /\ Goto(c, IF receipt'[c] = "success" THEN "persist" ELSE "finalize")
    /\ UNCHANGED <<envVars, store, chain, prop, seen, snap, watch>>

-----------------------------------------------------------------------------
(* The cycle: finalizing the reservation and recording the execution       *)

\* Mutants: commit before a receipt; release what timed out; release a batch
\* id; hold a revert.
CommitUnconfirmed(c) ==
    CASE receipt[c] \in {"success", "pending"} -> "commit"
      [] receipt[c] \in {"reverted", "none"}   -> "release"
      [] OTHER                                 -> "hold"
ReleasePending(c) ==
    CASE receipt[c] = "success"      -> "commit"
      [] receipt[c] = "unverifiable" -> "hold"
      [] OTHER                       -> "release"
ReleaseUnverifiable(c) ==
    CASE receipt[c] = "success" -> "commit"
      [] receipt[c] = "pending" -> "hold"
      [] OTHER                  -> "release"
HoldReverted(c) ==
    CASE receipt[c] = "success" -> "commit"
      [] receipt[c] = "none"    -> "release"
      [] OTHER                  -> "hold"

\* What finalizeReservation is called with.
FinalizeWith(c) ==
    CASE receipt[c] = "success"            -> "commit"
      [] receipt[c] \in {"reverted", "none"} -> "release"
      [] OTHER                             -> "hold"

\* Mutant: an unconfirmed execution opens a position.
PositionUnconfirmed(c) == IF receipt[c] = "none" THEN "done" ELSE "position"

\* persistExecution comes before commit, and after release and hold.
AfterFinalize(c) ==
    CASE receipt[c] = "success" -> "position"
      [] receipt[c] = "none"    -> "done"
      [] OTHER                  -> "persist"

\* commit/release/hold: get the document.  A status other than RESERVED
\* throws (swallowed) or, in hold, returns; so does a failing read.
FinalizeRead(c) ==
    LET e == ledger[prop[c].key]
    IN  /\ pc[c] = "finalize"
        /\ \/ /\ e.status = "RESERVED"
              /\ snap' = [snap EXCEPT ![c] = e]
              /\ Goto(c, "write")
           \/ /\ e.status # "RESERVED" \/ Faults
              /\ Goto(c, AfterFinalize(c))
              /\ UNCHANGED snap
        /\ UNCHANGED <<envVars, store, chain, prop, seen, receipt, watch>>

\* ... and set the whole document.
FinalizeWrite(c) ==
    /\ pc[c] = "write"
    /\ \/ ledger' = [ledger EXCEPT ![prop[c].key] =
                         Finalized(snap[c], FinalizeWith(c))]
       \/ Faults /\ UNCHANGED ledger
    /\ Goto(c, AfterFinalize(c))
    /\ UNCHANGED <<envVars, executions, positions, chain, prop, seen, receipt,
                   snap, watch>>

\* Mutant: the receipt's own word is stored as the status.
StatusFromReceipt(c) == receipt[c]

\* persistExecution: a blind set of the whole document.
ExecutionStatus(c) ==
    CASE receipt[c] = "success"  -> "CONFIRMED"
      [] receipt[c] = "reverted" -> "FAILED"
      [] OTHER                   -> "EXECUTING"

PersistExecution(c) ==
    /\ pc[c] = "persist"
    /\ executions' = [executions EXCEPT ![prop[c].key] =
                          [status |-> ExecutionStatus(c), tx |-> c, age |-> 0]]
    /\ Goto(c, IF receipt[c] = "success" THEN "finalize" ELSE "done")
    /\ UNCHANGED <<envVars, ledger, positions, chain, prop, seen, receipt,
                   snap, watch>>

\* upsertPosition for a DEPOSIT or a SWAP, then the performance rollup.
UpsertPosition(c) ==
    /\ pc[c] = "position"
    /\ positions' \in {positions, positions \cup {prop[c].key}}
    /\ Goto(c, "done")
    /\ UNCHANGED <<envVars, ledger, executions, chain, prop, seen, receipt,
                   snap, watch>>

\* An await throws into the outer catch, or the process is gone: the cycle
\* stops where it is and undoes nothing.
Abort(c) ==
    /\ Faults
    /\ c \in Active
    /\ Goto(c, "dead")
    /\ UNCHANGED <<envVars, store, chain, prop, seen, receipt, snap, watch>>

-----------------------------------------------------------------------------
(* The confirm-watcher                                                     *)

Executing == {k \in Keys : executions[k].status = "EXECUTING"}

\* The query's first WatchLimit documents; it has no order, so Firestore's
\* (document id).
Batch == {k \in Executing : Cardinality({j \in Executing : j < k}) < WatchLimit}

WatchStart ==
    /\ \A k \in Keys : Idle(k)
    /\ Batch # {}
    /\ watch' = [k \in Keys |-> IF k \in Batch THEN executions[k] ELSE NoExecution]
    /\ UNCHANGED <<envVars, store, chain, cycleVars>>

\* The document is updated with v and the watcher is done with it.
Settle(k, v) ==
    /\ executions' = [executions EXCEPT ![k].status = v]
    /\ watch' = [watch EXCEPT ![k] = NoExecution]
    /\ UNCHANGED <<envVars, ledger, positions, chain, cycleVars>>

\* Mutants: a receipt's status is not looked at; only success is settled.
ReceiptIsSuccess(k) ==
    /\ ~Idle(k)
    /\ chain[watch[k].tx].id = "hash"
    /\ chain[watch[k].tx].status \in {"success", "reverted"}
    /\ Settle(k, "CONFIRMED")
OnlySuccess(k) ==
    /\ ~Idle(k)
    /\ chain[watch[k].tx] = [status |-> "success", id |-> "hash"]
    /\ Settle(k, "CONFIRMED")

\* The copy's transaction hash has a receipt on the chain.
WatchReceipt(k) ==
    LET tx == chain[watch[k].tx]
    IN  /\ ~Idle(k)
        /\ tx.id = "hash"
        /\ \/ tx.status = "success"  /\ Settle(k, "CONFIRMED")
           \/ tx.status = "reverted" /\ Settle(k, "FAILED")

\* A batch id is given up after 24 hours.
WatchBatchTimeout(k) ==
    /\ ~Idle(k)
    /\ chain[watch[k].tx].id = "batch"
    /\ watch[k].age = 2
    /\ Settle(k, "FAILED")

\* A hash is given up after 30 minutes when the receipt call throws with a text
\* the "not found" test does not match.  Which texts those are (no receipt yet,
\* an RPC failure) is the client library's choice, so any pass may see one.
WatchTimeout(k) ==
    /\ ~Idle(k)
    /\ chain[watch[k].tx].id = "hash"
    /\ watch[k].age >= 1
    /\ Settle(k, "FAILED")

\* No receipt yet, an RPC failure, or a failed update (allSettled).
WatchSkip(k) ==
    /\ ~Idle(k)
    /\ watch' = [watch EXCEPT ![k] = NoExecution]
    /\ UNCHANGED <<envVars, store, chain, cycleVars>>

-----------------------------------------------------------------------------
(* The chain, the clock and the owner                                      *)

Mine(c) ==
    /\ chain[c].status = "pending"
    /\ \E r \in {"success", "reverted"} : chain' = [chain EXCEPT ![c].status = r]
    /\ UNCHANGED <<envVars, store, cycleVars, watch>>

Age(k) ==
    /\ executions[k].status = "EXECUTING"
    /\ executions[k].age < 2
    /\ executions' = [executions EXCEPT ![k].age = @ + 1]
    /\ UNCHANGED <<envVars, ledger, positions, chain, cycleVars, watch>>

ToggleAgent ==
    /\ agentActive' = ~agentActive
    /\ UNCHANGED <<sessStatus, inFlight, store, chain, cycleVars, watch>>

ActivateSession(s) ==
    /\ sessStatus[s] = "PENDING"
    /\ sessStatus' = [sessStatus EXCEPT ![s] = "ACTIVE"]
    /\ UNCHANGED <<agentActive, inFlight, store, chain, cycleVars, watch>>

EndSession(s) ==
    /\ sessStatus[s] # "ENDED"
    /\ sessStatus' = [sessStatus EXCEPT ![s] = "ENDED"]
    /\ inFlight' = inFlight \cup
           {c \in Cycles : /\ prop[c].session = s
                           /\ pc[c] \in MaySend \/ chain[c].status # "none"}
    /\ UNCHANGED <<agentActive, store, chain, cycleVars, watch>>

-----------------------------------------------------------------------------
CycleStep(c) ==
    \/ LoadAgent(c) \/ Decide(c) \/ Pass(c)
    \/ PolicyAgent(c) \/ PolicySession(c) \/ PolicyTotal(c) \/ Reserve(c)
    \/ UserFundsDeny(c) \/ Gate(c) \/ Send(c) \/ SendThrows(c)
    \/ VerifyReceipt(c) \/ FinalizeRead(c) \/ FinalizeWrite(c)
    \/ PersistExecution(c) \/ UpsertPosition(c)

Watcher ==
    \/ WatchStart
    \/ \E k \in Keys : \/ WatchReceipt(k) \/ WatchBatchTimeout(k)
                      \/ WatchTimeout(k) \/ WatchSkip(k)

Environment ==
    \/ \E c \in Cycles : Mine(c)
    \/ \E k \in Keys : Age(k)
    \/ ToggleAgent
    \/ \E s \in Sessions : ActivateSession(s) \/ EndSession(s)

Next ==
    \/ \E c \in Cycles : CycleStep(c) \/ Abort(c)
    \/ Watcher
    \/ Environment

Spec == Init /\ [][Next]_vars
-----------------------------------------------------------------------------
(* Fairness: the watcher is a cron, the clock moves, and a receipt that    *)
(* exists is not unreadable for ever.  Nothing is assumed of the cycles,   *)
(* which may die anywhere, of the chain or of the owner.                   *)

Fairness ==
    /\ WF_vars(WatchStart) /\ WF_vars(\E k \in Keys : WatchSkip(k))
    /\ \A k \in Keys : SF_vars(WatchReceipt(k) \/ WatchBatchTimeout(k))
    /\ WF_vars(\E k \in Keys : Age(k))

FairSpec == Spec /\ Fairness

-----------------------------------------------------------------------------
(* Properties                                                              *)

\* Every variable keeps the shape the schemas give its documents.
TypeOK ==
    /\ agentActive \in BOOLEAN
    /\ sessStatus \in [Sessions -> SessionStatus]
    /\ inFlight \in SUBSET Cycles
    /\ ledger \in [Keys -> Entry]
    /\ executions \in [Keys -> Execution]
    /\ positions \in SUBSET Keys
    /\ chain \in [Cycles -> Tx]
    /\ pc \in [Cycles -> Phase]
    /\ prop \in [Cycles -> Proposal]
    /\ seen \in [Cycles -> [agent : BOOLEAN, session : BOOLEAN]]
    /\ receipt \in [Cycles -> Receipt]
    /\ snap \in [Cycles -> Entry]
    /\ watch \in [Keys -> Execution]

\* No two cycles can be given one key: the brain makes a new key per decision.
FreshKeys == \A c, d \in Cycles : c # d => KeysOf[c] \cap KeysOf[d] = {}

SpentKeys == {k \in Keys : \E c \in Cycles : /\ prop[c].key = k
                                            /\ chain[c].status = "success"}

\* A COMMITTED reservation is money that left: some cycle of that key has a
\* transaction mined with success.  Two cycles finalizing one document in any
\* order, from stale reads, do not break it (run-cycle.ts:768-771).
CommittedIsMined ==
    \A k \in Keys : ledger[k].status = "COMMITTED" => k \in SpentKeys

\* A position is written only from a confirmed execution, never fabricated
\* (persistence.ts:180).
PositionIsMined == positions \subseteq SpentKeys

\* Nothing is CONFIRMED without an on-chain receipt, by the cycle or by the
\* watcher working on a copy (reconcile.ts:118-119).
ConfirmedIsMined ==
    \A k \in Keys : executions[k].status = "CONFIRMED" =>
        /\ executions[k].tx \in Cycles
        /\ chain[executions[k].tx].status = "success"

\* A transaction that is out, mined with success or still able to be, counts
\* against its session's cap for the value proposed, whatever crashed or
\* threw after the broadcast (run-cycle.ts:551-556, 696-700).
LiveTxIsCounted ==
    \A c \in Cycles : chain[c].status \in {"pending", "success"} =>
        LET e == ledger[prop[c].key]
        IN  Counted(e) /\ e.amount = prop[c].amount /\ e.session = prop[c].session

\* What the check-then-reserve gap can cost: each other cycle in flight
\* overshoots by one transaction at most (policy-engine index.ts:359-368).
OvershootBounded ==
    \A s \in Sessions :
        SessionTotal(ledger, s) <= SpendCap + (MaxActive - 1) * PerTxCap

\* Ending a session stops every cycle that had not yet passed the policy's
\* session check, whatever session object it holds (index.ts:298-304).
KillSwitch ==
    \A c \in Cycles :
        sessStatus[prop[c].session] = "ENDED" /\ chain[c].status # "none"
            => c \in inFlight

\* A cycle that ends leaves its reservation as its receipt says: committed on
\* success, held while unknown, and not reserved after a revert or when it
\* broadcast nothing (run-cycle.ts:551-556).
FinalizedByReceipt ==
    \A c \in Cycles : pc[c] = "done" /\ prop[c].key \in KeysOf[c] =>
        LET status == ledger[prop[c].key].status
        IN  CASE receipt[c] = "success" -> status = "COMMITTED"
              [] receipt[c] \in {"pending", "unverifiable"} -> status = "RESERVED"
              [] OTHER -> status \in {"ABSENT", "RELEASED"}

\* A retry or a replay of one idempotency key never puts a second live
\* transaction on the chain (adversarial.test.ts:520).
OneLiveTxPerKey ==
    \A c, d \in Cycles :
        /\ c # d
        /\ prop[c].key = prop[d].key
        => ~ /\ chain[c].status \in {"pending", "success"}
             /\ chain[d].status \in {"pending", "success"}

\* Each reservation moves as ReservationLifecycle says.
Lifecycle == INSTANCE ReservationLifecycle
                 WITH status <- [k \in Keys |-> ledger[k].status],
                      spent <- SpentKeys
ImplementsLifecycle == Lifecycle!Spec

TxOf(k) == chain[executions[k].tx]
StillExecuting(k) == executions[k].status = "EXECUTING"

\* The watcher settles every execution whose hash is mined, and every batch id
\* (reconcile.ts:109-116).
MinedIsReconciled ==
    \A k \in Keys :
        (StillExecuting(k) /\ (TxOf(k).id = "hash" => TxOf(k).status # "pending"))
            ~> ~StillExecuting(k)

-----------------------------------------------------------------------------
(* Inductive invariants                                                    *)

BeforeSend == {"start", "session", "policyAgent", "policySession",
               "policyTotal", "reserve", "gate", "submit"}

\* A cycle that has not passed the backend call has no transaction.
Unsent == \A c \in Cycles : pc[c] \in BeforeSend =>
              chain[c] = NoTransaction /\ receipt[c] = "none"

\* What a cycle believes of its receipt is so, and commits are on success.
ReceiptIsTrue ==
    \A c \in Cycles : /\ receipt[c] \in {"success", "reverted"} =>
                             chain[c].status = receipt[c]
                      /\ pc[c] \in {"persist", "position"} => receipt[c] # "none"
                      /\ pc[c] = "position" => receipt[c] = "success"

\* A cycle about to write back a ledger document read it RESERVED.
ReadReserved == \A c \in Cycles : pc[c] = "write" => snap[c].status = "RESERVED"

MinedInv == /\ TypeOK
            /\ Unsent
            /\ ReceiptIsTrue
            /\ ReadReserved
            /\ CommittedIsMined
            /\ PositionIsMined

\* A cycle that may still send under an ended session was authorised before.
KillSwitchInv ==
    /\ TypeOK
    /\ Unsent
    /\ KillSwitch
    /\ \A c \in Cycles : pc[c] \in MaySend /\ sessStatus[prop[c].session] = "ENDED"
           => c \in inFlight

\* The cycle's reservation as its policy check allowed it.
Owns(c) == ledger[prop[c].key] = [status |-> "RESERVED", amount |-> prop[c].amount,
                                  session |-> prop[c].session]

BeforeReserve == {"start", "session", "policyAgent", "policySession",
                  "policyTotal", "reserve"}

\* Phases in which the reservation is the cycle's and not yet finalized.
Holding(c) == \/ pc[c] \in {"gate", "submit", "receipt", "finalize", "write"}
              \/ pc[c] = "persist" /\ receipt[c] = "success"

\* With keys no two cycles share: a key's document is absent until its cycle
\* reserves it, and is the cycle's own until the cycle writes it back.
OwnReservation ==
    \A c \in Cycles :
        /\ pc[c] \in BeforeReserve =>
               \A k \in KeysOf[c] : ledger[k].status = "ABSENT"
        /\ pc[c] \in Phase \ {"start", "session", "done", "dead"} =>
               prop[c].key \in KeysOf[c]
        /\ chain[c].status # "none" => prop[c].key \in KeysOf[c]
        /\ Holding(c) => Owns(c)
        /\ pc[c] = "write" => snap[c] = ledger[prop[c].key]

\* Without LostSend, a cycle whose receipt is "none" has nothing on the chain
\* once it finalizes.
ThrewBeforeSend ==
    \A c \in Cycles : pc[c] \in {"finalize", "write"} /\ receipt[c] = "none" =>
        chain[c].status = "none"

CountedInv == /\ TypeOK
              /\ Unsent
              /\ ReceiptIsTrue
              /\ OwnReservation
              /\ ThrewBeforeSend
              /\ LiveTxIsCounted
=============================================================================
