# Formal models of the BAN agent network

TLA+ modules, TLC runs and TLAPS proofs about the Open Agent Network (BAN)
repository: autonomous agents that observe DeFi markets, let a model propose an
action, and execute it with real funds under an owner's session limits.

## 1. The system

| component | state it keeps | operations | what makes it correct |
|---|---|---|---|
| Spend ledger `apps/web/lib/policy/spend-ledger-repo.ts` | one Firestore document per idempotency key: status, amount, session | `reserve` (transaction on the key), `commit`, `release`, `hold` (get, then set), totals (query) | a session's reservations stay under its cap; COMMITTED means the money left; nothing leaks |
| Policy engine `packages/policy-engine` | none | `validateAction`: reads agent, session and total, runs the checks, reserves | an ended session or paused agent gets nothing new through; caps hold under concurrency |
| Agent cycle `apps/web/lib/agent-runtime/run-cycle.ts`, `persistence.ts` | the cycle's locals; `executions`, `positions`, `performance`, `audit_events` documents | `runAgentCycle`: observe, decide, policy, gates, backend, receipt, finalize, record | every reservation is finalized by what happened on the chain; no record without a receipt |
| Confirm-watcher `apps/web/inngest/reconcile.ts` | none | every two minutes: settle EXECUTING documents from receipts or time-outs | CONFIRMED only from a receipt; whatever has an outcome is settled |
| Signing backend `apps/web/lib/altana-signer.ts`, `packages/signers` | keystores, wallets | build calls, broadcast one by one or through a relay | returns an id only if something was sent, throws only if nothing was |
| Agent loop `apps/web/inngest/functions.ts`, `reconcile.ts` | the runs and events of the queue; `agent_loop_state`, which is written and never read | self-chaining ticks, five-minute re-kick, the routes' kicks | a paused agent's chains die; an active agent the cron sees goes on having cycles |
| Execution engine `packages/execution-engine` | execution records | `execute`, `reconcile` | at most one broadcast per proposal; a recorded hash is not lost; FAILED means dead |
| Session manager `apps/web/lib/session-manager.ts` | `agent_sessions`, the chain's grants | create, register, update, revoke, requireActive | REVOKED stands; the key of an ACTIVE session was granted what its record says |
| Agent registry `apps/web/lib/agent-registry.ts` | `agents` | lifecycle actions by a transition table, bind, delete | REVOKED stands; only legal transitions |
| Wallet provisioning `apps/web/lib/altana-signer.ts`, `lib/altana` | `agent_keystores`, and a plaintext mirror of the key on each instance that made one | provision, destroy | the wallet an owner funds is the one whose key is kept, until a delete destroys it |
| Permissions `apps/web/lib/permissions`, `packages/eip7702` | `agent_permissions` | create, activate, revoke, resolve | a revoked permission authorises nothing |
| Job queue `apps/web/lib/jobs`, `inngest/functions.ts` | `jobs`, idempotency keys, dead letters, audit events | POST, run, retry, dead-letter | a repeated request is processed once; what becomes of each job is known; the audit trail is true |
| BANVault `BANVault.sol` | limits, allowlists, jobs, daily window, money | deposit, withdraw, createJob, fundJob, withdrawJob, execute | spends within job budget and daily limit; a creator's deposit is there to withdraw, but for what its owner and executor took |
| Strategies `packages/strategy-*`, `packages/agent-core` | the stored grid: levels, range, last price | observe, offer candidates, make the model's answer canonical | offers what its rules say; trades within its range and its task's sizes |
| Brain `packages/ai` | none | a structured decision | its ids and values are untrusted |
| Chain providers `packages/blockchain` | none | prices, pools, lending positions, transactions | figures that are what the chain has |
| Hiring and accounts (`api/hirings`, `lib/data`) | credits, hirings | sign-up, hire | credits are paid once per hiring |
| Contract registry, performance engine, web API and UI | tables | reads and presentation | not modelled, see section 8 |

**Interaction.** An Inngest tick or a route starts `runAgentCycle`. The cycle
reads the agent and session documents, asks the strategy and its brain, calls
the policy engine (which reads both documents again, sums the ledger and
reserves), passes the gates, calls the backend, reads the receipt and writes the
ledger and the execution. The watcher cron works on the same execution
documents. Owners pause agents and revoke sessions through the API at any
moment. Every `await` is a point where another of these runs: functions are
serverless, nothing is locked, and only `reserve` uses a Firestore transaction.

**What is hard here.** Read-then-write on shared documents (ledger, sessions,
agents, permissions); check-then-act on the session cap and on the session
itself; a process that dies between the broadcast and its record; receipts that
cannot be read; idempotency keys and proposal ids that come from a model;
reservations that outlive their cycle. `PROJECT.json` lists each at its line
under "hazards".

## 2. Plan

Order of work, most important behaviour first:

1. `SpendLedger`, `ReservationLifecycle`, `AgentCycle` and their proofs: the
   money path (done).
2. `AtMostOnce` (abstract) and `ExecutionEngine`, with the refinement (done,
   proved).
3. `AgentLoop`: chains, the re-kick, replays of a tick after its sleep (done,
   types proved). It bounds nothing of AgentCycle's MaxActive, since several
   chains of one agent may run: AgentCycle allows for two cycles at once.
4. `OwnerApi`: agents, keystores, sessions and permissions, the documents whose
   status the cycle trusts (done, proved).
5. `Jobs`: records, retries, the failure handler (done, proved), the end of a
   job (model-checked).
6. `BANVault`: the contract (done), the daily limit, the books of the jobs and
   the escrow for every value of the constants (proved).
7. The four strategies and `Strategies`, the cycle over them (done); what the
   grid trades, what health repays and what yield deposits, what the selectors
   sort and how much they offer (proved). The sort, `Ranked`, takes the n-th
   element to be the one with n - 1 before it, which a proof can count.

## 3. Modules

**SpendLedger** holds a ledger document's value and what each repository call
does to it (`Reserved`, `Finalized`, `Refused`, `SessionTotal`). It has no
variables: AgentCycle decides when reads and writes happen.

**ReservationLifecycle** is the abstract specification: per key a status that
goes ABSENT, RESERVED, then COMMITTED once the transaction is mined with success
or RELEASED when it is not; a RELEASED key may be reserved again.

**AgentCycle** composes cycles, the ledger, execution and position documents,
the chain, the watcher and the owner. One action per stretch of code between two
awaits that touch shared state:

| actions | code |
|---|---|
| LoadAgent, Decide, Pass | `runAgentCycle` up to the proposal, with the session id stamped on it |
| PolicyAgent, PolicySession, PolicyTotal, Reserve | `validateAction`'s three reads, then `reserve` |
| UserFundsDeny, Gate | the user-funds gate; `canExecute` on the objects loaded at the start |
| Send, SendThrows | the backend: a hash, a relay batch id, or a throw, with LostSend after part of the batch went out |
| VerifyReceipt | `verifyOnchainReceipt` |
| FinalizeRead, FinalizeWrite | `commit`, `release`, `hold`: get, then set of the whole document |
| PersistExecution, UpsertPosition | `persistExecution` (blind set), `upsertPosition` |
| Abort | a throw into the outer catch or the end of the process, anywhere |
| WatchStart, WatchReceipt, WatchBatchTimeout, WatchTimeout, WatchSkip | one watcher pass: the query's copies, then one update per copy |
| Mine, Age, ToggleAgent, ActivateSession, EndSession | the chain, the clock, the owner |

The order differs by outcome as in the code: on success the execution is
persisted before `commit`, otherwise after `release` or `hold`.

**MCAgentCycle** gives the constants their values. **AgentCycleProofs** holds
the theorems, as the other modules named after a component and Proofs do;
**SumProofs** holds the lemmas about sums that three of them use. Operators marked *Mutant* in AgentCycle are faulty variants of the
definition that follows them; no specification uses them.

Abstractions, and why the properties do not see them:
- `idempotencyKey` and `proposalId` are one key. Both come from the same answer
  of the brain; the ledger is keyed by the first, executions and positions by
  the tail of the second.
- Values are naturals and already normalised for the caps.
- A batch of calls is one transaction, whose id is the last call's hash or the
  relay's batch id; LostSend says an earlier call may be out when a later throws.
- Time is an execution's age against the watcher's two limits, and a session's
  expiry is one of the ways it ends.
- Observation, preflight, scope and risk checks, the allowlist self-heal, audit
  events and the performance rollup change nothing the model keeps; where they
  refuse or throw, Pass, PolicySession's second disjunct and Abort stand for it.
- A session that is PENDING may become ACTIVE; a registration that races a
  revocation is OwnerApi's.
- Whether "receipt not found" ages out after 30 minutes depends on the wording
  of the client library's error (`reconcile.ts:199`): WatchTimeout may happen to
  any old copy, and fairness does not force it.
- `inFlight` is a history variable: the cycles already authorised when their
  session ended. It guards nothing.

**AtMostOnce** is what the execution engine promises: one transaction per
execution id, and CONFIRMED only for one that succeeded. **ExecutionEngine**
models `execute` and `reconcile`, one action per stretch between two awaits:
Begin (load, derive the id), Propose, Gate and Refuse (PROPOSED, the policy and
the permission), MarkExecuting, Submit, PersistHash, Query, PersistFinal, and
Load for `reconcile`; Throw and Catch are the try block and what its catch
persists, Die the end of the process. Two overlapping calls of `execute` for one
id both broadcast: the constant Overlap admits them, the run does not.

**Jobs** models `POST /api/jobs` (Create, Send, CrashPoster), the worker
functions (Begin, Process, Succeed, AuditSuccess) with Inngest's memoised steps
and attempts, and the failure handler (HandleFailure). The handler is called
with `inngest/function.failed`, whose data holds the failed event under
`data.event`; it reads `event.data.jobId` (`functions.ts:90-91`), so its first
update is of no document and throws in each of its own attempts. HandleFailure
therefore ends them all in one step, and the dead letter and its audit event,
which come after that update, are not in the model. A write of a worker may
throw with or without its effect (StoreFault). A call after such an error starts
from the first line, so a record may go from SUCCEEDED back to RUNNING.

**AgentLoop** models one agent's `banAgentLoop`: a run is queued, executes its
cycle, sleeps (the one durable step), executes again from its first line with
the sleep memoised, and sends the next event. Fork is a send that throws after
its event was accepted; Throw ends a run after its retries; Lose drops an event.
List and Reconcile are the five-minute cron, which lists and then kicks. It
lists the 50 ACTIVE agents created last and of each reads 20 tasks in no order:
AgentLimit and TaskLimit, against which stand `newer`, how many ACTIVE agents
come before this one (Others), and `ahead`, how many of its tasks the store
returns before an active one. FAILED and expired tasks are never removed, so
`ahead` only falls when a new active task happens to come first. The
Task actions are `POST tasks` in its order (session, activation, record, kick);
RunKick is `POST run`; SetActive and Expire are the owner and the clock. The
cycle that these two routes run themselves, once and before they kick
(`run/route.ts:73`, `tasks/route.ts:461`), is no chain's and is left out:
PausedStops speaks of the loop's cycles.

**OwnerApi** models the requests an owner makes on one agent, one session and
one permission, each a process that reads, decides, and writes later:
`lifecycle` by its transition table, provisioning (key loaded or made, keystore
and mirror saved, wallet bound), delete (revoke, destroy, clear the mirror,
remove), `registerSession`,
`updateSessionConfig` (patch, regrant, new key), `revokeSession`, activation and
revocation of a permission. Fail ends a request half way. The histories say
which documents were found revoked with no request under way (`sealed`), what
two requests worked on at once (`overlapped`), which keys were destroyed, and
what failed half way. The keystore is the Firestore document and, on each
instance, a mirror that is written best-effort: `Loads` says what
`loadAgentKeystore` may answer there: the document's key, or, when the document
is missing, not read or not decrypted, the mirror's, or none. A request is
answered by one instance. Together bounds which kinds of requests meet in one
behaviour.

**BANVault** models every state-changing function of the contract. An action is
a successful transaction; the reentrancy lock makes it one step. Time is a day
and a tick of the day, because the contract only adds a day and cuts to
midnight. `today` and `peak` (executed value and highest limit of the calendar
day), `book` (per job: deposited, spent, refunded) and `free` (per asset: what
came in outside the jobs, less what left outside their accounts) are history. A
protocol call takes any amount of any token from the vault, and no BNB, since it
carries none: nothing ties its calldata to the job's token or to
accountingValue. `Excess` is the part of it the job's balance does not account
for. What a call brings back into the vault is a Deposit; a plain transfer of a
token to the vault's address, which no function of the contract sees, only adds
to what it holds.

**CanonicalAction** is the vocabulary the strategies share (directives, aliases,
the match of an answer with a candidate, the sort of the selectors as `Ranked`,
wei at the peg). **GridStrategy**,
**LpStrategy**, **HealthStrategy** and **YieldStrategy** are the pure parts of
the four packages as operators: levels, crossings, order sizes, ranges, health
factors, repayments, effective yields, candidates and the executable proposal.
They share no state. **Strategies** is the cycle over them: observe (every read
the adapter makes), decide, the end of the cycle, the task's edits, and the
grid's state document, whose write nobody awaits (Land, Lose). `obs` is the
cycle's observation, and Unobserved outside a cycle. HealthStrategy's
`Lending` is the live provider's lending position, with its skipped markets and
its cut to whole tokens.

The MC modules give each of these its instance. Operators marked *Mutant* are,
as above, faulty variants that nothing uses.

Abstractions of these modules:
- A name is a member of a small set; ids that are generated are the process
  that generates them.
- In OwnerApi a request that is refused leaves no trace and is not a step;
  signatures and access tokens are not modelled. Records that a request creates
  anew conflict with nothing and are left out.
- In Jobs the three queues differ in names and attempts only.
- In BANVault tokens transfer what they are told: a token that keeps a fee would
  leave the vault with less than a job's recorded balance.
- In the strategies prices, volumes, ticks and balances are picked from small
  sets with values on both sides of each threshold. Names are compared by
  their place in Alphabet.

## 4. Runs

| run | instance | shows |
|---|---|---|
| cycle_shared | 2 concurrent cycles, 1 key for both, 2 sessions, faults, lost sends, user-funds gate | TypeOK, CommittedIsMined, PositionIsMined, KillSwitch |
| cycle_overshoot | 3 cycles, 2 at once, a key each, cap 1, no faults | OvershootBounded, FinalizedByReceipt |
| cycle_fresh | 2 concurrent cycles, a key each, faults, watcher, FairSpec | ConfirmedIsMined, LiveTxIsCounted, ImplementsLifecycle, MinedIsReconciled |
| loop | 2 runs, 1 executing, 1 retry, 1 lost event, 1 newer agent, 1 task ahead, the cron's limits at 1 | PausedStops, KeepsTicking: chains of a paused agent die, an active one within the limits goes on |
| engine | 3 executes and 2 reconciles of one proposal, any throw or crash | PromiseKept (the refinement of AtMostOnce), FailedIsDead, HashKept |
| owner | 3 requests, of the wallet's kinds or of the others, one agent, session and permission, 2 instances | RevokeHolds, KeyKept, KeyDestroyed, KeyMatchesConfig |
| jobs | 2 requests with one key, one job that always fails, 2 attempts, 3 store errors | ProcessedOnce, AuditIsTrue, JobsEnd |
| vault | 1 account, 2 jobs, BNB and one token, the deployment day and two more of 2 ticks | DailyCap, JobAccounts, EscrowAccounted |
| strategies | each strategy on a small market, 3 task overrides, any answer | LevelsFitRange, RebuildIsNoTrade, SwapWithinTask, RemoveIsOffered, RepayReachesTarget, OffersAreTheBest, DepositIsBudget |

Bounds, and why they are enough:
- Two cycles are the smallest number that can race on a key, a cap or a
  document. cycle_overshoot uses three: the overshoot bound can only be
  exceeded by a cycle that comes after the ones that filled it.
- MaxActive is 2 in the passing runs: `functions.ts` allows cycles of one agent
  to run at once, though `reconcile.ts:61` calls the loop "the SINGLE cycle
  driver". It is 1 in second_send, whose two cycles need not overlap.
- One amount equal to the per-transaction cap makes every cap test exact at its
  boundary. Amounts above the cap are refused by SessionChecks.
- WatchLimit is 2 (every document of the instance) or 0, no watcher, where the
  properties do not mention executions, which is all the watcher writes.
- SharedKeysOf lets every cycle use every key (an answer that repeats itself),
  FreshKeysOf gives each cycle its own.
- loop: two runs are enough for a fork to outlive its parent and for a kick to
  meet a running chain; Concurrency 1 makes them wait for each other. A lost
  event and a throw beyond the retries both end a chain. The limits of 50 agents
  and 20 tasks are 1, with one more of each to be on either side of them.
- engine: three executes are a first call, its retry, and a retry of the retry;
  two reconciles can cross each other and a call. Ids share nothing, so one is
  enough.
- owner: three requests are a revoke, one that crosses it, and one after both;
  or a provision that dies, its repetition and a delete; every kind is tried in
  every place. Two instances are one that has a mirror and one that has not, two
  configurations tell an edit. Together keeps provision and delete, which
  neither read nor write the session and the permission, apart from the requests
  that do; both sets have activate and revoke, which write the agent's status.
- jobs: two requests race on one key, a third job occupies the single slot;
  MaxFaults 3 is more than the queue's attempts, so that a job that should
  succeed may be spent by store errors too.
- vault: day 1 is the one whose window is not aligned, day 2 the first regular
  one, which is why MaxDay is 2; MaxLimit 2 over amounts of 1 admits two calls
  in a window. Two jobs with two assets can draw on each other's money. The one
  account plays owner, executor and creator; that other creators change nothing
  is the theorems'. `book`'s spent is the accountingValue, what the call really
  took is in `vault` and `free`.
- strategies: BNB costs $6.01, which keeps products in TLC's 32 bits and leaves
  remainders in every floor. Grid prices lie inside the default range and above
  it; the overrides move it, stop its recentering or ask for an order above the
  capital. Debts lie below and above one whole token.
- Symmetry (cycles with shared keys, jobs of the vault, calls of the engine,
  requests) is used only where these are interchangeable, and with no liveness.
- Deadlock is off in engine, owner, jobs and key_replaced, where a finite number
  of calls ends.

Three runs expect a violation: a statement of the repository the code does not
keep. `PROJECT.json` quotes it.

| run | the statement | what happens |
|---|---|---|
| second_send | a retry is not a duplicate financial action | a held reservation is replayed as a permission to send, and a second transaction goes out |
| unseen_emergency | EMERGENCY offers a repayment | a debt below one whole token counts as nothing, so the position reads HEALTHY (TLC's shortest case has no collateral and a debt of 0.9 BNB) |
| key_replaced | a key is generated if none exists yet | a keystore that is not read and has no mirror reads as none; a new key is saved over the kept one, and `POST deploy` does this for an owned agent |

The properties that hold do so with limits, which the modules' comments state.
The following statements of the repository are wider than what holds:
- After a delete the signing key "is destroyed so nothing can sign for it
  anymore" (`keystore.ts:261-263`): the delete clears the document and the mirror
  of its own instance (`keystore.ts:281`), and an instance that keeps a mirror
  still loads the key. KeyDestroyed speaks of one instance's.
- "When the retry budget is exhausted, the failure handler classifies the error
  and DEAD_LETTERs it" (`functions.ts:41-42`): the handler looks for the job's id
  one level too high (`functions.ts:90-91`), and its first update throws
  (`functions.ts:106`, `job-repo.ts:97`). JobsEnd says that the job stays as its
  worker left it.
- A lost event of an agent with a task and a session "self-heals"
  (`functions.ts:174-176`): an agent beyond the 50 newest ACTIVE ones
  (`reconcile.ts:71`) is not kicked again, nor one whose active task is not among
  the 20 that are read (`reconcile.ts:33`). KeepsTicking asks for both.
- "The creator can always withdraw their unused deposit" (`BANVault.sol:25`): the
  owner's withdrawals are checked against all the vault holds
  (`BANVault.sol:215`), and may take it. EscrowAccounted says by how much.
- Concurrent reservations can exceed the session's cap: `reserve` is a
  transaction on its key, but the total is read before it and outside it
  (`policy-engine/src/index.ts:363`, against `spend-ledger-repo.ts:11-13`).
  OvershootBounded says by how much.
- "Nothing was broadcast" of a backend that throws (`run-cycle.ts:665-668`): a
  throw at the third of three sequential calls comes after two went out
  (`altana-signer.ts:528-538`), and the reservation is released.
  LiveTxIsCounted therefore has LostSend = FALSE.
- RESERVED to COMMITTED or RELEASED (`policy-engine/src/index.ts:22-25`): two
  cycles with one key can turn COMMITTED into RELEASED, since each writes back
  what it read. ImplementsLifecycle therefore has a key per cycle.
- "A revoked session prevents execution" (`docs/update.md:1315`): the last gate
  tests the session object loaded at the cycle's start (`run-cycle.ts:636`).
  KillSwitch says which cycles still send.
- A held reservation is said to be reconciled later (`run-cycle.ts:698`), and
  the watcher never touches the ledger: it counts against the cap for ever.
- "The Firestore lease prevents overlapping chains" (`functions.ts:281`):
  nothing reads the lease. PausedStops and KeepsTicking hold of many chains.
- A status that is REVOKED is undone by an activation, a pause or a
  registration that read it earlier. RevokeHolds speaks of a revoke that stands
  when the requests it crossed have ended.
- Two provisions at once leave the agent bound to a wallet whose key the other
  overwrote. KeyKept excludes overlaps, and the failed read of key_replaced.
- A destruction of a key whose document or mirror cannot be removed is swallowed
  (`delete/route.ts:82`, `keystore.ts:284`). KeyDestroyed speaks of a delete
  without such an error, of the document and of the mirror of the instance that
  answered.
- ConfirmedIsMined fails when two cycles share a proposal id (the watcher
  updates a document overwritten since it was read); FinalizedByReceipt when
  RequiresUserFunds is TRUE (the gate returns without finalizing; no caller
  sets the option today): its run has FALSE and says nothing of that return.

## 5. Fairness

- AgentCycle's FairSpec: the watcher's cron starts passes and gets through each
  (weak fairness of WatchStart and WatchSkip); time passes; and an available
  outcome is not unreadable in every pass (strong fairness of WatchReceipt with
  WatchBatchTimeout, since a pass may fail and the next one retries). Nothing is
  assumed of the cycles, which may stop anywhere, of the chain (a transaction
  may stay pending), of the owner, or of WatchTimeout.
- AgentLoop: Inngest calls a run again until it ends, a throw being one of its
  ends (weak fairness of the four together and of Wake); queued runs take turns
  for the executing slots (strong fairness of Start, whose slot comes and goes);
  the cron fires and finishes (weak fairness of List and Reconcile). Nothing is
  assumed of the routes, the owner or the other agents, nor that events arrive.
  List is only enabled while the agent is among those the cron lists, so nothing
  is promised to one that is not: KeepsTicking asks that the agent and its task
  stay within the cron's limits.
- Jobs: Inngest goes on calling a job's run until it ends (weak fairness of its
  worker and handler), and a poster that has made its job sends the event or
  dies (weak fairness of Send or CrashPoster). Store errors have none.

## 6. Proofs

`AgentCycleProofs` proves, for any finite sets of cycles and keys, any sessions
and any caps (`KeysAssumption`, `CycleAssumption`):

- **TypeCorrect**: TypeOK is inductive by itself, one step per action.
- **CommittedMined**, **PositionMined**: neither is inductive alone. A
  FinalizeWrite commits on what the cycle believes of its receipt and writes
  back what it read. `MinedInv` adds Unsent (no transaction and no receipt
  before the backend call), ReceiptIsTrue (a definite receipt is the chain's)
  and ReadReserved (what will be written back was read RESERVED).
  `SpentStable` shows that a mined key stays one. No assumption on keys: the
  theorems hold however cycles share them.
- **KillSwitchHolds**: `KillSwitchInv` adds that a cycle past the session check
  under an ended session is in `inFlight`, so the check itself is what keeps
  later cycles out, whatever session object they hold.
- **LiveTxCounted**, assuming FreshKeys and LostSend = FALSE: `CountedInv` adds
  that a key's document is absent until its cycle reserves it, is exactly that
  cycle's reservation until the cycle writes it back (`OwnReservation`), and
  that a cycle finalizing without a receipt has nothing on the chain
  (`ThrewBeforeSend`). `OthersFrame` shows cycles with distinct keys do not
  disturb each other, `OwnStep` treats each action of one cycle. Both
  assumptions are needed: with shared keys run second_send breaks it, with
  LostSend a released reservation may leave its transaction live.
- **LifecycleImplemented**, under the same assumptions: AgentCycle implements
  `ReservationLifecycle`. Reserve, FinalizeWrite and a successful Mine map to
  the lifecycle's steps, all others to stutters (`LifecycleStep`). `CountedInv`
  and `MinedInv` together say that a document about to be written back is still
  RESERVED and its key unspent unless its own cycle's transaction succeeded;
  `SpentFrame` and `SpentByOwner` show that only a block, and only of the key's
  own cycle, makes a key spent.

- **ConfirmedMined**, assuming FreshKeys: ConfirmedIsMined does not mention the
  watcher's copies, which is where it could go wrong. `RecordInv` says that a
  key's execution is absent until its own cycle writes it, that what is written
  is of that cycle's transaction, and that the watcher's copy names the
  transaction its document still names. With shared keys the last of these
  fails, and the property with it.
- **FinalizedAsReceiptSays**, assuming FreshKeys, LostSend = FALSE, Faults =
  FALSE and RequiresUserFunds = FALSE, the run's instance: `FinalInv` states the
  property from the write of the reservation on, and `CountedInv` that what is
  written back is the cycle's own. A throw, a lost send or the gate that returns
  early each leave a reservation behind, which section 4 says of the code.
- **OvershootHolds**, assuming FreshKeys and MaxActive > 0: that the total is at
  most the cap plus one transaction per other active cycle says nothing of the
  cycles that have passed the cap check and have not reserved. `WithinLimit`
  counts these: either each of them may still add PerTxCap and the total stays
  within the bound, or one of them, whose check was the last, may add its own
  amount and the others PerTxCap. A check moves a session from either case to
  the second, a reservation from the second to one of the two. `SessionSum` and
  `SumProofs` say what one document changes in a session's total.

`BANVaultProofs` proves, for any accounts, tokens, jobs, limits, length of the
day and time of the deployment (`VaultAssumption`):

- **VaultTypeCorrect**: the types, among them that no subtraction of the
  contract goes below zero.
- **JobAccountsHold**: JobAccounts is inductive given the types; `BooksStep`
  treats the functions that move money, all others leave jobs and books alone.
- **DailyCapHolds**: DailyCap is not inductive: it does not mention the window.
  `WindowInv` relates the two. A window that started today holds in its counter
  what was executed today, but for the part a first, unaligned window may have
  taken on day 1; a window of an earlier day means that nothing was executed
  today, but for day 1 again, where all of today's is in its counter; and every
  window but the first starts at midnight. `OverLater` reads the contract's
  test of a day's end, `WindowExecute` and `WindowTick` are the two actions
  that move the window or the calendar.
- **EscrowIsAccounted**: EscrowAccounted is inductive given the types. Every
  function that moves money changes one job and one asset; `OneJob` reduces the
  step to what these two changed by. It assumes nothing of owner and executor:
  what they take beyond the jobs' accounts makes `free` smaller. Where they have
  taken no more than came in outside the jobs, it says that the vault covers
  them.

`SumProofs` proves what `MapThenSumSet` is over a finite set of naturals: the
sum exists, its order does not matter, it agrees on equal values, and it changes
by what one summand changes. The library's definition is a recursive function
over subsets and the rules of induction cannot be applied here, so each fact is
shown by its least counterexample: the set of sizes at which it fails has a
least member (`LeastNatural`), and one element less is no counterexample.

`ExecutionEngineProofs` proves, for any calls, ids and transactions:

- **EngineTypeCorrect**, without further assumption.
- **FailedIsDeadHolds**, **HashKeptHolds** and **PromiseHolds**, assuming
  Overlap = FALSE: a proposal's executes follow each other, which is for the
  callers to see to, since the engine does not (its hazard in `PROJECT.json`). `EngineInv` says what
  a record tells of the chain (`RecordIsTrue`: a hash is a broadcast
  transaction, and up to PROPOSED nothing was sent) and what a call knows at each
  of its awaits (`CallIsTrue`: one about to broadcast is of an id without a
  transaction, one in its catch is the only sender). Reconciles may overlap with
  everything. `PromiseHolds` maps each step to Broadcast, Mine, Confirm, Reopen
  or a stutter.

`JobsProofs` proves, for any requests, keys, attempts, concurrency and store
faults (`JobsAssumption`): **JobsTypeCorrect**, **ProcessedOnceHolds** and
**AuditIsTrueHolds**. Neither of the last two is inductive: a worker holds no
lock, and what it may do follows from where its run is. `JobsInv` says of each
job what its run's place implies (`JobIsTrue`): a document's job owns its key,
only a job with a document is processed, the event is written where the record
says SUCCEEDED, and a run goes on after its event only if the event's write
threw.

`OwnerApiProofs` proves, for any requests and configurations:
**ApiTypeCorrect**, **RevokeHoldsAlways**, **KeyKeptAlways**,
**KeyDestroyedAlways** and **KeyMatchesConfigAlways**. `ApiInv` has a part per
document. `SealedIsFinal`: once a revocation stands alone, each request under
way refuses a revoked document. `WalletIsTrue` and `SessionIsTrue`: what the one
request at work knows of the wallet and of the session in each of its phases.
For the wallet this includes what the mirrors hold, for any number of instances:
the document's key or one that a delete destroyed, as long as no two requests
cross and no provision missed the kept key (`KeyIsTrue`).
`Noticed` is what lets these speak of one request: two at work on a matter are in
`overlapped`.

`AgentLoopProofs` proves **LoopTypeCorrect** for every number of runs, retries,
slots and lost events.

`StrategiesProofs` proves about the operators of HealthStrategy, for every
collateral, debt, threshold and target, and then about Strategies, for any
prices, accounts, pools, markets, task overrides and answers.
`StrategiesAssumption` and `LpAssumption` only give these their types.
`AnswersAssumption` is the schema of the model's answer: its fields, and a risk
level of LOW, MEDIUM or HIGH. `MarketsAssumption` adds that a market is finite
and has no two opportunities of one protocol and asset: the live provider reads
one for each vToken, and with two alike the selector's order would not be total.

- **RepayIsExact**: with the repayment the health factor reaches the target,
  and with one cent less it does not, although both are floors. `FloorAtLeast`
  says when a floor reaches a number; `KeepIsLargest` uses it twice: once for
  the health factor's floor, once for the debt that may be kept. It asks for a target no higher
  than the factor of an account without debt.
- **EmergencyOffers**: below 1.10 the selector offers a repayment and a deposit
  of collateral, in this order, and the repayment is the exact one
  (`BelowTargetRepays`: a position below the target has something to repay).
  It speaks of the figures the strategy is given; unseen_emergency shows that
  these may not be the account's.
- **RepayReaches**: RepayReachesTarget of every observation. What the adapter
  reports is a natural number of cents whichever markets it read (`WorthType`,
  with SumProofs), a repayment offered is the one needed (`RepaymentNeeded`),
  and that one is exact.
- **LevelsFit**, **RebuildNoTrade**, **SwapStaysWithinTask**: `GridInv` says
  that each state stored, in flight or observed is a grid's own (levels
  computed from a buildable configuration, inside its bounds), that the one
  observed has the order and the capital of the task, and that a recentered one
  offers nothing. It goes through every merge of a stored configuration with a
  task's override, through `Recenter`, and through writes that land in any
  order; the levels are floors, so `FloorBounds` carries the arithmetic.
- **DepositKeepsBudget**: the amount of a proposal that is a deposit is made of
  the budget observed, never of the answer.
- The sorts: an order is given by the set that comes before each element
  (`IsOrder`), its rank is how many those are. `RankType`: fewer come before an
  element than before any later one, so ranks differ. `RankTaken`: as many
  different ranks as elements, all below their number, so each is taken (an
  injection between finite sets of one size); that is what makes the choice in
  `Ranked` mean something. `RankedInOrder`: the ranked sequence has every
  element, each after those before it. No induction is needed. That
  YieldStrategy's Before and LpStrategy's Better are such orders is
  `BestFirstIsOrder` (four figures, compared at the first difference; the names
  decide last, and no two opportunities share both) and `PreferredIsOrder`
  (no two ranges have the same width).
- **BestOffered**: OffersAreTheBest follows from `YieldInv`: what is observed
  is a market, and what is offered is the first three of what fits in it
  (`CandidatesShown`).
- **RangesBestFirst**: the ranges offered are exactly the worthwhile ones, the
  most profitable first; an unknown volume costs a range neither its place nor
  its number of cents (`NetProfitType`: no division by a width or a liquidity
  of zero).
- **RemoveOffered**: the removal comes before the ranges, and no offer of a
  range is one (`LpOffers`, with `RangeOffersParts`: four ranges of any spacing,
  all of different widths).
- **TypeCorrect**: `TypeInv` adds that whoever is asked has observed and that a
  grid's offers have a risk level. A proposal's risk is a candidate's for grid
  and yield, the answer's for lp, fixed for health; the bounds on what is
  offered are those of the selectors (`LpOffers`, `HealthOffers`,
  `CandidatesShown`), and the one on writes in flight is the model's.

## 7. Only model-checked

- MinedIsReconciled, JobsEnd, PausedStops and KeepsTicking: liveness under
  fairness, which is outside what the proof system handles. Every safety
  property of a passing run is proved.
- The properties under the constants their theorems exclude: the runs have
  FreshKeys and no Overlap where the theorems do, and section 4
  says what happens otherwise.

## 8. Not modelled

- The chain providers but for the lending position, the calldata builders and
  the quotes: I/O and encoding.
- The contract registry: static tables and a check of them.
- Hirings, sign-up and credits: an earlier account flow, whose agent execution
  is a timer with a mock result. Its credits are read, checked and written back
  without a transaction; `PROJECT.json` lists this as a hazard.
- The performance rollup, a pure function of stored records; audit events,
  except those of the jobs.
- Signature checks and access tokens of the routes, which only refuse.
- `requireActiveSession`, which writes EXPIRED to a session past its time
  (`session-manager.ts:302`): nothing in the repository calls it.
- The BAN_SIM_YIELD_* hook of the yield strategy (`yield-strategy.ts:103-137`),
  which replaces what was observed by one made-up opportunity, whatever
  OffersAreTheBest says of the market: a test hook, not set in production.
- The dead letters' records and events, which the code never gets to write.
- The cycle that `POST run` and `POST tasks` run themselves, in AgentLoop.
- Web pages, which are presentation, and most of the repository's lines.
- The in-memory ledger of the policy engine, which serves its tests only.
