------------------------------ MODULE BANVault ------------------------------
(***************************************************************************)
(* The on-chain vault of src/BANVault.sol: limits, allowlists, pause, the  *)
(* daily window and the job escrow.                                        *)
(*                                                                         *)
(* An action is one successful transaction; a reverted one leaves no       *)
(* trace, its day roll included.  Every function that moves money holds    *)
(* the nonReentrant lock from its checks to its last write, so its call to *)
(* a token or a protocol is part of the step.                              *)
(* block.timestamp is a day number and a time of day: the only arithmetic  *)
(* the contract does with it is to add DAY and to cut to the day's start.  *)
(***************************************************************************)
EXTENDS Integers, FiniteSets, FiniteSetsExt

CONSTANTS
    Accounts,       \* addresses that send transactions
    Zero,           \* address(0): no account, and as a token native BNB
    Tokens,         \* ERC20 addresses
    Targets,        \* protocol contracts
    Selectors,      \* their functions
    JobIds,         \* BAN task ids
    Day,            \* clock ticks in a day
    DeployTick,     \* the time of day of the deployment
    MaxDay,         \* bound: days after the deployment
    Amounts,        \* amounts a deposit or a withdrawal may have
    MaxLimit,       \* bound: the largest limit the owner sets
    MaxDeposit,     \* bound: what is ever paid into the jobs
    MaxFree         \* bound: the vault's holding a plain deposit may reach

ASSUME VaultAssumption ==
    /\ Zero \notin Accounts \cup Tokens
    /\ Accounts # {}
    /\ Day \in Nat \ {0} /\ DeployTick \in 0..(Day - 1)
    /\ {MaxDay, MaxLimit, MaxDeposit, MaxFree} \subseteq Nat
    /\ Amounts \subseteq Nat \ {0}
    /\ IsFiniteSet(JobIds)

VARIABLES
    owner, executor, paused,
    maxTxValue, dailyLimit, spentToday,
    dayStart,           \* [day, tick]
    allowedToken, allowedTarget, allowedSelector,
    jobs,
    now,                \* block.timestamp: [day, tick]
    vault,              \* what the vault's address holds of each token
    today, peak,        \* history: value executed on this calendar day, and
                        \* the highest dailyLimit in force on it
    book,               \* history, per job: deposited, spent and refunded
    free                \* history, per asset: what came in outside the jobs, less
                        \* what left the vault outside their accounts

roles    == <<owner, executor>>
limits   == <<maxTxValue, dailyLimit>>
allow    == <<allowedToken, allowedTarget, allowedSelector>>
window   == <<spentToday, dayStart>>
escrow   == <<jobs, vault, book, free>>
calendar == <<now, today>>
vars     == <<roles, paused, limits, window, allow, escrow, calendar, peak>>

-----------------------------------------------------------------------------
Native == Zero
Assets == Tokens \cup {Native}
Time   == [day : Nat, tick : 0..(Day - 1)]
Job    == [creator : Accounts \cup {Zero}, token : Assets,
           balance : Nat, active : BOOLEAN]
Page   == [deposited : Nat, spent : Nat, refunded : Nat]

\* The value of a mapping's entry nobody has written.
NoJob == [creator |-> Zero, token |-> Native, balance |-> 0, active |-> FALSE]

Init ==
    /\ owner \in Accounts /\ executor \in Accounts
    /\ paused = FALSE
    /\ maxTxValue = 0 /\ dailyLimit = 0 /\ spentToday = 0
    /\ now = [day |-> 0, tick |-> DeployTick]
    /\ dayStart = now
    /\ allowedToken = {} /\ allowedTarget = {} /\ allowedSelector = {}
    /\ jobs = [j \in JobIds |-> NoJob]
    /\ vault = [t \in Assets |-> 0]
    /\ today = 0 /\ peak = 0
    /\ book = [j \in JobIds |-> [deposited |-> 0, spent |-> 0, refunded |-> 0]]
    /\ free = [t \in Assets |-> 0]

-----------------------------------------------------------------------------
(* The owner's configuration                                               *)

TransferOwnership(sender, newOwner) ==
    /\ sender = owner
    /\ owner' = newOwner
    /\ UNCHANGED <<executor, paused, limits, window, allow, escrow, calendar, peak>>

SetExecutor(sender, newExecutor) ==
    /\ sender = owner
    /\ executor' = newExecutor
    /\ UNCHANGED <<owner, paused, limits, window, allow, escrow, calendar, peak>>

\* Lowering dailyLimit leaves spentToday alone, even above the new limit.
SetLimits(sender, newMaxTxValue, newDailyLimit) ==
    /\ sender = owner
    /\ newMaxTxValue # 0 /\ newMaxTxValue <= newDailyLimit
    /\ maxTxValue' = newMaxTxValue
    /\ dailyLimit' = newDailyLimit
    /\ peak' = IF newDailyLimit > peak THEN newDailyLimit ELSE peak
    /\ UNCHANGED <<roles, paused, window, allow, escrow, calendar>>

With(set, element, allowed) ==
    IF allowed THEN set \cup {element} ELSE set \ {element}

SetTokenAllowed(sender, token, allowed) ==
    /\ sender = owner
    /\ allowedToken' = With(allowedToken, token, allowed)
    /\ UNCHANGED <<roles, paused, limits, window, allowedTarget, allowedSelector,
                   escrow, calendar, peak>>

\* The selectors of a removed target stay, for when it comes back.
SetTargetAllowed(sender, target, allowed) ==
    /\ sender = owner
    /\ allowedTarget' = With(allowedTarget, target, allowed)
    /\ UNCHANGED <<roles, paused, limits, window, allowedToken, allowedSelector,
                   escrow, calendar, peak>>

SetSelectorAllowed(sender, target, selector, allowed) ==
    /\ sender = owner
    /\ allowed => target \in allowedTarget
    /\ allowedSelector' = With(allowedSelector, <<target, selector>>, allowed)
    /\ UNCHANGED <<roles, paused, limits, window, allowedToken, allowedTarget,
                   escrow, calendar, peak>>

SetPaused(sender, value) ==
    /\ sender = owner
    /\ paused' = value
    /\ UNCHANGED <<roles, limits, window, allow, escrow, calendar, peak>>

-----------------------------------------------------------------------------
(* Money outside the jobs                                                  *)

\* What the active jobs are owed of a token.
Owed(token) ==
    MapThenSumSet(LAMBDA j : jobs[j].balance,
                  {j \in JobIds : jobs[j].active /\ jobs[j].token = token})

\* depositToken, and receive() for native BNB; what a protocol call brings back
\* into the vault is no job's either.
Deposit(token, amount) ==
    /\ token # Native => ~paused /\ token \in allowedToken
    /\ vault[token] + amount <= MaxFree
    /\ vault' = [vault EXCEPT ![token] = @ + amount]
    /\ free' = [free EXCEPT ![token] = @ + amount]
    /\ UNCHANGED <<roles, paused, limits, window, allow, jobs, book, calendar, peak>>

\* *Mutant*: the owner may take more than there is.
WithdrawUnchecked(sender, token, amount) ==
    /\ sender = owner
    /\ vault' = [vault EXCEPT ![token] = @ - amount]
    /\ free' = [free EXCEPT ![token] = @ - amount]
    /\ UNCHANGED <<roles, paused, limits, window, allow, jobs, book, calendar, peak>>

\* withdrawToken and withdrawNative look at the vault's holding only, whatever of
\* it the jobs are owed.
Withdraw(sender, token, amount) ==
    /\ sender = owner
    /\ amount <= vault[token]
    /\ vault' = [vault EXCEPT ![token] = @ - amount]
    /\ free' = [free EXCEPT ![token] = @ - amount]
    /\ UNCHANGED <<roles, paused, limits, window, allow, jobs, book, calendar, peak>>

-----------------------------------------------------------------------------
(* The job escrow                                                          *)

\* *Mutant*: an open job may be created once more.
CreateOverwrites(sender, j, creator, token) ==
    /\ sender = owner
    /\ jobs' = [jobs EXCEPT ![j] = [creator |-> creator, token |-> token,
                                    balance |-> 0, active |-> TRUE]]
    /\ UNCHANGED <<roles, paused, limits, window, allow, vault, book, free, calendar, peak>>

\* A withdrawn job may be opened again, for another creator and token.
CreateJob(sender, j, creator, token) ==
    /\ sender = owner
    /\ ~jobs[j].active
    /\ jobs' = [jobs EXCEPT ![j] = [creator |-> creator, token |-> token,
                                    balance |-> 0, active |-> TRUE]]
    /\ UNCHANGED <<roles, paused, limits, window, allow, vault, book, free, calendar, peak>>

\* What all the jobs were ever paid.
Deposited == MapThenSumSet(LAMBDA j : book[j].deposited, JobIds)

\* fundJob for native BNB, fundJobToken for an allowed ERC20, by anyone.
FundJob(j, amount) ==
    LET token == jobs[j].token IN
    /\ ~paused
    /\ jobs[j].active
    /\ token # Native => token \in allowedToken
    /\ Deposited + amount <= MaxDeposit
    /\ vault' = [vault EXCEPT ![token] = @ + amount]
    /\ jobs' = [jobs EXCEPT ![j].balance = @ + amount]
    /\ book' = [book EXCEPT ![j].deposited = @ + amount]
    /\ UNCHANGED <<roles, paused, limits, window, allow, free, calendar, peak>>

\* *Mutant*: the refunded job keeps its balance and stays open.
WithdrawKeepsJob(sender, j) ==
    LET token == jobs[j].token
        remaining == jobs[j].balance IN
    /\ jobs[j].active
    /\ sender = jobs[j].creator
    /\ remaining # 0 /\ remaining <= vault[token]
    /\ vault' = [vault EXCEPT ![token] = @ - remaining]
    /\ book' = [book EXCEPT ![j].refunded = @ + remaining]
    /\ UNCHANGED <<roles, paused, limits, window, allow, jobs, free, calendar, peak>>

\* The transfer reverts when the vault no longer holds the amount.
WithdrawJob(sender, j) ==
    LET token == jobs[j].token
        remaining == jobs[j].balance IN
    /\ jobs[j].active
    /\ sender = jobs[j].creator
    /\ remaining # 0 /\ remaining <= vault[token]
    /\ jobs' = [jobs EXCEPT ![j].balance = 0, ![j].active = FALSE]
    /\ vault' = [vault EXCEPT ![token] = @ - remaining]
    /\ book' = [book EXCEPT ![j].refunded = @ + remaining]
    /\ UNCHANGED <<roles, paused, limits, window, allow, free, calendar, peak>>

-----------------------------------------------------------------------------
(* The executor                                                            *)

\* block.timestamp >= dayStart + DAY
DayIsOver == \/ now.day > dayStart.day + 1
             \/ now.day = dayStart.day + 1 /\ now.tick >= dayStart.tick

DayFloor(time) == [time EXCEPT !.tick = 0]

RollDayIfNeeded == dayStart' = IF DayIsOver THEN DayFloor(now) ELSE dayStart

\* *Mutant*: the counter starts again with each call.
SpentPerCall == 0

SpentInWindow == IF DayIsOver THEN 0 ELSE spentToday

\* What an approved call may take out of the vault, [asset, amount]: nothing ties
\* calldata to the job's token or to accountingValue but the one who writes it.
\* The call carries no BNB.
Pulls == UNION {{t} \X (0..(IF t = Native THEN 0 ELSE vault[t])) : t \in Assets}

\* How much of it the job's balance does not account for.
Excess(j, value, pull) ==
    IF pull[1] # jobs[j].token THEN pull[2]
    ELSE IF pull[2] <= value THEN 0 ELSE pull[2] - value

Execute(sender, j, target, selector, value) ==
    /\ sender = executor
    /\ ~paused
    /\ target \in allowedTarget
    /\ value # 0 /\ value <= maxTxValue
    /\ SpentInWindow + value <= dailyLimit
    /\ jobs[j].active
    /\ value <= jobs[j].balance
    /\ <<target, selector>> \in allowedSelector
    /\ RollDayIfNeeded
    /\ spentToday' = SpentInWindow + value
    /\ jobs' = [jobs EXCEPT ![j].balance = @ - value]
    /\ \E pull \in Pulls :
           /\ vault' = [vault EXCEPT ![pull[1]] = @ - pull[2]]
           /\ free' = [free EXCEPT ![pull[1]] = @ - Excess(j, value, pull)]
    /\ today' = today + value
    /\ book' = [book EXCEPT ![j].spent = @ + value]
    /\ UNCHANGED <<roles, paused, limits, allow, now, peak>>

\* Blocks carry on; a new day starts its own history.
Tick ==
    /\ now.day < MaxDay
    /\ IF now.tick + 1 < Day
       THEN /\ now' = [now EXCEPT !.tick = @ + 1]
            /\ UNCHANGED <<today, peak>>
       ELSE /\ now' = [day |-> now.day + 1, tick |-> 0]
            /\ today' = 0
            /\ peak' = dailyLimit
    /\ UNCHANGED <<roles, paused, limits, window, allow, escrow>>

-----------------------------------------------------------------------------
Configure(sender) ==
    \/ \E a \in Accounts : TransferOwnership(sender, a) \/ SetExecutor(sender, a)
    \/ \E x, y \in 0..MaxLimit : SetLimits(sender, x, y)
    \/ \E allowed \in BOOLEAN :
          \/ SetPaused(sender, allowed)
          \/ \E t \in Tokens : SetTokenAllowed(sender, t, allowed)
          \/ \E t \in Targets :
                \/ SetTargetAllowed(sender, t, allowed)
                \/ \E s \in Selectors : SetSelectorAllowed(sender, t, s, allowed)

MoveMoney(sender) ==
    \/ \E t \in Assets, a \in Amounts : Deposit(t, a) \/ Withdraw(sender, t, a)
    \/ \E j \in JobIds :
          \/ \E c \in Accounts, t \in Assets : CreateJob(sender, j, c, t)
          \/ \E a \in Amounts : FundJob(j, a)
          \/ WithdrawJob(sender, j)
          \/ \E t \in Targets, s \in Selectors, v \in 0..MaxLimit :
                Execute(sender, j, t, s, v)

Next == Tick \/ \E sender \in Accounts : Configure(sender) \/ MoveMoney(sender)

Spec == Init /\ [][Next]_vars

-----------------------------------------------------------------------------
(* Properties                                                              *)

\* The state has its types.
TypeOK ==
    /\ owner \in Accounts /\ executor \in Accounts
    /\ paused \in BOOLEAN
    /\ {maxTxValue, dailyLimit, spentToday, today, peak} \subseteq Nat
    /\ dayStart \in Time /\ now \in Time
    /\ allowedToken \subseteq Tokens /\ allowedTarget \subseteq Targets
    /\ allowedSelector \subseteq Targets \X Selectors
    /\ jobs \in [JobIds -> Job]
    /\ vault \in [Assets -> Nat]
    /\ book \in [JobIds -> Page]
    /\ free \in [Assets -> Int]

\* What is executed on a calendar day stays within the highest daily limit in
\* force that day, through lazy rolls, reverted calls and changed limits.
\* The day after the deployment may see it twice: the first window
\* starts at the deployment and not at midnight, so it ends, and a second
\* one begins, inside that day.
DailyCap == today <= IF now.day = 1 THEN 2 * peak ELSE peak

\* Over every opening, refund and reopening of a slot, what was paid into a
\* job is what the executor drew, what its creators got back and what the
\* job still holds; so the executor never draws more than was deposited,
\* and a reopened slot neither loses nor inherits money.
JobAccounts ==
    \A j \in JobIds :
        /\ book[j].deposited = book[j].spent + book[j].refunded + jobs[j].balance
        /\ ~jobs[j].active => jobs[j].balance = 0

\* Nothing but withdrawals by the owner and calls that take more than their
\* accountingValue, or another token, leaves the vault short of what its jobs are
\* owed, and by no more than these took beyond what came in outside the jobs:
\* whatever is created, funded, executed, refunded and reopened in any order.
EscrowAccounted == \A t \in Assets : Owed(t) + free[t] <= vault[t]
=============================================================================
