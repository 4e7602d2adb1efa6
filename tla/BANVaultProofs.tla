--------------------------- MODULE BANVaultProofs ---------------------------
(***************************************************************************)
(* Theorems about BANVault for every set of accounts, tokens, targets and  *)
(* jobs, every day's length and every bound.                               *)
(***************************************************************************)
EXTENDS BANVault, SumProofs, TLAPS

-----------------------------------------------------------------------------
(* Type correctness                                                        *)

LEMMA InitType == Init => TypeOK
<1> SUFFICES ASSUME Init PROVE TypeOK
  OBVIOUS
<1>1. NoJob \in Job
  BY DEF NoJob, Job, Assets
<1>2. [deposited |-> 0, spent |-> 0, refunded |-> 0] \in Page
  BY DEF Page
<1>3. now \in Time
  BY VaultAssumption DEF Init, Time
<1>4. {maxTxValue, dailyLimit, spentToday, today, peak} \subseteq Nat
  BY DEF Init
<1>5. paused \in BOOLEAN
  BY DEF Init
<1>6. /\ jobs \in [JobIds -> Job]
      /\ vault \in [Assets -> Nat]
      /\ book \in [JobIds -> Page] /\ free \in [Assets -> Int]
  BY <1>1, <1>2 DEF Init
<1>7. /\ dayStart \in Time
      /\ allowedToken \subseteq Tokens /\ allowedTarget \subseteq Targets
      /\ allowedSelector \subseteq Targets \X Selectors
  BY <1>3 DEF Init
<1>8. owner \in Accounts /\ executor \in Accounts
  BY DEF Init
<1> QED
  BY <1>3, <1>4, <1>5, <1>6, <1>7, <1>8 DEF TypeOK

\* The owner's configuration keeps the types and leaves the money, the window
\* and the calendar as they are.
LEMMA ConfigureStep ==
  ASSUME TypeOK, NEW sender \in Accounts, Configure(sender)
  PROVE  /\ TypeOK'
         /\ UNCHANGED <<window, escrow, calendar>>
         /\ peak <= peak'
         /\ dailyLimit' = dailyLimit \/ dailyLimit' <= peak'
<1> USE DEF roles, limits, allow, window, escrow, calendar, TypeOK, Time, With
<1>1. ASSUME NEW a \in Accounts, TransferOwnership(sender, a) \/ SetExecutor(sender, a)
      PROVE  TypeOK' /\ UNCHANGED <<window, escrow, calendar, peak, dailyLimit>>
  BY <1>1 DEF TransferOwnership, SetExecutor
<1>2. ASSUME NEW x \in 0..MaxLimit, NEW y \in 0..MaxLimit, SetLimits(sender, x, y)
      PROVE  /\ TypeOK' /\ UNCHANGED <<window, escrow, calendar>>
             /\ peak <= peak' /\ dailyLimit' <= peak'
  BY <1>2, VaultAssumption DEF SetLimits
<1>3. ASSUME NEW b \in BOOLEAN, SetPaused(sender, b)
      PROVE  TypeOK' /\ UNCHANGED <<window, escrow, calendar, peak, dailyLimit>>
  BY <1>3 DEF SetPaused
<1>4. ASSUME NEW b \in BOOLEAN, NEW t \in Tokens, SetTokenAllowed(sender, t, b)
      PROVE  TypeOK' /\ UNCHANGED <<window, escrow, calendar, peak, dailyLimit>>
  BY <1>4 DEF SetTokenAllowed
<1>5. ASSUME NEW b \in BOOLEAN, NEW t \in Targets, SetTargetAllowed(sender, t, b)
      PROVE  TypeOK' /\ UNCHANGED <<window, escrow, calendar, peak, dailyLimit>>
  BY <1>5 DEF SetTargetAllowed
<1>6. ASSUME NEW b \in BOOLEAN, NEW t \in Targets, NEW s \in Selectors,
             SetSelectorAllowed(sender, t, s, b)
      PROVE  TypeOK' /\ UNCHANGED <<window, escrow, calendar, peak, dailyLimit>>
  BY <1>6 DEF SetSelectorAllowed
<1>7. peak \in Nat
  OBVIOUS
<1> QED
  BY <1>1, <1>2, <1>3, <1>4, <1>5, <1>6, <1>7 DEF Configure

\* What one approved call takes is an asset of the vault and no more than it
\* holds, and the excess is a part of it.
LEMMA PullType ==
  ASSUME TypeOK, NEW j \in JobIds, NEW v \in Nat, NEW pull \in Pulls
  PROVE  /\ pull[1] \in Assets /\ pull[2] \in Nat /\ pull[2] <= vault[pull[1]]
         /\ Excess(j, v, pull) \in Nat
<1>1. PICK t \in Assets : pull \in {t} \X (0..(IF t = Native THEN 0 ELSE vault[t]))
  BY DEF Pulls
<1>2. pull[1] \in Assets /\ pull[2] \in Nat /\ pull[2] <= vault[pull[1]]
  BY <1>1 DEF TypeOK
<1> QED
  BY <1>2 DEF Excess

LEMMA ExecuteType ==
  ASSUME TypeOK, NEW sender, NEW j \in JobIds, NEW t, NEW s, NEW v \in 0..MaxLimit,
         Execute(sender, j, t, s, v)
  PROVE  TypeOK'
<1> USE VaultAssumption DEF TypeOK
<1>1. PICK pull \in Pulls :
          /\ vault' = [vault EXCEPT ![pull[1]] = @ - pull[2]]
          /\ free' = [free EXCEPT ![pull[1]] = @ - Excess(j, v, pull)]
  BY DEF Execute
<1>2. /\ pull[1] \in Assets /\ pull[2] \in Nat /\ pull[2] <= vault[pull[1]]
      /\ Excess(j, v, pull) \in Nat
  BY PullType
<1>3. vault' \in [Assets -> Nat] /\ free' \in [Assets -> Int]
  BY <1>1, <1>2
<1>4. jobs' \in [JobIds -> Job] /\ book' \in [JobIds -> Page]
  <2>1. v \in Nat /\ jobs[j] \in Job /\ book[j] \in Page /\ v <= jobs[j].balance
    BY DEF Execute
  <2>2. [jobs[j] EXCEPT !.balance = @ - v] \in Job
    BY <2>1 DEF Job
  <2>3. [book[j] EXCEPT !.spent = @ + v] \in Page
    BY <2>1 DEF Page
  <2> QED
    BY <2>2, <2>3 DEF Execute
<1>5. {spentToday', today'} \subseteq Nat
  BY DEF Execute, SpentInWindow
<1>6. dayStart' \in Time
  BY DEF Execute, RollDayIfNeeded, DayFloor, Time
<1> QED
  BY <1>3, <1>4, <1>5, <1>6 DEF Execute, roles, limits, allow

\* Deposits, withdrawals and job payments keep the types and leave the window,
\* the calendar and the limits as they are.
LEMMA MoneyType ==
  ASSUME TypeOK, NEW sender \in Accounts, MoveMoney(sender)
  PROVE  TypeOK'
<1> USE DEF roles, limits, allow, window, calendar
<1>1. ASSUME NEW t \in Assets, NEW a \in Amounts, Deposit(t, a) PROVE TypeOK'
  BY <1>1, VaultAssumption DEF Deposit, TypeOK
<1>2. ASSUME NEW t \in Assets, NEW a \in Amounts, Withdraw(sender, t, a) PROVE TypeOK'
  BY <1>2, VaultAssumption DEF Withdraw, TypeOK
<1>3. ASSUME NEW j \in JobIds, NEW c \in Accounts, NEW t \in Assets,
             CreateJob(sender, j, c, t)
      PROVE  TypeOK'
  BY <1>3 DEF CreateJob, TypeOK, Job
<1>4. ASSUME NEW j \in JobIds, NEW a \in Amounts, FundJob(j, a) PROVE TypeOK'
  <2>1. jobs[j].token \in Assets /\ a \in Nat
    BY VaultAssumption DEF TypeOK, Job
  <2>2. vault' \in [Assets -> Nat]
    BY <1>4, <2>1 DEF FundJob, TypeOK
  <2>3. jobs' \in [JobIds -> Job] /\ book' \in [JobIds -> Page]
    <3>1. jobs[j] \in Job /\ book[j] \in Page
      BY DEF TypeOK
    <3>2. [jobs[j] EXCEPT !.balance = @ + a] \in Job
      BY <2>1, <3>1 DEF Job
    <3>3. [book[j] EXCEPT !.deposited = @ + a] \in Page
      BY <2>1, <3>1 DEF Page
    <3> QED
      BY <1>4, <3>2, <3>3 DEF FundJob, TypeOK
  <2> QED
    BY <1>4, <2>2, <2>3 DEF FundJob, TypeOK, Time
<1>5. ASSUME NEW j \in JobIds, WithdrawJob(sender, j) PROVE TypeOK'
  <2>1. jobs[j].token \in Assets /\ jobs[j].balance \in Nat
    BY DEF TypeOK, Job
  <2> QED
    BY <1>5, <2>1 DEF WithdrawJob, TypeOK, Job, Page
<1>6. ASSUME NEW j \in JobIds, NEW t \in Targets, NEW s \in Selectors,
             NEW v \in 0..MaxLimit, Execute(sender, j, t, s, v)
      PROVE  TypeOK'
  BY <1>6, ExecuteType
<1> QED
  BY <1>1, <1>2, <1>3, <1>4, <1>5, <1>6 DEF MoveMoney

LEMMA TickType == TypeOK /\ Tick => TypeOK'
  BY VaultAssumption DEF TypeOK, Tick, Time, roles, limits, allow, window, escrow

LEMMA TypeStep == TypeOK /\ [Next]_vars => TypeOK'
<1> SUFFICES ASSUME TypeOK, [Next]_vars PROVE TypeOK'
  OBVIOUS
<1>1. CASE UNCHANGED vars
  BY <1>1 DEF vars, roles, limits, window, allow, escrow, calendar, TypeOK
<1>2. CASE Tick
  BY <1>2, TickType
<1>3. ASSUME NEW sender \in Accounts, Configure(sender) PROVE TypeOK'
  BY <1>3, ConfigureStep
<1>4. ASSUME NEW sender \in Accounts, MoveMoney(sender) PROVE TypeOK'
  BY <1>4, MoneyType
<1> QED
  BY <1>1, <1>2, <1>3, <1>4 DEF Next

\* Every reachable state of the vault has its types: no balance, holding or
\* counter ever goes below zero.
THEOREM VaultTypeCorrect == Spec => []TypeOK
  BY InitType, TypeStep, PTL DEF Spec

-----------------------------------------------------------------------------
(* The books of the jobs                                                   *)

LEMMA BooksStep == TypeOK /\ JobAccounts /\ [Next]_vars => JobAccounts'
<1> SUFFICES ASSUME TypeOK, JobAccounts, [Next]_vars PROVE JobAccounts'
  OBVIOUS
<1> USE DEF TypeOK, Job, Page
<1>1. CASE UNCHANGED <<jobs, book>>
  BY <1>1 DEF JobAccounts
<1>2. ASSUME NEW sender, NEW j \in JobIds, NEW c, NEW t, CreateJob(sender, j, c, t)
      PROVE  JobAccounts'
  BY <1>2 DEF CreateJob, JobAccounts
<1>3. ASSUME NEW j \in JobIds, NEW a \in Amounts, FundJob(j, a) PROVE JobAccounts'
  BY <1>3, VaultAssumption DEF FundJob, JobAccounts
<1>4. ASSUME NEW sender, NEW j \in JobIds, WithdrawJob(sender, j) PROVE JobAccounts'
  BY <1>4 DEF WithdrawJob, JobAccounts
<1>5. ASSUME NEW sender, NEW j \in JobIds, NEW t, NEW s, NEW v \in 0..MaxLimit,
             Execute(sender, j, t, s, v)
      PROVE  JobAccounts'
  BY <1>5, VaultAssumption DEF Execute, JobAccounts
<1>6. ASSUME NEW sender \in Accounts, Configure(sender) PROVE JobAccounts'
  BY <1>1, <1>6, ConfigureStep DEF escrow
<1>7. ASSUME NEW sender, NEW t, NEW a, Deposit(t, a) \/ Withdraw(sender, t, a)
      PROVE  JobAccounts'
  BY <1>1, <1>7 DEF Deposit, Withdraw
<1>8. CASE Tick
  BY <1>1, <1>8 DEF Tick, escrow
<1>9. CASE UNCHANGED vars
  BY <1>1, <1>9 DEF vars, escrow
<1> QED
  BY <1>2, <1>3, <1>4, <1>5, <1>6, <1>7, <1>8, <1>9 DEF Next, MoveMoney

\* Whatever slots are refunded, drained and opened again, each job's deposits
\* are what was spent of it, refunded and left: JobAccounts always holds.
THEOREM JobAccountsHold == Spec => []JobAccounts
<1>1. Init => JobAccounts
  BY DEF Init, JobAccounts, NoJob
<1> QED
  BY <1>1, BooksStep, VaultTypeCorrect, PTL DEF Spec

-----------------------------------------------------------------------------
(* The daily window                                                        *)

\* A window that began today counts all that was executed since, and so does
\* the deployment's on the day after it; an older one is over.
WindowInv ==
    /\ dailyLimit <= peak
    /\ dayStart.day <= now.day
    /\ dayStart.day > 0 => dayStart.tick = 0
    /\ dayStart.day = now.day =>
          /\ spentToday <= peak
          /\ today <= spentToday + (IF now.day = 1 THEN peak ELSE 0)
    /\ dayStart.day < now.day =>
          /\ today <= spentToday /\ today <= peak
          /\ now.day > 1 => today = 0

\* On which days a window may be over.
LEMMA OverLater ==
  ASSUME TypeOK, WindowInv
  PROVE  /\ DayIsOver => dayStart.day < now.day
         /\ now.day > 1 /\ dayStart.day < now.day => DayIsOver
  BY VaultAssumption DEF TypeOK, Time, WindowInv, DayIsOver

LEMMA WindowExecute ==
  ASSUME TypeOK, WindowInv, NEW sender, NEW j \in JobIds, NEW t, NEW s,
         NEW v \in 0..MaxLimit, Execute(sender, j, t, s, v)
  PROVE  WindowInv'
<1>1. v \in Nat /\ {dailyLimit, peak, spentToday, today} \subseteq Nat
  BY VaultAssumption DEF TypeOK
<1>2. now.day \in Nat /\ dayStart.day \in Nat /\ now.tick \in Nat
  BY VaultAssumption DEF TypeOK, Time
<1>3. UNCHANGED <<now, peak, dailyLimit>> /\ today' = today + v
  BY DEF Execute, limits
<1>4. CASE DayIsOver
  <2>1. /\ dayStart' = [now EXCEPT !.tick = 0]
        /\ spentToday' = v /\ v <= dailyLimit
    BY <1>1, <1>4 DEF Execute, RollDayIfNeeded, DayFloor, SpentInWindow
  <2>2. dayStart'.day = now.day /\ dayStart'.tick = 0
    BY <2>1 DEF TypeOK, Time
  <2>3. dayStart.day < now.day
    BY <1>4, OverLater
  <2> QED
    BY <1>1, <1>2, <1>3, <2>1, <2>2, <2>3 DEF WindowInv
<1>5. CASE ~DayIsOver
  <2>1. /\ dayStart' = dayStart
        /\ spentToday' = spentToday + v /\ spentToday + v <= dailyLimit
    BY <1>5 DEF Execute, RollDayIfNeeded, SpentInWindow
  <2>2. dayStart.day < now.day => ~(now.day > 1)
    BY <1>5, OverLater
  <2> QED
    BY <1>1, <1>2, <1>3, <2>1, <2>2 DEF WindowInv
<1> QED
  BY <1>4, <1>5

LEMMA WindowTick == TypeOK /\ WindowInv /\ Tick => WindowInv'
<1> SUFFICES ASSUME TypeOK, WindowInv, Tick PROVE WindowInv'
  OBVIOUS
<1>1. /\ {dailyLimit, peak, spentToday, today} \subseteq Nat
      /\ now.day \in Nat /\ dayStart.day \in Nat
  BY DEF TypeOK, Time
<1>2. UNCHANGED <<dailyLimit, spentToday, dayStart>>
  BY DEF Tick, limits, window
<1>3. CASE now.tick + 1 < Day
  <2>1. UNCHANGED <<today, peak>> /\ now'.day = now.day
    BY <1>3 DEF Tick, TypeOK, Time
  <2> QED
    BY <1>1, <1>2, <2>1 DEF WindowInv
<1>4. CASE ~(now.tick + 1 < Day)
  <2>1. today' = 0 /\ peak' = dailyLimit /\ now'.day = now.day + 1
    BY <1>4 DEF Tick
  <2> QED
    BY <1>1, <1>2, <2>1 DEF WindowInv
<1> QED
  BY <1>3, <1>4

LEMMA WindowStep == TypeOK /\ WindowInv /\ [Next]_vars => WindowInv'
<1> SUFFICES ASSUME TypeOK, WindowInv, [Next]_vars PROVE WindowInv'
  OBVIOUS
<1>1. CASE UNCHANGED <<window, calendar, peak, dailyLimit>>
  BY <1>1 DEF WindowInv, window, calendar
<1>2. ASSUME NEW sender \in Accounts, Configure(sender) PROVE WindowInv'
  <2>1. /\ UNCHANGED <<window, calendar>> /\ peak <= peak'
        /\ dailyLimit' = dailyLimit \/ dailyLimit' <= peak'
        /\ {dailyLimit, peak, spentToday, today} \subseteq Nat
        /\ {dailyLimit', peak'} \subseteq Nat
    BY <1>2, ConfigureStep DEF TypeOK
  <2> QED
    BY <2>1 DEF WindowInv, window, calendar
<1>3. ASSUME NEW sender, NEW j \in JobIds, NEW t, NEW s, NEW v \in 0..MaxLimit,
             Execute(sender, j, t, s, v)
      PROVE  WindowInv'
  BY <1>3, WindowExecute
<1>4. ASSUME NEW sender, NEW j, NEW c, NEW t, NEW a,
             \/ Deposit(t, a) \/ Withdraw(sender, t, a) \/ FundJob(j, a)
             \/ CreateJob(sender, j, c, t) \/ WithdrawJob(sender, j)
      PROVE  WindowInv'
  BY <1>1, <1>4 DEF Deposit, Withdraw, FundJob, CreateJob, WithdrawJob, limits
<1>5. CASE Tick
  BY <1>5, WindowTick
<1>6. CASE UNCHANGED vars
  BY <1>1, <1>6 DEF vars, limits
<1> QED
  BY <1>2, <1>3, <1>4, <1>5, <1>6 DEF Next, MoveMoney

\* On every calendar day but the one after the deployment, what is executed
\* stays within the highest limit of that day, and on that one within twice as
\* much, for every length of the day and time of the deployment: DailyCap.
THEOREM DailyCapHolds == Spec => []DailyCap
<1>1. Init => WindowInv
  BY VaultAssumption DEF Init, WindowInv
<1>2. TypeOK /\ WindowInv => DailyCap
  BY DEF TypeOK, Time, WindowInv, DailyCap
<1> QED
  BY <1>1, <1>2, WindowStep, VaultTypeCorrect, PTL DEF Spec

-----------------------------------------------------------------------------
(* What the jobs are owed                                                  *)

Balances(js) == [j \in JobIds |-> js[j].balance]
Creditors(js, t) == {j \in JobIds : js[j].active /\ js[j].token = t}

\* Owed(t), as a function of the jobs.
OwedBy(js, t) == Total(Balances(js), Creditors(js, t))

LEMMA OwedSum ==
  ASSUME NEW js \in [JobIds -> Job], NEW t
  PROVE  /\ IsFiniteSet(Creditors(js, t))
         /\ NatValued(Balances(js), Creditors(js, t))
         /\ OwedBy(js, t) \in Nat
         /\ MapThenSumSet(LAMBDA j : js[j].balance, Creditors(js, t)) = OwedBy(js, t)
<1> DEFINE C == Creditors(js, t)
           f == Balances(js)
           Made(g) == g = [u \in SUBSET C |-> IF u = {} THEN 0
                               ELSE js[Pick(u)].balance + g[u \ {Pick(u)}]]
<1>1. IsFiniteSet(C) /\ C \subseteq JobIds
  BY VaultAssumption, FS_Subset DEF Creditors
<1>2. NatValued(f, C)
  BY <1>1 DEF Balances, NatValued, Job
<1>3. MapThenSumSet(LAMBDA j : js[j].balance, C) = (CHOOSE g : Made(g))[C]
  BY Zenon DEF MapThenSumSet, MapThenFoldSet, Pick
<1>4. ASSUME NEW g PROVE Made(g) <=> IsSum(g, f, C)
  <2>1. ASSUME NEW u \in SUBSET C, u # {} PROVE f[Pick(u)] = js[Pick(u)].balance
    <3>1. Pick(u) \in JobIds
      BY <1>1, <2>1 DEF Pick
    <3> QED
      BY <3>1 DEF Balances
  <2>2. \A u \in SUBSET C : SumStep(g, f, u) = IF u = {} THEN 0
                                ELSE js[Pick(u)].balance + g[u \ {Pick(u)}]
    BY <2>1 DEF SumStep
  <2>3. [u \in SUBSET C |-> SumStep(g, f, u)] = [u \in SUBSET C |-> IF u = {} THEN 0
                                ELSE js[Pick(u)].balance + g[u \ {Pick(u)}]]
    BY <2>2
  <2> QED
    BY <2>3 DEF IsSum
<1> DEFINE c == CHOOSE g : Made(g)
<1>5. \E g : Made(g)
  BY <1>1, <1>2, <1>4, SumExists
<1>6. Made(c)
  <2> HIDE DEF Made
  <2> QED
    BY <1>5
<1>7. Total(f, C) = c[C]
  <2>1. IsSum(c, f, C)
    BY <1>4, <1>6
  <2> HIDE DEF c, f, C
  <2> QED
    BY <1>1, <1>2, <2>1, TotalIsSum
<1>8. Total(f, C) \in Nat
  <2> HIDE DEF f, C
  <2> QED
    BY <1>1, <1>2, TotalType
<1> QED
  BY <1>1, <1>2, <1>3, <1>7, <1>8 DEF OwedBy

OwedIsTotal == jobs \in [JobIds -> Job] => \A t : Owed(t) = OwedBy(jobs, t)

LEMMA OwedNow == OwedIsTotal
<1>1. ASSUME jobs \in [JobIds -> Job], NEW t PROVE Owed(t) = OwedBy(jobs, t)
  BY <1>1, OwedSum DEF Owed, Creditors
<1> QED
  BY <1>1 DEF OwedIsTotal

\* Before a step, and after it.
LEMMA OwedThen ==
  /\ jobs \in [JobIds -> Job] => \A t : Owed(t) = OwedBy(jobs, t)
  /\ jobs' \in [JobIds -> Job] => \A t : Owed(t)' = OwedBy(jobs', t)
<1>1. OwedIsTotal'
  BY OwedNow, PTL
<1> QED
  BY <1>1, OwedNow DEF OwedIsTotal

\* What one job adds to what is owed of a token.
Claim(js, t, j) == IF js[j].active /\ js[j].token = t THEN js[j].balance ELSE 0

\* A change of one job moves what is owed by that job's claim.
LEMMA OneJob ==
  ASSUME NEW js \in [JobIds -> Job], NEW new \in [JobIds -> Job], NEW j \in JobIds,
         \A i \in JobIds \ {j} : new[i] = js[i], NEW t
  PROVE  /\ Claim(js, t, j) \in Nat /\ Claim(new, t, j) \in Nat
         /\ Claim(js, t, j) <= OwedBy(js, t)
         /\ OwedBy(new, t) = OwedBy(js, t) - Claim(js, t, j) + Claim(new, t, j)
<1> DEFINE S == Creditors(js, t)
           f == Balances(js)
           R == Creditors(new, t)
           h == Balances(new)
<1>1. IsFiniteSet(S) /\ NatValued(f, S) /\ IsFiniteSet(R) /\ NatValued(h, R)
  BY OwedSum
<1>2. S \ {j} = R \ {j}
  BY DEF Creditors
<1>3. \A i \in S \ {j} : h[i] = f[i]
  BY DEF Balances, Creditors
<1>4. /\ Claim(js, t, j) = Part(f, S, j)
      /\ Claim(new, t, j) = Part(h, R, j)
  BY DEF Claim, Part, Balances, Creditors
<1>5. OwedBy(js, t) = Total(f, S) /\ OwedBy(new, t) = Total(h, R)
  BY DEF OwedBy
<1> HIDE DEF S, f, R, h
<1>6. /\ Part(f, S, j) \in Nat /\ Part(h, R, j) \in Nat
      /\ Part(f, S, j) <= Total(f, S)
      /\ Total(h, R) = Total(f, S) - Part(f, S, j) + Part(h, R, j)
  BY <1>1, <1>2, <1>3, TotalChanges
<1> QED
  BY <1>4, <1>5, <1>6

EscrowInv == TypeOK /\ EscrowAccounted

LEMMA EscrowInit == Init => EscrowAccounted
<1> SUFFICES ASSUME Init, NEW t \in Assets PROVE Owed(t) + free[t] <= vault[t]
  BY DEF EscrowAccounted
<1>1. jobs \in [JobIds -> Job]
  BY InitType DEF TypeOK
<1>2. Creditors(jobs, t) = {}
  BY DEF Init, NoJob, Creditors
<1>3. Owed(t) = 0
  <2>1. Owed(t) = Total(Balances(jobs), {})
    BY <1>1, <1>2, OwedThen DEF OwedBy
  <2> QED
    BY <2>1, TotalEmpty
<1> QED
  BY <1>3 DEF Init

\* A step that leaves the jobs alone, and moves of each asset as much in the vault
\* as outside the jobs.
LEMMA JobsKept ==
  ASSUME TypeOK, TypeOK', EscrowAccounted, UNCHANGED jobs,
         \A t \in Assets : vault'[t] - free'[t] = vault[t] - free[t]
  PROVE  EscrowAccounted'
<1> SUFFICES ASSUME NEW t \in Assets PROVE Owed(t)' + free'[t] <= vault'[t]
  BY DEF EscrowAccounted
<1>1. Owed(t)' = Owed(t) /\ Owed(t) \in Nat
  BY OwedThen, OwedSum DEF TypeOK
<1>2. /\ Owed(t) + free[t] <= vault[t]
      /\ vault[t] \in Nat /\ vault'[t] \in Nat /\ free[t] \in Int /\ free'[t] \in Int
      /\ vault'[t] - free'[t] = vault[t] - free[t]
  BY DEF EscrowAccounted, TypeOK
<1> QED
  BY <1>1, <1>2

\* A step that changes one job, and moves of each asset at least as much in the
\* vault as outside the jobs and of this job's claim.
LEMMA JobChanges ==
  ASSUME TypeOK, TypeOK', EscrowAccounted, NEW j \in JobIds,
         \A i \in JobIds \ {j} : jobs'[i] = jobs[i],
         \A t \in Assets :
             vault[t] + Claim(jobs', t, j) + free'[t] <= vault'[t] + Claim(jobs, t, j) + free[t]
  PROVE  EscrowAccounted'
<1> SUFFICES ASSUME NEW t \in Assets PROVE Owed(t)' + free'[t] <= vault'[t]
  BY DEF EscrowAccounted
<1>1. /\ jobs \in [JobIds -> Job] /\ jobs' \in [JobIds -> Job]
      /\ vault[t] \in Nat /\ vault'[t] \in Nat /\ free[t] \in Int /\ free'[t] \in Int
  BY DEF TypeOK
<1>2. Owed(t) = OwedBy(jobs, t) /\ Owed(t)' = OwedBy(jobs', t) /\ Owed(t) \in Nat
  BY <1>1, OwedThen, OwedSum
<1>3. /\ Claim(jobs, t, j) \in Nat /\ Claim(jobs', t, j) \in Nat
      /\ OwedBy(jobs', t) = OwedBy(jobs, t) - Claim(jobs, t, j) + Claim(jobs', t, j)
  BY <1>1, OneJob
<1>4. Owed(t) + free[t] <= vault[t]
  BY DEF EscrowAccounted
<1>5. vault[t] + Claim(jobs', t, j) + free'[t] <= vault'[t] + Claim(jobs, t, j) + free[t]
  OBVIOUS
<1> QED
  BY <1>1, <1>2, <1>3, <1>4, <1>5

LEMMA EscrowMoney ==
  ASSUME EscrowInv, TypeOK',
         NEW sender \in Accounts, MoveMoney(sender)
  PROVE  EscrowAccounted'
<1>1. /\ TypeOK /\ EscrowAccounted
      /\ jobs \in [JobIds -> Job] /\ vault \in [Assets -> Nat] /\ free \in [Assets -> Int]
  BY DEF EscrowInv, TypeOK
<1>2. ASSUME NEW t \in Assets, NEW a \in Amounts, Deposit(t, a) \/ Withdraw(sender, t, a)
      PROVE  EscrowAccounted'
  <2>1. UNCHANGED jobs /\ \A u \in Assets : vault'[u] - free'[u] = vault[u] - free[u]
    BY <1>1, <1>2, VaultAssumption DEF Deposit, Withdraw
  <2> QED
    BY <1>1, <2>1, JobsKept
<1>4. ASSUME NEW j \in JobIds, NEW c \in Accounts, NEW t \in Assets, CreateJob(sender, j, c, t)
      PROVE  EscrowAccounted'
  <2>1. /\ \A i \in JobIds \ {j} : jobs'[i] = jobs[i]
        /\ vault' = vault /\ free' = free /\ ~jobs[j].active /\ jobs'[j].balance = 0
    BY <1>1, <1>4 DEF CreateJob
  <2>2. \A u \in Assets : Claim(jobs, u, j) = 0 /\ Claim(jobs', u, j) = 0
    BY <2>1 DEF Claim
  <2>3. \A u \in Assets :
          vault[u] + Claim(jobs', u, j) + free'[u] <= vault'[u] + Claim(jobs, u, j) + free[u]
    BY <1>1, <2>1, <2>2
  <2> QED
    BY <1>1, <2>1, <2>3, JobChanges
<1>5. ASSUME NEW j \in JobIds, NEW a \in Amounts, FundJob(j, a) PROVE EscrowAccounted'
  <2>1. /\ \A i \in JobIds \ {j} : jobs'[i] = jobs[i]
        /\ jobs'[j].token = jobs[j].token /\ jobs'[j].active = jobs[j].active
        /\ jobs[j].active /\ jobs'[j].balance = jobs[j].balance + a
        /\ vault' = [vault EXCEPT ![jobs[j].token] = @ + a] /\ free' = free
        /\ jobs[j].token \in Assets /\ jobs[j].balance \in Nat /\ a \in Nat
    BY <1>1, <1>5, VaultAssumption DEF FundJob, Job
  <2>2. \A u \in Assets :
          vault[u] + Claim(jobs', u, j) + free'[u] <= vault'[u] + Claim(jobs, u, j) + free[u]
    BY <1>1, <2>1 DEF Claim
  <2> QED
    BY <1>1, <2>1, <2>2, JobChanges
<1>6. ASSUME NEW j \in JobIds, WithdrawJob(sender, j) PROVE EscrowAccounted'
  <2>1. /\ \A i \in JobIds \ {j} : jobs'[i] = jobs[i]
        /\ jobs[j].active /\ ~jobs'[j].active
        /\ vault' = [vault EXCEPT ![jobs[j].token] = @ - jobs[j].balance] /\ free' = free
        /\ jobs[j].token \in Assets /\ jobs[j].balance \in Nat
        /\ jobs[j].balance <= vault[jobs[j].token]
    BY <1>1, <1>6 DEF WithdrawJob, Job
  <2>2. \A u \in Assets :
          vault[u] + Claim(jobs', u, j) + free'[u] <= vault'[u] + Claim(jobs, u, j) + free[u]
    BY <1>1, <2>1 DEF Claim
  <2> QED
    BY <1>1, <2>1, <2>2, JobChanges
<1>7. ASSUME NEW j \in JobIds, NEW t, NEW s, NEW v \in 0..MaxLimit,
             Execute(sender, j, t, s, v)
      PROVE  EscrowAccounted'
  <2>1. PICK pull \in Pulls :
            /\ vault' = [vault EXCEPT ![pull[1]] = @ - pull[2]]
            /\ free' = [free EXCEPT ![pull[1]] = @ - Excess(j, v, pull)]
    BY <1>7 DEF Execute
  <2>2. /\ \A i \in JobIds \ {j} : jobs'[i] = jobs[i]
        /\ jobs'[j].token = jobs[j].token /\ jobs'[j].active = jobs[j].active
        /\ jobs[j].active /\ jobs'[j].balance = jobs[j].balance - v
        /\ jobs[j].token \in Assets /\ jobs[j].balance \in Nat /\ v \in Nat
    <3>1. jobs' = [jobs EXCEPT ![j].balance = @ - v] /\ jobs[j].active
      BY <1>7 DEF Execute
    <3>2. jobs[j] \in Job
      BY <1>1
    <3>3. jobs'[j] = [jobs[j] EXCEPT !.balance = @ - v]
          /\ \A i \in JobIds \ {j} : jobs'[i] = jobs[i]
      BY <1>1, <3>1
    <3>4. v \in Nat
      BY VaultAssumption
    <3> QED
      BY <3>1, <3>2, <3>3, <3>4 DEF Job
  <2>3. \A u \in Assets :
          vault[u] + Claim(jobs', u, j) + free'[u] <= vault'[u] + Claim(jobs, u, j) + free[u]
    <3>1. /\ pull[1] \in Assets /\ pull[2] \in Nat /\ Excess(j, v, pull) \in Nat
          /\ pull[1] # jobs[j].token => Excess(j, v, pull) = pull[2]
          /\ pull[1] = jobs[j].token => pull[2] <= Excess(j, v, pull) + v
      BY <1>1, <2>2, PullType DEF Excess
    <3> QED
      BY <1>1, <2>1, <2>2, <3>1 DEF Claim
  <2> QED
    BY <1>1, <2>2, <2>3, JobChanges
<1> QED
  BY <1>2, <1>4, <1>5, <1>6, <1>7 DEF MoveMoney

\* Whatever is deposited, withdrawn, created, funded, executed and refunded in any
\* order, the vault is short of what its active jobs are owed of an asset by no
\* more than the owner and the calls took outside the jobs' accounts beyond what
\* came in outside them: EscrowAccounted.
THEOREM EscrowIsAccounted == Spec => []EscrowAccounted
<1>1. Init => EscrowInv
  BY InitType, EscrowInit DEF EscrowInv
<1>2. EscrowInv /\ [Next]_vars => EscrowInv'
  <2> SUFFICES ASSUME EscrowInv, [Next]_vars PROVE EscrowAccounted'
    BY TypeStep DEF EscrowInv
  <2>1. TypeOK /\ TypeOK' /\ EscrowAccounted
    BY TypeStep DEF EscrowInv
  <2>2. ASSUME NEW sender \in Accounts, MoveMoney(sender) PROVE EscrowAccounted'
    BY <2>1, <2>2, EscrowMoney
  <2>3. CASE UNCHANGED escrow
    <3>1. UNCHANGED <<jobs, vault, free>>
      BY <2>3 DEF escrow
    <3>2. \A t \in Assets : vault'[t] - free'[t] = vault[t] - free[t]
      BY <2>1, <3>1 DEF TypeOK
    <3> QED
      BY <2>1, <3>1, <3>2, JobsKept
  <2>4. ASSUME NEW sender \in Accounts, Configure(sender) PROVE EscrowAccounted'
    BY <2>1, <2>3, <2>4, ConfigureStep
  <2> QED
    BY <2>2, <2>3, <2>4 DEF Next, Tick, vars
<1>3. EscrowInv => EscrowAccounted
  BY DEF EscrowInv
<1> QED
  BY <1>1, <1>2, <1>3, PTL DEF Spec
=============================================================================
