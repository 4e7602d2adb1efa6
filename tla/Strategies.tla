----------------------------- MODULE Strategies -----------------------------
(***************************************************************************)
(* One agent's strategy, cycle after cycle: run-cycle.ts makes the strategy*)
(* of the agent's type from the task, observe() reads the market through   *)
(* an adapter and offers candidates, the model answers, and decide() turns *)
(* the answer into an executable proposal or none.                         *)
(* A step is observe(), with every read it awaits, or decide(); the grid's *)
(* write of its state is not awaited and lands later, or never, and two    *)
(* writes may land in either order.                                        *)
(***************************************************************************)
EXTENDS Integers, CanonicalAction

CONSTANTS
    PriceOf,        \* cents a token is worth
    Alphabet,       \* protocols and assets in alphabetical order
    Prices,         \* grid: the prices of BNB the feed may have, in cents
    Overrides,      \* grid: the fields a task may set
    Volatilities,
    Pools,          \* lp: what the adapter may report of the pool
    LpPositions,
    Accounts,       \* health: accounts on Venus
    Markets,        \* yield: sets of opportunities
    Budgets,        \* yield: cents a transaction may spend, or None
    Answers,        \* what the model may answer
    MaxWrites       \* bound: grid writes in flight

RiskLevels == {"LOW", "MEDIUM", "HIGH"}

Grid   == INSTANCE GridStrategy
Lp     == INSTANCE LpStrategy
Health == INSTANCE HealthStrategy
Yield  == INSTANCE YieldStrategy WITH Underlyings <- DOMAIN PriceOf

ASSUME StrategiesAssumption ==
    /\ DOMAIN PriceOf = {"USDT", "USDC", "BNB"}
    /\ \A t \in DOMAIN PriceOf : PriceOf[t] \in Nat \ {0}
    /\ Prices \subseteq Nat \ {0} /\ MaxWrites \in Nat
    /\ \A override \in Overrides : \A field \in DOMAIN override :
          IF field = "recenter" THEN override[field] \in BOOLEAN ELSE override[field] \in Int
    /\ \A account \in Accounts : \A t \in DOMAIN PriceOf :
          account.supply[t] \in Nat /\ account.borrow[t] \in Nat

\* What the adapter reports of a pool and of a position; a volume is never
\* negative.
ASSUME LpAssumption ==
    /\ \A pool \in Pools :
          /\ pool.tick \in Int /\ pool.fee \in Int /\ pool.liquidity \in Int
          /\ pool.volume \in Nat \cup {None} /\ pool.gas \in Int \cup {None}
    /\ \A position \in LpPositions \ {None} :
          position.lower \in Int /\ position.upper \in Int /\ position.liquidity \in Int

\* A market is read vToken by vToken, one opportunity for each: no protocol has
\* an asset twice.
ASSUME MarketsAssumption ==
    /\ DOMAIN Alphabet \subseteq Nat
    /\ \A market \in Markets :
          /\ IsFiniteSet(market)
          /\ \A o \in market :
                /\ o.apy \in Int /\ o.tvl \in Int /\ o.risk \in RiskLevels
                /\ {o.protocol, o.asset} \subseteq Range(Alphabet)
          /\ \A a, b \in market : a.protocol = b.protocol /\ a.asset = b.asset => a = b

\* The schema's fields and its enumeration of risk levels: another answer is
\* refused.
ASSUME AnswersAssumption ==
    \A answer \in Answers :
        /\ DOMAIN answer = {"act", "action", "requested", "side", "level", "asset", "amount",
                            "risk"}
        /\ answer.risk \in RiskLevels

VARIABLES
    type, risk,     \* agents/{id}: the agent's type and declared risk
    task,           \* the task's row: [override, budget]
    doc,            \* grid_state/current, or None
    writes,         \* the grid writes in flight
    obs,            \* the cycle's observation, with what it was made from
    deciding,       \* the model has been asked and has not answered
    proposal        \* what the cycle's decide() returned

vars == <<type, risk, task, doc, writes, obs, deciding, proposal>>

-----------------------------------------------------------------------------
\* A task's row, as far as the agent's strategy reads it.
Tasks == [override : IF type = "grid" THEN Overrides ELSE {<<>>},
          budget : IF type = "yield" THEN Budgets ELSE {None}]

\* Before observe() and after the cycle there is nothing to offer.
Unobserved == [candidates |-> <<>>]

Init ==
    /\ type \in {"grid", "lp", "health", "yield"}
    /\ risk \in IF type = "yield" THEN RiskLevels ELSE {"MEDIUM"}
    /\ task \in Tasks
    /\ doc = None /\ writes = <<>>
    /\ obs = Unobserved /\ deciding = FALSE /\ proposal = None

\* The owner edits the task; a cycle that runs keeps the one it has read.
EditTask ==
    /\ task' \in Tasks
    /\ UNCHANGED <<type, risk, doc, writes, obs, deciding, proposal>>

Observed(made) ==
    /\ obs = Unobserved
    /\ obs' = made /\ deciding' = TRUE /\ proposal' = None
    /\ UNCHANGED <<type, risk, task, doc>>

\* An unworkable range ends the cycle: in preflight, or with an error.
ObserveGrid(first, price, volatility) ==
    LET opened == Grid!OpenState(doc, task.override, first)
        state == Grid!Recenter(opened, price) IN
    /\ type = "grid"
    /\ Grid!PreflightOk(task.override)
    /\ Grid!Buildable(Grid!OpenConfig(doc, task.override))
    /\ Len(writes) < MaxWrites
    /\ writes' = Append(writes, state)
    /\ Observed([state |-> state, override |-> task.override,
                 recentered |-> Grid!Breaks(opened, price),
                 candidates |-> Grid!Candidates(state, price, volatility)])

ObserveLp(pool, position) ==
    /\ type = "lp"
    /\ Observed([pool |-> pool, position |-> position,
                 candidates |-> Lp!Candidates(pool, position)])
    /\ UNCHANGED writes

\* BNB is priced twice, by the adapter and by the strategy's own provider.
ObserveHealth(account, read, fed, priced) ==
    LET lending == Health!Lending(account, read, fed) IN
    /\ type = "health"
    /\ Health!Watchable(lending)
    /\ Observed([account |-> account, read |-> read, fed |-> fed, lending |-> lending,
                 candidates |-> Health!Candidates(lending, priced)])
    /\ UNCHANGED writes

ObserveYield(market) ==
    /\ type = "yield"
    /\ Observed([market |-> market, budget |-> task.budget,
                 candidates |-> Yield!Candidates(market, risk)])
    /\ UNCHANGED writes

\* decide(): a directive, a pass or a refused answer is no proposal.
Canonical(answer) ==
    CASE type = "grid"   -> Grid!Proposal(answer, obs.candidates)
      [] type = "lp"     -> Lp!Proposal(answer, obs.position, obs.candidates)
      [] type = "health" -> Health!Proposal(answer, obs.candidates)
      [] type = "yield"  -> Yield!Proposal(answer, obs.candidates, obs.budget)

Decide(answer) ==
    /\ deciding
    /\ deciding' = FALSE
    /\ proposal' = IF Executable(answer) THEN Canonical(Normalize(answer)) ELSE None
    /\ UNCHANGED <<type, risk, task, doc, writes, obs>>

\* The cycle ends, and its strategy object with it.
EndCycle ==
    /\ obs # Unobserved
    /\ obs' = Unobserved /\ deciding' = FALSE /\ proposal' = None
    /\ UNCHANGED <<type, risk, task, doc, writes>>

Land(i) ==
    /\ doc' = writes[i]
    /\ writes' = RemoveAt(writes, i)
    /\ UNCHANGED <<type, risk, task, obs, deciding, proposal>>

\* A write that fails is logged and forgotten.
Lose(i) ==
    /\ writes' = RemoveAt(writes, i)
    /\ UNCHANGED <<type, risk, task, doc, obs, deciding, proposal>>

Next ==
    \/ EditTask
    \/ \E first, price \in Prices, v \in Volatilities : ObserveGrid(first, price, v)
    \/ \E pool \in Pools, position \in LpPositions : ObserveLp(pool, position)
    \/ \E account \in Accounts, read \in SUBSET DOMAIN PriceOf,
          fed, priced \in SUBSET {"BNB"} : ObserveHealth(account, read, fed, priced)
    \/ \E market \in Markets : ObserveYield(market)
    \/ \E answer \in Answers : Decide(answer)
    \/ EndCycle
    \/ \E i \in DOMAIN writes : Land(i) \/ Lose(i)

Spec == Init /\ [][Next]_vars

-----------------------------------------------------------------------------
(* Properties                                                              *)

Has(kind) == type = kind /\ obs # Unobserved
Offers == {obs.candidates[i] : i \in DOMAIN obs.candidates}

\* The state has its types, and an offer its strategy's vocabulary.
TypeOK ==
    /\ type \in {"grid", "lp", "health", "yield"} /\ risk \in RiskLevels
    /\ task \in Tasks
    /\ Len(writes) <= MaxWrites /\ deciding \in BOOLEAN
    /\ Has("grid") => Len(obs.candidates) <= 1
    /\ Has("lp") => Len(obs.candidates) <= 5
    /\ Has("health") => Len(obs.candidates) <= 2
    /\ Has("yield") => Len(obs.candidates) <= 3
    /\ proposal # None => /\ obs # Unobserved /\ proposal.action \in CanonicalActions
                          /\ proposal.risk \in RiskLevels

\* A grid trades on the levels of its own range: whatever is stored, in flight
\* or observed has the levels its configuration gives, inside its bounds,
\* through edits of the task, recenterings and writes that land late.
LevelsFitRange ==
    \A state \in {writes[i] : i \in DOMAIN writes}
                 \cup ({doc} \ {None})
                 \cup (IF Has("grid") THEN {obs.state} ELSE {}) :
        /\ Grid!Buildable(state.config)
        /\ state.levels = Grid!Levels(state.config)
        /\ \A i \in DOMAIN state.levels :
              state.levels[i] \in state.config.lower..state.config.upper

\* "The rebuild itself is not a trade; the next market move must cross a fresh
\* level first": a cycle that recenters the range offers nothing.
RebuildIsNoTrade == Has("grid") /\ obs.recentered => obs.candidates = <<>>

\* A grid swap spends no more than the order size and the capital the task
\* set when the cycle began, whatever range the stored state was left with.
SwapWithinTask ==
    type = "grid" /\ proposal # None =>
        \A field \in {"order", "capital"} \cap DOMAIN obs.override :
            proposal.amount.cents <= obs.override[field]

\* "REMOVE remains available as a safety action": the way out of a position
\* that earns nothing is offered, first, whatever the gas, the volume and the
\* profits of the other offers; and it is offered of no other position.
RemoveIsOffered ==
    Has("lp") =>
        LET stranded == obs.position # None /\ ~Lp!InRange(obs.pool.tick, obs.position) IN
        /\ stranded => obs.candidates # <<>> /\ obs.candidates[1].action = "REMOVE"
        /\ ~stranded => \A c \in Offers : c.action # "REMOVE"

\* A repayment is the smallest that brings the position the strategy has
\* observed to a health factor of 2.50, to the cent.
RepayReachesTarget ==
    Has("health") =>
        \A c \in {o \in Offers : o.action = "REPAY"} :
            LET after(cents) == Health!HealthFactor(obs.lending.collateral,
                                     obs.lending.debt - cents, Health!Threshold)
            IN /\ after(c.cents) >= Health!SafeTarget
               /\ after(c.cents - 1) < Health!SafeTarget

\* The model chooses among opportunities the agent's risk allows and that earn
\* something, the best first; and one that it never sees is one of those
\* that do not qualify, or that are no better than every one it sees.
OffersAreTheBest ==
    Has("yield") =>
        LET worth(o) == Yield!Effective(o)
            fit == {o \in obs.market : o.risk \in Yield!Compatible[risk] /\ worth(o) > 0} IN
        /\ Offers \subseteq fit
        /\ \A o \in fit \ Offers : \A c \in Offers : worth(o) <= worth(c)
        /\ fit # {} => obs.candidates # <<>>
        /\ \A i, j \in DOMAIN obs.candidates :
              i < j => worth(obs.candidates[i]) >= worth(obs.candidates[j])

\* "The user's per-tx budget is the only honest size authority": a deposit of
\* a stablecoin is worth the budget the task had when the cycle began; never
\* the model's amount, and without a budget there is none.  (Of BNB it is
\* worth as many BNB as the budget has dollars.)
DepositIsBudget ==
    type = "yield" /\ proposal # None =>
        (proposal.action = "DEPOSIT" /\ proposal.asset \in Health!Stables
            => obs.budget # None /\ proposal.amount = AtPeg(obs.budget))

\* "EMERGENCY -> one REPAY candidate": an account whose markets and prices
\* were all read, and whose health factor is below 1.10, is offered a way out.
EmergencyIsOffered ==
    Has("health") /\ obs.read = DOMAIN PriceOf /\ obs.fed = {"BNB"} =>
        LET worth(amounts, t) == (amounts[t] * PriceOf[t]) \div 1000
            total(amounts) == worth(amounts, "USDT") + worth(amounts, "USDC")
                              + worth(amounts, "BNB")
            debt == total(obs.account.borrow) IN
        debt > 0 /\ Health!HealthFactor(total(obs.account.supply), debt, Health!Threshold)
                        < Health!Critical
            => obs.candidates # <<>>
=============================================================================
