--------------------------- MODULE HealthStrategy ---------------------------
(***************************************************************************)
(* packages/strategy-health: the health factor, the corrective candidates  *)
(* and the canonical Venus call.  Cents and health factors (times 100) are *)
(* integers, as in the code.                                               *)
(* An account on Venus is [supply, borrow]: thousandths of a token of each *)
(* underlying.  What the strategy has of it is a lending position,         *)
(* [collateral, debt, debts]: cents, cents, and thousandths of each token. *)
(***************************************************************************)
EXTENDS Naturals, FiniteSetsExt, CanonicalAction

CONSTANT PriceOf    \* cents a token of each underlying is worth

Underlyings == DOMAIN PriceOf           \* HEALTH_VTOKENS
Stables == {"USDT", "USDC"}
Threshold == 8000                       \* LiveDataProvider's, for every market

-----------------------------------------------------------------------------
(* LiveDataProvider.lending.getLendingPosition                             *)

\* What amount of a token is worth: cut to whole tokens before it is priced,
\* and nothing while the price of BNB is unknown.
CentsOf(amount, token, priced) ==
    IF token \in Stables \cup priced THEN (amount \div 1000) * PriceOf[token] ELSE 0

\* A market whose reads fail is skipped, its debt as well as its collateral.
Lending(account, read, priced) ==
    LET total(amounts) ==
            MapThenSumSet(LAMBDA t : CentsOf(amounts[t], t, priced), read)
    IN [collateral |-> total(account.supply), debt |-> total(account.borrow),
        debts |-> [t \in {u \in read : account.borrow[u] > 0} |-> account.borrow[t]]]

-----------------------------------------------------------------------------
(* HealthFactorCalculator and HealthRiskModel                              *)

Healthy == 200
Warning == 150
Critical == 110
SafeTarget == 250       \* REPAY_SAFE_TARGET_CENTS

NoDebtFactor == 100000  \* an account without debt

\* The zero-collateral debtor is an error (Watchable).
HealthFactor(collateral, debt, threshold) ==
    IF debt = 0 THEN NoDebtFactor ELSE (collateral * threshold * 100) \div (debt * 10000)

\* *Mutant*: the debt to keep is rounded up.
RepayRoundsDown(collateral, debt, threshold, target) ==
    LET keep == (collateral * threshold * 100 + target * 10000 - 1) \div (target * 10000)
    IN IF keep >= debt THEN 0 ELSE debt - keep

\* repayNeededCents: down to the largest debt the collateral carries.
RepayNeeded(collateral, debt, threshold, target) ==
    LET keep == (collateral * threshold * 100) \div (target * 10000)
    IN IF keep >= debt THEN 0 ELSE debt - keep

StateFor(factor) == CASE factor >= Healthy -> "HEALTHY" [] factor >= Warning -> "WARNING"
                      [] factor >= Critical -> "CRITICAL" [] OTHER -> "EMERGENCY"

Watchable(lending) == lending.debt = 0 \/ lending.collateral > 0

FactorOf(lending) == HealthFactor(lending.collateral, lending.debt, Threshold)

-----------------------------------------------------------------------------
(* HealthCandidateSelector                                                 *)

\* The largest borrow balance counted in units of its token, and not in value.
DominantDebt(debts) ==
    LET most == {t \in DOMAIN debts : \A u \in DOMAIN debts : debts[u] <= debts[t]} IN
    IF most = {} THEN None ELSE CHOOSE t \in most : TRUE

\* Stablecoins have their peg when the feed has no price; others have none.
PriceKnown(token, priced) == token # None /\ (token \in Stables \/ token \in priced)

Repayment(lending, priced) ==
    LET cents == RepayNeeded(lending.collateral, lending.debt, Threshold, SafeTarget)
        token == DominantDebt(lending.debts) IN
    IF cents = 0 THEN <<>>
    ELSE <<[action |-> "REPAY", cents |-> cents, token |-> token,
            wei |-> IF PriceKnown(token, priced) THEN Wei(cents, PriceOf[token]) ELSE None]>>

\* estimatedCollateralNeeded, rounded down.
CollateralNeeded(lending) ==
    LET total == (lending.debt * Warning * 100) \div Threshold
    IN IF total > lending.collateral THEN total - lending.collateral ELSE 0

Candidates(lending, priced) ==
    LET state == StateFor(FactorOf(lending)) IN
    (IF state \in {"CRITICAL", "EMERGENCY"} THEN Repayment(lending, priced) ELSE <<>>)
    \o (IF state = "EMERGENCY"
        THEN <<[action |-> "ADD_COLLATERAL", cents |-> CollateralNeeded(lending),
                token |-> None, wei |-> None]>>
        ELSE <<>>)

-----------------------------------------------------------------------------
(* canonicalizeHealthProposal                                              *)

\* The candidate of the action asked for decides; a request that is neither
\* (a bare DEPOSIT) counts as ADD_COLLATERAL.  The model chooses the asset
\* only where the candidate has none.
Proposal(answer, candidates) ==
    LET wanted == IF answer.requested = "REPAY" THEN "REPAY" ELSE "ADD_COLLATERAL"
        c == PickCandidate(candidates, wanted)
        asset == IF answer.asset \in Underlyings
                    /\ (c.action = "ADD_COLLATERAL" \/ c.token \in {None, answer.asset})
                 THEN answer.asset ELSE c.token
    IN IF candidates = <<>> THEN None
       ELSE IF asset \notin Underlyings THEN None
       ELSE [kind |-> "VENUS_LENDING", action |-> "DEPOSIT", intent |-> c.action, asset |-> asset,
             amount |-> IF c.wei # None THEN c.wei ELSE AtPeg(c.cents),
             risk |-> IF c.action = "REPAY" THEN "LOW" ELSE "MEDIUM"]
=============================================================================
