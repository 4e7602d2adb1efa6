---------------------------- MODULE YieldStrategy ---------------------------
(***************************************************************************)
(* packages/strategy-yield: costs, risk, ranking and the canonical deposit *)
(* or withdrawal.  Yields are integer basis points, as in the code.        *)
(* An opportunity is [asset, protocol, apy, tvl, risk].  The test hook     *)
(* BAN_SIM_YIELD_*, which puts one made-up candidate in the place of       *)
(* these, is not set: "NEVER set in production" (yield-strategy.ts:107).   *)
(***************************************************************************)
EXTENDS Integers, FiniteSets, CanonicalAction

CONSTANTS
    Alphabet,       \* the protocols and assets in alphabetical order
    Underlyings     \* the assets with a verified token

-----------------------------------------------------------------------------
(* YieldNormalizer and YieldRiskModel                                      *)

Costs == 25 + 5 + 30    \* swap, gas and slippage; no protocol fee is set

RiskAdjustment == [LOW |-> 0, MEDIUM |-> 50, HIGH |-> 100]

Compatible == [LOW |-> {"LOW"}, MEDIUM |-> {"LOW", "MEDIUM"},
               HIGH |-> {"LOW", "MEDIUM", "HIGH"}]

Effective(opportunity) == opportunity.apy - Costs - RiskAdjustment[opportunity.risk]

-----------------------------------------------------------------------------
(* YieldCandidateSelector                                                  *)

\* *Mutant*: one too many.
TopFour == 4

TopN == 3

Place(name) == CHOOSE i \in DOMAIN Alphabet : Alphabet[i] = name

\* Effective yield, then value locked, then protocol, then asset.
Before(a, b) ==
    LET key(o) == <<-Effective(o), -o.tvl, Place(o.protocol), Place(o.asset)>>
        first == {i \in 1..4 : key(a)[i] # key(b)[i]} IN
    \E i \in first : /\ \A j \in first : i <= j
                     /\ key(a)[i] < key(b)[i]

\* *Mutant*: the two risks are swapped.
SwapsRisks(market, agentRisk) ==
    LET offered == {o \in market : agentRisk \in Compatible[o.risk] /\ Effective(o) > 0}
        ranked == Ranked(offered, Before)
    IN SubSeq(ranked, 1, IF Len(ranked) < TopN THEN Len(ranked) ELSE TopN)

\* What exceeds the agent's risk is dropped, and what earns nothing.
Candidates(market, agentRisk) ==
    LET offered == {o \in market : o.risk \in Compatible[agentRisk] /\ Effective(o) > 0}
        ranked == Ranked(offered, Before)
    IN SubSeq(ranked, 1, IF Len(ranked) < TopN THEN Len(ranked) ELSE TopN)

-----------------------------------------------------------------------------
(* canonicalizeYieldProposal                                               *)

ExecKind == [venus |-> "VENUS_LENDING", aave |-> "AAVE_V3"]

\* *Mutant*: without a budget the model's amount is good enough.
ModelsDeposit(answer, budget) == IF budget = None THEN answer.amount ELSE AtPeg(budget)

\* The task's budget, at a dollar a token; none without a budget.
DepositAmount(answer, budget) == IF budget = None THEN None ELSE AtPeg(budget)

\* By the asset asked for, or the first; the protocol must be a verified one.
\* A withdrawal is of the model's amount.
Proposal(answer, candidates, budget) ==
    LET at == SelectInSeq(candidates, LAMBDA c : c.asset = answer.asset)
        c == candidates[IF at = 0 THEN 1 ELSE at]
        intent == IF answer.action \in {"WITHDRAW", "UNSTAKE"} THEN "WITHDRAW" ELSE "DEPOSIT"
        amount == IF intent = "WITHDRAW" THEN answer.amount ELSE DepositAmount(answer, budget)
    IN IF candidates = <<>> THEN None
       ELSE IF c.protocol \notin DOMAIN ExecKind \/ c.asset \notin Underlyings \/ amount = None
       THEN None
       ELSE [kind |-> ExecKind[c.protocol], action |-> intent, intent |-> intent,
             asset |-> c.asset, amount |-> amount, risk |-> c.risk]
=============================================================================
