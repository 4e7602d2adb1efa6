--------------------------- MODULE CanonicalAction --------------------------
(***************************************************************************)
(* The vocabulary the strategies share: canonical-action.ts of             *)
(* packages/agent-core.  A model's answer is a record                      *)
(*   [act, action, requested, side, level, asset, amount, risk]:           *)
(* whether its status is ACT, the proposal's action, params.requestedAction*)
(* params.side and params.levelIndex (None when absent), its asset, amount *)
(* and riskLevel.                                                          *)
(***************************************************************************)
EXTENDS Naturals, SequencesExt

CONSTANT None

\* PASS_DIRECTIVES, and the empty action.
Directives == {"STOP", "HOLD", "WAIT", "NONE", "PASS", "NOOP", "NO_ACTION", ""}

CanonicalActions == {"SWAP", "TRANSFER", "DEPOSIT", "WITHDRAW", "STAKE", "UNSTAKE",
                     "MINT", "BURN", "APPROVE", "REBALANCE", "CUSTOM"}

StrategyActionMap ==
    [BUY |-> "SWAP", SELL |-> "SWAP",
     REMOVE |-> "BURN", REMOVE_LIQUIDITY |-> "BURN",
     CREATE |-> "MINT", ADD_LIQUIDITY |-> "MINT", REPOSITION |-> "REBALANCE",
     REPAY |-> "DEPOSIT", ADD_COLLATERAL |-> "DEPOSIT",
     INVEST |-> "DEPOSIT", HARVEST |-> "WITHDRAW"]

\* An unknown action comes back as it is, for the schema to refuse.
CanonicalizeAction(raw) ==
    IF raw \in DOMAIN StrategyActionMap THEN StrategyActionMap[raw] ELSE raw

\* normalizeStrategyDecision, of an answer that is no directive.
Normalize(answer) ==
    [answer EXCEPT
        !.action = CanonicalizeAction(@),
        !.requested = IF @ = None THEN answer.action ELSE @,
        !.side = IF @ = None /\ answer.action \in {"BUY", "SELL"} THEN answer.action ELSE @]

\* What reaches a strategy's canonicalizer.  (An answer the schema refuses
\* throws; for the cycle that is no proposal either.)
Executable(answer) ==
    /\ answer.act
    /\ answer.action \notin Directives
    /\ CanonicalizeAction(answer.action) \in CanonicalActions

\* pickCandidate: by the action wanted, or the first.
PickCandidate(candidates, wanted) ==
    LET at == SelectInSeq(candidates, LAMBDA c : c.action = wanted) IN
    IF candidates = <<>> THEN None ELSE candidates[IF at = 0 THEN 1 ELSE at]

\* A sort: the elements of S in the order of Before, which is strict and total
\* on S; the n-th is the one with n - 1 before it.
Ranked(S, Before(_, _)) ==
    [n \in 1..Cardinality(S) |->
        CHOOSE x \in S : Cardinality({y \in S : Before(y, x)}) = n - 1]

\* An amount of a token, in wei: cents of its value and the price in cents it
\* was converted at, for cents * 10^18 / price.
Wei(cents, price) == [cents |-> cents, price |-> price]

\* cents * 10^16: right for a token that is worth a dollar.
AtPeg(cents) == Wei(cents, 100)
=============================================================================
