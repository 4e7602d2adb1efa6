---------------------------- MODULE GridStrategy ----------------------------
(***************************************************************************)
(* packages/strategy-grid: levels, crossings, candidates, recentering and  *)
(* the canonical swap.  Prices and sizes are integer cents, as in the code.*)
(* A config is [lower, upper, count, capital, order, recenter]; a state,   *)
(* the document grid_state/current, is [config, levels, exposure, last].   *)
(* No caller sets stopOnLowerBoundBreak or stopOnUpperBoundBreak and no    *)
(* step sets stopped, so neither is kept.                                  *)
(***************************************************************************)
EXTENDS Integers, FiniteSetsExt, CanonicalAction

Larger(a, b) == IF a > b THEN a ELSE b
Smaller(a, b) == IF a < b THEN a ELSE b

-----------------------------------------------------------------------------
(* GridCalculator                                                          *)

Spacing(config) == (config.upper - config.lower) \div (config.count - 1)

\* generateLevels throws otherwise.
Buildable(config) ==
    /\ config.count >= 2
    /\ config.lower < config.upper
    /\ config.capital > 0
    /\ Spacing(config) > 0

Levels(config) ==
    [i \in 1..config.count |-> config.lower + Spacing(config) * (i - 1)]

\* detectCrossing: the highest level passed on the way up, the lowest on the
\* way down.
Crossing(levels, previous, current) ==
    LET up == {i \in DOMAIN levels : previous < levels[i] /\ levels[i] <= current}
        down == {i \in DOMAIN levels : current <= levels[i] /\ levels[i] < previous}
    IN CASE up # {} -> [side |-> "SELL", level |-> Max(up)]
         [] down # {} -> [side |-> "BUY", level |-> Min(down)]
         [] OTHER -> None

\* *Mutant*: an order above the capital that is left.
OrderIgnoresCapital(side, exposure, config) ==
    IF side = "SELL" THEN Smaller(exposure, config.order) ELSE config.order

OrderSize(side, exposure, config) ==
    IF side = "SELL" THEN Smaller(exposure, config.order)
    ELSE Larger(0, Smaller(config.capital - exposure, config.order))

-----------------------------------------------------------------------------
(* GridRiskModel and GridCandidateSelector                                 *)

Risk(price, exposure, config, volatility) ==
    LET ratio == (exposure * 10000) \div config.capital
        toStop == Smaller(price - config.lower, config.upper - price) IN
    CASE ratio > 8000 /\ volatility > 500 -> "HIGH"
      [] toStop < 1000 -> "HIGH"
      [] ratio > 5000 \/ volatility > 200 -> "MEDIUM"
      [] OTHER -> "LOW"

\* select: one trade at most.
Candidates(state, price, volatility) ==
    LET crossing == Crossing(state.levels, state.last, price) IN
    IF crossing = None THEN <<>>
    ELSE LET size == OrderSize(crossing.side, state.exposure, state.config)
             level == state.levels[crossing.level] IN
         IF size <= 0 THEN <<>>
         ELSE <<[action |-> crossing.side, level |-> crossing.level, price |-> level,
                 size |-> size,
                 risk |-> Risk(level, state.exposure, state.config, volatility)]>>

-----------------------------------------------------------------------------
(* GridStrategy.observe                                                    *)

DefaultConfig == [lower |-> 50000, upper |-> 60000, count |-> 5, capital |-> 100000,
                  order |-> 50000, recenter |-> TRUE]

\* preflight looks at the task's bounds alone; one that is absent is 0.
PreflightOk(override) ==
    LET bound(field) == IF field \in DOMAIN override THEN override[field] ELSE 0 IN
    DOMAIN override # {} => /\ bound("lower") < bound("upper")
                            /\ bound("capital") > 0

Merged(config, override) ==
    LET merged == [f \in DOMAIN config |->
                      IF f \in DOMAIN override THEN override[f] ELSE config[f]]
    IN IF merged.lower < merged.upper THEN merged
       ELSE [merged EXCEPT !.upper = merged.lower + 1]

\* The config a cycle starts from, and its state: the stored one, with its
\* levels rebuilt when the task has changed the config, or a new one at the
\* first price fetched.
OpenConfig(stored, override) ==
    Merged(IF stored = None THEN DefaultConfig ELSE stored.config, override)

OpenState(stored, override, first) ==
    LET config == OpenConfig(stored, override) IN
    IF stored = None
    THEN [config |-> config, levels |-> Levels(config), exposure |-> 0, last |-> first]
    ELSE IF config = stored.config THEN stored
    ELSE [stored EXCEPT !.config = config, !.levels = Levels(config)]

Breaks(state, price) ==
    /\ state.config.recenter
    /\ price < state.config.lower \/ price > state.config.upper

\* *Mutant*: the range moves and the price that crossings are counted from stays.
RecenterKeepsLast(state, price) ==
    IF ~Breaks(state, price) THEN state
    ELSE LET width == Larger(2, state.config.upper - state.config.lower)
             lower == Larger(1, price - width \div 2)
             config == [state.config EXCEPT !.lower = lower, !.upper = lower + width]
         IN [state EXCEPT !.config = config, !.levels = Levels(config)]

\* *Mutant*: the range moves and the levels stay.
RecenterKeepsLevels(state, price) ==
    IF ~Breaks(state, price) THEN state
    ELSE LET width == Larger(2, state.config.upper - state.config.lower)
             lower == Larger(1, price - width \div 2)
             config == [state.config EXCEPT !.lower = lower, !.upper = lower + width]
         IN [state EXCEPT !.config = config, !.last = price]

Recenter(state, price) ==
    IF ~Breaks(state, price) THEN state
    ELSE LET width == Larger(2, state.config.upper - state.config.lower)
             lower == Larger(1, price - width \div 2)
             config == [state.config EXCEPT !.lower = lower, !.upper = lower + width]
         IN [state EXCEPT !.config = config, !.levels = Levels(config), !.last = price]

-----------------------------------------------------------------------------
(* canonicalizeGridProposal                                                *)

\* By the level asked for, then by the side, then the first.
Matching(candidates, answer) ==
    LET at == SelectInSeq(candidates, LAMBDA c : c.level = answer.level)
    IN IF at # 0 THEN candidates[at] ELSE PickCandidate(candidates, answer.side)

Proposal(answer, candidates) ==
    IF candidates = <<>> THEN None
    ELSE LET c == Matching(candidates, answer) IN
         [kind |-> "PANCAKE_V3_SWAP", action |-> "SWAP", intent |-> c.action,
          asset |-> IF c.action = "BUY" THEN "WBNB" ELSE "USDT",  \* what it buys
          amount |-> AtPeg(Larger(1, c.size)), risk |-> c.risk]
=============================================================================
