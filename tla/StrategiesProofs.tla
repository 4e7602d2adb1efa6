--------------------------- MODULE StrategiesProofs --------------------------
(***************************************************************************)
(* Theorems about the strategies: of the health strategy's operators for   *)
(* every position and price, and of the cycles of Strategies for every     *)
(* market, account, task and answer.                                       *)
(***************************************************************************)
EXTENDS Strategies, SumProofs, TLAPS

-----------------------------------------------------------------------------
(* Floors                                                                  *)

\* A quotient is the largest number whose product still fits.
LEMMA FloorBounds ==
  ASSUME NEW n \in Nat, NEW m \in Nat \ {0}
  PROVE  /\ n \div m \in Nat
         /\ (n \div m) * m <= n
         /\ n < (n \div m + 1) * m
  OBVIOUS

LEMMA FloorAtLeast ==
  ASSUME NEW n \in Nat, NEW m \in Nat \ {0}, NEW k \in Nat
  PROVE  k <= n \div m <=> k * m <= n
<1>1. n \div m \in Nat /\ (n \div m) * m <= n /\ n < (n \div m + 1) * m
  BY FloorBounds
<1>2. ASSUME k <= n \div m PROVE k * m <= n
  <2>1. k * m <= (n \div m) * m
    BY <1>1, <1>2
  <2> QED
    BY <1>1, <2>1
<1>3. ASSUME ~(k <= n \div m) PROVE ~(k * m <= n)
  <2>1. n \div m + 1 <= k
    BY <1>1, <1>3
  <2>2. (n \div m + 1) * m <= k * m
    BY <1>1, <2>1
  <2> QED
    BY <1>1, <2>2
<1> QED
  BY <1>2, <1>3

-----------------------------------------------------------------------------
(* The repayment                                                           *)

LEMMA BigFactor == Health!NoDebtFactor \in Nat /\ Health!SafeTarget <= Health!NoDebtFactor
  BY SMT DEF Health!NoDebtFactor, Health!SafeTarget

\* The debt kept is the largest whose health factor reaches the target.
LEMMA KeepIsLargest ==
  ASSUME NEW c \in Nat, NEW th \in Nat, NEW target \in Nat \ {0}, NEW d \in Nat \ {0}
  PROVE  Health!HealthFactor(c, d, th) >= target <=> d <= (c * th * 100) \div (target * 10000)
<1> DEFINE n == c * th * 100
<1>1. n \in Nat /\ d * 10000 \in Nat \ {0} /\ target * 10000 \in Nat \ {0}
  OBVIOUS
<1>2. Health!HealthFactor(c, d, th) = n \div (d * 10000)
  BY DEF Health!HealthFactor
<1>3. target <= n \div (d * 10000) <=> target * (d * 10000) <= n
  BY <1>1, FloorAtLeast
<1>4. d <= n \div (target * 10000) <=> d * (target * 10000) <= n
  BY <1>1, FloorAtLeast
<1>5. target * (d * 10000) = d * (target * 10000)
  OBVIOUS
<1>6. n \div (d * 10000) \in Nat
  BY <1>1, FloorBounds
<1> QED
  BY <1>2, <1>3, <1>4, <1>5, <1>6

\* RepayNeeded is exact: with it repaid the health factor reaches the target,
\* and with one cent less it does not, for any position, threshold and target
\* up to the factor of an account without debt.
THEOREM RepayIsExact ==
  ASSUME NEW c \in Nat, NEW d \in Nat, NEW th \in Nat, NEW target \in Nat \ {0}, target <= Health!NoDebtFactor
  PROVE  LET r == Health!RepayNeeded(c, d, th, target) IN
         /\ r \in 0..d
         /\ r > 0 => /\ Health!HealthFactor(c, d - r, th) >= target
                     /\ Health!HealthFactor(c, d - (r - 1), th) < target
<1> DEFINE keep == (c * th * 100) \div (target * 10000)
           r == Health!RepayNeeded(c, d, th, target)
<1>1. keep \in Nat
  <2>1. c * th * 100 \in Nat /\ target * 10000 \in Nat \ {0}
    OBVIOUS
  <2> QED
    BY <2>1, FloorBounds
<1>2. r = IF keep >= d THEN 0 ELSE d - keep
  BY DEF Health!RepayNeeded
<1>3. r \in 0..d
  BY <1>1, <1>2
<1>4. ASSUME r > 0
      PROVE  Health!HealthFactor(c, d - r, th) >= target /\ Health!HealthFactor(c, d - (r - 1), th) < target
  <2>1. d - r = keep /\ d - (r - 1) = keep + 1
    BY <1>1, <1>2, <1>4
  <2>2. Health!HealthFactor(c, keep, th) >= target
    <3>1. CASE keep = 0
      BY <3>1 DEF Health!HealthFactor
    <3>2. CASE keep # 0
      BY <1>1, <3>2, KeepIsLargest
    <3> QED
      BY <3>1, <3>2
  <2>3. ~(Health!HealthFactor(c, keep + 1, th) >= target)
    BY <1>1, KeepIsLargest
  <2>4. Health!HealthFactor(c, keep + 1, th) \in Nat
    <3>1. c * th * 100 \in Nat /\ (keep + 1) * 10000 \in Nat \ {0} /\ keep + 1 # 0
      BY <1>1
    <3> QED
      BY <3>1, FloorBounds DEF Health!HealthFactor
  <2> QED
    BY <2>1, <2>2, <2>3, <2>4
<1> QED
  BY <1>3, <1>4

-----------------------------------------------------------------------------
(* What the selector offers                                                *)

\* A position below the warning threshold of the target has something to repay.
LEMMA BelowTargetRepays ==
  ASSUME NEW c \in Nat, NEW d \in Nat, NEW th \in Nat, NEW target \in Nat \ {0}, target <= Health!NoDebtFactor,
         Health!HealthFactor(c, d, th) < target
  PROVE  Health!RepayNeeded(c, d, th, target) > 0
<1> DEFINE keep == (c * th * 100) \div (target * 10000)
<1>1. c * th * 100 \in Nat /\ target * 10000 \in Nat \ {0}
  OBVIOUS
<1>2. keep \in Nat
  BY <1>1, FloorBounds
<1>3. d # 0
  BY BigFactor DEF Health!HealthFactor
<1>4. Health!HealthFactor(c, d, th) \in Nat
  <2>1. d * 10000 \in Nat \ {0}
    BY <1>3
  <2> QED
    BY <1>1, <1>3, <2>1, FloorBounds DEF Health!HealthFactor
<1>5. ~(d <= keep)
  BY <1>3, <1>4, KeepIsLargest
<1> QED
  BY <1>2, <1>5 DEF Health!RepayNeeded

\* "EMERGENCY -> one REPAY candidate (priority) + one ADD_COLLATERAL", of the
\* figures the strategy is given: below 1.10 there are exactly these two, in
\* this order, and the repayment brings the position to 2.50, to the cent.
THEOREM EmergencyOffers ==
  ASSUME NEW lending, NEW priced,
         lending.collateral \in Nat, lending.debt \in Nat,
         Health!FactorOf(lending) < Health!Critical
  PROVE  LET offers == Health!Candidates(lending, priced)
             after(cents) == Health!HealthFactor(lending.collateral, lending.debt - cents, Health!Threshold)
         IN /\ Len(offers) = 2
            /\ offers[1].action = "REPAY" /\ offers[2].action = "ADD_COLLATERAL"
            /\ after(offers[1].cents) >= Health!SafeTarget
            /\ after(offers[1].cents - 1) < Health!SafeTarget
<1> DEFINE need == Health!RepayNeeded(lending.collateral, lending.debt, Health!Threshold, Health!SafeTarget)
           token == Health!DominantDebt(lending.debts)
           repay == [action |-> "REPAY", cents |-> need, token |-> token,
                     wei |-> IF Health!PriceKnown(token, priced) THEN Health!Wei(need, PriceOf[token])
                                                          ELSE None]
           add == [action |-> "ADD_COLLATERAL", cents |-> Health!CollateralNeeded(lending),
                   token |-> None, wei |-> None]
<1>1. Health!FactorOf(lending) \in Int
  <2>1. CASE lending.debt = 0
    BY <2>1, BigFactor DEF Health!FactorOf, Health!HealthFactor
  <2>2. CASE lending.debt # 0
    <3>1. /\ lending.collateral * Health!Threshold * 100 \in Nat
          /\ lending.debt * 10000 \in Nat \ {0}
      BY <2>2 DEF Health!Threshold
    <3> QED
      BY <2>2, <3>1, FloorBounds DEF Health!FactorOf, Health!HealthFactor
  <2> QED
    BY <2>1, <2>2
<1>2. Health!StateFor(Health!FactorOf(lending)) = "EMERGENCY"
  BY <1>1 DEF Health!StateFor, Health!Healthy, Health!Warning, Health!Critical
<1>3. need > 0
  <2>1. Health!HealthFactor(lending.collateral, lending.debt, Health!Threshold) < Health!SafeTarget
    BY <1>1 DEF Health!FactorOf, Health!Critical, Health!SafeTarget
  <2> QED
    BY <2>1, BelowTargetRepays, BigFactor DEF Health!Threshold, Health!SafeTarget
<1>4. Health!Repayment(lending, priced) = <<repay>>
  BY <1>3 DEF Health!Repayment
<1>5. Health!Candidates(lending, priced) = <<repay>> \o <<add>>
  BY <1>2, <1>4 DEF Health!Candidates
<1>6. ASSUME NEW x, NEW y
      PROVE  Len(<<x>> \o <<y>>) = 2 /\ (<<x>> \o <<y>>)[1] = x /\ (<<x>> \o <<y>>)[2] = y
  <2>1. <<x>> \in Seq({x, y}) /\ <<y>> \in Seq({x, y})
    OBVIOUS
  <2> QED
    BY <2>1
<1>7. /\ Health!HealthFactor(lending.collateral, lending.debt - need, Health!Threshold) >= Health!SafeTarget
      /\ Health!HealthFactor(lending.collateral, lending.debt - (need - 1), Health!Threshold) < Health!SafeTarget
  <2>1. Health!Threshold \in Nat /\ Health!SafeTarget \in Nat \ {0} /\ Health!SafeTarget <= Health!NoDebtFactor
    BY BigFactor DEF Health!Threshold, Health!SafeTarget
  <2> QED
    BY <1>3, <2>1, RepayIsExact
<1>8. repay.action = "REPAY" /\ repay.cents = need /\ add.action = "ADD_COLLATERAL"
  OBVIOUS
<1>9. /\ Len(Health!Candidates(lending, priced)) = 2
      /\ Health!Candidates(lending, priced)[1] = repay
      /\ Health!Candidates(lending, priced)[2] = add
  <2> HIDE DEF repay, add
  <2> QED
    BY <1>5, <1>6
<1> QED
  BY <1>7, <1>8, <1>9

-----------------------------------------------------------------------------
(* The grid's range                                                        *)

Config == [lower : Int, upper : Int, count : Int, capital : Int, order : Int,
           recenter : BOOLEAN]

\* The fields a task may set, with the values it sets them to.
LEMMA MergedConfig ==
  ASSUME NEW config \in Config, NEW override \in Overrides
  PROVE  LET merged == Grid!Merged(config, override) IN
         /\ merged \in Config
         /\ \A field \in {"order", "capital"} \cap DOMAIN override :
                merged[field] = override[field]
<1> DEFINE taken == [f \in DOMAIN config |-> IF f \in DOMAIN override THEN override[f]
                                             ELSE config[f]]
<1>1. DOMAIN config = {"lower", "upper", "count", "capital", "order", "recenter"}
  BY DEF Config
<1>2. taken \in Config
  <2>1. \A f \in DOMAIN config : IF f = "recenter" THEN taken[f] \in BOOLEAN ELSE taken[f] \in Int
    BY <1>1, StrategiesAssumption DEF Config
  <2>2. taken = [lower |-> taken.lower, upper |-> taken.upper, count |-> taken.count,
                 capital |-> taken.capital, order |-> taken.order, recenter |-> taken.recenter]
    BY <1>1
  <2> HIDE DEF taken
  <2> QED
    BY <1>1, <2>1, <2>2 DEF Config
<1>3. \A field \in {"order", "capital"} \cap DOMAIN override : taken[field] = override[field]
  BY <1>1
<1>4. Grid!Merged(config, override) = IF taken.lower < taken.upper THEN taken
                                      ELSE [taken EXCEPT !.upper = taken.lower + 1]
  BY DEF Grid!Merged
<1> HIDE DEF taken
<1>5. [taken EXCEPT !.upper = taken.lower + 1] \in Config
      /\ \A field \in {"order", "capital"} :
             [taken EXCEPT !.upper = taken.lower + 1][field] = taken[field]
  BY <1>2 DEF Config
<1> QED
  BY <1>2, <1>3, <1>4, <1>5

LEMMA DefaultIsConfig == Grid!DefaultConfig \in Config
  BY DEF Grid!DefaultConfig, Config

\* The levels that generateLevels makes lie inside the range: count - 1 spacings,
\* each rounded down, do not add up to more than its width.
LEMMA LevelsInRange ==
  ASSUME NEW config \in Config, Grid!Buildable(config), NEW i \in 1..config.count
  PROVE  Grid!Levels(config)[i] \in config.lower..config.upper
<1> DEFINE w == config.upper - config.lower
           n == config.count - 1
           s == Grid!Spacing(config)
<1>1. w \in Nat /\ n \in Nat \ {0} /\ config.lower \in Int /\ config.upper \in Int
      /\ config.count \in Int
  BY DEF Grid!Buildable, Config
<1>2. s = w \div n
  BY DEF Grid!Spacing
<1> HIDE DEF w, n, s
<1>3. s \in Nat /\ s * n <= w /\ s * n \in Nat
  BY <1>1, <1>2, FloorBounds
<1>4. i - 1 \in 0..n
  BY <1>1 DEF n
<1>5. s * (i - 1) \in 0..(s * n)
  <2>1. \A a, b, c \in Nat : b <= c => a * b <= a * c /\ a * b \in Nat /\ a * c \in Nat
    OBVIOUS
  <2> QED
    BY <1>1, <1>3, <1>4, <2>1
<1>6. Grid!Levels(config)[i] = config.lower + s * (i - 1)
  BY DEF Grid!Levels, s
<1> QED
  BY <1>1, <1>3, <1>5, <1>6 DEF w

\* A state is given by its config and its last price: the levels are the
\* config's, and nothing is ever exposed.
GridState(config, last) == [config |-> config, levels |-> Grid!Levels(config),
                            exposure |-> 0, last |-> last]

GridStates == {GridState(config, last) :
                   config \in {c \in Config : Grid!Buildable(c)}, last \in Int}

LEMMA StateParts ==
  ASSUME NEW state \in GridStates
  PROVE  /\ state.config \in Config /\ Grid!Buildable(state.config) /\ state.last \in Int
         /\ state.levels = Grid!Levels(state.config) /\ state.exposure = 0
         /\ state = GridState(state.config, state.last)
  BY DEF GridStates, GridState

LEMMA StateMade ==
  ASSUME NEW config \in Config, Grid!Buildable(config), NEW last \in Int
  PROVE  GridState(config, last) \in GridStates
  BY DEF GridStates

\* What a changed task and a recentering do to a state, and to a range.
Reconfigured(state, config) == [state EXCEPT !.config = config, !.levels = Grid!Levels(config)]
Recentered(state, config, price) ==
    [state EXCEPT !.config = config, !.levels = Grid!Levels(config), !.last = price]
Moved(range, lower, upper) == [range EXCEPT !.lower = lower, !.upper = upper]

LEMMA StateReplaced ==
  ASSUME NEW state \in GridStates, NEW config, NEW price
  PROVE  /\ Reconfigured(state, config) = GridState(config, state.last)
         /\ Recentered(state, config, price) = GridState(config, price)
<1> DEFINE L == Grid!Levels(config)
           two == [state EXCEPT !.config = config, !.levels = L]
           three == [state EXCEPT !.config = config, !.levels = L, !.last = price]
<1>1. PICK a, b, c : state = [config |-> a, levels |-> b, exposure |-> 0, last |-> c]
  <2>1. state = [config |-> state.config, levels |-> Grid!Levels(state.config),
                 exposure |-> 0, last |-> state.last]
    BY StateParts DEF GridState
  <2> QED
    BY <2>1, Zenon
<1>2. state.last = c
  BY <1>1
<1> HIDE DEF L
<1>3. two \in [config : {config}, levels : {L}, exposure : {0}, last : {c}]
  BY <1>1
<1>4. three \in [config : {config}, levels : {L}, exposure : {0}, last : {price}]
  BY <1>1
<1> HIDE DEF two, three
<1>5. two = [config |-> config, levels |-> L, exposure |-> 0, last |-> c]
  BY <1>3
<1>6. three = [config |-> config, levels |-> L, exposure |-> 0, last |-> price]
  BY <1>4
<1> QED
  BY <1>2, <1>5, <1>6, Zenon DEF Reconfigured, Recentered, GridState, two, three, L

LEMMA RangeMoved ==
  ASSUME NEW range \in Config, NEW lower \in Int, NEW upper \in Int
  PROVE  LET config == Moved(range, lower, upper) IN
         /\ config \in Config /\ config.lower = lower /\ config.upper = upper
         /\ config.count = range.count
         /\ config.capital = range.capital /\ config.order = range.order
  BY DEF Config, Moved

LEMMA OpenStateFits ==
  ASSUME NEW stored, stored = None \/ stored \in GridStates,
         NEW override \in Overrides, NEW first \in Int,
         Grid!Buildable(Grid!OpenConfig(stored, override))
  PROVE  LET state == Grid!OpenState(stored, override, first) IN
         /\ state \in GridStates
         /\ state.config = Grid!OpenConfig(stored, override)
<1> DEFINE config == Grid!OpenConfig(stored, override)
<1>1. config \in Config
  <2>1. CASE stored = None
    BY <2>1, DefaultIsConfig, MergedConfig DEF Grid!OpenConfig
  <2>2. CASE stored # None
    BY <2>2, StateParts, MergedConfig DEF Grid!OpenConfig
  <2> QED
    BY <2>1, <2>2
<1>2. CASE stored = None
  <2>1. Grid!OpenState(stored, override, first) = GridState(config, first)
    BY <1>2 DEF Grid!OpenState, GridState
  <2> QED
    BY <1>1, <2>1, StateMade DEF GridState
<1>3. CASE stored # None /\ config = stored.config
  <2>1. Grid!OpenState(stored, override, first) = stored
    BY <1>3 DEF Grid!OpenState
  <2> QED
    BY <1>3, <2>1
<1>4. CASE stored # None /\ config # stored.config
  <2>1. stored = GridState(stored.config, stored.last) /\ stored.last \in Int
    BY <1>4, StateParts
  <2>2. Grid!OpenState(stored, override, first)
            = Reconfigured(stored, config)
    BY <1>4 DEF Grid!OpenState, Reconfigured
  <2> HIDE DEF config
  <2>3. Grid!OpenState(stored, override, first) = GridState(config, stored.last)
    BY <1>4, <2>2, StateReplaced
  <2> QED
    BY <1>1, <2>1, <2>3, StateMade DEF GridState, config
<1> QED
  BY <1>2, <1>3, <1>4

\* The range moves, and may grow; its levels stay apart.
LEMMA RecenterFits ==
  ASSUME NEW state \in GridStates, NEW price \in Int
  PROVE  LET moved == Grid!Recenter(state, price) IN
         /\ moved \in GridStates
         /\ \A field \in {"order", "capital"} : moved.config[field] = state.config[field]
         /\ Grid!Breaks(state, price) => moved.last = price
<1> DEFINE range == state.config
           width == IF 2 > range.upper - range.lower THEN 2 ELSE range.upper - range.lower
           lower == IF 1 > price - width \div 2 THEN 1 ELSE price - width \div 2
           config == Moved(range, lower, lower + width)
<1>1. /\ range \in Config /\ Grid!Buildable(range)
      /\ state = GridState(range, state.last) /\ state.last \in Int
  BY StateParts
<1>2. CASE ~Grid!Breaks(state, price)
  BY <1>2 DEF Grid!Recenter
<1>3. CASE Grid!Breaks(state, price)
  <2>1. Grid!Recenter(state, price) =
            Recentered(state, config, price)
    BY <1>3 DEF Grid!Recenter, Grid!Larger, Moved, Recentered
  <2>2. Grid!Recenter(state, price) = GridState(config, price)
    <3> HIDE DEF config
    <3> QED
      BY <2>1, StateReplaced
  <2>3. /\ range.upper \in Int /\ range.lower \in Int /\ range.count \in Int
        /\ range.count >= 2 /\ range.lower < range.upper /\ range.capital > 0
        /\ Grid!Spacing(range) > 0
    BY <1>1 DEF Config, Grid!Buildable
  <2>4. width \in Nat /\ range.upper - range.lower \in Nat
        /\ range.upper - range.lower <= width /\ 2 <= width
    BY <2>3
  <2>5. lower \in Int
    BY <2>4, FloorBounds
  <2> HIDE DEF width, lower
  <2>6. /\ config \in Config /\ config.lower = lower /\ config.upper = lower + width
        /\ config.count = range.count
        /\ config.capital = range.capital /\ config.order = range.order
    <3>1. lower + width \in Int
      BY <2>4, <2>5
    <3> QED
      BY <1>1, <2>5, <3>1, RangeMoved
  <2> HIDE DEF config
  <2>7. Grid!Spacing(config) > 0
    <3> DEFINE w == range.upper - range.lower
               n == range.count - 1
    <3>1. n \in Nat \ {0} /\ w \in Nat
      BY <2>3, <2>4
    <3>2. w \div n > 0
      BY <2>3 DEF Grid!Spacing
    <3>3. (lower + width) - lower = width
      BY <2>4, <2>5
    <3>4. Grid!Spacing(config) = width \div n
      BY <2>6, <3>3 DEF Grid!Spacing
    <3> HIDE DEF w, n
    <3>5. 1 <= w \div n
      BY <3>1, <3>2, FloorBounds
    <3>6. 1 * n <= w
      BY <3>1, <3>5, FloorAtLeast
    <3>7. 1 * n <= width
      BY <2>4, <3>1, <3>6 DEF w
    <3>8. 1 <= width \div n
      BY <2>4, <3>1, <3>7, FloorAtLeast
    <3> QED
      BY <2>4, <3>1, <3>4, <3>8, FloorBounds
  <2>8. Grid!Buildable(config)
    BY <2>3, <2>4, <2>5, <2>6, <2>7 DEF Grid!Buildable
  <2> QED
    BY <2>2, <2>6, <2>8, StateMade DEF GridState
<1> QED
  BY <1>2, <1>3

-----------------------------------------------------------------------------
(* What the grid offers and trades                                         *)

LEMMA LevelsType ==
  ASSUME NEW state \in GridStates
  PROVE  \A i \in DOMAIN state.levels : state.levels[i] \in Int
<1> SUFFICES ASSUME NEW i \in DOMAIN state.levels PROVE state.levels[i] \in Int
  OBVIOUS
<1>1. i \in 1..state.config.count
  BY StateParts DEF Grid!Levels
<1>2. state.config.lower \in Int /\ state.config.upper \in Int
  BY StateParts DEF Config
<1>3. state.levels[i] \in state.config.lower..state.config.upper
  BY <1>1, LevelsInRange, StateParts
<1> QED
  BY <1>2, <1>3

\* Nothing lies between a price and itself.
LEMMA StillPrice ==
  ASSUME NEW state \in GridStates, NEW price \in Int, state.last = price, NEW volatility
  PROVE  Grid!Candidates(state, price, volatility) = <<>>
<1>1. /\ {i \in DOMAIN state.levels : price < state.levels[i] /\ state.levels[i] <= price} = {}
      /\ {i \in DOMAIN state.levels : price <= state.levels[i] /\ state.levels[i] < price} = {}
  BY LevelsType
<1>2. Grid!Crossing(state.levels, price, price) = None
  BY <1>1 DEF Grid!Crossing
<1> QED
  BY <1>2 DEF Grid!Candidates

\* With nothing exposed an order is a purchase, of the order size and of the
\* capital at most.
Affordable(c, config) == /\ c.size \in Int /\ c.size > 0
                         /\ c.size <= config.order /\ c.size <= config.capital

LEMMA OfferAffordable ==
  ASSUME NEW state \in GridStates, NEW price, NEW volatility
  PROVE  \/ Grid!Candidates(state, price, volatility) = <<>>
         \/ \E c : /\ Grid!Candidates(state, price, volatility) = <<c>>
                   /\ Affordable(c, state.config)
<1> DEFINE crossing == Grid!Crossing(state.levels, state.last, price)
           size == Grid!OrderSize(crossing.side, state.exposure, state.config)
           level == state.levels[crossing.level]
           offer == [action |-> crossing.side, level |-> crossing.level, price |-> level,
                     size |-> size,
                     risk |-> Grid!Risk(level, state.exposure, state.config, volatility)]
<1>1. Grid!Candidates(state, price, volatility) =
          IF crossing = None THEN <<>> ELSE IF size <= 0 THEN <<>> ELSE <<offer>>
  BY DEF Grid!Candidates
<1>2. /\ size \in Int
      /\ size > 0 => size <= state.config.order /\ size <= state.config.capital
  <2>1. state.exposure = 0 /\ state.config.order \in Int /\ state.config.capital \in Int
    BY StateParts DEF Config
  <2> HIDE DEF crossing
  <2> QED
    BY <2>1 DEF Grid!OrderSize, Grid!Larger, Grid!Smaller
<1> HIDE DEF crossing, size
<1>3. offer.size = size
  OBVIOUS
<1> HIDE DEF offer
<1>4. CASE ~(size <= 0)
  <2>1. Affordable(offer, state.config)
    BY <1>2, <1>3, <1>4 DEF Affordable
  <2> QED
    BY <1>1, <1>4, <2>1
<1> QED
  BY <1>1, <1>4

LEMMA OnlyIndex ==
  ASSUME NEW I \in SUBSET (1..1), I # {}
  PROVE  Grid!Min(I) = 1
<1>1. \A i \in I : i = 1
  OBVIOUS
<1>2. I = {1}
  BY <1>1
<1> QED
  BY <1>2 DEF Grid!Min

\* Of one candidate, every answer picks that one.
LEMMA OnlyCandidate ==
  ASSUME NEW c, NEW answer
  PROVE  Grid!Matching(<<c>>, answer) = c
<1>1. Grid!PickCandidate(<<c>>, answer.side) = c
  BY OnlyIndex DEF Grid!PickCandidate, Grid!SelectInSeq
<1>2. Grid!Matching(<<c>>, answer) \in {<<c>>[1], Grid!PickCandidate(<<c>>, answer.side)}
  BY OnlyIndex DEF Grid!Matching, Grid!SelectInSeq
<1> QED
  BY <1>1, <1>2

\* A purchase is of the offer's size, in cents.
LEMMA SwapSize ==
  ASSUME NEW c, NEW config, Affordable(c, config), NEW answer
  PROVE  Grid!Proposal(answer, <<c>>).amount.cents = c.size
<1>1. Grid!Proposal(answer, <<c>>).amount = Grid!AtPeg(Grid!Larger(1, c.size))
  BY OnlyCandidate DEF Grid!Proposal
<1>2. Grid!Larger(1, c.size) = c.size
  BY DEF Grid!Larger, Affordable
<1> QED
  BY <1>1, <1>2 DEF Grid!AtPeg, Grid!Wei

-----------------------------------------------------------------------------
(* The grid's cycles                                                       *)

\* What an observation was made of, and what follows from it.
GridObs(o) ==
    /\ o.state \in GridStates
    /\ o.recentered => o.candidates = <<>>
    /\ \A field \in {"order", "capital"} \cap DOMAIN o.override :
           o.state.config[field] = o.override[field]
    /\ \/ o.candidates = <<>>
       \/ \E c : o.candidates = <<c>> /\ Affordable(c, o.state.config)

\* Each state stored, in flight or observed is a grid's own; SwapWithinTask
\* needs besides that the config observed has the task's order and capital.
GridInv ==
    /\ task \in Tasks
    /\ doc = None \/ doc \in GridStates
    /\ writes \in Seq(GridStates)
    /\ type = "grid" /\ (obs # Unobserved \/ deciding) => GridObs(obs)
    /\ SwapWithinTask

LEMMA GridObserved ==
  ASSUME GridInv, NEW first \in Prices, NEW price \in Prices, NEW v,
         ObserveGrid(first, price, v)
  PROVE  GridObs(obs') /\ writes' \in Seq(GridStates)
<1> DEFINE opened == Grid!OpenState(doc, task.override, first)
           state == Grid!Recenter(opened, price)
           offers == Grid!Candidates(state, price, v)
           made == [state |-> state, override |-> task.override,
                    recentered |-> Grid!Breaks(opened, price), candidates |-> offers]
<1>1. first \in Int /\ price \in Int
  <2>1. Prices \subseteq Nat \ {0}
    BY StrategiesAssumption, Zenon
  <2> QED
    BY <2>1
<1>2. task.override \in Overrides
  BY DEF GridInv, Tasks, ObserveGrid
<1>3. Grid!Buildable(Grid!OpenConfig(doc, task.override))
  BY DEF ObserveGrid
<1>4. opened \in GridStates /\ opened.config = Grid!OpenConfig(doc, task.override)
  BY <1>1, <1>2, <1>3, OpenStateFits DEF GridInv
<1>5. \A field \in {"order", "capital"} \cap DOMAIN task.override :
          opened.config[field] = task.override[field]
  <2>1. Grid!OpenConfig(doc, task.override) =
            Grid!Merged(IF doc = None THEN Grid!DefaultConfig ELSE doc.config, task.override)
    BY DEF Grid!OpenConfig
  <2>2. (IF doc = None THEN Grid!DefaultConfig ELSE doc.config) \in Config
    BY DefaultIsConfig, StateParts DEF GridInv
  <2> HIDE DEF opened
  <2> QED
    BY <1>2, <1>4, <2>1, <2>2, MergedConfig
<1> HIDE DEF opened
<1>6. /\ state \in GridStates
      /\ \A field \in {"order", "capital"} : state.config[field] = opened.config[field]
      /\ Grid!Breaks(opened, price) => state.last = price
  BY <1>1, <1>4, RecenterFits
<1> HIDE DEF state
<1>7. Grid!Breaks(opened, price) => offers = <<>>
  BY <1>1, <1>6, StillPrice
<1>8. offers = <<>> \/ \E c : offers = <<c>> /\ Affordable(c, state.config)
  BY <1>6, OfferAffordable
<1> HIDE DEF offers
<1>9. GridObs(made)
  BY <1>5, <1>6, <1>7, <1>8 DEF GridObs
<1>10. obs' = made
  BY DEF ObserveGrid, Observed, offers, state, opened
<1>11. writes' = Append(writes, state)
  BY DEF ObserveGrid, state, opened
<1>12. writes' \in Seq(GridStates)
  BY <1>6, <1>11 DEF GridInv
<1> QED
  BY <1>9, <1>10, <1>12

LEMMA GridDecided ==
  ASSUME GridInv, NEW answer, Decide(answer)
  PROVE  SwapWithinTask'
<1> SUFFICES ASSUME type = "grid", proposal' # None,
                    NEW field \in {"order", "capital"} \cap DOMAIN obs.override
             PROVE  proposal'.amount.cents <= obs.override[field]
  BY DEF SwapWithinTask, Decide
<1>1. GridObs(obs)
  BY DEF GridInv, Decide
<1>2. proposal' = Grid!Proposal(Normalize(answer), obs.candidates)
  BY DEF Decide, Canonical
<1>3. obs.candidates # <<>>
  BY <1>2 DEF Grid!Proposal
<1>4. PICK c : obs.candidates = <<c>> /\ Affordable(c, obs.state.config)
  BY <1>1, <1>3 DEF GridObs
<1>5. proposal'.amount.cents = c.size
  <2>1. Grid!Proposal(Normalize(answer), <<c>>).amount.cents = c.size
    BY <1>4, SwapSize
  <2> QED
    BY <1>2, <1>4, <2>1
<1>6. obs.state.config[field] = obs.override[field]
  BY <1>1 DEF GridObs
<1>7. c.size <= obs.state.config.order /\ c.size <= obs.state.config.capital
  BY <1>4 DEF Affordable
<1> QED
  BY <1>5, <1>6, <1>7

LEMMA Removed ==
  ASSUME NEW S, NEW s \in Seq(S), NEW i \in DOMAIN s
  PROVE  s[i] \in S /\ RemoveAt(s, i) \in Seq(S)
<1>1. i \in 1..Len(s) /\ Len(s) \in Nat
  OBVIOUS
<1>2. SubSeq(s, 1, i - 1) \in Seq(S) /\ SubSeq(s, i + 1, Len(s)) \in Seq(S)
  BY <1>1
<1> QED
  BY <1>1, <1>2 DEF RemoveAt

\* A write that landed or was lost is one fewer.
LEMMA RemovedShorter ==
  ASSUME NEW S, NEW s \in Seq(S), NEW i \in DOMAIN s
  PROVE  Len(RemoveAt(s, i)) = Len(s) - 1
<1>1. i \in 1..Len(s) /\ Len(s) \in Nat
  OBVIOUS
<1>2. /\ SubSeq(s, 1, i - 1) \in Seq(S) /\ Len(SubSeq(s, 1, i - 1)) = i - 1
      /\ SubSeq(s, i + 1, Len(s)) \in Seq(S) /\ Len(SubSeq(s, i + 1, Len(s))) = Len(s) - i
  BY <1>1
<1> QED
  BY <1>1, <1>2 DEF RemoveAt

LEMMA GridStep == GridInv /\ [Next]_vars => GridInv'
<1> SUFFICES ASSUME GridInv, [Next]_vars PROVE GridInv'
  OBVIOUS
<1>1. CASE EditTask
  BY <1>1 DEF EditTask, GridInv, Tasks, SwapWithinTask
<1>2. ASSUME NEW first \in Prices, NEW price \in Prices, NEW v, ObserveGrid(first, price, v)
      PROVE  GridInv'
  <2>1. UNCHANGED <<type, task, doc>> /\ proposal' = None
    BY <1>2 DEF ObserveGrid, Observed
  <2> QED
    BY <1>2, <2>1, GridObserved DEF GridInv, Tasks, SwapWithinTask
<1>3. ASSUME NEW made, Observed(made), UNCHANGED writes, type # "grid" PROVE GridInv'
  BY <1>3 DEF Observed, GridInv, Tasks, SwapWithinTask
<1>4. ASSUME NEW answer, Decide(answer) PROVE GridInv'
  <2>1. UNCHANGED <<type, task, doc, writes, obs>> /\ deciding /\ ~deciding'
    BY <1>4 DEF Decide
  <2> QED
    BY <1>4, <2>1, GridDecided DEF GridInv, Tasks
<1>5. CASE EndCycle
  BY <1>5 DEF EndCycle, GridInv, Tasks, SwapWithinTask
<1>6. ASSUME NEW i \in DOMAIN writes, Land(i) \/ Lose(i) PROVE GridInv'
  <2>1. writes[i] \in GridStates /\ RemoveAt(writes, i) \in Seq(GridStates)
    BY Removed DEF GridInv
  <2> QED
    BY <1>6, <2>1 DEF Land, Lose, GridInv, Tasks, SwapWithinTask
<1>7. CASE UNCHANGED vars
  BY <1>7 DEF vars, GridInv, Tasks, SwapWithinTask
<1>8. ASSUME NEW pool, NEW position, ObserveLp(pool, position) PROVE GridInv'
  BY <1>3, <1>8 DEF ObserveLp
<1>9. ASSUME NEW a, NEW r, NEW f, NEW p, ObserveHealth(a, r, f, p) PROVE GridInv'
  BY <1>3, <1>9 DEF ObserveHealth
<1>10. ASSUME NEW market, ObserveYield(market) PROVE GridInv'
  BY <1>3, <1>10 DEF ObserveYield
<1> QED
  BY <1>1, <1>2, <1>4, <1>5, <1>6, <1>7, <1>8, <1>9, <1>10 DEF Next

LEMMA GridInit == Init => GridInv
<1> SUFFICES ASSUME Init PROVE GridInv
  OBVIOUS
<1>1. writes \in Seq(GridStates)
  BY DEF Init
<1> QED
  BY <1>1 DEF Init, GridInv, SwapWithinTask

LEMMA GridAlways == Spec => []GridInv
  BY GridInit, GridStep, PTL DEF Spec

\* Through any edits of the task, recenterings and writes that land late, in
\* any order or never, every grid state stored, in flight or observed has the
\* levels its own configuration gives, all inside its range.
THEOREM LevelsFit == Spec => []LevelsFitRange
<1>1. GridInv => LevelsFitRange
  <2> SUFFICES ASSUME GridInv,
                      NEW state \in {writes[i] : i \in DOMAIN writes}
                                    \cup ({doc} \ {None})
                                    \cup (IF Has("grid") THEN {obs.state} ELSE {})
               PROVE  /\ Grid!Buildable(state.config)
                      /\ state.levels = Grid!Levels(state.config)
                      /\ \A i \in DOMAIN state.levels :
                            state.levels[i] \in state.config.lower..state.config.upper
    BY DEF LevelsFitRange
  <2>1. state \in GridStates
    <3>1. \A i \in DOMAIN writes : writes[i] \in GridStates
      BY Removed DEF GridInv
    <3>2. Has("grid") => obs.state \in GridStates
      BY DEF GridInv, GridObs, Has
    <3> QED
      BY <3>1, <3>2 DEF GridInv
  <2>2. Grid!Buildable(state.config) /\ state.levels = Grid!Levels(state.config)
        /\ state.config \in Config
    BY <2>1, StateParts
  <2>3. DOMAIN state.levels = 1..state.config.count
    BY <2>2 DEF Grid!Levels
  <2> QED
    BY <2>2, <2>3, LevelsInRange
<1> QED
  BY <1>1, GridAlways, PTL

\* A cycle that moves the range offers no trade: the price the crossings are
\* counted from is the one it has moved to.
THEOREM RebuildNoTrade == Spec => []RebuildIsNoTrade
<1>1. GridInv => RebuildIsNoTrade
  BY DEF GridInv, GridObs, RebuildIsNoTrade, Has
<1> QED
  BY <1>1, GridAlways, PTL

\* Whatever range and sizes a stored state was left with, a grid swap spends no
\* more than the order size and the capital of the task the cycle began with.
THEOREM SwapStaysWithinTask == Spec => []SwapWithinTask
<1>1. GridInv => SwapWithinTask
  BY DEF GridInv
<1> QED
  BY <1>1, GridAlways, PTL

-----------------------------------------------------------------------------
(* Deposits                                                                *)

\* Of a stablecoin or not, the amount of a deposit is the budget's.
LEMMA YieldAmount ==
  ASSUME NEW answer, NEW candidates, NEW budget,
         Yield!Proposal(answer, candidates, budget) # None,
         Yield!Proposal(answer, candidates, budget).action = "DEPOSIT"
  PROVE  budget # None /\ Yield!Proposal(answer, candidates, budget).amount = AtPeg(budget)
  BY DEF Yield!Proposal, Yield!DepositAmount, Yield!AtPeg, Yield!Wei, AtPeg, Wei

DepositInv == DepositIsBudget /\ type \in {"grid", "lp", "health", "yield"}

LEMMA DepositStep == DepositInv /\ [Next]_vars => DepositInv'
<1> SUFFICES ASSUME DepositInv, [Next]_vars PROVE DepositInv'
  OBVIOUS
<1>1. ASSUME NEW answer, Decide(answer) PROVE DepositInv'
  <2>1. UNCHANGED <<type, obs>>
    BY <1>1 DEF Decide
  <2>2. SUFFICES ASSUME type = "yield", proposal' # None, proposal'.action = "DEPOSIT"
                 PROVE  obs.budget # None /\ proposal'.amount = AtPeg(obs.budget)
    BY <2>1 DEF DepositInv, DepositIsBudget
  <2>3. proposal' = Yield!Proposal(Normalize(answer), obs.candidates, obs.budget)
    BY <1>1, <2>2 DEF Decide, Canonical
  <2> QED
    BY <2>2, <2>3, YieldAmount
<1>2. CASE UNCHANGED type /\ (proposal' = None \/ UNCHANGED <<obs, proposal>>)
  BY <1>2 DEF DepositInv, DepositIsBudget
<1> QED
  BY <1>1, <1>2
     DEF Next, EditTask, ObserveGrid, ObserveLp, ObserveHealth, ObserveYield, Observed,
         EndCycle, Land, Lose, vars

\* Whatever the model answers, a deposit of a stablecoin is worth the budget the
\* task had when the cycle began, and without a budget there is none.
THEOREM DepositKeepsBudget == Spec => []DepositIsBudget
<1>1. Init => DepositInv
  BY DEF Init, DepositInv, DepositIsBudget
<1>2. DepositInv => DepositIsBudget
  BY DEF DepositInv
<1> QED
  BY <1>1, <1>2, DepositStep, PTL DEF Spec

-----------------------------------------------------------------------------
(* Repayments                                                              *)

WorthOf(amounts, read, fed) ==
    Health!MapThenSumSet(LAMBDA t : Health!CentsOf(amounts[t], t, fed), read)

\* What the adapter reports of an account: natural numbers of cents, whichever
\* markets it could read and whether or not it had a price for BNB.
LEMMA WorthType ==
  ASSUME NEW amounts, \A t \in DOMAIN PriceOf : amounts[t] \in Nat,
         NEW read \in SUBSET DOMAIN PriceOf, NEW fed
  PROVE  WorthOf(amounts, read, fed) \in Nat
<1> DEFINE f == [t \in read |-> Health!CentsOf(amounts[t], t, fed)]
           Made(g) == g = [s \in SUBSET read |->
                              IF s = {} THEN 0
                              ELSE Health!CentsOf(amounts[Pick(s)], Pick(s), fed)
                                   + g[s \ {Pick(s)}]]
<1>1. IsFiniteSet(read)
  <2>1. IsFiniteSet({"USDT", "USDC", "BNB"})
    <3>1. IsFiniteSet({"USDT"}) /\ IsFiniteSet({"USDC"}) /\ IsFiniteSet({"BNB"})
      BY FS_Singleton
    <3>2. IsFiniteSet({"USDT"} \cup {"USDC"})
      BY <3>1, FS_Union
    <3>3. IsFiniteSet(({"USDT"} \cup {"USDC"}) \cup {"BNB"})
      BY <3>1, <3>2, FS_Union
    <3>4. ({"USDT"} \cup {"USDC"}) \cup {"BNB"} = {"USDT", "USDC", "BNB"}
      OBVIOUS
    <3> QED
      BY <3>3, <3>4
  <2> QED
    BY <2>1, FS_Subset, StrategiesAssumption
<1>2. NatValued(f, read)
  <2> SUFFICES ASSUME NEW t \in read PROVE Health!CentsOf(amounts[t], t, fed) \in Nat
    BY DEF NatValued
  <2>1. amounts[t] \in Nat /\ PriceOf[t] \in Nat
    BY StrategiesAssumption
  <2>2. amounts[t] \div 1000 \in Nat
    BY <2>1, FloorBounds
  <2>3. (amounts[t] \div 1000) * PriceOf[t] \in Nat
    BY <2>1, <2>2
  <2> QED
    BY <2>3 DEF Health!CentsOf
<1>3. WorthOf(amounts, read, fed) = (CHOOSE h : Made(h))[read]
  BY Zenon DEF WorthOf, Health!MapThenSumSet, Health!MapThenFoldSet, Pick
<1>4. ASSUME NEW g PROVE Made(g) <=> IsSum(g, f, read)
  <2>1. ASSUME NEW s \in SUBSET read, s # {}
        PROVE  f[Pick(s)] = Health!CentsOf(amounts[Pick(s)], Pick(s), fed)
    BY <2>1 DEF Pick
  <2> QED
    BY <2>1 DEF IsSum, SumStep
<1>5. PICK g \in [SUBSET read -> Nat] : IsSum(g, f, read)
  BY <1>1, <1>2, SumExists
<1> DEFINE c == CHOOSE h : Made(h)
<1>6. IsSum(c, f, read)
  BY <1>4, <1>5
<1>7. c[read] = g[read]
  <2> HIDE DEF c, f
  <2> QED
    BY <1>1, <1>5, <1>6, SumAgrees
<1> QED
  BY <1>3, <1>5, <1>7

LEMMA LendingType ==
  ASSUME NEW account \in Accounts, NEW read \in SUBSET DOMAIN PriceOf, NEW fed
  PROVE  /\ Health!Lending(account, read, fed).collateral \in Nat
         /\ Health!Lending(account, read, fed).debt \in Nat
<1>1. \A t \in DOMAIN PriceOf : account.supply[t] \in Nat /\ account.borrow[t] \in Nat
  BY StrategiesAssumption
<1>2. WorthOf(account.supply, read, fed) \in Nat
  BY <1>1, WorthType
<1>3. WorthOf(account.borrow, read, fed) \in Nat
  BY <1>1, WorthType
<1>4. /\ Health!Lending(account, read, fed).collateral = WorthOf(account.supply, read, fed)
      /\ Health!Lending(account, read, fed).debt = WorthOf(account.borrow, read, fed)
  BY DEF WorthOf, Health!Lending
<1> QED
  BY <1>2, <1>3, <1>4

\* A repayment that is offered is the one the position needs.
LEMMA RepaymentNeeded ==
  ASSUME NEW lending, NEW priced,
         lending.collateral \in Nat, lending.debt \in Nat,
         NEW i \in DOMAIN Health!Candidates(lending, priced),
         Health!Candidates(lending, priced)[i].action = "REPAY"
  PROVE  LET need == Health!RepayNeeded(lending.collateral, lending.debt,
                                        Health!Threshold, Health!SafeTarget)
         IN Health!Candidates(lending, priced)[i].cents = need /\ need # 0
<1> DEFINE need == Health!RepayNeeded(lending.collateral, lending.debt,
                                      Health!Threshold, Health!SafeTarget)
           token == Health!DominantDebt(lending.debts)
           repay == [action |-> "REPAY", cents |-> need, token |-> token,
                     wei |-> IF Health!PriceKnown(token, priced)
                             THEN Health!Wei(need, PriceOf[token]) ELSE None]
           add == [action |-> "ADD_COLLATERAL", cents |-> Health!CollateralNeeded(lending),
                   token |-> None, wei |-> None]
<1>1. repay.action = "REPAY" /\ repay.cents = need /\ add.action = "ADD_COLLATERAL"
  OBVIOUS
<1>2. Health!Repayment(lending, priced) = IF need = 0 THEN <<>> ELSE <<repay>>
  BY DEF Health!Repayment
<1>3. PICK A \in {<<>>, Health!Repayment(lending, priced)}, B \in {<<>>, <<add>>} :
          Health!Candidates(lending, priced) = A \o B
  BY DEF Health!Candidates
<1> DEFINE offers == {add} \cup (IF need = 0 THEN {} ELSE {repay})
<1>4. A \in Seq(offers) /\ B \in Seq(offers)
  <2>1. /\ A = <<>> \/ (A = <<repay>> /\ need # 0)
        /\ B = <<>> \/ B = <<add>>
    <3> HIDE DEF repay, add, need
    <3> QED
      BY <1>2, <1>3
  <2>2. need # 0 => repay \in offers
    <3> HIDE DEF repay, add, need
    <3> QED
      OBVIOUS
  <2>3. add \in offers
    <3> HIDE DEF add
    <3> QED
      OBVIOUS
  <2>4. ASSUME NEW S PROVE <<>> \in Seq(S) /\ \A x \in S : <<x>> \in Seq(S)
    OBVIOUS
  <2>5. <<>> \in Seq(offers) /\ \A x \in offers : <<x>> \in Seq(offers)
    <3> HIDE DEF offers
    <3> QED
      BY <2>4
  <2> HIDE DEF repay, add, need, offers
  <2> QED
    BY <2>1, <2>2, <2>3, <2>5
<1>5. Health!Candidates(lending, priced)[i] \in offers
  <2> HIDE DEF offers
  <2>1. Health!Candidates(lending, priced) \in Seq(offers)
    BY <1>3, <1>4
  <2> QED
    BY <2>1
<1>6. Health!Candidates(lending, priced)[i] = repay /\ need # 0
  <2> HIDE DEF repay, add, need
  <2> QED
    BY <1>1, <1>5
<1> QED
  BY <1>1, <1>6

LEMMA RepayStep == RepayReachesTarget /\ [Next]_vars => RepayReachesTarget'
<1> SUFFICES ASSUME RepayReachesTarget, [Next]_vars PROVE RepayReachesTarget'
  OBVIOUS
<1>1. ASSUME NEW account \in Accounts, NEW read \in SUBSET DOMAIN PriceOf,
             NEW fed, NEW priced, ObserveHealth(account, read, fed, priced)
      PROVE  RepayReachesTarget'
  <2> DEFINE lending == Health!Lending(account, read, fed)
             after(cents) == Health!HealthFactor(lending.collateral, lending.debt - cents,
                                                 Health!Threshold)
  <2>1. obs'.lending = lending /\ obs'.candidates = Health!Candidates(lending, priced)
    BY <1>1 DEF ObserveHealth, Observed
  <2>2. lending.collateral \in Nat /\ lending.debt \in Nat
    BY LendingType
  <2>3. ASSUME NEW i \in DOMAIN Health!Candidates(lending, priced),
               Health!Candidates(lending, priced)[i].action = "REPAY"
        PROVE  /\ after(Health!Candidates(lending, priced)[i].cents) >= Health!SafeTarget
               /\ after(Health!Candidates(lending, priced)[i].cents - 1) < Health!SafeTarget
    <3> DEFINE need == Health!RepayNeeded(lending.collateral, lending.debt,
                                          Health!Threshold, Health!SafeTarget)
    <3>1. Health!Candidates(lending, priced)[i].cents = need /\ need # 0
      <4> HIDE DEF lending
      <4> QED
        BY <2>2, <2>3, RepaymentNeeded
    <3>2. /\ Health!Threshold \in Nat /\ Health!SafeTarget \in Nat \ {0}
          /\ Health!SafeTarget <= Health!NoDebtFactor
      BY BigFactor DEF Health!Threshold, Health!SafeTarget
    <3>3. /\ need \in 0..lending.debt
          /\ need > 0 => after(need) >= Health!SafeTarget /\ after(need - 1) < Health!SafeTarget
      <4> HIDE DEF lending
      <4> QED
        BY <2>2, <3>2, RepayIsExact
    <3> QED
      <4> HIDE DEF lending, need, after
      <4> QED
        BY <2>2, <3>1, <3>3
  <2> QED
    <3> HIDE DEF lending
    <3> QED
      BY <2>1, <2>3 DEF RepayReachesTarget, Offers
<1>2. CASE (type # "health" \/ obs' = Unobserved \/ UNCHANGED obs) /\ UNCHANGED type
  BY <1>2 DEF RepayReachesTarget, Has, Offers
<1>3. \/ \E account \in Accounts, read \in SUBSET DOMAIN PriceOf,
            fed, priced \in SUBSET {"BNB"} : ObserveHealth(account, read, fed, priced)
      \/ (type # "health" \/ obs' = Unobserved \/ UNCHANGED obs) /\ UNCHANGED type
  BY DEF Next, EditTask, ObserveGrid, ObserveLp, ObserveYield, Observed,
         Decide, EndCycle, Land, Lose, vars
<1> QED
  BY <1>1, <1>2, <1>3

\* Whatever the account holds and whichever of its markets could be read, a
\* repayment offered of it reaches a health factor of 2.50, to the cent.
THEOREM RepayReaches == Spec => []RepayReachesTarget
<1>1. Init => RepayReachesTarget
  BY DEF Init, RepayReachesTarget, Has
<1> QED
  BY <1>1, RepayStep, PTL DEF Spec
-----------------------------------------------------------------------------
(* Ranking                                                                 *)
(* An order of S as the set that comes before each of its elements.  An    *)
(* element's rank is how many come before it: fewer than before any later  *)
(* one, so that ranks are all different and all taken.                     *)

IsOrder(S, below) ==
    /\ IsFiniteSet(S) /\ below \in [S -> SUBSET S]
    /\ \A x \in S : x \notin below[x]
    /\ \A x \in S : \A y \in below[x] : below[y] \subseteq below[x]
    /\ \A x, y \in S : x = y \/ x \in below[y] \/ y \in below[x]

RanksAre(ranked, S, below) ==
    /\ ranked \in [1..Cardinality(S) -> S]
    /\ \A n \in 1..Cardinality(S) : Cardinality(below[ranked[n]]) = n - 1

\* Fewer come before an element than there are, and fewer still before those.
LEMMA RankType ==
  ASSUME NEW S, NEW below, IsOrder(S, below), NEW x \in S
  PROVE  /\ IsFiniteSet(below[x])
         /\ Cardinality(below[x]) \in 0..(Cardinality(S) - 1)
         /\ \A y \in below[x] : Cardinality(below[y]) < Cardinality(below[x])
<1>1. below[x] \in SUBSET S /\ x \notin below[x]
  BY DEF IsOrder
<1>2. ASSUME NEW T, IsFiniteSet(T), NEW R \in SUBSET T, NEW e \in T, e \notin R
      PROVE  /\ IsFiniteSet(R) /\ Cardinality(R) \in Nat /\ Cardinality(T) \in Nat
             /\ Cardinality(R) < Cardinality(T)
  <2>1. /\ IsFiniteSet(R) /\ Cardinality(R) <= Cardinality(T)
        /\ Cardinality(T) = Cardinality(R) => T = R
    BY <1>2, FS_Subset
  <2>2. Cardinality(R) \in Nat /\ Cardinality(T) \in Nat
    BY <1>2, <2>1, FS_CardinalityType
  <2>3. T # R
    BY <1>2
  <2> QED
    BY <2>1, <2>2, <2>3
<1>3. /\ IsFiniteSet(below[x]) /\ Cardinality(below[x]) \in Nat
      /\ Cardinality(S) \in Nat /\ Cardinality(below[x]) < Cardinality(S)
  <2>1. IsFiniteSet(S)
    BY DEF IsOrder
  <2> QED
    BY <1>1, <1>2, <2>1
<1>4. ASSUME NEW y \in below[x] PROVE Cardinality(below[y]) < Cardinality(below[x])
  <2>1. below[y] \in SUBSET below[x] /\ y \notin below[y]
    BY <1>1, <1>4 DEF IsOrder
  <2> QED
    BY <1>2, <1>3, <1>4, <2>1
<1> QED
  BY <1>3, <1>4

\* The ranks are as many as the elements and all different: none is left out.
LEMMA RankTaken ==
  ASSUME NEW S, NEW below, IsOrder(S, below), NEW n \in 1..Cardinality(S)
  PROVE  \E x \in S : Cardinality(below[x]) = n - 1
<1> DEFINE rank == [x \in S |-> Cardinality(below[x])]
           top == Cardinality(S) - 1
<1>1. IsFiniteSet(S) /\ Cardinality(S) \in Nat
  BY FS_CardinalityType DEF IsOrder
<1>2. \A x \in S : rank[x] \in 0..top
  BY RankType
<1>3. \A x, y \in S : rank[x] = rank[y] => x = y
  <2> SUFFICES ASSUME NEW x \in S, NEW y \in S, rank[x] = rank[y], x # y PROVE FALSE
    OBVIOUS
  <2>1. x \in below[y] \/ y \in below[x]
    BY DEF IsOrder
  <2>2. x \in below[y] => Cardinality(below[x]) < Cardinality(below[y])
    BY RankType
  <2>3. y \in below[x] => Cardinality(below[y]) < Cardinality(below[x])
    BY RankType
  <2>4. Cardinality(below[x]) \in Int /\ Cardinality(below[y]) \in Int
    BY <1>1, RankType
  <2> QED
    BY <2>1, <2>2, <2>3, <2>4
<1>4. rank \in Injection(S, 0..top)
  <2> HIDE DEF top
  <2> QED
    BY <1>2, <1>3 DEF Injection, IsInjective
<1>5. IsFiniteSet(0..top) /\ Cardinality(0..top) = Cardinality(S)
  <2>1. 0 \in Int /\ top \in Int
    BY <1>1
  <2>2. IsFiniteSet(0..top) /\ Cardinality(0..top) = IF 0 > top THEN 0 ELSE top - 0 + 1
    BY <2>1, FS_Interval
  <2> QED
    BY <1>1, <2>2
<1>6. rank \in Surjection(S, 0..top)
  <2> HIDE DEF rank, top
  <2> QED
    BY <1>4, <1>5, FS_Injection
<1>7. n - 1 \in 0..top
  BY <1>1
<1>8. PICK x \in S : rank[x] = n - 1
  <2> HIDE DEF rank, top
  <2> QED
    BY <1>6, <1>7 DEF Surjection
<1> QED
  BY <1>8

\* The ranked sequence is of all the elements, each after those below it.
LEMMA RankedInOrder ==
  ASSUME NEW S, NEW below, IsOrder(S, below), NEW ranked, RanksAre(ranked, S, below)
  PROVE  /\ Cardinality(S) \in Nat
         /\ \A x \in S : \E n \in 1..Cardinality(S) : ranked[n] = x
         /\ \A i, j \in 1..Cardinality(S) : i < j => ranked[i] \in below[ranked[j]]
<1> DEFINE N == Cardinality(S)
           rank(x) == Cardinality(below[x])
<1>1. N \in Nat
  BY FS_CardinalityType DEF IsOrder
<1>2. ASSUME NEW n \in 1..N PROVE ranked[n] \in S /\ rank(ranked[n]) = n - 1
  BY DEF RanksAre
<1>3. \A x, y \in S : rank(x) <= rank(y) => x = y \/ x \in below[y]
  <2> SUFFICES ASSUME NEW x \in S, NEW y \in S, rank(x) <= rank(y), y \in below[x] PROVE FALSE
    BY DEF IsOrder
  <2>1. rank(y) < rank(x)
    BY RankType
  <2>2. rank(x) \in Int /\ rank(y) \in Int
    BY <1>1, RankType
  <2> QED
    BY <2>1, <2>2
<1>5. ASSUME NEW x \in S PROVE \E n \in 1..N : ranked[n] = x
  <2>1. rank(x) \in 0..(N - 1)
    BY RankType
  <2>2. PICK m \in 1..N : m - 1 = rank(x)
    <3>1. \A r \in 0..(N - 1) : r + 1 \in 1..N /\ r + 1 - 1 = r
      BY <1>1
    <3> HIDE DEF rank
    <3> QED
      BY <2>1, <3>1
  <2>3. PICK y \in S : y = ranked[m] /\ rank(y) = rank(x)
    BY <1>2, <2>2
  <2>4. x \notin below[y]
    BY <2>1, <2>3, RankType
  <2>5. x = y
    BY <1>3, <2>1, <2>3, <2>4
  <2> QED
    BY <2>3, <2>5
<1>6. ASSUME NEW i \in 1..N, NEW j \in 1..N, i < j PROVE ranked[i] \in below[ranked[j]]
  <2>1. /\ ranked[i] \in S /\ rank(ranked[i]) = i - 1
        /\ ranked[j] \in S /\ rank(ranked[j]) = j - 1
    BY <1>2
  <2>2. rank(ranked[i]) <= rank(ranked[j]) /\ rank(ranked[i]) # rank(ranked[j])
    BY <1>1, <1>6, <2>1
  <2> HIDE DEF rank
  <2> QED
    BY <1>3, <2>1, <2>2
<1> QED
  BY <1>1, <1>5, <1>6
-----------------------------------------------------------------------------
(* The order of the opportunities                                          *)

\* The four figures two opportunities are compared by, one after the other.
Key(o) == <<-Yield!Effective(o), -o.tvl, Yield!Place(o.protocol), Yield!Place(o.asset)>>

FirstLess(s, t) ==
    \/ s[1] < t[1]
    \/ s[1] = t[1] /\ s[2] < t[2]
    \/ s[1] = t[1] /\ s[2] = t[2] /\ s[3] < t[3]
    \/ s[1] = t[1] /\ s[2] = t[2] /\ s[3] = t[3] /\ s[4] < t[4]

\* The figures are compared at the first place where they differ.
LEMMA FirstDifference ==
  ASSUME NEW s, NEW t, \A i \in 1..4 : s[i] \in Int /\ t[i] \in Int
  PROVE  (LET first == {i \in 1..4 : s[i] # t[i]} IN
          \E i \in first : (\A j \in first : i <= j) /\ s[i] < t[i]) <=> FirstLess(s, t)
<1>1. 1..4 = {1, 2, 3, 4}
  OBVIOUS
<1>2. /\ s[1] \in Int /\ s[2] \in Int /\ s[3] \in Int /\ s[4] \in Int
      /\ t[1] \in Int /\ t[2] \in Int /\ t[3] \in Int /\ t[4] \in Int
  OBVIOUS
<1> QED
  BY <1>1, <1>2 DEF FirstLess

LEMMA BeforeIsFirstLess ==
  ASSUME NEW a, NEW b, \A i \in 1..4 : Key(a)[i] \in Int /\ Key(b)[i] \in Int
  PROVE  Yield!Before(a, b) <=> FirstLess(Key(a), Key(b))
<1>1. Yield!Before(a, b) <=>
          LET first == {i \in 1..4 : Key(a)[i] # Key(b)[i]} IN
          \E i \in first : (\A j \in first : i <= j) /\ Key(a)[i] < Key(b)[i]
  BY DEF Yield!Before, Key
<1> QED
  BY <1>1, FirstDifference

\* What the market's adapter says of each opportunity.
IsMarket(market) ==
    /\ IsFiniteSet(market)
    /\ \A o \in market : /\ \A i \in 1..4 : Key(o)[i] \in Int
                         /\ Yield!Effective(o) \in Int /\ o.risk \in RiskLevels
    /\ \A a, b \in market : Key(a)[3] = Key(b)[3] /\ Key(a)[4] = Key(b)[4] => a = b

\* A name of the alphabet has its place there, and no other name has it.
LEMMA PlaceFound ==
  ASSUME NEW name \in Range(Alphabet)
  PROVE  Yield!Place(name) \in Int /\ Alphabet[Yield!Place(name)] = name
<1>1. \E i \in DOMAIN Alphabet : Alphabet[i] = name
  BY DEF Range
<1>2. Yield!Place(name) \in DOMAIN Alphabet /\ Alphabet[Yield!Place(name)] = name
  BY <1>1 DEF Yield!Place
<1>3. DOMAIN Alphabet \subseteq Nat
  BY MarketsAssumption, Zenon
<1> QED
  BY <1>2, <1>3

\* A market that is read is of that form: the assumptions on the constants, by the
\* figures that are compared.
LEMMA MarketRead ==
  ASSUME NEW market \in Markets
  PROVE  IsMarket(market)
<1>1. /\ IsFiniteSet(market)
      /\ \A o \in market : /\ o.apy \in Int /\ o.tvl \in Int /\ o.risk \in RiskLevels
                           /\ {o.protocol, o.asset} \subseteq Range(Alphabet)
      /\ \A a, b \in market : a.protocol = b.protocol /\ a.asset = b.asset => a = b
  BY MarketsAssumption, Zenon
<1>2. ASSUME NEW o \in market
      PROVE  /\ Yield!Effective(o) \in Int /\ o.tvl \in Int
             /\ Yield!Place(o.protocol) \in Int /\ Yield!Place(o.asset) \in Int
             /\ Alphabet[Yield!Place(o.protocol)] = o.protocol
             /\ Alphabet[Yield!Place(o.asset)] = o.asset
  <2>1. o.apy \in Int /\ o.risk \in RiskLevels
    BY <1>1
  <2>2. Yield!RiskAdjustment[o.risk] \in Int
    BY <2>1 DEF RiskLevels, Yield!RiskAdjustment
  <2>3. Yield!Effective(o) \in Int
    BY <2>1, <2>2 DEF Yield!Effective, Yield!Costs
  <2>4. o.protocol \in Range(Alphabet) /\ o.asset \in Range(Alphabet)
    BY <1>1
  <2> QED
    BY <1>1, <2>3, <2>4, PlaceFound
<1>3. ASSUME NEW o PROVE /\ Key(o)[1] = -Yield!Effective(o) /\ Key(o)[2] = -o.tvl
                         /\ Key(o)[3] = Yield!Place(o.protocol)
                         /\ Key(o)[4] = Yield!Place(o.asset)
  BY DEF Key
<1>4. ASSUME NEW o \in market PROVE \A i \in 1..4 : Key(o)[i] \in Int
  <2>1. Key(o)[1] \in Int /\ Key(o)[2] \in Int /\ Key(o)[3] \in Int /\ Key(o)[4] \in Int
    BY <1>2, <1>3
  <2>2. 1..4 = {1, 2, 3, 4}
    OBVIOUS
  <2> QED
    BY <2>1, <2>2
<1>5. \A a, b \in market : Key(a)[3] = Key(b)[3] /\ Key(a)[4] = Key(b)[4] => a = b
  BY <1>1, <1>2, <1>3
<1> QED
  BY <1>1, <1>2, <1>4, <1>5 DEF IsMarket

\* Of any opportunities of a market Before is an order.
BestFirst(S) == [x \in S |-> {y \in S : Yield!Before(y, x)}]

LEMMA BestFirstIsOrder ==
  ASSUME NEW market, IsMarket(market), NEW S \in SUBSET market
  PROVE  IsOrder(S, BestFirst(S))
<1> DEFINE below == BestFirst(S)
<1>1. ASSUME NEW x \in S
      PROVE  /\ x \in market
             /\ Key(x)[1] \in Int /\ Key(x)[2] \in Int /\ Key(x)[3] \in Int /\ Key(x)[4] \in Int
             /\ \A i \in 1..4 : Key(x)[i] \in Int
  BY <1>1 DEF IsMarket
<1>2. ASSUME NEW x \in S, NEW y \in S
      PROVE  y \in below[x] <=> FirstLess(Key(y), Key(x))
  BY <1>1, BeforeIsFirstLess DEF BestFirst
<1>3. IsFiniteSet(S)
  BY FS_Subset DEF IsMarket
<1>4. below \in [S -> SUBSET S]
  BY DEF BestFirst
<1> HIDE DEF below
<1>5. ASSUME NEW x \in S PROVE x \notin below[x]
  BY <1>1, <1>2 DEF FirstLess
<1>6. ASSUME NEW x \in S, NEW y \in below[x] PROVE below[y] \subseteq below[x]
  <2> SUFFICES ASSUME NEW z \in below[y] PROVE z \in below[x]
    OBVIOUS
  <2>1. y \in S /\ z \in S
    BY <1>4
  <2>2. FirstLess(Key(z), Key(y)) /\ FirstLess(Key(y), Key(x))
    BY <1>2, <1>6, <2>1
  <2>3. FirstLess(Key(z), Key(x))
    BY <1>1, <2>1, <2>2 DEF FirstLess
  <2> QED
    BY <1>2, <2>1, <2>3
<1>7. ASSUME NEW x \in S, NEW y \in S PROVE x = y \/ x \in below[y] \/ y \in below[x]
  <2>1. \/ FirstLess(Key(x), Key(y)) \/ FirstLess(Key(y), Key(x))
        \/ Key(x)[3] = Key(y)[3] /\ Key(x)[4] = Key(y)[4]
    BY <1>1 DEF FirstLess
  <2> QED
    BY <1>1, <1>2, <2>1 DEF IsMarket
<1> QED
  BY <1>3, <1>4, <1>5, <1>6, <1>7 DEF IsOrder, below

-----------------------------------------------------------------------------
(* What the model is shown of a market                                     *)

Fit(market, agentRisk) ==
    {o \in market : o.risk \in Yield!Compatible[agentRisk] /\ Yield!Effective(o) > 0}

\* An instance counts as its module does.
LEMMA SameCardinality ==
  ASSUME NEW S
  PROVE  Yield!Cardinality(S) = Cardinality(S) /\ Lp!Cardinality(S) = Cardinality(S)
  BY Zenon DEF Cardinality, Yield!Cardinality, Lp!Cardinality

\* The candidates are the first three of what fits, in that order.
LEMMA CandidatesAreRanked ==
  ASSUME NEW market, IsMarket(market), NEW agentRisk
  PROVE  LET fit == Fit(market, agentRisk)
             ranked == Yield!Ranked(fit, Yield!Before) IN
         /\ RanksAre(ranked, fit, BestFirst(fit))
         /\ Yield!Candidates(market, agentRisk)
                = SubSeq(ranked, 1, IF Len(ranked) < 3 THEN Len(ranked) ELSE 3)
<1> DEFINE fit == Fit(market, agentRisk)
           ranked == Yield!Ranked(fit, Yield!Before)
           below == BestFirst(fit)
<1>1. IsOrder(fit, below)
  BY BestFirstIsOrder DEF Fit
<1>2. \A x \in fit : below[x] = {y \in fit : Yield!Before(y, x)}
  BY DEF BestFirst
<1>3. ranked = [n \in 1..Yield!Cardinality(fit) |->
                   CHOOSE x \in fit :
                       Yield!Cardinality({y \in fit : Yield!Before(y, x)}) = n - 1]
  BY DEF Yield!Ranked
<1>4. ASSUME NEW n \in 1..Cardinality(fit)
      PROVE  ranked[n] \in fit /\ Cardinality(below[ranked[n]]) = n - 1
  <2> DEFINE At(x) == Yield!Cardinality({y \in fit : Yield!Before(y, x)}) = n - 1
  <2>1. ranked[n] = CHOOSE x \in fit : At(x)
    BY <1>3, SameCardinality
  <2>2. \A x \in fit : At(x) <=> Cardinality(below[x]) = n - 1
    BY <1>2, SameCardinality
  <2>3. PICK x \in fit : Cardinality(below[x]) = n - 1
    <3> HIDE DEF fit, below
    <3> QED
      BY <1>1, RankTaken
  <2> HIDE DEF At, fit, below, ranked
  <2> QED
    BY <2>1, <2>2, <2>3
<1>5. ranked \in [1..Cardinality(fit) -> fit]
  <2> HIDE DEF fit
  <2>1. DOMAIN ranked = 1..Cardinality(fit)
    BY <1>3, SameCardinality
  <2>2. ranked = [n \in DOMAIN ranked |-> ranked[n]]
    BY <1>3
  <2> HIDE DEF ranked
  <2> QED
    BY <1>4, <2>1, <2>2
<1>6. Yield!Candidates(market, agentRisk)
          = SubSeq(ranked, 1, IF Len(ranked) < 3 THEN Len(ranked) ELSE 3)
  BY DEF Yield!Candidates, Yield!TopN, Fit
<1> QED
  BY <1>4, <1>5, <1>6 DEF RanksAre
\* No more than three are shown, of those that fit, the best first, and one that
\* fits and is not shown is worth no more than each of those that are.
Shown(offers, fit) ==
    /\ offers \in Seq(fit) /\ Len(offers) <= 3
    /\ fit # {} => offers # <<>>
    /\ \A i, j \in DOMAIN offers :
          i < j => Yield!Effective(offers[i]) >= Yield!Effective(offers[j])
    /\ \A o \in fit \ {offers[i] : i \in DOMAIN offers} : \A j \in DOMAIN offers :
          Yield!Effective(o) <= Yield!Effective(offers[j])

LEMMA CandidatesShown ==
  ASSUME NEW market, IsMarket(market), NEW agentRisk
  PROVE  Shown(Yield!Candidates(market, agentRisk), Fit(market, agentRisk))
<1> DEFINE fit == Fit(market, agentRisk)
           ranked == Yield!Ranked(fit, Yield!Before)
           N == Cardinality(fit)
           k == IF N < 3 THEN N ELSE 3
           offers == Yield!Candidates(market, agentRisk)
           worth(o) == Yield!Effective(o)
<1>1. fit \in SUBSET market
  BY DEF Fit
<1>2. IsOrder(fit, BestFirst(fit)) /\ RanksAre(ranked, fit, BestFirst(fit))
  BY <1>1, BestFirstIsOrder, CandidatesAreRanked
<1>3. offers = SubSeq(ranked, 1, IF Len(ranked) < 3 THEN Len(ranked) ELSE 3)
  BY CandidatesAreRanked
<1> HIDE DEF fit, ranked, offers
<1>4. /\ N \in Nat /\ ranked \in [1..N -> fit]
      /\ \A x \in fit : \E n \in 1..N : ranked[n] = x
      /\ \A i, j \in 1..N : i < j => ranked[i] \in BestFirst(fit)[ranked[j]]
  <2> DEFINE below == BestFirst(fit)
  <2>1. IsOrder(fit, below) /\ RanksAre(ranked, fit, below)
    BY <1>2
  <2> HIDE DEF below
  <2>2. /\ N \in Nat
        /\ \A x \in fit : \E n \in 1..N : ranked[n] = x
        /\ \A i, j \in 1..N : i < j => ranked[i] \in below[ranked[j]]
    BY <2>1, RankedInOrder
  <2> QED
    BY <2>1, <2>2 DEF RanksAre, below
<1>5. \A x \in fit : worth(x) \in Int
  BY <1>1 DEF IsMarket
<1>6. ASSUME NEW x \in fit, NEW y \in BestFirst(fit)[x] PROVE worth(x) <= worth(y)
  <2>1. y \in fit /\ Yield!Before(y, x)
    BY <1>6 DEF BestFirst
  <2>2. \A i \in 1..4 : Key(x)[i] \in Int /\ Key(y)[i] \in Int
    BY <1>1, <2>1 DEF IsMarket
  <2>3. FirstLess(Key(y), Key(x))
    BY <2>1, <2>2, BeforeIsFirstLess
  <2>4. Key(y)[1] <= Key(x)[1]
    BY <2>2, <2>3 DEF FirstLess
  <2>5. Key(y)[1] = -worth(y) /\ Key(x)[1] = -worth(x)
    BY DEF Key
  <2> QED
    BY <1>5, <2>1, <2>4, <2>5
<1> HIDE DEF N
<1>7. \A i, j \in 1..N : i < j => worth(ranked[j]) <= worth(ranked[i])
  BY <1>4, <1>6
<1> HIDE DEF worth
<1>8. ranked \in Seq(fit) /\ Len(ranked) = N
  BY <1>4
<1>9. k \in 0..N /\ k <= 3
  BY <1>4
<1>10. offers = SubSeq(ranked, 1, k)
  BY <1>3, <1>8
<1> HIDE DEF k
<1>11. /\ offers \in Seq(fit) /\ Len(offers) = k /\ DOMAIN offers = 1..k
       /\ \A i \in 1..k : offers[i] = ranked[i]
  BY <1>4, <1>8, <1>9, <1>10
<1>12. fit # {} => offers # <<>>
  <2> SUFFICES ASSUME fit # {} PROVE k # 0
    BY <1>11
  <2>1. N # 0
    BY <1>4
  <2> QED
    BY <1>4, <2>1 DEF k
<1>13. \A i, j \in DOMAIN offers : i < j => worth(offers[j]) <= worth(offers[i])
  BY <1>4, <1>7, <1>9, <1>11
<1>14. ASSUME NEW o \in fit \ {offers[i] : i \in DOMAIN offers}, NEW j \in DOMAIN offers
       PROVE  worth(o) <= worth(offers[j])
  <2>1. PICK n \in 1..N : ranked[n] = o
    BY <1>4
  <2>2. n \notin 1..k
    BY <1>11, <2>1
  <2>3. j < n /\ j \in 1..N
    BY <1>4, <1>9, <1>11, <2>2
  <2> QED
    BY <1>7, <1>11, <2>1, <2>3
<1>15. \A i \in DOMAIN offers : worth(offers[i]) \in Int
  BY <1>5, <1>11 DEF worth
<1> QED
  BY <1>9, <1>11, <1>12, <1>13, <1>14, <1>15 DEF Shown, offers, fit, worth
-----------------------------------------------------------------------------
(* The ranges of a pool                                                    *)

LEMMA QuotientType == \A n \in Int, m \in Nat \ {0} : n \div m \in Int
  OBVIOUS

\* Every fee tier has a spacing.
LEMMA SpacingType == ASSUME NEW fee \in Int PROVE Lp!TickSpacing(fee) \in Nat \ {0}
  BY DEF Lp!TickSpacing

\* A pool, and a position or none, as the adapter reports them.
LEMMA PoolRead ==
  ASSUME NEW pool \in Pools, NEW position \in LpPositions
  PROVE  /\ pool.tick \in Int /\ pool.fee \in Int /\ pool.liquidity \in Int
         /\ pool.volume \in Nat \cup {None} /\ pool.gas \in Int \cup {None}
         /\ position # None => position.liquidity \in Int
<1>1. /\ pool.tick \in Int /\ pool.fee \in Int /\ pool.liquidity \in Int
      /\ pool.volume \in Nat \cup {None} /\ pool.gas \in Int \cup {None}
  BY LpAssumption, Zenon
<1>2. \A p \in LpPositions \ {None} : p.liquidity \in Int
  BY LpAssumption, Zenon
<1> QED
  BY <1>1, <1>2

\* With a gas figure what a range is worth is a number of cents.
LEMMA NetProfitType ==
  ASSUME NEW pool \in Pools, NEW position \in LpPositions, NEW width \in Nat \ {0},
         pool.gas # None
  PROVE  Lp!NetProfit(pool, position, width) \in Int
<1> DEFINE held == IF position = None THEN pool.liquidity ELSE position.liquidity
<1>1. /\ pool.fee \in Int /\ pool.liquidity \in Int /\ held \in Int
      /\ pool.volume \in Nat \cup {None} /\ pool.gas \in Int
  BY PoolRead
<1> HIDE DEF held
<1>2. Lp!Fees(pool, position, width) \in Int
  <2>1. CASE pool.volume = None \/ pool.liquidity <= 0
    BY <2>1 DEF Lp!Fees
  <2>2. CASE ~(pool.volume = None \/ pool.liquidity <= 0)
    <3>1. pool.volume \in Int /\ pool.liquidity \in Nat \ {0}
      BY <1>1, <2>2
    <3>2. pool.fee * pool.volume * held \in Int
      <4>1. \A a, b, c \in Int : a * b * c \in Int
        OBVIOUS
      <4> QED
        BY <1>1, <3>1, <4>1
    <3>3. width * pool.liquidity * 10000 \in Nat \ {0}
      <4>1. \A a, b \in Nat \ {0} : a * b * 10000 \in Nat \ {0}
        OBVIOUS
      <4> QED
        BY <3>1, <4>1
    <3>4. Lp!Fees(pool, position, width)
              = (pool.fee * pool.volume * held) \div (width * pool.liquidity * 10000)
      BY <2>2 DEF Lp!Fees, held
    <3> QED
      BY <3>2, <3>3, <3>4, QuotientType
  <2> QED
    BY <2>1, <2>2
<1>3. 1000 \div width \in Int
  BY QuotientType
<1>4. Lp!Risk(pool, width).cents \in Int
  BY DEF Lp!Risk
<1> QED
  BY <1>1, <1>2, <1>3, <1>4 DEF Lp!NetProfit

\* Four ranges, each wider than the one before.
RangeOf(center, spacing, reach) ==
    [lower |-> center - reach * spacing, upper |-> center + reach * spacing]

LEMMA RangeWidth ==
  ASSUME NEW tick \in Int, NEW spacing \in Nat \ {0}
  PROVE  \E center \in Int :
            /\ Lp!Ranges(tick, spacing) = {RangeOf(center, spacing, r) : r \in {1, 2, 4, 10}}
            /\ \A r \in {1, 2, 4, 10} :
                  /\ RangeOf(center, spacing, r).lower \in Int
                  /\ RangeOf(center, spacing, r).upper \in Int
                  /\ Lp!Width(RangeOf(center, spacing, r)) = 2 * r * spacing
<1> DEFINE center == Lp!AlignDown(tick, spacing)
<1>1. center \in Int
  BY DEF Lp!AlignDown
<1>2. Lp!Ranges(tick, spacing) = {RangeOf(center, spacing, r) : r \in {1, 2, 4, 10}}
  BY DEF Lp!Ranges, RangeOf
<1> HIDE DEF center
<1>3. ASSUME NEW r \in {1, 2, 4, 10}
      PROVE  /\ RangeOf(center, spacing, r).lower \in Int
             /\ RangeOf(center, spacing, r).upper \in Int
             /\ Lp!Width(RangeOf(center, spacing, r)) = 2 * r * spacing
  <2>1. \A c, s \in Int : /\ c - r * s \in Int /\ c + r * s \in Int
                          /\ (c + r * s) - (c - r * s) = 2 * r * s
    OBVIOUS
  <2>2. /\ RangeOf(center, spacing, r).lower = center - r * spacing
        /\ RangeOf(center, spacing, r).upper = center + r * spacing
    BY DEF RangeOf
  <2> QED
    BY <1>1, <2>1, <2>2 DEF Lp!Width
<1> QED
  BY <1>1, <1>2, <1>3

\* A set named by four expressions has four elements at most.
LEMMA FourAtMost ==
  ASSUME NEW a, NEW b, NEW c, NEW d, NEW S \in SUBSET {a, b, c, d}
  PROVE  IsFiniteSet(S) /\ Cardinality(S) \in 0..4
<1>1. /\ IsFiniteSet({}) /\ Cardinality({}) = 0
  BY FS_EmptySet
<1>2. IsFiniteSet({} \cup {a}) /\ Cardinality({} \cup {a}) \in 0..1
  BY <1>1, FS_AddElement
<1>3. IsFiniteSet({} \cup {a} \cup {b}) /\ Cardinality({} \cup {a} \cup {b}) \in 0..2
  BY <1>2, FS_AddElement
<1>4. IsFiniteSet({} \cup {a} \cup {b} \cup {c}) /\ Cardinality({} \cup {a} \cup {b} \cup {c}) \in 0..3
  BY <1>3, FS_AddElement
<1>5. /\ IsFiniteSet({} \cup {a} \cup {b} \cup {c} \cup {d})
      /\ Cardinality({} \cup {a} \cup {b} \cup {c} \cup {d}) \in 0..4
  BY <1>4, FS_AddElement
<1>6. {} \cup {a} \cup {b} \cup {c} \cup {d} = {a, b, c, d}
  OBVIOUS
<1>7. IsFiniteSet({a, b, c, d}) /\ Cardinality({a, b, c, d}) \in 0..4
  BY <1>5, <1>6
<1>8. IsFiniteSet(S) /\ Cardinality(S) <= Cardinality({a, b, c, d})
  BY <1>7, FS_Subset
<1>9. Cardinality(S) \in Nat
  BY <1>8, FS_CardinalityType
<1> QED
  BY <1>7, <1>8, <1>9

\* The offers of ranges: four at most, none of them a removal, no two of the same
\* width.
LEMMA RangeOffersParts ==
  ASSUME NEW pool \in Pools, NEW position \in LpPositions
  PROVE  LET offers == Lp!RangeOffers(pool, position) IN
         /\ IsFiniteSet(offers) /\ Cardinality(offers) \in 0..4
         /\ \A o \in offers : o.net \in Int /\ Lp!Width(o) \in Int /\ o.action # "REMOVE"
         /\ \A a, b \in offers : Lp!Width(a) = Lp!Width(b) => a = b
<1> DEFINE offers == Lp!RangeOffers(pool, position)
           action == IF position = None THEN "CREATE" ELSE "REPOSITION"
           spacing == Lp!TickSpacing(pool.fee)
           made(range) == Lp!Offer(action, pool, range, Lp!NetProfit(pool, position, Lp!Width(range)))
<1>1. pool.tick \in Int /\ pool.fee \in Int
  BY PoolRead
<1>2. spacing \in Nat \ {0}
  BY <1>1, SpacingType
<1>3. offers = {made(range) : range \in {r \in Lp!Ranges(pool.tick, spacing) :
                                             Lp!Worthwhile(pool, position, r)}}
  BY DEF Lp!RangeOffers
<1>4. ASSUME NEW range
      PROVE  /\ made(range).action = action /\ made(range).net = Lp!NetProfit(pool, position, Lp!Width(range))
             /\ Lp!Width(made(range)) = Lp!Width(range)
  BY DEF Lp!Offer, Lp!Width
<1>5. action # "REMOVE"
  OBVIOUS
<1> HIDE DEF spacing, offers, action, made
<1>6. PICK center \in Int :
         /\ Lp!Ranges(pool.tick, spacing) = {RangeOf(center, spacing, r) : r \in {1, 2, 4, 10}}
         /\ \A r \in {1, 2, 4, 10} :
               /\ RangeOf(center, spacing, r).lower \in Int
               /\ RangeOf(center, spacing, r).upper \in Int
               /\ Lp!Width(RangeOf(center, spacing, r)) = 2 * r * spacing
  BY <1>1, <1>2, RangeWidth
<1> DEFINE nth(r) == made(RangeOf(center, spacing, r))
<1>7. ASSUME NEW o \in offers
      PROVE  \E r \in {1, 2, 4, 10} : o = nth(r) /\ Lp!Worthwhile(pool, position, RangeOf(center, spacing, r))
  BY <1>3, <1>6
<1>8. offers \subseteq {nth(1), nth(2), nth(4), nth(10)}
  <2> HIDE DEF nth
  <2> QED
    BY <1>7
<1>9. IsFiniteSet(offers) /\ Cardinality(offers) \in 0..4
  <2> HIDE DEF nth
  <2> QED
    BY <1>8, FourAtMost
<1>10. ASSUME NEW r \in {1, 2, 4, 10}
       PROVE  /\ nth(r).action # "REMOVE" /\ Lp!Width(nth(r)) = 2 * r * spacing
              /\ nth(r).net = Lp!NetProfit(pool, position, 2 * r * spacing)
  BY <1>4, <1>5, <1>6
<1>11. ASSUME NEW r \in {1, 2, 4, 10} PROVE 2 * r * spacing \in Nat \ {0}
  BY <1>2
<1>12. ASSUME NEW o \in offers
       PROVE  o.net \in Int /\ Lp!Width(o) \in Int /\ o.action # "REMOVE"
  <2>1. PICK r \in {1, 2, 4, 10} :
            o = nth(r) /\ Lp!Worthwhile(pool, position, RangeOf(center, spacing, r))
    BY <1>7
  <2>2. pool.gas # None
    BY <2>1 DEF Lp!Worthwhile
  <2> HIDE DEF nth
  <2> QED
    BY <1>10, <1>11, <2>1, <2>2, NetProfitType
<1>13. ASSUME NEW a \in offers, NEW b \in offers, Lp!Width(a) = Lp!Width(b) PROVE a = b
  <2>1. PICK r \in {1, 2, 4, 10}, s \in {1, 2, 4, 10} : a = nth(r) /\ b = nth(s)
    BY <1>7
  <2> HIDE DEF nth
  <2>2. 2 * r * spacing = 2 * s * spacing
    BY <1>10, <1>13, <2>1
  <2>3. r = s
    BY <1>2, <2>2
  <2> QED
    BY <2>1, <2>3
<1> QED
  BY <1>9, <1>12, <1>13 DEF offers
\* Of such offers Better is an order.
Preferred(S) == [x \in S |-> {y \in S : Lp!Better(y, x)}]

LEMMA PreferredIsOrder ==
  ASSUME NEW S, IsFiniteSet(S), \A o \in S : o.net \in Int /\ Lp!Width(o) \in Int,
         \A a, b \in S : Lp!Width(a) = Lp!Width(b) => a = b
  PROVE  IsOrder(S, Preferred(S))
<1> DEFINE below == Preferred(S)
<1>1. ASSUME NEW x \in S, NEW y \in S PROVE y \in below[x] <=> Lp!Better(y, x)
  BY DEF Preferred
<1>2. below \in [S -> SUBSET S]
  BY DEF Preferred
<1> HIDE DEF below
<1>3. ASSUME NEW x \in S PROVE x \notin below[x]
  BY <1>1 DEF Lp!Better
<1>4. ASSUME NEW x \in S, NEW y \in below[x] PROVE below[y] \subseteq below[x]
  <2> SUFFICES ASSUME NEW z \in below[y] PROVE z \in below[x]
    OBVIOUS
  <2>1. y \in S /\ z \in S
    BY <1>2
  <2>2. Lp!Better(z, y) /\ Lp!Better(y, x)
    BY <1>1, <1>4, <2>1
  <2>3. Lp!Better(z, x)
    BY <2>1, <2>2 DEF Lp!Better
  <2> QED
    BY <1>1, <2>1, <2>3
<1>5. ASSUME NEW x \in S, NEW y \in S PROVE x = y \/ x \in below[y] \/ y \in below[x]
  BY <1>1 DEF Lp!Better
<1> QED
  BY <1>2, <1>3, <1>4, <1>5 DEF IsOrder, below

\* The offers of ranges are the sequence of that order.
LEMMA RebalancesRanked ==
  ASSUME NEW pool \in Pools, NEW position \in LpPositions
  PROVE  LET S == Lp!RangeOffers(pool, position)
             ranked == Lp!Rebalances(pool, position) IN
         /\ IsOrder(S, Preferred(S)) /\ RanksAre(ranked, S, Preferred(S))
         /\ ranked \in Seq(S) /\ Len(ranked) = Cardinality(S) /\ Len(ranked) \in 0..4
<1> DEFINE S == Lp!RangeOffers(pool, position)
           ranked == Lp!Rebalances(pool, position)
           below == Preferred(S)
<1>1. IsFiniteSet(S) /\ Cardinality(S) \in 0..4 /\ IsOrder(S, below)
  <2> HIDE DEF S
  <2>1. /\ IsFiniteSet(S) /\ Cardinality(S) \in 0..4
        /\ \A o \in S : o.net \in Int /\ Lp!Width(o) \in Int
        /\ \A a, b \in S : Lp!Width(a) = Lp!Width(b) => a = b
    BY RangeOffersParts DEF S
  <2> QED
    BY <2>1, PreferredIsOrder
<1>2. \A x \in S : below[x] = {y \in S : Lp!Better(y, x)}
  BY DEF Preferred
<1> DEFINE nth(n) == CHOOSE x \in S : Lp!Cardinality({y \in S : Lp!Better(y, x)}) = n - 1
<1>3. ranked = [n \in 1..Lp!Cardinality(S) |-> nth(n)]
  BY DEF Lp!Rebalances, Lp!Ranked
<1> HIDE DEF S, below, ranked, nth
<1>4. ASSUME NEW n \in 1..Cardinality(S)
      PROVE  ranked[n] \in S /\ Cardinality(below[ranked[n]]) = n - 1
  <2> DEFINE At(x) == Lp!Cardinality({y \in S : Lp!Better(y, x)}) = n - 1
  <2>1. ranked[n] = CHOOSE x \in S : At(x)
    BY <1>3, SameCardinality DEF nth
  <2>2. \A x \in S : At(x) <=> Cardinality(below[x]) = n - 1
    BY <1>2, SameCardinality
  <2>3. PICK x \in S : Cardinality(below[x]) = n - 1
    BY <1>1, RankTaken
  <2> HIDE DEF At
  <2> QED
    BY <2>1, <2>2, <2>3
<1>5. ranked \in [1..Cardinality(S) -> S]
  <2>1. DOMAIN ranked = 1..Cardinality(S)
    BY <1>3, SameCardinality
  <2>2. ranked = [n \in DOMAIN ranked |-> ranked[n]]
    BY <1>3
  <2> QED
    BY <1>4, <2>1, <2>2
<1>6. ranked \in Seq(S) /\ Len(ranked) = Cardinality(S)
  BY <1>1, <1>5
<1>7. RanksAre(ranked, S, below)
  BY <1>4, <1>5 DEF RanksAre
<1> QED
  BY <1>1, <1>6, <1>7 DEF ranked, S, below

\* The ranges offered are all those whose gas is known and that are no known loss,
\* the most profitable first.
THEOREM RangesBestFirst ==
  ASSUME NEW pool \in Pools, NEW position \in LpPositions
  PROVE  LET offers == Lp!Rebalances(pool, position) IN
         /\ {offers[i] : i \in DOMAIN offers} = Lp!RangeOffers(pool, position)
         /\ \A i, j \in DOMAIN offers : i < j => offers[i].net >= offers[j].net
<1> DEFINE S == Lp!RangeOffers(pool, position)
           ranked == Lp!Rebalances(pool, position)
           below == Preferred(S)
           N == Cardinality(S)
<1>1. /\ IsOrder(S, below) /\ RanksAre(ranked, S, below)
      /\ ranked \in Seq(S) /\ Len(ranked) = N
  BY RebalancesRanked
<1>2. \A o \in S : o.net \in Int
  BY RangeOffersParts
<1>3. ASSUME NEW x \in S, NEW y \in below[x] PROVE y \in S /\ Lp!Better(y, x)
  BY <1>3 DEF Preferred
<1> HIDE DEF S, ranked, below
<1>4. /\ N \in Nat
      /\ \A x \in S : \E n \in 1..N : ranked[n] = x
      /\ \A i, j \in 1..N : i < j => ranked[i] \in below[ranked[j]]
  BY <1>1, RankedInOrder
<1>5. DOMAIN ranked = 1..N /\ \A i \in 1..N : ranked[i] \in S
  BY <1>1
<1> HIDE DEF N
<1>6. {ranked[i] : i \in DOMAIN ranked} = S
  BY <1>4, <1>5
<1>7. ASSUME NEW i \in DOMAIN ranked, NEW j \in DOMAIN ranked, i < j
      PROVE  ranked[i].net >= ranked[j].net
  <2>1. ranked[i] \in S /\ ranked[j] \in S /\ Lp!Better(ranked[i], ranked[j])
    BY <1>3, <1>4, <1>5, <1>7
  <2> QED
    BY <1>2, <2>1 DEF Lp!Better
<1> QED
  BY <1>6, <1>7 DEF S, ranked

\* What the selector offers of a pool: at most a removal and four ranges, and a
\* removal, at the head, of a position out of range and of no other.
LEMMA LpOffers ==
  ASSUME NEW pool \in Pools, NEW position \in LpPositions
  PROVE  LET offers == Lp!Candidates(pool, position)
             stranded == position # None /\ ~Lp!InRange(pool.tick, position) IN
         /\ Len(offers) <= 5
         /\ stranded => offers # <<>> /\ offers[1].action = "REMOVE"
         /\ ~stranded => \A i \in DOMAIN offers : offers[i].action # "REMOVE"
<1> DEFINE head == Lp!Removals(pool, position)
           tail == Lp!Rebalances(pool, position)
           remove == Lp!Offer("REMOVE", pool, position, 0)
           stranded == position # None /\ ~Lp!InRange(pool.tick, position)
<1>1. head = IF stranded THEN <<remove>> ELSE <<>>
  BY DEF Lp!Removals
<1>2. remove.action = "REMOVE"
  BY DEF Lp!Offer
<1>3. /\ tail \in Seq(Lp!RangeOffers(pool, position)) /\ Len(tail) \in 0..4
      /\ \A o \in Lp!RangeOffers(pool, position) : o.action # "REMOVE"
  BY RebalancesRanked, RangeOffersParts
<1>4. Lp!Candidates(pool, position) = head \o tail
  BY DEF Lp!Candidates
<1> HIDE DEF head, tail, remove, stranded
<1>5. CASE ~stranded
  <2>1. head \o tail = tail
    BY <1>1, <1>3, <1>5
  <2>2. \A i \in DOMAIN tail : tail[i].action # "REMOVE"
    BY <1>3
  <2> QED
    BY <1>3, <1>4, <1>5, <2>1, <2>2 DEF stranded
<1>6. CASE stranded
  <2>1. ASSUME NEW T, NEW t \in Seq(T), NEW x
        PROVE  /\ Len(<<x>> \o t) = 1 + Len(t) /\ <<x>> \o t # <<>> /\ (<<x>> \o t)[1] = x
    <3>1. <<x>> \in Seq(T \cup {x}) /\ t \in Seq(T \cup {x})
      OBVIOUS
    <3> QED
      BY <3>1
  <2>2. /\ Len(<<remove>> \o tail) = 1 + Len(tail) /\ <<remove>> \o tail # <<>>
        /\ (<<remove>> \o tail)[1] = remove
    BY <1>3, <2>1
  <2>3. PICK offers : /\ offers = Lp!Candidates(pool, position)
                      /\ Len(offers) = 1 + Len(tail) /\ offers # <<>> /\ offers[1] = remove
    <3>1. Lp!Candidates(pool, position) = <<remove>> \o tail
      BY <1>1, <1>4, <1>6
    <3> DEFINE offers == <<remove>> \o tail
    <3>2. Len(offers) = 1 + Len(tail) /\ offers # <<>> /\ offers[1] = remove
      BY <2>2
    <3> HIDE DEF offers
    <3> QED
      BY <3>1, <3>2 DEF offers
  <2>4. Len(offers) <= 5
    <3>1. Len(tail) \in 0..4
      BY <1>3
    <3>2. ASSUME NEW l \in 0..4 PROVE 1 + l <= 5
      OBVIOUS
    <3>3. 1 + Len(tail) <= 5
      BY <3>1, <3>2
    <3> QED
      BY <2>3, <3>3
  <2> QED
    BY <1>2, <1>6, <2>3, <2>4 DEF stranded
<1> QED
  BY <1>5, <1>6
\* The way out of a position that earns nothing is always offered, first, and of
\* no other position.
THEOREM RemoveOffered == Spec => []RemoveIsOffered
<1>1. Init => RemoveIsOffered
  BY DEF Init, RemoveIsOffered, Has
<1>2. RemoveIsOffered /\ [Next]_vars => RemoveIsOffered'
  <2> SUFFICES ASSUME RemoveIsOffered, [Next]_vars PROVE RemoveIsOffered'
    OBVIOUS
  <2>1. ASSUME NEW pool \in Pools, NEW position \in LpPositions, ObserveLp(pool, position)
        PROVE  RemoveIsOffered'
    <3> DEFINE offers == Lp!Candidates(pool, position)
    <3>1. /\ obs'.pool = pool /\ obs'.position = position
          /\ obs'.candidates = offers
      BY <2>1 DEF ObserveLp, Observed
    <3>2. LET stranded == position # None /\ ~Lp!InRange(pool.tick, position) IN
          /\ stranded => offers # <<>> /\ offers[1].action = "REMOVE"
          /\ ~stranded => \A i \in DOMAIN offers : offers[i].action # "REMOVE"
      BY LpOffers
    <3> HIDE DEF offers
    <3> QED
      BY <3>1, <3>2 DEF RemoveIsOffered, Offers
  <2>2. CASE (type # "lp" \/ obs' = Unobserved \/ UNCHANGED obs) /\ UNCHANGED type
    BY <2>2 DEF RemoveIsOffered, Has, Offers
  <2>3. \/ \E pool \in Pools, position \in LpPositions : ObserveLp(pool, position)
        \/ (type # "lp" \/ obs' = Unobserved \/ UNCHANGED obs) /\ UNCHANGED type
    BY DEF Next, EditTask, ObserveGrid, ObserveHealth, ObserveYield, Observed,
           Decide, EndCycle, Land, Lose, vars
  <2> QED
    BY <2>1, <2>2, <2>3
<1> QED
  BY <1>1, <1>2, PTL DEF Spec

-----------------------------------------------------------------------------
(* What the yield strategy has seen                                        *)

\* The observation is of a market, and shows what fits the agent's risk.
YieldInv ==
    Has("yield") => IsMarket(obs.market) /\ Shown(obs.candidates, Fit(obs.market, risk))

LEMMA YieldStep == YieldInv /\ [Next]_vars => YieldInv'
<1> SUFFICES ASSUME YieldInv, [Next]_vars PROVE YieldInv'
  OBVIOUS
<1>1. ASSUME NEW market \in Markets, ObserveYield(market) PROVE YieldInv'
  <2>1. /\ obs'.market = market /\ risk' = risk
        /\ obs'.candidates = Yield!Candidates(market, risk)
    BY <1>1 DEF ObserveYield, Observed
  <2>2. IsMarket(market) /\ Shown(Yield!Candidates(market, risk), Fit(market, risk))
    BY MarketRead, CandidatesShown
  <2> QED
    BY <2>1, <2>2 DEF YieldInv
<1>2. CASE (type # "yield" \/ obs' = Unobserved \/ UNCHANGED obs) /\ UNCHANGED <<type, risk>>
  BY <1>2 DEF YieldInv, Has
<1>3. \/ \E market \in Markets : ObserveYield(market)
      \/ (type # "yield" \/ obs' = Unobserved \/ UNCHANGED obs) /\ UNCHANGED <<type, risk>>
  BY DEF Next, EditTask, ObserveGrid, ObserveLp, ObserveHealth, Observed,
         Decide, EndCycle, Land, Lose, vars
<1> QED
  BY <1>1, <1>2, <1>3

LEMMA YieldAlways == Spec => []YieldInv
<1>1. Init => YieldInv
  BY DEF Init, YieldInv, Has
<1> QED
  BY <1>1, YieldStep, PTL DEF Spec

\* The model chooses among what the agent's risk allows and that earns something,
\* the best first; what it never sees does not qualify, or is no better than
\* every one it sees.
THEOREM BestOffered == Spec => []OffersAreTheBest
<1>1. YieldInv => OffersAreTheBest
  <2> SUFFICES ASSUME YieldInv, Has("yield") PROVE OffersAreTheBest
    BY DEF OffersAreTheBest
  <2> DEFINE fit == Fit(obs.market, risk)
  <2>1. /\ obs.candidates \in Seq(fit)
        /\ fit # {} => obs.candidates # <<>>
        /\ \A i, j \in DOMAIN obs.candidates :
              i < j => Yield!Effective(obs.candidates[i]) >= Yield!Effective(obs.candidates[j])
        /\ \A o \in fit \ Offers : \A j \in DOMAIN obs.candidates :
              Yield!Effective(o) <= Yield!Effective(obs.candidates[j])
    BY DEF YieldInv, Shown, Offers
  <2>2. fit = {o \in obs.market : o.risk \in Yield!Compatible[risk] /\ Yield!Effective(o) > 0}
    BY DEF Fit
  <2> HIDE DEF fit
  <2>3. Offers \subseteq fit
    BY <2>1 DEF Offers
  <2>4. \A o \in fit \ Offers : \A c \in Offers : Yield!Effective(o) <= Yield!Effective(c)
    BY <2>1 DEF Offers
  <2> QED
    BY <2>1, <2>2, <2>3, <2>4 DEF OffersAreTheBest
<1> QED
  BY <1>1, YieldAlways, PTL
-----------------------------------------------------------------------------
(* What a cycle offers and proposes                                        *)

\* An answer that is normalised keeps its risk level.
LEMMA NormalizedRisk ==
  ASSUME NEW answer \in Answers
  PROVE  Normalize(answer).risk \in RiskLevels
<1>1. answer.risk \in RiskLevels /\ "risk" \in DOMAIN answer
  <2>1. answer.risk \in RiskLevels
    BY AnswersAssumption, Zenon
  <2>2. DOMAIN answer = {"act", "action", "requested", "side", "level", "asset", "amount",
                         "risk"}
    BY AnswersAssumption, Zenon
  <2> QED
    BY <2>1, <2>2
<1>2. Normalize(answer).risk = answer.risk
  BY <1>1 DEF Normalize
<1> QED
  BY <1>1, <1>2

\* A grid's offer has a risk level.
LEMMA GridRisk ==
  ASSUME NEW state, NEW price, NEW volatility, NEW i \in DOMAIN Grid!Candidates(state, price, volatility)
  PROVE  Grid!Candidates(state, price, volatility)[i].risk \in RiskLevels
<1> DEFINE crossing == Grid!Crossing(state.levels, state.last, price)
           size == Grid!OrderSize(crossing.side, state.exposure, state.config)
           level == state.levels[crossing.level]
           offer == [action |-> crossing.side, level |-> crossing.level, price |-> level,
                     size |-> size,
                     risk |-> Grid!Risk(level, state.exposure, state.config, volatility)]
<1>1. Grid!Candidates(state, price, volatility) =
          IF crossing = None THEN <<>> ELSE IF size <= 0 THEN <<>> ELSE <<offer>>
  BY DEF Grid!Candidates
<1>2. offer.risk \in RiskLevels
  <2>1. ASSUME NEW p, NEW e, NEW c, NEW v PROVE Grid!Risk(p, e, c, v) \in RiskLevels
    BY DEF Grid!Risk, RiskLevels
  <2> HIDE DEF crossing, size, level
  <2> QED
    BY <2>1
<1> HIDE DEF offer, crossing, size
<1> QED
  BY <1>1, <1>2

\* Of one candidate a grid proposes a swap with its risk.
LEMMA GridProposal ==
  ASSUME NEW answer, NEW c
  PROVE  /\ Grid!Proposal(answer, <<c>>).action = "SWAP"
         /\ Grid!Proposal(answer, <<c>>).risk = c.risk
  BY OnlyCandidate DEF Grid!Proposal

\* An operation of the strategy's vocabulary, with the risk the model gave.
LEMMA LpProposal ==
  ASSUME NEW answer, NEW position, NEW candidates,
         Lp!Proposal(answer, position, candidates) # None
  PROVE  /\ Lp!Proposal(answer, position, candidates).action \in CanonicalActions
         /\ Lp!Proposal(answer, position, candidates).risk = answer.risk
<1> DEFINE operation == IF answer.requested \in DOMAIN Lp!Functions THEN answer.requested
                        ELSE "REPOSITION"
<1>1. Lp!Functions[operation] \in CanonicalActions
  BY DEF Lp!Functions, CanonicalActions
<1>2. /\ Lp!Proposal(answer, position, candidates).action = Lp!Functions[operation]
      /\ Lp!Proposal(answer, position, candidates).risk = answer.risk
  BY DEF Lp!Proposal
<1> QED
  BY <1>1, <1>2

\* A deposit, with the risk of what is done.
LEMMA HealthProposal ==
  ASSUME NEW answer, NEW candidates, Health!Proposal(answer, candidates) # None
  PROVE  /\ Health!Proposal(answer, candidates).action \in CanonicalActions
         /\ Health!Proposal(answer, candidates).risk \in RiskLevels
  BY DEF Health!Proposal, CanonicalActions, RiskLevels

\* Two offers at most: to repay, and to add collateral.
LEMMA HealthOffers ==
  ASSUME NEW lending, NEW priced
  PROVE  Len(Health!Candidates(lending, priced)) <= 2
<1>1. ASSUME NEW x PROVE <<x>> \in Seq({x}) /\ Len(<<x>>) = 1
  OBVIOUS
<1>2. ASSUME NEW x, NEW y
      PROVE  /\ Len(<<>> \o <<>>) = 0 /\ Len(<<x>> \o <<>>) = 1
             /\ Len(<<>> \o <<y>>) = 1 /\ Len(<<x>> \o <<y>>) = 2
  <2>1. /\ <<x>> \in Seq({x, y}) /\ <<y>> \in Seq({x, y}) /\ <<>> \in Seq({x, y})
    OBVIOUS
  <2> QED
    BY <2>1
<1>3. Health!Repayment(lending, priced) = <<>> \/ \E x : Health!Repayment(lending, priced) = <<x>>
  BY DEF Health!Repayment
<1>4. PICK A, B : /\ A = <<>> \/ \E x : A = <<x>>
                  /\ B = <<>> \/ \E y : B = <<y>>
                  /\ Health!Candidates(lending, priced) = A \o B
  <2> DEFINE add == [action |-> "ADD_COLLATERAL", cents |-> Health!CollateralNeeded(lending),
                     token |-> None, wei |-> None]
             state == Health!StateFor(Health!FactorOf(lending))
             A == IF state \in {"CRITICAL", "EMERGENCY"} THEN Health!Repayment(lending, priced) ELSE <<>>
             B == IF state = "EMERGENCY" THEN <<add>> ELSE <<>>
  <2>1. Health!Candidates(lending, priced) = A \o B
    BY DEF Health!Candidates
  <2> HIDE DEF add, state
  <2>2. (A = <<>> \/ \E x : A = <<x>>) /\ (B = <<>> \/ \E y : B = <<y>>)
    BY <1>3
  <2> HIDE DEF A, B
  <2> QED
    BY <2>1, <2>2
<1>5. Len(A \o B) \in {0, 1, 2}
  BY <1>2, <1>4
<1> QED
  BY <1>4, <1>5

\* The candidate an answer picks is one of those offered.
LEMMA YieldProposal ==
  ASSUME NEW S, NEW candidates \in Seq(S), NEW answer, NEW budget,
         Yield!Proposal(answer, candidates, budget) # None
  PROVE  /\ Yield!Proposal(answer, candidates, budget).action \in CanonicalActions
         /\ \E c \in S : Yield!Proposal(answer, candidates, budget).risk = c.risk
<1> DEFINE I == {i \in 1..Len(candidates) : candidates[i].asset = answer.asset}
           at == IF I # {} THEN Yield!Min(I) ELSE 0
           n == IF at = 0 THEN 1 ELSE at
<1>1. candidates # <<>>
  BY DEF Yield!Proposal
<1>2. Len(candidates) \in Nat /\ 1 \in 1..Len(candidates)
  BY <1>1
<1>3. n \in 1..Len(candidates)
  <2>1. ASSUME I # {} PROVE Yield!Min(I) \in I
    <3>1. I \in SUBSET Nat
      BY <1>2
    <3> HIDE DEF I
    <3>2. \E m \in I : \A k \in I : m <= k
      BY <2>1, <3>1, LeastNatural
    <3> QED
      BY <3>2 DEF Yield!Min
  <2> QED
    BY <1>2, <2>1
<1>4. Yield!Proposal(answer, candidates, budget).risk = candidates[n].risk
  BY DEF Yield!Proposal, Yield!SelectInSeq
<1>5. candidates[n] \in S
  BY <1>3
<1>6. Yield!Proposal(answer, candidates, budget).action \in {"WITHDRAW", "DEPOSIT"}
  BY DEF Yield!Proposal
<1> QED
  BY <1>4, <1>5, <1>6 DEF CanonicalActions
\* TypeOK is kept with what a cycle remembers: who is asked has observed, and a
\* grid's offers have a risk level.
TypeInv ==
    /\ TypeOK
    /\ deciding => obs # Unobserved
    /\ Has("grid") => \A i \in DOMAIN obs.candidates : obs.candidates[i].risk \in RiskLevels

\* An observation is made of more than candidates, and offers only so many.
LEMMA TypeObserved ==
  ASSUME TypeInv, NEW made, Observed(made), made # Unobserved,
         Len(writes') <= MaxWrites,
         type = "grid" => /\ Len(made.candidates) <= 1
                          /\ \A i \in DOMAIN made.candidates : made.candidates[i].risk \in RiskLevels,
         type = "lp" => Len(made.candidates) <= 5,
         type = "health" => Len(made.candidates) <= 2,
         type = "yield" => Len(made.candidates) <= 3
  PROVE  TypeInv'
  BY DEF TypeInv, TypeOK, Tasks, Observed, Has

\* What decide() returns has an action and a risk level, whichever the strategy.
LEMMA TypeProposed ==
  ASSUME TypeInv, GridInv, YieldInv, NEW answer \in Answers, Decide(answer), proposal' # None
  PROVE  proposal'.action \in CanonicalActions /\ proposal'.risk \in RiskLevels
<1> DEFINE a == Normalize(answer)
<1>1. deciding /\ obs # Unobserved /\ type \in {"grid", "lp", "health", "yield"}
  BY DEF Decide, TypeInv, TypeOK
<1>2. proposal' = Canonical(a)
  BY DEF Decide
<1>3. CASE type = "grid"
  <2>1. proposal' = Grid!Proposal(a, obs.candidates)
    BY <1>2, <1>3 DEF Canonical
  <2>2. obs.candidates # <<>>
    BY <2>1 DEF Grid!Proposal
  <2>3. PICK c : obs.candidates = <<c>>
    BY <1>1, <1>3, <2>2 DEF GridInv, GridObs
  <2>4. c.risk \in RiskLevels
    <3>1. 1 \in DOMAIN obs.candidates /\ obs.candidates[1] = c
      BY <2>3
    <3> QED
      BY <1>1, <1>3, <3>1 DEF TypeInv, Has
  <2>5. Grid!Proposal(a, <<c>>).action = "SWAP" /\ Grid!Proposal(a, <<c>>).risk = c.risk
    BY GridProposal
  <2> QED
    BY <2>1, <2>3, <2>4, <2>5 DEF CanonicalActions
<1>4. CASE type = "lp"
  <2>1. proposal' = Lp!Proposal(a, obs.position, obs.candidates)
    BY <1>2, <1>4 DEF Canonical
  <2> QED
    BY <2>1, LpProposal, NormalizedRisk
<1>5. CASE type = "health"
  <2>1. proposal' = Health!Proposal(a, obs.candidates)
    BY <1>2, <1>5 DEF Canonical
  <2> QED
    BY <2>1, HealthProposal
<1>6. CASE type = "yield"
  <2> DEFINE fit == Fit(obs.market, risk)
  <2>1. proposal' = Yield!Proposal(a, obs.candidates, obs.budget)
    BY <1>2, <1>6 DEF Canonical
  <2>2. IsMarket(obs.market) /\ obs.candidates \in Seq(fit)
    BY <1>1, <1>6 DEF YieldInv, Shown, Has
  <2>3. \A c \in fit : c.risk \in RiskLevels
    BY <2>2 DEF Fit, IsMarket
  <2> HIDE DEF fit, a
  <2>4. proposal'.action \in CanonicalActions /\ \E c \in fit : proposal'.risk = c.risk
    BY <2>1, <2>2, YieldProposal
  <2> QED
    BY <2>3, <2>4
<1> QED
  BY <1>1, <1>3, <1>4, <1>5, <1>6

LEMMA TypeStep == TypeInv /\ GridInv /\ GridInv' /\ YieldInv /\ [Next]_vars => TypeInv'
<1> SUFFICES ASSUME TypeInv, GridInv, GridInv', YieldInv, [Next]_vars PROVE TypeInv'
  OBVIOUS
<1>1. /\ MaxWrites \in Nat /\ Len(writes) \in Nat /\ Len(writes) <= MaxWrites
  <2>1. MaxWrites \in Nat
    BY StrategiesAssumption, Zenon
  <2>2. Len(writes) \in Nat
    BY DEF GridInv
  <2> QED
    BY <2>1, <2>2 DEF TypeInv, TypeOK
<1>2. CASE EditTask
  BY <1>2 DEF EditTask, TypeInv, TypeOK, Tasks, Has
<1>3. ASSUME NEW first \in Prices, NEW price \in Prices, NEW v, ObserveGrid(first, price, v)
      PROVE  TypeInv'
  <2> DEFINE opened == Grid!OpenState(doc, task.override, first)
             state == Grid!Recenter(opened, price)
             offers == Grid!Candidates(state, price, v)
             breaks == Grid!Breaks(opened, price)
             made == [state |-> state, override |-> task.override,
                      recentered |-> breaks, candidates |-> offers]
  <2>1. type = "grid" /\ Observed(made) /\ Len(writes) < MaxWrites /\ writes' = Append(writes, state)
    BY <1>3 DEF ObserveGrid
  <2>2. \A i \in DOMAIN offers : offers[i].risk \in RiskLevels
    <3> HIDE DEF state
    <3> QED
      BY GridRisk
  <2> HIDE DEF opened, state, offers, breaks
  <2>3. made # Unobserved /\ made.candidates = offers
    BY DEF Unobserved
  <2>4. obs' = made
    BY <2>1 DEF Observed
  <2>5. Len(offers) <= 1
    <3>1. GridObs(made)
      BY <2>1, <2>3, <2>4 DEF GridInv, Observed
    <3>2. offers = <<>> \/ \E c : offers = <<c>>
      BY <2>3, <3>1 DEF GridObs
    <3>3. Len(<<>>) <= 1 /\ \A c : Len(<<c>>) <= 1
      OBVIOUS
    <3> QED
      BY <3>2, <3>3
  <2>6. Len(writes') <= MaxWrites
    BY <1>1, <2>1 DEF GridInv
  <2> HIDE DEF made
  <2> QED
    BY <2>1, <2>2, <2>3, <2>5, <2>6, TypeObserved
<1>4. ASSUME NEW pool \in Pools, NEW position \in LpPositions, ObserveLp(pool, position)
      PROVE  TypeInv'
  <2> DEFINE offers == Lp!Candidates(pool, position)
             made == [pool |-> pool, position |-> position, candidates |-> offers]
  <2>1. type = "lp" /\ Observed(made) /\ writes' = writes
    BY <1>4 DEF ObserveLp
  <2>2. Len(offers) <= 5
    BY LpOffers
  <2> HIDE DEF offers
  <2>3. made # Unobserved /\ made.candidates = offers
    BY DEF Unobserved
  <2> HIDE DEF made
  <2> QED
    BY <1>1, <2>1, <2>2, <2>3, TypeObserved
<1>5. ASSUME NEW account, NEW read, NEW fed, NEW priced, ObserveHealth(account, read, fed, priced)
      PROVE  TypeInv'
  <2> DEFINE lending == Health!Lending(account, read, fed)
             offers == Health!Candidates(lending, priced)
             made == [account |-> account, read |-> read, fed |-> fed, lending |-> lending,
                      candidates |-> offers]
  <2>1. type = "health" /\ Observed(made) /\ writes' = writes
    BY <1>5 DEF ObserveHealth
  <2>2. Len(offers) <= 2
    BY HealthOffers
  <2> HIDE DEF lending, offers
  <2>3. made # Unobserved /\ made.candidates = offers
    BY DEF Unobserved
  <2> HIDE DEF made
  <2> QED
    BY <1>1, <2>1, <2>2, <2>3, TypeObserved
<1>6. ASSUME NEW market \in Markets, ObserveYield(market) PROVE TypeInv'
  <2> DEFINE offers == Yield!Candidates(market, risk)
             made == [market |-> market, budget |-> task.budget, candidates |-> offers]
  <2>1. type = "yield" /\ Observed(made) /\ writes' = writes
    BY <1>6 DEF ObserveYield
  <2>2. Len(offers) <= 3
    BY MarketRead, CandidatesShown DEF Shown
  <2> HIDE DEF offers
  <2>3. made # Unobserved /\ made.candidates = offers
    BY DEF Unobserved
  <2> HIDE DEF made
  <2> QED
    BY <1>1, <2>1, <2>2, <2>3, TypeObserved
<1>7. ASSUME NEW answer \in Answers, Decide(answer) PROVE TypeInv'
  <2>1. proposal' # None => proposal'.action \in CanonicalActions /\ proposal'.risk \in RiskLevels
    BY <1>7, TypeProposed
  <2> QED
    BY <1>7, <2>1 DEF Decide, TypeInv, TypeOK, Tasks, Has
<1>8. CASE EndCycle
  BY <1>8 DEF EndCycle, TypeInv, TypeOK, Tasks, Has
<1>9. ASSUME NEW i \in DOMAIN writes, Land(i) \/ Lose(i) PROVE TypeInv'
  <2>1. Len(RemoveAt(writes, i)) = Len(writes) - 1
    BY RemovedShorter DEF GridInv
  <2>2. Len(writes') <= MaxWrites
    <3>1. Len(RemoveAt(writes, i)) \in Nat
      BY Removed DEF GridInv
    <3>2. writes' = RemoveAt(writes, i)
      BY <1>9 DEF Land, Lose
    <3> QED
      BY <1>1, <2>1, <3>1, <3>2
  <2>3. UNCHANGED <<type, risk, task, obs, deciding, proposal>>
    BY <1>9 DEF Land, Lose
  <2> QED
    BY <2>2, <2>3 DEF TypeInv, TypeOK, Tasks, Has
<1>10. CASE UNCHANGED vars
  BY <1>10 DEF vars, TypeInv, TypeOK, Tasks, Has
<1> QED
  BY <1>2, <1>3, <1>4, <1>5, <1>6, <1>7, <1>8, <1>9, <1>10 DEF Next

\* Whatever the market, the account, the task and the answer, a strategy offers no
\* more candidates than its bound, and what it proposes has an action and a risk
\* level of the shared vocabulary.
THEOREM TypeCorrect == Spec => []TypeOK
<1>1. Init => TypeInv
  <2> SUFFICES ASSUME Init PROVE TypeInv
    OBVIOUS
  <2>1. Len(writes) <= MaxWrites
    <3>1. MaxWrites \in Nat
      BY StrategiesAssumption, Zenon
    <3>2. Len(writes) = 0
      BY DEF Init
    <3> QED
      BY <3>1, <3>2
  <2>2. type \in {"grid", "lp", "health", "yield"} /\ risk \in RiskLevels
    BY DEF Init, RiskLevels
  <2>3. /\ task \in Tasks /\ deciding = FALSE /\ proposal = None
        /\ ~Has("grid") /\ ~Has("lp") /\ ~Has("health") /\ ~Has("yield")
    BY DEF Init, Has
  <2> QED
    BY <2>1, <2>2, <2>3 DEF TypeInv, TypeOK
<1>2. TypeInv => TypeOK
  BY DEF TypeInv
<1> QED
  BY <1>1, <1>2, TypeStep, GridAlways, YieldAlways, PTL DEF Spec
=============================================================================
