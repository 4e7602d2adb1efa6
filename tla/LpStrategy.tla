----------------------------- MODULE LpStrategy -----------------------------
(***************************************************************************)
(* packages/strategy-lp: ranges, profits, candidates and the canonical     *)
(* position operation.  Ticks and cents are integers, as in the code.      *)
(* A pool is [tick, fee, liquidity, volume, gas], its volume and its gas   *)
(* None when the adapter has no figure; a position is [lower, upper,       *)
(* liquidity], or None: the adapter's "none" position, one without         *)
(* liquidity and a "no position" error all count as none.                  *)
(***************************************************************************)
EXTENDS Integers, CanonicalAction

-----------------------------------------------------------------------------
(* LpRangeCalculator                                                       *)

TickSpacing(fee) == CASE fee <= 100 -> 1 [] fee <= 500 -> 10 [] fee <= 3000 -> 60
                      [] OTHER -> 200

InRange(tick, range) == range.lower <= tick /\ tick < range.upper

\* Toward minus infinity, below zero too.
AlignDown(tick, spacing) == tick - (tick % spacing)

\* generateCandidateRanges: narrow, medium, wide and "full".
Ranges(tick, spacing) ==
    LET center == AlignDown(tick, spacing) IN
    {[lower |-> center - reach * spacing, upper |-> center + reach * spacing] :
        reach \in {1, 2, 4, 10}}

Width(range) == range.upper - range.lower

-----------------------------------------------------------------------------
(* LpRiskModel and the selector's estimates                                *)

\* An unknown volume is HIGH risk, and so is a volume of zero.
Risk(pool, width) ==
    CASE pool.volume = None -> [level |-> "HIGH", cents |-> 500]
      [] pool.volume = 0 -> [level |-> "HIGH", cents |-> 500]
      [] pool.volume < 1000000 -> [level |-> "HIGH", cents |-> 300]
      [] pool.volume < 10000000 -> [level |-> "MEDIUM", cents |-> 100]
      [] width < 10 /\ pool.fee >= 100 -> [level |-> "MEDIUM", cents |-> 50]
      [] OTHER -> [level |-> "LOW", cents |-> 0]

\* What the position would earn; a new one is taken for the whole pool.
Fees(pool, position, width) ==
    IF pool.volume = None \/ pool.liquidity <= 0 THEN 0
    ELSE LET held == IF position = None THEN pool.liquidity ELSE position.liquidity IN
         (pool.fee * pool.volume * held) \div (width * pool.liquidity * 10000)

NetProfit(pool, position, width) ==
    Fees(pool, position, width) - pool.gas - (1000 \div width) - Risk(pool, width).cents

-----------------------------------------------------------------------------
(* LpCandidateSelector.select                                              *)

Offer(action, pool, range, net) ==
    [action |-> action, lower |-> range.lower, upper |-> range.upper, net |-> net,
     risk |-> Risk(pool, Width(range)).level]

\* The safety action: out of range, whatever the gas, the volume or the profit.
Removals(pool, position) ==
    IF position # None /\ ~InRange(pool.tick, position)
    THEN <<Offer("REMOVE", pool, position, 0)>> ELSE <<>>

\* No gas figure, no range; a known loss is left out, an unknown one is not.
Worthwhile(pool, position, range) ==
    /\ pool.gas # None
    /\ pool.volume # None => NetProfit(pool, position, Width(range)) >= 0

\* Highest profit first; the sort is stable, so the narrower range on a tie.
Better(a, b) ==
    \/ a.net > b.net
    \/ a.net = b.net /\ Width(a) < Width(b)

RangeOffers(pool, position) ==
    LET action == IF position = None THEN "CREATE" ELSE "REPOSITION" IN
    {Offer(action, pool, range, NetProfit(pool, position, Width(range))) :
        range \in {r \in Ranges(pool.tick, TickSpacing(pool.fee)) :
                      Worthwhile(pool, position, r)}}

Rebalances(pool, position) == Ranked(RangeOffers(pool, position), Better)

\* *Mutant*: without a gas figure the selector gives up at once.
GasFirst(pool, position) ==
    IF pool.gas = None THEN <<>>
    ELSE Removals(pool, position) \o Rebalances(pool, position)

\* Five at most, and never more than one removal and four ranges.
Candidates(pool, position) == Removals(pool, position) \o Rebalances(pool, position)

-----------------------------------------------------------------------------
(* canonicalizeLpProposal                                                  *)

Functions == [REMOVE |-> "BURN", CREATE |-> "MINT", REPOSITION |-> "REBALANCE"]

\* The operation is the one the model asks for, or a reposition; the ticks are
\* those of the candidate of that action, or of the first one, whatever its
\* action.  The risk level stays the model's.
Proposal(answer, position, candidates) ==
    LET operation == IF answer.requested \in DOMAIN Functions THEN answer.requested
                     ELSE "REPOSITION"
        candidate == PickCandidate(candidates, answer.requested)
        amount == IF operation = "REMOVE" /\ position # None
                  THEN [liquidity |-> position.liquidity] ELSE answer.amount
    IN IF \/ candidates = <<>>
          \/ candidate.lower >= candidate.upper
          \/ amount = None
       THEN None
       ELSE [kind |-> "PANCAKE_V3_LP", action |-> Functions[operation],
             intent |-> operation, asset |-> answer.asset, amount |-> amount,
             risk |-> answer.risk, lower |-> candidate.lower, upper |-> candidate.upper]
=============================================================================
