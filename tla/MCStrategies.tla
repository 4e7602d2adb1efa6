----------------------------- MODULE MCStrategies ----------------------------
(***************************************************************************)
(* Instances of Strategies for TLC.                                        *)
(***************************************************************************)
EXTENDS Strategies

CONSTANT Raw    \* an amount the model made up

\* BNB at about six dollars, for products within TLC's integers and floors that
\* cut something off.
MCPriceOf == [USDT |-> 100, USDC |-> 100, BNB |-> 601]
MCAlphabet == <<"BNB", "USDC", "USDT", "aave", "lista", "venus">>

\* Inside the default range of 500 to 600 dollars, and well above it.
MCPrices == {52000, 54500, 67000}

\* No grid in the task; one that moves the range; one that no longer follows
\* the market and whose orders are above its capital.
MCOverrides ==
    {<<>>,
     [lower |-> 53000, upper |-> 57001, capital |-> 30000, order |-> 20000, count |-> 3],
     [lower |-> 51000, upper |-> 60000, capital |-> 15000, order |-> 40000,
      recenter |-> FALSE]}

\* A busy pool at each fee tier, a quiet one, an unknown volume, no gas.
MCPools ==
    [tick : {-7, 125}, fee : {100}, liquidity : {1}, volume : {10000000}, gas : {10}]
    \cup [tick : {-7, 125}, fee : {500}, liquidity : {0, 1}, volume : {2000000, None},
          gas : {30, 50000, None}]
    \cup [tick : {-7, 125}, fee : {3000}, liquidity : {1}, volume : {0, 300000}, gas : {10, None}]

MCLpPositions ==
    {None} \cup [lower : {-20, 100}, upper : {120}, liquidity : {1, 2}]

\* Whole tokens, parts of one, and debts in two markets at once.
MCAccounts ==
    LET amounts(usdt, bnb) == [USDT |-> usdt, USDC |-> 0, BNB |-> bnb] IN
    [supply : {amounts(s, 0) : s \in {0, 10000, 26000}} \cup {amounts(5900, 1000)},
     borrow : {amounts(d, b) : d \in {0, 900, 9000, 20001}, b \in {0, 900, 2000}}]

MCMarkets ==
    LET o(asset, protocol, apy, tvl, tier) ==
            [asset |-> asset, protocol |-> protocol, apy |-> apy, tvl |-> tvl, risk |-> tier]
    IN SUBSET {o("USDT", "venus", 300, 5, "LOW"), o("USDC", "venus", 300, 5, "LOW"),
               o("BNB", "venus", 350, 5, "MEDIUM"), o("USDT", "aave", 400, 9, "HIGH"),
               o("USDC", "lista", 61, 1, "LOW"), o("BNB", "aave", 110, 1, "MEDIUM")}

MCAnswers ==
    LET answer(act, action, asset, amount) ==
            [act |-> act, action |-> action, requested |-> None, side |-> None, level |-> 2,
             asset |-> asset, amount |-> amount, risk |-> "HIGH"]
    IN {answer(TRUE, action, "USDT", Raw) : action \in
            {"BUY", "REMOVE", "CREATE", "REPAY", "DEPOSIT", "WITHDRAW", "HOLD", "LEND"}}
       \cup {answer(TRUE, "DEPOSIT", "BNB", None), answer(TRUE, "WITHDRAW", "USDC", None),
             answer(TRUE, "REMOVE", "BNB", None), answer(FALSE, "HOLD", "BNB", None)}
=============================================================================
