CONSTANTS
    None = None
    Raw = Raw
    PriceOf <- MCPriceOf
    Alphabet <- MCAlphabet
    Prices <- MCPrices
    Overrides <- MCOverrides
    Volatilities = {150}
    Pools <- MCPools
    LpPositions <- MCLpPositions
    Accounts <- MCAccounts
    Markets <- MCMarkets
    Budgets = {None, 1000}
    Answers <- MCAnswers
    MaxWrites = 2
SPECIFICATION Spec
INVARIANT EmergencyIsOffered
