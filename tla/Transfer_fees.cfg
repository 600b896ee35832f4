SPECIFICATION Spec
CONSTANTS
    Tokens = {"t", "u"}
    Batches <- MCBatches
    MaxAmount = 2
    SafeFunds = 1
    MaxSafeFunds = 2
    RelayerFunds = 9
    MaxNonce = 2
    Prices = {1, 2, 3}
    Enabled = TRUE
    MaximumGasPrice = 2
    GasPriceMultiplier = 1
    MaximumFetchRetries = 2
    GasLimitBase = 1
    GasLimitForEach = 1
INVARIANTS TypeOK FeesCovered FeesInv TransfersAffordable PricesAllowed
