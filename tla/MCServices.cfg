SPECIFICATION MCFairSpec
CONSTANTS
    ta_tb = ta_tb
    ta_eth = ta_eth
    m1 = m1
    m2 = m2
    Pairs <- TwoPairs
    Keys <- TwoKeys
    keyOf <- OnePairEach
    ethKeys <- OfSellToken
    maxConcurrency = 2
    MaxRejected = 1
    baseGasPriceMultiplier = 1
    maxGasPriceMultiplier = 4
    gasIncreasePointsPerStep = 2
    gasIncreaseStepTime = 3
    ReadInterval = 2
    ReadLife = 4
    q1 = q1
    q2 = q2
    Quotes = {q1, q2}
    COOLOFF_THRESHOLD = 3
    COOLOFF_DURATION = 4
    ORACLE_TIMEOUT = 2
INVARIANT TypesOK
INVARIANT ProcessedArePrepared
INVARIANT PriceFresh
INVARIANT CooloffEarned
PROPERTY QuietBeforeReset
PROPERTY PoolsCatchUp
