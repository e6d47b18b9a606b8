SPECIFICATION FairSpec
CHECK_DEADLOCK FALSE
CONSTANTS
    p1 = p1
    p2 = p2
    p3 = p3
    Pairs = {p1, p2, p3}
    w1 = w1
    Wallets = {w1}
    maxConcurrency = 2
    MaxRounds = 2
    MaxBlock = 1
    NoWallet = NoWallet
INVARIANT ReportedOnce
INVARIANT BatchReadsItsPools
INVARIANT GasOnce
PROPERTY RoundEnds
