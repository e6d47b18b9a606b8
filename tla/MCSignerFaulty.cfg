SPECIFICATION FairSpec
CONSTANTS
    o1 = o1
    o2 = o2
    o3 = o3
    d1 = d1
    r1 = r1
    main = main
    w1 = w1
    w2 = w2
    NoCall = NoCall
    Main = main
    Wallets = {main}
    Workers = {}
    Orders = {o1, o2}
    Direct = {d1}
    Raw = {r1}
    Home <- MCHome
    Stage <- MCStage
    WriteRpc = FALSE
    SlowReceipt = TRUE
    LostResponse = TRUE
    StaleNonce = TRUE
INVARIANT AtMostOnce
PROPERTY EveryCallConcludes
CHECK_DEADLOCK FALSE
