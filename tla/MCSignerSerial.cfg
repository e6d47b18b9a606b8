SPECIFICATION FairSpec
CONSTANTS
    o1 = o1
    o2 = o2
    o3 = o3
    d1 = d1
    r1 = r1
    main = main
    w1 = w1
    w2 = w2
    NoCall = NoCall
    Main = main
    Wallets = {main, w1, w2}
    Workers = {w1, w2}
    Orders = {o1, o2, o3}
    Direct = {}
    Raw = {}
    Home <- MCHome
    Stage <- MCStage
    WriteRpc = FALSE
    SlowReceipt = FALSE
    LostResponse = FALSE
    StaleNonce = TRUE
INVARIANT NoNonceConflict
INVARIANT OneTransactionPerWallet
PROPERTY ImplementsTxSlot
CHECK_DEADLOCK FALSE
