SPECIFICATION MCSpec
CONSTANTS
    o1 = o1
    o2 = o2
    Orders = {o1, o2}
    Pairs = {1, 3}
    OrderOf <- MCOrderOf
    Route <- Apart
    MaxConcurrency = 2
    MaxCopies = 2
    Throws = TRUE
    k1 = k1
    k2 = k2
    k3 = k3
    Candidates = {k1, k2, k3}
    Own = {k3}
    ONE18 = 2
    Ratios = {1, 3}
    MaxOutputs = {0, 1, 2}
    Prices = {2, 5}
    EthPrices = {2}
    NoQuote = NoQuote
    Simulated = 1
INVARIANT TypesOK
INVARIANT NoRemovedUnlessRevived
INVARIANT MapsFollowQuotes
INVARIANT EverySizeServed
CHECK_DEADLOCK FALSE
