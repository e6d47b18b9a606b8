SPECIFICATION MCSpec
CONSTANTS
    c1 = c1
    Counterparties = {c1}
    NoOrder = NoOrder
    TopPicks = 1
    OwnTypes <- EnabledTypes
    OtherTypes <- RaindexOnly
    Coverages = {0, 100}
    Headroom = 110
    GasMultiplier = 200
    GasEstimates = {0, 1, 2}
    GasPrices = {1, 2}
    Profits = {0, 1}
    Bounties = {0, 3}
    MaxOthers = 1
    Steps = 3
    Scales = {1, 4}
    OneToken = 16
    MaxFixed = 32
    NoSize = NoSize
    q1 = q1
    q2 = q2
    Quoters = {q1, q2}
    ra = ra
    rb = rb
    rc = rc
    sortedRoutes <- ThreeRoutes
    Amounts = {1}
    MaxFetches = 1
INVARIANT TypesOK
INVARIANT FinalMinWasSimulated
INVARIANT UnderpaysOnlyWhenStale
INVARIANT BestIsPicked
INVARIANT LargestIsFound
INVARIANT RoutesKept
CHECK_DEADLOCK FALSE
