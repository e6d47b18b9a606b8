SPECIFICATION MCFairSpec
CONSTANTS
    Count = 1
    MaxIndex = 2
    Restarts = TRUE
    threshold = 2
    topupAmount = 2
    swapped = 3
    MaxFailures = 3
    q1 = q1
    q2 = q2
    u1 = u1
    u2 = u2
    Rpcs = {u1, u2}
    Requests = {q1, q2}
    trackSize = 2
    selectionWeight <- WeightOne
    retryCount = 1
    retryCountNext = 1
INVARIANT FleetSize
INVARIANT NoWalletForgotten
INVARIANT NoIndexReuse
INVARIANT FundedOnce
INVARIANT SuccessMatchesBuffer
PROPERTY UnfundedEventuallyAdded
PROPERTY VaultFunded
PROPERTY RequestConcludes
