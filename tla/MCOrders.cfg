SPECIFICATION MCFairSpec
CONSTANTS
    MaxLimit = 3
    MaxTotal = 6
    a1 = a1
    a2 = a2
    Owners = {a1, a2}
    t1 = t1
    t2 = t2
    Tokens = {t1, t2}
    v1 = v1
    v2 = v2
    Vaults = {v1, v2}
    Configured = {a2}
    DEFAULT_OWNER_LIMIT = 25
    MaxBalance = 1
    Unread = Unread
    o1 = o1
    o2 = o2
    Orders = {o1, o2}
    PageSize = 1
    MaxTx = 3
    MaxTime = 3
    Faults = {"lag", "sameSecond", "duringFetch", "addFails"}
INVARIANT TypesOK
INVARIANT NoStarvation
INVARIANT QuarterKept
INVARIANT Converged
PROPERTY LimitUsedUp
PROPERTY EventuallyInSync
PROPERTY ImplementsEventLog
