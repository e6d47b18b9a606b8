SPECIFICATION SyncSpec
CONSTANTS
    o1 = o1
    o2 = o2
    Orders = {o1, o2}
    PageSize = 2
    MaxTx = 3
    MaxTime = 4
    Faults = {"addFails"}
INVARIANT NoEventDropped
