SPECIFICATION FairSpec
CONSTANTS
    Orders = {o1}
    RefundAddressOf = {o1}
    MaxUnits = 3
    MaxLosses = 1
    MaxCrashes = 0
    EnqueueMayFail = FALSE
    RestartsFailed = FALSE
    Scanners = {s1}
    Streams = {t1}
    PayoutWorkers = {p1}
    ChainWorkers = {c1}
    maxPayoutAttempts = 2
    maxChainAttempts = 2
    NoOrder = NoOrder
    NoRow = NoRow
    NoTask = NoTask
CHECK_DEADLOCK FALSE
PROPERTIES
    CreditedSettles
    WatchEnds
    ReservesReturn
    SweepEnds
