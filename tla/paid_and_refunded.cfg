SPECIFICATION Spec
CONSTANTS
    Orders = {o1}
    RefundAddressOf = {o1}
    MaxUnits = 1
    MaxLosses = 3
    MaxCrashes = 0
    EnqueueMayFail = FALSE
    RestartsFailed = FALSE
    Scanners = {s1}
    Streams = {}
    PayoutWorkers = {p1}
    ChainWorkers = {c1}
    maxPayoutAttempts = 3
    maxChainAttempts = 3
    NoOrder = NoOrder
    NoRow = NoRow
    NoTask = NoTask
CHECK_DEADLOCK FALSE
INVARIANT PaidOrRefunded
