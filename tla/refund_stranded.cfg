SPECIFICATION FairSpec
CONSTANTS
    Orders = {o1}
    RefundAddressOf = {o1}
    MaxUnits = 2
    MaxLosses = 0
    MaxCrashes = 0
    EnqueueMayFail = FALSE
    RestartsFailed = FALSE
    Scanners = {s1}
    Streams = {}
    PayoutWorkers = {p1}
    ChainWorkers = {c1}
    maxPayoutAttempts = 2
    maxChainAttempts = 3
    NoOrder = NoOrder
    NoRow = NoRow
    NoTask = NoTask
CHECK_DEADLOCK FALSE
PROPERTY RefundEnds
