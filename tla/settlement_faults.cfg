SPECIFICATION Spec
CONSTANTS
    Orders = {o1}
    RefundAddressOf = {}
    MaxUnits = 2
    MaxLosses = 3
    MaxCrashes = 1
    EnqueueMayFail = FALSE
    RestartsFailed = TRUE
    Scanners = {s1}
    Streams = {t1}
    PayoutWorkers = {p1}
    ChainWorkers = {c1}
    maxPayoutAttempts = 3
    maxChainAttempts = 3
    NoOrder = NoOrder
    NoRow = NoRow
    NoTask = NoTask
CHECK_DEADLOCK FALSE
INVARIANTS
    TypeOK
    FundsFollowOutcome
    SweptOnlyAfterPaid
    FinishedMeansMoved
    ReclaimedMeansClosed
    AbandonedPerCrash
