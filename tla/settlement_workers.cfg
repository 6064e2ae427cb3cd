SPECIFICATION Spec
CONSTANTS
    Orders = {o1}
    RefundAddressOf = {}
    MaxUnits = 3
    MaxLosses = 0
    MaxCrashes = 1
    EnqueueMayFail = TRUE
    RestartsFailed = TRUE
    Scanners = {s1}
    Streams = {t1}
    PayoutWorkers = {p1, p2}
    ChainWorkers = {c1, c2}
    maxPayoutAttempts = 2
    maxChainAttempts = 2
    NoOrder = NoOrder
    NoRow = NoRow
    NoTask = NoTask
CHECK_DEADLOCK FALSE
INVARIANTS
    OneHolder
    FailedKeepsFunds
PROPERTIES
    KeepsPromise
    CreditedOnce
    OnlyLegalMoves
SYMMETRY Symmetry
