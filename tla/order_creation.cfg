SPECIFICATION ServerSpec
CONSTANTS
    Accounts = {a1, a2}
    Keepers = {k1}
    Handlers = {h1, h2}
    Keys = {i1, i2}
    Size = 1
    Batch = 1
    claimAttempts = 2
    Clients = {server, worker}
    callsPerClient = 2
    sponsorSubmitAttempts = 2
    Payers = {p1, p2}
    QuoteUnit = 4
    Dust = 1
    SnapParts = 20
    RateKobo = {7}
    RateUnits = {3, 10}
    maxKobo = 20
    maxUnits = 14
    MaxLosses = 1
    MaxCrashes = 1
    NoRequest = NoRequest
INVARIANTS
    ServerTypeOK
    HandedOutExists
    OneOrderUnlessLost
    SameAnswer
    StrandedPerFault
    CollisionMeansProgress
    ChargedOncePerLoss
    QuoteCoversInvoice
    PayoutIsFair
PROPERTIES
    PendingResolves
    PoolRefills
    SubmitsOnce
