SPECIFICATION Spec
CONSTANTS
    Accounts = {a1, a2}
    Keepers = {k1}
    Handlers = {h1, h2}
    Keys = {i1}
    Size = 1
    Batch = 1
    claimAttempts = 2
    MaxLosses = 0
    MaxCrashes = 1
    NoRequest = NoRequest
INVARIANT NoAccountLost
