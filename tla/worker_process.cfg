SPECIFICATION WorkerSpec
CONSTANTS
    Loops = {"streamer", "scanner"}
    Movers = {m1}
    Requests = {r1}
    LastOrder = 2
    maxStreams = 1
    maxWatchers = 2
    maxPayments = 1
    MaxLosses = 1
    MaxCrashes = 1
CHECK_DEADLOCK FALSE
INVARIANTS
    WorkerTypeOK
    SomeoneWoken
    NothingSkipped
    
PROPERTIES
    WorkIsFound
    
    PaidIsRecorded
