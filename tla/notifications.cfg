SPECIFICATION FairSpec
CONSTANTS
    Orders = {o1}
    Notifiers = {n1, n2}
    Batch = 2
    MaxMoves = 4
    MaxLosses = 1
    MaxCrashes = 1
CHECK_DEADLOCK FALSE
INVARIANTS
    TypeOK
    NotifiedMeansReceived
    RepeatsBounded
    StoryInOrderUnlessLost
PROPERTIES
    OwedIsReported
    EveryStateReported
