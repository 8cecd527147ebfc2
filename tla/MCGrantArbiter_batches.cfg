CONSTANTS
    w1 = w1
    w2 = w2
    Workers <- Pair
    NumMemoryNodes = 2
    QueueDepth = 2
    MaxInflightPerNode = 1
    MaxGrantsPerSchedule = 1
    Windows = {2}
    MaxReqs = 3
SPECIFICATION FairSpec
PROPERTIES
    ImplementsAdmission
    GroupReturns
INVARIANTS
    TypeOK
    NodeAccounting
    NoLostWakeup
    RequestNeverLost
    GroupDoneSound
