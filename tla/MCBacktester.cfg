SPECIFICATION BTFairSpec
CONSTANTS
    OrderId = {1, 2, 3, 11, 12, 13, 14}
    Price = {1, 2}
    MaxQty = 2
    Owners = {TRUE, FALSE}
    Tape <- SweepTape
    OwnOrders <- QuotesAndTakers
    Gaps = {0, 1}
    LatencyBase = 1
    LatencyJitter = 1
    MaxEvents = 2
    MaxCommands = 2
INVARIANTS
    NothingOverdue
    OwnQuantityAccounted
    CancelSticks
PROPERTIES
    TimeOrder
    RunEnds
