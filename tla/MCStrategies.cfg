SPECIFICATION STSpec
CONSTANTS
    OrderId = {1, 2, 3, 4, 5, 6, 7, 8, 9, 10, 11, 12, 13, 14, 15, 16, 17, 18, 19, 20, 51, 52, 53, 54, 61, 62, 63, 64, 65}
    Price = {0, 1, 2, 3, 4, 5, 6}
    MaxQty = 4
    Owners = {TRUE, FALSE}
    Tape <- BothTapes
    OwnOrders = {}
    Gaps = {0, 1}
    LatencyBase = 0
    LatencyJitter = 1
    MaxEvents = 7
    MaxCommands = 20
    MakerSize = 2
    HalfSpread = 1
    MaxPos = 2
    Window = 3
    EntryZ = 1
    TakerSize = 2
    Market <- Markets
INVARIANTS
    MakerKnowsItsQuotes
    MakerQuotesToTheCap
    TakerCapped
    TakerFlattens
