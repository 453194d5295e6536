SPECIFICATION HMSpec
CONSTANTS
    OrderId = {1, 2, 3, 4, 5, 6, 7, 8, 9, 10, 11, 12, 13, 14, 15, 16, 17, 18, 19, 20, 21, 22, 23, 24, 25, 26, 27, 28, 51, 52, 53, 54}
    Price = {0, 1, 2, 3, 4, 5, 6, 7, 8}
    MaxQty = 4
    Owners = {TRUE, FALSE}
    Tape <- WideTape
    OwnOrders = {}
    Gaps = {0, 1}
    LatencyBase = 0
    LatencyJitter = 1
    MaxEvents = 4
    MaxCommands = 28
    QuoteSize = 2
    BaseHalfSpread = 1
    MaxSkewTicks = 1
    MaxInventory = 2
    UnitsPerTick = 2
INVARIANTS
    StraysAreLostCancels
    MeetsOnlyRecalled
    InventoryContained
ACTION_CONSTRAINT OpensWithABook
