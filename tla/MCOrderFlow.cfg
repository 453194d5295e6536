SPECIFICATION FlowSpec
CONSTANTS
    OrderId = {1, 2, 3, 4, 5}
    Price = {1, 2, 3, 4, 5}
    MaxQty = 2
    Owners = {FALSE}
    Depth = 2
    Window = 2
    Events <- SmallTape
    Gaps = {1}
    MaxEvents = 6
    Horizon = 2
    BidPrices = {1, 2, 3}
    AskPrices = {4, 5}
    LevelQty = {1, 2}
INVARIANTS
    RegressionIsCausal
    OfiFollowsTheBook
\* The tape ends.
CHECK_DEADLOCK FALSE
