SPECIFICATION FeedsSpec
CONSTANTS
    Owners = {FALSE}
    OrderId = {0, 1, 2, 3, 4, 5, 6, 7, 8, 9, 10, 11, 12, 13, 14, 15, 16, 17, 18, 19, 20, 21, 22, 23, 24, 25, 26, 27, 28, 29, 30, 31, 32, 33, 34, 35}
    Price = {1, 2, 3}
    MaxQty = 3
    Units = 2
    KrakenSizes = {2, 3}
    MaxChanges = 2
    KrakenMessages = 5
    BitmexSizes = {1, 2, 4}
    BitmexMessages = 7
    MaxOrders = 3
    LobsterMessages = 6
    N = 5
    Mid0 = 4
    MinMid = 3
    Levels = 1
    MaxLive = 2
    MaxDrift = 1
INVARIANTS
    KrakenBookFollows
    BitmexBookFollows
    LobsterBookFollows
    SyntheticBookBounded
\* The sources end: the exchanges have their bounds, the generator returns.
CHECK_DEADLOCK FALSE
