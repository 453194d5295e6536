SPECIFICATION ACSpec
CONSTANTS
    OrderId = {1, 2, 3, 11, 12, 13, 14, 15}
    Price = {2, 3, 4}
    MaxQty = 2
    Owners = {TRUE, FALSE}
    Tape <- TwoLevelTape
    OwnOrders <- QuotesAndSweeps
    Gaps = {1}
    LatencyBase = 1
    LatencyJitter = 1
    MaxEvents = 3
    MaxCommands = 2
    MarkEvery = 2
    ImpactNum = 1
    ImpactDen = 2
INVARIANTS
    MakersEarnTheSpread
    AccountsClose
PROPERTY ImplementsPortfolio
