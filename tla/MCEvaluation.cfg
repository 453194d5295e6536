SPECIFICATION EvaluationSpec
CONSTANTS
    Span = 4
    MaxArrivals = 4
    MaxMarks = 6
    Mids = {7, 10, 11}
    Devs <- Swings
    Cap = 3
    LiveCosts = {0, 4}
    ModelCost <- Linear
    MaxSteps = 3
INVARIANTS
    BlocksAreCopiedWhole
    StatisticsAreDefinite
    OnlyFrictionDiffers
\* Each of the three ends.
CHECK_DEADLOCK FALSE
