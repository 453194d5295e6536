SPECIFICATION CalSpec
CONSTANTS
    MaxIters = 4
    Patience = 2
    LogLik <- Likelihoods
    Radius = {98, 110}
    InverseTol = 3
    Fields = 17
    FitSeconds = 1
    Foreign <- Copied
    MaxRuns = 2
    MaxClock = 2
INVARIANTS
    ConvergedMeansPlateau
    AlwaysStable
    LoadedIsAFinishedRun
\* Runs and seconds have their bounds.
CHECK_DEADLOCK FALSE
