\* Two windows.  A drop at once and one after its sleep take the delay to its
\* bound, and past it if there were none; one or two runs of the batch come in
\* the middle of a window, between the two and after both.
SPECIFICATION CBSpec
CONSTANTS
    Count = 2
    Duration = 3
    Grace = 3
    FirstDelay = 2
    MaxDelay = 3
    ConnectTime = 1
    MaxBatches = 2
INVARIANTS
    OnlyTheHungAreKilled
    ForcedSeesWholeWindows
PROPERTY EveryWindowIsTried
\* The scripts end.
CHECK_DEADLOCK FALSE
