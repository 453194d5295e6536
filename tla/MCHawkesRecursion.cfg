SPECIFICATION HKSpec
CONSTANTS
    Dim = {0, 1}
    Comp = {1, 2}
    Beta <- TwoScales
    Mu <- Backgrounds
    Alpha <- Excitations
    NoDecayBelow = 0
    BetaScale = 2
    Epoch = 3
    MaxDuration = 5
    MaxGap = 2
    MaxArrivals = 4
INVARIANTS
    RecursionIsTheSum
    OnlineAgreesOffline
    ResidualsAreTheCompensator
