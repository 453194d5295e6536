SPECIFICATION PFSpec
CONSTANTS
    FillPrice = {1, 3}
    FillQty = {1, 2}
    Mid = {2, 3, 5}
    MaxFills = 4
INVARIANTS
    ResidualIsUnmarkedMove
    RealizedAndUnrealizedAddUp
