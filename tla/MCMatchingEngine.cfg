SPECIFICATION Spec
CONSTANTS
    OrderId = {o1, o2, o3, o4}
    Price = {1, 2, 3}
    MaxQty = 2
    Owners = {FALSE}
SYMMETRY IdSymmetry
INVARIANTS
    TypeOK
    BookConsistent
    BookUncrossed
    OrderSettled
PROPERTY ImplementsPriceTimeBook
