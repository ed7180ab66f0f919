SPECIFICATION Spec
CONSTANTS
    Names <- DistinctNames
    IntMax = 99
    Taps = {j1}
INVARIANTS
    Ordered
    LookupFinds
