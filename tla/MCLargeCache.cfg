CONSTANTS
    Threads = {t1, t2}
    Regions = {r1, r2, r3}
    Requests <- MCRequests
    Cap = 2
SPECIFICATION Spec
SYMMETRY Symmetry
INVARIANTS
    RegionsPartitioned
    SizesAgree
    BytesInUseExact
