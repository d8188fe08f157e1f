CONSTANTS
    Nodes = {n1, n2}
    Huge = {h1, h2}
    Singles = {d1}
    PerHuge = 2
    PageSize = 9
    HeaderSize = 2
    TinySize = 2
    SmallSize = 3
    Words = 2
    WordBits = 2
    DrainedCap = 1
    Null = Null
    Data = Data
SPECIFICATION Spec
INVARIANTS
    SlotsExact
    SlotsPlaced
    PagesBacked
    ListsExact
SYMMETRY Symmetry
