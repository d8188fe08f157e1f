CONSTANTS
    c1 = c1
    c2 = c2
    Null = Null
    Pages = {p1, p2, p3}
    Classes = {c1, c2}
    SlotsOf <- MCSlots
    DrainedCap = 2
    ScanBudget = 2
    MaxIdle = 2
    MaxTick = 3
    MaxBatch = 2
SPECIFICATION FairSpec
INVARIANTS
    PagesPartitioned
    ListsSound
    NoStrandedPage
PROPERTY
    ParkedPageLeaves
