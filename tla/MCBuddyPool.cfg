CONSTANTS
    Null = Null
    Dead = Dead
    Poison = Poison
    Top = 2
    NumSlots = 2
    Deferred = {TRUE, FALSE}
    Debug = {TRUE, FALSE}
    MaxIdle = 2
SPECIFICATION Spec
INVARIANTS
    LiveBlocksDisjoint
    BookkeepingIntact
    OnePassMergesAll

    NoFalseUseAfterFree
