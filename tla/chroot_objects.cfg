CONSTANTS
    Strings <- AllStrings
    Ids = {"s1", "s2"}
    Users = {"ann", "bob"}
    Definitions <- AllDefinitions
SPECIFICATION Spec
INVARIANTS
    ReloadFaithful
    OnlySourceWritesOriginal
    ClonesEnd
CHECK_DEADLOCK FALSE
