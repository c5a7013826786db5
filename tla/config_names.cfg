CONSTANTS
    Names <- ThreeNames
    MaxGroups = 3
SPECIFICATION Spec
INVARIANTS
    FoundByOwnName
    NamespacesKept
    AliasesHonoured
CHECK_DEADLOCK FALSE
