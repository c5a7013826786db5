CONSTANTS
    GroupOrder <- GroupNames
    KeyOrder <- KeyNames
    KeyType <- Types
    ItemLines <- ItemSet
    Refused <- NoName
    Earlier <- Targets
    Priorities <- Callers
    FieldOrder <- FieldNames
    Texts = {"", "x", "old"}
    MaxLines = 4
SPECIFICATION KeyfileSpec
INVARIANTS
    LoadIsExact
    PrintedIsReadBack
    ObjectSurvives
CHECK_DEADLOCK FALSE
