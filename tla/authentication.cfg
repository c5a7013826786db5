CONSTANTS
    N = 2
    Uids <- ThreeUsers
    Memberships <- SomeLists
    Warn = 2
    Fatal = 3
    MaxTime = 4
    Conversations <- Dialogues
    MaxErrors = 1
SPECIFICATION LiveAuthSpec
INVARIANTS
    AccessJustified
    NoFreeSwitch
    TerminalRestored
    PasswordsHidden
PROPERTIES
    Decided
