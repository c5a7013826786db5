CONSTANTS
    Inputs <- AllInputs
    ChrootDefs <- Defs
    SessionDefs <- Sessions
    NameOrder <- Order
    Passwd <- Accounts
    Groups = {0, 1}
    Reserved = {"chroot.name"}
    ChrootVariables <- OwnFirst
    SessionVariables <- OwnLater
    PamEnvironment <- Modules
    EnvNames <- Variables
    KeyOrder <- KeysInOrder
    Multiline = {"two-lines"}
SPECIFICATION Spec
INVARIANTS
    SelectionServed
    OperationFits
    ExecConfined
    EnvironmentClean
    UserDataPermitted
CHECK_DEADLOCK FALSE
