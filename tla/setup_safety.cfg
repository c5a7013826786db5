CONSTANTS
    Configs <- AllConfigs
    MaxMounts = 3
SPECIFICATION Spec
INVARIANTS
    StopRetryable
PROPERTIES
    DestroyOnlyUnmounted
    ScriptsImplementLifecycle
