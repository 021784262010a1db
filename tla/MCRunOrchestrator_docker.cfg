SPECIFICATION Spec
CONSTANTS
    Configs <- DockerConfigs
    FaultSets <- CancelOnly
INVARIANT CleanupRemovesAll
CHECK_DEADLOCK FALSE
