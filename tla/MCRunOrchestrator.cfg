SPECIFICATION FairSpec
CONSTANTS
    Configs <- MCConfigs
    FaultSets <- MCFaultSets
INVARIANTS
    TypeOK
    FailureIsRecorded
    EventsMatchRow
    TeardownComplete
    CleanupReclaims
PROPERTIES
    RunEnds
    ImplementsRunLifecycle
\* A run that has ended and was cleaned up after does nothing more.
CHECK_DEADLOCK FALSE
