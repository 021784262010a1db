SPECIFICATION Spec
CONSTANTS
    Configs <- MCConfigs
    FaultSets <- DuplicateOnly
INVARIANT ExceptionMarksRun
CHECK_DEADLOCK FALSE
