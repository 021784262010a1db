SPECIFICATION FairSpec
CONSTANTS
    Configs <- MCConfigs
    Offers <- MCOffers
    MaxRounds = 3
    FaultSets <- MCFaultSets
INVARIANTS
    TypeOK
    HarnessPlanIsExact
    OnlyFreshTasks
    GivesUpOnlyWhenExhausted
PROPERTIES
    PlanningEnds
\* Planning ends.
CHECK_DEADLOCK FALSE
