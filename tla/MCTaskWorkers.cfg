SPECIFICATION FairSpec
CONSTANTS
    Tasks = {t1, t2}
    ArtifactKinds <- MCArtifactKinds
    Optional <- MCOptional
    FaultSets <- MCFaultSets
INVARIANTS
    TypeOK
    SuccessIsEarned
    VerdictMatchesRows
    NoRowLeftRunning
    LockIsShort
PROPERTIES
    RunIsJudged
\* The run stops when it has been judged.
CHECK_DEADLOCK FALSE
