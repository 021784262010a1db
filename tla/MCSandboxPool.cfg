\* Two permits, three tasks: a task waits, sandboxes are reused and created.
CONSTANTS
    Setup = setup
    TaskGen = taskgen
    w1 = w1
    w2 = w2
    w3 = w3
    Workers <- MCWorkers
    MaxSize = 2
    FaultSets <- MCFaultSets
SPECIFICATION FairSpec
INVARIANT TypeOK
INVARIANT ExclusiveUse
INVARIANT PermitAccounting
INVARIANT ContainerBound
INVARIANT CleanStart
INVARIANT InUseIsUp
INVARIANT NoContainerLeft
PROPERTY HangsOnlyWhenDrained
PROPERTY CancelTearsDown
PROPERTY ImplementsResourcePool
\* The run ends, or hangs when every permit is lost: HangsOnlyWhenDrained says when.
CHECK_DEADLOCK FALSE
