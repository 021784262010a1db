CONSTANTS
    Setup = setup
    TaskGen = taskgen
    w1 = w1
    w2 = w2
    w3 = w3
    Workers <- MCWorkers
    MaxSize = 2
    FaultSets <- ResetOnly
SPECIFICATION Spec
CHECK_DEADLOCK FALSE
INVARIANT AcquireReturnsPermitOnException
