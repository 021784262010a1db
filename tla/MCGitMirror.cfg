SPECIFICATION Spec
CONSTANTS
    p1 = p1
    p2 = p2
    p3 = p3
    Procs = {p1, p2, p3}
    MaxCommits = 3
    MaxCalls = 4
    FaultSets <- MCFaultSets
SYMMETRY Sym
INVARIANTS
    CloneIsCurrent
    WholeMirrorServes
\* Every process has made its calls.
CHECK_DEADLOCK FALSE
