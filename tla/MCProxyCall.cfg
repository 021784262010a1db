SPECIFICATION Spec
CONSTANTS
    c1 = c1
    c2 = c2
    Calls = {c1, c2}
    Segments <- MCSegments
    Inputs <- MCInputs
    FaultSets <- MCFaultSets
INVARIANTS
    RecordsAreFaithful
    AnswersAreRecorded
\* Every call has its end.
CHECK_DEADLOCK FALSE
