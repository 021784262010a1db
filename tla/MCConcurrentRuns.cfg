SPECIFICATION FairSpec
CONSTANTS
    r1 = r1
    r2 = r2
    Runs = {r1, r2}
    Ports = {5002, 5003}
    Images = {"python", "node"}
    Configs <- MCConfigs
    FaultSets <- MCFaultSets
INVARIANTS
    TypeOK
    
    ReadersSeeWholeRuns

    
\* The runs come to their end, or the server does.
CHECK_DEADLOCK FALSE
