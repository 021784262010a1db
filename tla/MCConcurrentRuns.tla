--------------------------- MODULE MCConcurrentRuns ---------------------------
(* Two runs that share a port, the name of their containers, both or none, *)
(* and one run that is read meanwhile.                                     *)
EXTENDS ConcurrentRuns

CONSTANTS r1, r2

Either(a, b) == {[r \in Runs |-> a], [r \in Runs |-> IF r = r1 THEN a ELSE b]}
TwoOf(p, i)  == [port |-> p, image |-> i, submitted |-> Runs, read |-> {}]
OneRead      == [port |-> [r \in Runs |-> 5002], image |-> [r \in Runs |-> "python"],
                 submitted |-> {r1}, read |-> {r1}]

MCConfigs == {TwoOf(p, i) : p \in Either(5002, 5003), i \in Either("python", "node")}
             \cup {OneRead}

MCFaultSets == {{}, {"submit", "task"}, {"raise"}, {"store"}, {"stop"}, {"crash"}}
===============================================================================
