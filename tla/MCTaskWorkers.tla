---------------------------- MODULE MCTaskWorkers ----------------------------
(* Two tasks whose workers record two mandatory artifacts and the results  *)
(* of a test command, which is the shortest plan with a skipped section.    *)
EXTENDS TaskWorkers

MCArtifactKinds == <<"stdout", "test_result", "tests_passed", "metadata">>
MCOptional == {"test_result"}

(* Every single fault, the pairs whose handlers meet, and all the faults    *)
(* that are not store errors together.                                      *)
MCFaultSets == {{f} : f \in FaultKinds} \cup
               {{}, {"harness", "commit"}, {"busy", "cancel"}, {"collect", "busy"},
                {"commit", "cancel"}, {"commit", "release"},
                {"acquire", "harness", "collect", "release"}}
=============================================================================
