-------------------------- MODULE MCRunOrchestrator --------------------------
(* The configurations and the combinations of faults that TLC runs through. *)
EXTENDS RunOrchestrator

(* All the configurations the code distinguishes. *)
MCConfigs == {c \in Config : c.engine = "podman" => c.found = "podman"}

(* Up to two faults at a time, and all of those that raise. *)
MCFaultSets == {{f, g} : f \in FaultKinds, g \in FaultKinds} \cup
               {{}, {"error", "store", "duplicate", "removal"}}

(* Two tasks with one id in the plan. *)
DuplicateOnly == {{"duplicate"}}

(* Ctrl-C on a machine with docker alone, in the proxy-only network mode. *)
DockerConfigs == {c \in MCConfigs : c.found = "docker" /\ c.proxyOnly}
CancelOnly == {{"cancel"}}
=============================================================================
