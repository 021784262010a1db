---------------------------- MODULE MCSandboxPool ----------------------------
(* The instance of SandboxPool that TLC checks. *)
EXTENDS SandboxPool, TLC

CONSTANTS w1, w2, w3

MCWorkers == {w1, w2, w3}

(* No fault, each fault alone, those that act on each other together, and *)
(* all of those that change what a client holds.                          *)
MCFaultSets == {{}} \cup {{f} : f \in FaultKinds}
               \cup {{"reset", "cleanup"}, {"cleanup", "cancel"}, {"silent", "timeout"},
                     {"start", "init", "destroy"}, FaultKinds \ {"silent", "timeout"}}
ResetOnly == {{"reset"}}
=============================================================================
