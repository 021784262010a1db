----------------------------- MODULE MCGitMirror -----------------------------
(* Three processes, four calls, and an origin that moves twice.  A fault   *)
(* only may happen: the behaviors without any are among these.             *)
EXTENDS GitMirror, TLC

CONSTANTS p1, p2, p3

Sym == Permutations({p1, p2, p3})

MCFaultSets == {{"network", "kill", "delete"}, {"network", "delete", "recreate"}}
===============================================================================
