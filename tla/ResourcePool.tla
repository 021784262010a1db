----------------------------- MODULE ResourcePool -----------------------------
(***************************************************************************)
(* What the pool promises, seen by the clients: a bounded number of        *)
(* permits, one per client inside; an entering client takes an idle        *)
(* resource or, when there is none, makes one; a resource is given back    *)
(* for reuse, abandoned with its permit returned, or lost with its permit. *)
(* SandboxPool implements this specification.                              *)
(***************************************************************************)
EXTENDS Integers, FiniteSets

CONSTANTS Client, MaxSize, None

VARIABLES stage,    \* "out", "in", "back", "failed" or "lost", per client
          owns,     \* the resource of a client that is in
          permits,
          idle,
          made      \* how many resources were ever made: 0 .. made - 1

rpVars == <<stage, owns, permits, idle, made>>

RPInit == /\ stage = [c \in Client |-> "out"]
          /\ owns = [c \in Client |-> None]
          /\ permits = MaxSize /\ idle = {} /\ made = 0

Enter(c) == /\ stage[c] = "out" /\ permits > 0
            /\ stage' = [stage EXCEPT ![c] = "in"]
            /\ permits' = permits - 1

Leave(c, how) == /\ stage[c] = "in"
                 /\ stage' = [stage EXCEPT ![c] = how]
                 /\ owns' = [owns EXCEPT ![c] = None]
                 /\ made' = made

Take(c) == /\ Enter(c)
           /\ \E s \in idle : /\ owns' = [owns EXCEPT ![c] = s]
                              /\ idle' = idle \ {s}
           /\ made' = made

Make(c) == /\ Enter(c)
           /\ idle = {} /\ idle' = idle
           /\ owns' = [owns EXCEPT ![c] = made]
           /\ made' = made + 1

Return(c) == /\ Leave(c, "back")
             /\ idle' = idle \cup {owns[c]} /\ permits' = permits + 1

Abandon(c) == Leave(c, "failed") /\ idle' = idle /\ permits' = permits + 1

Lose(c) == Leave(c, "lost") /\ UNCHANGED <<idle, permits>>

Quit(c) == /\ stage[c] = "out"
           /\ stage' = [stage EXCEPT ![c] = "failed"]
           /\ UNCHANGED <<owns, permits, idle, made>>

RPNext == \E c \in Client : \/ Take(c) \/ Make(c) \/ Return(c)
                            \/ Abandon(c) \/ Lose(c) \/ Quit(c)

RPSpec == RPInit /\ [][RPNext]_rpVars
===============================================================================
