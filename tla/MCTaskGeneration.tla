--------------------------- MODULE MCTaskGeneration ---------------------------
(* What is offered: up to three items over two ids, with every flaw that the *)
(* generators look for, and more items than are asked for.                  *)
EXTENDS TaskGeneration

Good(i)  == [id |-> i, form |-> "good"]
Flawed   == {[id |-> NoId, form |-> "good"], [id |-> 1, form |-> "empty"],
             [id |-> 0, form |-> "invalid"]}

MCOffers == {<<>>, <<Good(0)>>, <<Good(1)>>, <<Good(1), Good(0)>>,
             <<Good(0), Good(0), Good(2)>>, <<Good(1), Good(2), Good(0)>>} \cup
            {<<f, Good(0)>> : f \in Flawed} \cup {<<Good(1), f>> : f \in Flawed}

(* The counts at the boundary, and two static plans: one with an id twice. *)
MCConfigs == {c \in [kind: {"static", "repo", "harness"}, count: -1..3,
                     static: {<<Good(0), Good(1), Good(2)>>, <<Good(0), Good(0)>>},
                     prompts: BOOLEAN] :
                  /\ c.kind # "static" => c.static = <<Good(0), Good(0)>>
                  /\ c.kind # "harness" => c.prompts}

MCFaultSets == {{}, {"model"}, {"exec", "harness", "store"}, {"read"}}
===============================================================================
