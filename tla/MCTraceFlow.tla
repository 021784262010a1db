----------------------------- MODULE MCTraceFlow -----------------------------
(* One agent with up to three answers in up to two conversations, and one  *)
(* that interleaves with it everywhere.                                    *)
EXTENDS TraceFlow

CONSTANTS a1, a2

MCAgents == {a1, a2}
MCMaxAnswers == [a \in MCAgents |-> IF a = a1 THEN 3 ELSE 1]
MCPromptLen == <<2, 2>>
LongerPrompt == <<1, 3>>
MCFaultSets == {{"error"}, {"empty"}, {"empty", "kept"}, {"empty", "thought", "kept"},
                {"error", "cut"}, {"retry"}, {"shared"}}
NoFaults == {{}}
=============================================================================
