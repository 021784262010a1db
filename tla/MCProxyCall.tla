------------------------------ MODULE MCProxyCall ------------------------------
(* Two calls: a long stream beside a call that is not streamed, of another  *)
(* task, and short streams beside one of the same task, of task generation, *)
(* of a task whose id has no route and one with two choices.                *)
EXTENDS ProxyCall, TLC

CONSTANTS c1, c2

Streamed(task, content, reasoning, tools) ==
    [task |-> task, stream |-> TRUE, choices |-> 1, content |-> content,
     reasoning |-> reasoning, tools |-> tools]

Long  == Streamed(<<"a">>, 1, 1, <<2, 1>>)
Short == Streamed(<<"a">>, 1, 0, <<1>>)
Other == {Short, [Short EXCEPT !.task = NoTask], [Short EXCEPT !.task = <<"a", "b">>],
          [Short EXCEPT !.task = <<"">>],
          [Short EXCEPT !.choices = 2, !.tools = <<>>]}

MCSegments  == {"", "tasks", "v1", "a", "b"}
MCInputs    == {c1 :> Long @@ c2 :> [Long EXCEPT !.task = <<"b">>, !.stream = FALSE]} \cup
               {c1 :> Short @@ c2 :> other : other \in Other}
MCFaultSets == {{}, {"cut", "short", "error", "leave", "stop"}, {"index"}, {"short", "broken"}}
===============================================================================
